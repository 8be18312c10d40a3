-------------------------------- MODULE Wire --------------------------------
(***************************************************************************)
(* The Unix-socket connection between one launcher and one backend handler *)
(* (internal/proto): two FIFO streams of newline-delimited JSON frames.    *)
(*                                                                         *)
(* A frame is a record [type, decodes, text]: its kind, whether its payload*)
(* unmarshals into the structure of that kind, and the text a "type" frame *)
(* carries.  A frame of type "corrupt" is a line that is not a JSON        *)
(* message at all.                                                         *)
(*                                                                         *)
(* proto.Conn.Send is two steps, as in the code: the context is checked    *)
(* first (each user of the wire does that), and the write comes later and  *)
(* blocks while the socket buffer is full.  Each stream is written by      *)
(* whole frames: net.Conn serialises concurrent writes.                    *)
(***************************************************************************)
EXTENDS Naturals, Sequences

\* Frames the socket buffers hold before writers block.
CONSTANTS UpCap, DownCap

ASSUME SockCapAssumption == UpCap \in Nat \ {0} /\ DownCap \in Nat \ {0}

VARIABLES
  dialed,             \* the launcher's Connect succeeded
  up,                 \* frames in flight, launcher to backend
  down,               \* frames in flight, backend to launcher
  lclosed,            \* the launcher's end is closed
  bclosed             \* the backend's end is closed

wireVars == <<dialed, up, down, lclosed, bclosed>>

\* The kinds of internal/proto/messages.go.
UpKinds == {"output", "idle", "exited", "started", "shutdown"}
DownKinds == {"type", "ctrl_c", "shutdown"}

Frame(kind, decodes, text) ==
  [type |-> kind, decodes |-> decodes, text |-> text]

\* Marshalling a payload structure (NewMessage) cannot fail for these kinds.
NewMessage(kind, text) == Frame(kind, TRUE, text)

WireInit ==
  /\ dialed = FALSE
  /\ up = <<>>
  /\ down = <<>>
  /\ lclosed = FALSE
  /\ bclosed = FALSE

-----------------------------------------------------------------------------
(* Connect and the write half of Conn.Send, seen from the launcher.        *)

Dial == 
  /\ dialed' = TRUE
  /\ UNCHANGED <<up, down, lclosed, bclosed>>

\* Mutant of UpWrite: a full buffer does not block the writer.
UpWriteUnbounded(m) ==
  /\ ~lclosed /\ ~bclosed
  /\ up' = Append(up, m)
  /\ UNCHANGED <<dialed, down, lclosed, bclosed>>

\* json.Encoder.Encode on an open connection with room in the buffer.
UpWrite(m) ==
  /\ ~lclosed /\ ~bclosed
  /\ Len(up) < UpCap
  /\ up' = Append(up, m)
  /\ UNCHANGED <<dialed, down, lclosed, bclosed>>

\* "use of closed network connection", or EPIPE once the peer has closed.
UpBroken == lclosed \/ bclosed

\* A frame that Scan returns.  Frames written before the peer closed are
\* still delivered; after our own Close only one already in the scanner's
\* buffer is, so the caller may also see DownEnded.
DownRead ==
  /\ down # <<>>
  /\ down' = Tail(down)
  /\ UNCHANGED <<dialed, up, lclosed, bclosed>>

DownEnded == lclosed \/ (bclosed /\ down = <<>>)

-----------------------------------------------------------------------------
(* The same, seen from the backend.                                        *)

DownWrite(m) ==
  /\ ~lclosed /\ ~bclosed
  /\ Len(down) < DownCap
  /\ down' = Append(down, m)
  /\ UNCHANGED <<dialed, up, lclosed, bclosed>>

DownBroken == lclosed \/ bclosed

UpRead ==
  /\ up # <<>>
  /\ up' = Tail(up)
  /\ UNCHANGED <<dialed, down, lclosed, bclosed>>

UpEnded == bclosed \/ (lclosed /\ up = <<>>)

=============================================================================
