------------------------------- MODULE Capture -------------------------------
(***************************************************************************)
(* cmd/loopai-capture: run a client for a while, collect what it prints on *)
(* stdout and stderr, and write it to a file.                              *)
(*                                                                         *)
(* Two goroutines read the two pipes and append chunks to one slice under  *)
(* a mutex; main waits for both or for the duration, and in the latter     *)
(* case kills the client and waits for the readers all the same.  A pipe   *)
(* ends when nobody holds its write end: the client may close a stream and *)
(* go on running, and its children inherit what it has open.  A chunk is   *)
(* its stream and its number.                                              *)
(***************************************************************************)
EXTENDS Naturals, Sequences

CONSTANT MaxChunks    \* bound: chunks printed on each stream

ASSUME MaxChunksAssumption == MaxChunks \in Nat

Streams == {"stdout", "stderr"}
Holders == {"client", "children"}

VARIABLES
  cmain,              \* main: select, drain, wait, file, exit, failed
  reader,             \* each reader: read, append, ended
  captive,            \* the client: running, dead
  holders,            \* who has the write end of each pipe open
  sent,               \* chunks printed, per stream
  taken,              \* chunks read, per stream
  captured,           \* the slice of main
  elapsed,            \* the duration is over
  written             \* what is in the file

captureVars == <<cmain, reader, captive, holders, sent, taken, captured,
                 elapsed, written>>

\* The client dies, and its descriptors are closed.
ClientDies ==
  /\ captive' = "dead"
  /\ holders' = [s \in Streams |-> holders[s] \ {"client"}]

\* The client is started, the readers too, and main is in its select.
CaptureInit ==
  /\ cmain = "select"
  /\ reader = [s \in Streams |-> "read"]
  /\ captive = "running"
  /\ holders = [s \in Streams |-> {"client"}]
  /\ sent = [s \in Streams |-> 0]
  /\ taken = [s \in Streams |-> 0]
  /\ captured = <<>>
  /\ elapsed = FALSE
  /\ written = <<>>

-----------------------------------------------------------------------------
(* The readers                                                             *)

ReadChunk(s) ==
  /\ reader[s] = "read"
  /\ taken[s] < sent[s]
  /\ taken' = [taken EXCEPT ![s] = @ + 1]
  /\ reader' = [reader EXCEPT ![s] = "append"]
  /\ UNCHANGED <<cmain, captive, holders, sent, captured, elapsed, written>>

AppendChunk(s) ==
  /\ reader[s] = "append"
  /\ captured' = Append(captured, <<s, taken[s]>>)
  /\ reader' = [reader EXCEPT ![s] = "read"]
  /\ UNCHANGED <<cmain, captive, holders, sent, taken, elapsed, written>>

\* End of file: nobody holds the write end and everything has been read.
ReadEnds(s) ==
  /\ reader[s] = "read"
  /\ taken[s] = sent[s]
  /\ holders[s] = {}
  /\ reader' = [reader EXCEPT ![s] = "ended"]
  /\ UNCHANGED <<cmain, captive, holders, sent, taken, captured, elapsed, written>>

Read(s) == ReadChunk(s) \/ AppendChunk(s) \/ ReadEnds(s)

-----------------------------------------------------------------------------
(* main                                                                    *)

ReadersEnded == \A s \in Streams : reader[s] = "ended"

\* <-done, closed when both readers have ended.
SelectDone ==
  /\ cmain = "select"
  /\ ReadersEnded
  /\ cmain' = "wait"
  /\ UNCHANGED <<reader, captive, holders, sent, taken, captured, elapsed, written>>

\* Mutant of SelectTimeout: the client is left running.
SelectTimeoutNoKill ==
  /\ cmain = "select"
  /\ elapsed
  /\ cmain' = "drain"
  /\ UNCHANGED <<reader, captive, holders, sent, taken, captured, elapsed, written>>

\* The duration is over: the client is killed, if it has not ended already.
SelectTimeout ==
  /\ cmain = "select"
  /\ elapsed
  /\ ClientDies
  /\ cmain' = "drain"
  /\ UNCHANGED <<reader, sent, taken, captured, elapsed, written>>

\* Mutant of WaitReaders: main does not wait for the readers after the kill.
WaitReadersSkipped ==
  /\ cmain = "drain"
  /\ cmain' = "wait"
  /\ UNCHANGED <<reader, captive, holders, sent, taken, captured, elapsed, written>>

WaitReaders ==
  /\ cmain = "drain"
  /\ ReadersEnded
  /\ cmain' = "wait"
  /\ UNCHANGED <<reader, captive, holders, sent, taken, captured, elapsed, written>>

\* cmd.Wait, which has no limit, then the directories: if they cannot be made
\* the tool exits with an error.
WaitCaptive ==
  /\ cmain = "wait"
  /\ captive = "dead"
  /\ cmain' \in {"file", "failed"}
  /\ UNCHANGED <<reader, captive, holders, sent, taken, captured, elapsed, written>>

\* os.WriteFile: all of the slice, or an error after any part of it, which is
\* reported and left in the file.  The check that follows only logs.
WriteFile ==
  /\ cmain = "file"
  /\ \/ cmain' = "exit" /\ written' = captured
     \/ /\ cmain' = "failed"
        /\ \E n \in 0..Len(captured) : written' = SubSeq(captured, 1, n)
  /\ UNCHANGED <<reader, captive, holders, sent, taken, captured, elapsed>>

CaptureMain ==
  SelectDone \/ SelectTimeout \/ WaitReaders \/ WaitCaptive \/ WriteFile

-----------------------------------------------------------------------------
(* The client, its children and the clock                                  *)

CaptivePrints(s) ==
  /\ holders[s] # {}
  /\ sent[s] < MaxChunks
  /\ sent' = [sent EXCEPT ![s] = @ + 1]
  /\ UNCHANGED <<cmain, reader, captive, holders, taken, captured, elapsed, written>>

CaptiveEnds ==
  /\ captive = "running"
  /\ ClientDies
  /\ UNCHANGED <<cmain, reader, sent, taken, captured, elapsed, written>>

\* Somebody closes a stream, perhaps by ending; the client may run on.
ClosesStream(s) ==
  /\ \E h \in holders[s] : holders' = [holders EXCEPT ![s] = @ \ {h}]
  /\ UNCHANGED <<cmain, reader, captive, sent, taken, captured, elapsed, written>>

\* The client starts a child that inherits the stream.
ChildInherits(s) ==
  /\ "client" \in holders[s]
  /\ holders' = [holders EXCEPT ![s] = Holders]
  /\ UNCHANGED <<cmain, reader, captive, sent, taken, captured, elapsed, written>>

DurationEnds ==
  /\ ~elapsed
  /\ elapsed' = TRUE
  /\ UNCHANGED <<cmain, reader, captive, holders, sent, taken, captured, written>>

CaptureOver == cmain \in {"exit", "failed"} /\ UNCHANGED captureVars

CaptureNext ==
  \/ \E s \in Streams : Read(s) \/ CaptivePrints(s) \/ ClosesStream(s) \/ ChildInherits(s)
  \/ CaptureMain
  \/ CaptiveEnds
  \/ DurationEnds
  \/ CaptureOver

\* Goroutines are scheduled and the clock runs; the client need not end, nor
\* close anything, nor need its children.
CaptureFairness ==
  /\ \A s \in Streams : WF_captureVars(Read(s))
  /\ WF_captureVars(CaptureMain)
  /\ WF_captureVars(DurationEnds)

CaptureSpec == CaptureInit /\ [][CaptureNext]_captureVars /\ CaptureFairness

-----------------------------------------------------------------------------

\* Type invariant.
CaptureTypeOK ==
  /\ cmain \in {"select", "drain", "wait", "file", "exit", "failed"}
  /\ reader \in [Streams -> {"read", "append", "ended"}]
  /\ captive \in {"running", "dead"}
  /\ holders \in [Streams -> SUBSET Holders]
  /\ sent \in [Streams -> 0..MaxChunks]
  /\ \A s \in Streams : taken[s] \in 0..sent[s]
  /\ captured \in Seq(Streams \X (1..MaxChunks))
  /\ elapsed \in BOOLEAN

\* The chunks of either stream come in the order in which they were printed.
InOrder(chunks) ==
  \A i, j \in DOMAIN chunks :
    i < j /\ chunks[i][1] = chunks[j][1] => chunks[i][2] < chunks[j][2]

\* If the tool exits without an error, the file holds everything that was
\* printed, stdout and stderr each in its own order and without repetition,
\* whether the client ended by itself, closed its streams, or was killed while
\* both readers had chunks in hand.  Only a tool that reports an error leaves
\* less, and that has no chunk out of order or twice either.
FileIsComplete ==
  /\ InOrder(written)
  /\ (cmain = "exit") =>
       \A s \in Streams, n \in 1..MaxChunks :
         (\E i \in DOMAIN written : written[i] = <<s, n>>) <=> n \in 1..sent[s]

\* main.go waits without a limit for the readers after the kill, while a child
\* of the client has a pipe open; and for a client that closed both streams
\* and runs on, if the select saw the readers end.
WaitsForChildren == cmain = "drain" /\ \E s \in Streams : "children" \in holders[s]
WaitsForClient == cmain = "wait" /\ captive = "running"

\* -duration limits the capture: once it is over main leaves the select and
\* the tool ends, with the exception of these two waits, which the code does
\* not limit.
DurationEndsCapture ==
  elapsed ~> (cmain \in {"exit", "failed"} \/ WaitsForChildren \/ WaitsForClient)

=============================================================================
