----------------------------- MODULE CsiFilter -----------------------------
(***************************************************************************)
(* filterCSI (cmd/loopai/filter_csi.go): the copy of stdin into the PTY    *)
(* that strips escape sequences, with -interactive -filter-csi.            *)
(*                                                                         *)
(* A state machine over bytes.  In the normal state bytes are written one  *)
(* by one; from an ESC on they are held back in pending until a sequence   *)
(* is complete and dropped, or turns out to be none and is written.  How   *)
(* Read cuts the input into chunks does not matter, since the state        *)
(* survives from chunk to chunk, so one step of the model is one byte.     *)
(***************************************************************************)
EXTENDS ByteSeq

CONSTANTS
  Bytes,              \* the bytes that may be typed
  MaxInput            \* bound: how many

ASSUME BytesAssumption == Bytes \subseteq 0..255 /\ MaxInput \in Nat

VARIABLES
  fstate,             \* stateNormal, stateESC, stateCSI, stateCSIu, stateSS3
  pending,            \* bytes held back
  out,                \* bytes written to the PTY
  input,              \* history: bytes read so far
  cuts,               \* history: intervals of input that were dropped
  fend                \* how the copy ended: "", eof, readError, writeError

filterVars == <<fstate, pending, out, input, cuts, fend>>

FilterInit ==
  /\ fstate = "normal"
  /\ pending = <<>>
  /\ out = <<>>
  /\ input = <<>>
  /\ cuts = {}
  /\ fend = ""

DigitOrSemicolon(b) == b \in 48..57 \cup {59}

\* What becomes of the byte b: it is held back; the sequence it completes is
\* dropped; or what was held back is written, with b or without it.
Move(to, hold, write) == [to |-> to, hold |-> hold, write |-> write]
Hold(to, b) == Move(to, Append(pending, b), <<>>)
Drop == Move("normal", <<>>, <<>>)
Flush(b) == Move("normal", <<>>, Append(pending, b))
Restart(b) == Move("esc", <<b>>, pending)

InNormal(b) == IF b = ESC THEN Move("esc", <<b>>, <<>>) ELSE Move("normal", <<>>, <<b>>)

InEsc(b) ==
  CASE b = 91 -> Hold("csi", b)              \* [
    [] b = 79 -> Hold("ss3", b)              \* O
    [] OTHER -> Flush(b)

\* Mutants of InCsi: a parameter byte is forgotten; and it ends the sequence.
InCsiForgets(b) ==
  CASE b = 60 -> Hold("csiu", b)
    [] Final(b) -> Drop
    [] ParamOrIntermediate(b) /\ b # 60 -> Move("csi", pending, <<>>)
    [] b = ESC -> Restart(b)
    [] OTHER -> Flush(b)

InCsiDropsEarly(b) ==
  CASE b = 60 -> Hold("csiu", b)
    [] (Final(b) \/ ParamOrIntermediate(b)) /\ b # 60 -> Drop
    [] b = ESC -> Restart(b)
    [] OTHER -> Flush(b)

InCsi(b) ==
  CASE b = 60 -> Hold("csiu", b)             \* <
    [] Final(b) -> Drop
    [] ParamOrIntermediate(b) /\ b # 60 -> Hold("csi", b)
    [] b = ESC -> Restart(b)
    [] OTHER -> Flush(b)

\* Mutant of InCsiu: only u ends the sequence.
InCsiuOnlyU(b) ==
  CASE b = 117 -> Drop
    [] DigitOrSemicolon(b) -> Hold("csiu", b)
    [] b = ESC -> Restart(b)
    [] OTHER -> Flush(b)

\* u and the other final bytes end it alike.
InCsiu(b) ==
  CASE Final(b) -> Drop
    [] DigitOrSemicolon(b) -> Hold("csiu", b)
    [] b = ESC -> Restart(b)
    [] OTHER -> Flush(b)

\* "Discard the sequence regardless of what the byte was."
InSs3(b) == Drop

After(b) ==
  CASE fstate = "normal" -> InNormal(b)
    [] fstate = "esc" -> InEsc(b)
    [] fstate = "csi" -> InCsi(b)
    [] fstate = "csiu" -> InCsiu(b)
    [] fstate = "ss3" -> InSs3(b)

\* The interval of input that the byte just read completes.
CutHere == <<Len(input) + 1 - Len(pending), Len(input) + 1>>

\* One byte; a write that fails, perhaps halfway, ends the copy.
FilterByte(b) ==
  LET m == After(b) IN
  /\ fend = ""
  /\ Len(input) < MaxInput
  /\ input' = Append(input, b)
  /\ cuts' = IF m = Drop /\ pending # <<>> THEN cuts \cup {CutHere} ELSE cuts
  /\ \/ /\ fstate' = m.to
        /\ pending' = m.hold
        /\ out' = out \o m.write
        /\ UNCHANGED fend
     \/ /\ \E k \in 1..Len(m.write) : out' = out \o SubSeq(m.write, 1, k - 1)
        /\ fend' = "writeError"
        /\ UNCHANGED <<fstate, pending>>

\* End of input: an unfinished sequence is written as it is.
FilterEof ==
  /\ fend = ""
  /\ \/ fend' = "eof" /\ out' = out \o pending
     \/ /\ fend' = "writeError"
        /\ \E k \in 1..Len(pending) : out' = out \o SubSeq(pending, 1, k - 1)
  /\ pending' = <<>>
  /\ UNCHANGED <<fstate, input, cuts>>

\* Any other read error ends the copy as it stands.
FilterReadError ==
  /\ fend = ""
  /\ fend' = "readError"
  /\ UNCHANGED <<fstate, pending, out, input, cuts>>

FilterOver == fend # "" /\ UNCHANGED filterVars

FilterNext ==
  \/ \E b \in Bytes : FilterByte(b)
  \/ FilterEof
  \/ FilterReadError
  \/ FilterOver

FilterSpec == FilterInit /\ [][FilterNext]_filterVars

-----------------------------------------------------------------------------
(* The sequences, as the comment of filterCSI defines them.                *)

IsSs3(s) == Len(s) = 3 /\ s[1] = ESC /\ s[2] = 79 /\ Final(s[3])

\* A CSI sequence in which < stands before something other than digits and
\* semicolons is not recognised as one.
PlainCsi(s) ==
  /\ IsCsi(s)
  /\ \A i, j \in 3..(Len(s) - 1) : i < j /\ s[i] = 60 => DigitOrSemicolon(s[j])

\* Type invariant.
FilterTypeOK ==
  /\ fstate \in {"normal", "esc", "csi", "csiu", "ss3"}
  /\ pending \in Seq(Bytes) /\ out \in Seq(Bytes) /\ input \in Seq(Bytes)
  /\ fend \in {"", "eof", "readError", "writeError"}

Cut == UNION {c[1]..c[2] : c \in cuts}

\* Keystrokes are neither lost nor doubled nor reordered: what was typed,
\* minus the intervals that were dropped, is what was written followed by
\* what is held back, and at the end of the input nothing stays behind.
NothingElseLost ==
  /\ fend \in {"", "eof"} => out \o pending = Pick(input, DOMAIN input \ Cut)
  /\ fend = "eof" => pending = <<>>

\* No more is dropped at a time than the code sets out to: a whole CSI
\* sequence, or ESC O and the one byte that follows, "regardless of what the
\* byte was".  That this byte need not be the final byte of a sequence is the
\* subject of OnlySequencesDropped.
DropsAreBounded ==
  \A c \in cuts :
    LET s == SubSeq(input, c[1], c[2])
    IN IsCsi(s) \/ (Len(s) = 3 /\ s[1] = ESC /\ s[2] = 79)

\* Comment of filterCSI: what is stripped is a CSI sequence or "SS3: ESC O
\* final_byte (0x40-0x7E)".  Any byte after ESC O is dropped in its place: a
\* digit, a newline, or the ESC of the next sequence.
OnlySequencesDropped ==
  \A c \in cuts :
    LET s == SubSeq(input, c[1], c[2]) IN IsCsi(s) \/ IsSs3(s)

\* The positions of input in a sequence that starts at i, if one does.
SequenceAt(i) ==
  UNION {i..j : j \in {k \in i..Len(input) :
                         PlainCsi(SubSeq(input, i, k)) \/ IsSs3(SubSeq(input, i, k))}}

\* Reference: if every ESC typed starts a whole sequence, exactly these
\* sequences are stripped, however they follow one another and whatever they
\* contain.
WholeSequencesStripped ==
  (fend = "" /\ \A i \in Escapes(input) : SequenceAt(i) # {}) =>
    out = Pick(input, DOMAIN input \ UNION {SequenceAt(i) : i \in Escapes(input)})

\* Comment of filterCSI: CSI sequences are stripped.  A second ESC after an
\* ESC (Alt and an arrow key) is written together with the first one, and the
\* sequence it starts passes.
NoSequencePasses ==
  \A i \in DOMAIN out : \A j \in i..Len(out) : ~IsCsi(SubSeq(out, i, j))

=============================================================================
