---------------------------- MODULE OutputBuffer ----------------------------
(***************************************************************************)
(* backend.OutputBuffer with StripANSI (ansi.go) and the phase analysis    *)
(* (phase.go): terminal output is cleaned chunk by chunk and kept up to a  *)
(* limit, the first trigger decides which tool is running, and the text    *)
(* decides how it went.  Every method holds b.mu, so it is one step.       *)
(*                                                                         *)
(* Bytes are numbers.  A regular expression stands for one word it finds,  *)
(* anchored at the start of a line or not; of the lists of expressions     *)
(* only the order and the results matter here.                             *)
(***************************************************************************)
EXTENDS ByteSeq

Seqs == INSTANCE SequencesExt

CONSTANTS
  MaxBufferSize,      \* maxBufferSize
  MaxTriggerSample,   \* maxTriggerSample
  CompileTrigger, LintTrigger, TestTrigger,
                      \* words that tell the phase: "go build", ...
  ErrorWord,          \* begins a line that reports a failure
  OkWord,             \* begins a line that reports a package that passed
  OutputBytes,        \* the bytes a client may print
  MaxStream           \* bound: bytes printed between two Resets

ASSUME OutputAssumption ==
  /\ MaxBufferSize \in Nat /\ MaxTriggerSample \in Nat /\ MaxStream \in Nat
  /\ OutputBytes \subseteq 0..255
  /\ {CompileTrigger, LintTrigger, TestTrigger, ErrorWord, OkWord} \subseteq Seq(0..255)

VARIABLES
  obuf,               \* b.buf
  phase,              \* b.phase
  overflow,           \* b.overflow
  writes              \* history: what was written since the last Reset

outputVars == <<obuf, phase, overflow, writes>>

-----------------------------------------------------------------------------
(* StripANSI.  The skip functions return the index after what they skip.   *)

Bel == 7
Backslash == 92

FirstOf(P) == CHOOSE p \in P : \A q \in P : p <= q

\* The index after the first one that satisfies P, or after the data.
SkipTo(data, P) == IF P = {} THEN Len(data) + 1 ELSE FirstOf(P) + 1

\* Up to the first final byte; bytes that cannot be in a sequence are no
\* obstacle.
SkipCSI(data, start) ==
  SkipTo(data, {i \in start..Len(data) : Final(data[i])})

\* The backslashes of the ESC \ that end a string.
Terminators(data, start) ==
  {i \in (start + 1)..Len(data) : data[i - 1] = ESC /\ data[i] = Backslash}

\* Mutant of SkipOSC: of ESC \ only the ESC is skipped.
SkipOSCLeavesBackslash(data, start) ==
  SkipTo(data, {i \in start..Len(data) :
                  data[i] = Bel \/ (i + 1 \in Terminators(data, start))})

SkipOSC(data, start) ==
  SkipTo(data, {i \in start..Len(data) : data[i] = Bel} \cup Terminators(data, start))

SkipST(data, start) == SkipTo(data, Terminators(data, start))

\* What follows an ESC at i - 1: CSI, OSC, one of DCS, APC, PM, SOS, or a
\* single character; nothing, at the end of the data.
SkipEscape(data, i) ==
  CASE i > Len(data) -> i
    [] i <= Len(data) /\ data[i] = 91 -> SkipCSI(data, i + 1)
    [] i <= Len(data) /\ data[i] = 93 -> SkipOSC(data, i + 1)
    [] i <= Len(data) /\ data[i] \in {80, 95, 94, 88} -> SkipST(data, i + 1)
    [] OTHER -> i + 1

StripANSI(data) ==
  LET from[i \in 1..(Len(data) + 1)] ==
        IF i > Len(data) THEN <<>>
        ELSE IF data[i] # ESC THEN <<data[i]>> \o from[i + 1]
        ELSE from[SkipEscape(data, i + 1)]
  IN from[1]

-----------------------------------------------------------------------------
(* phase.go                                                                *)

Occurs(word, text, at) == SubSeq(text, at, at + Len(word) - 1) = word

HasWord(text, word) == \E i \in 1..(Len(text) - Len(word) + 1) : Occurs(word, text, i)

\* The same under (?m)^.
LineStartsWith(text, word) ==
  \E i \in 1..(Len(text) - Len(word) + 1) :
    Occurs(word, text, i) /\ (i = 1 \/ text[i - 1] = 10)

phaseTriggers ==
  <<[phase |-> "compile", word |-> CompileTrigger],
    [phase |-> "lint", word |-> LintTrigger],
    [phase |-> "test", word |-> TestTrigger]>>

\* The first trigger of the list that occurs.
detectPhaseTrigger(text) ==
  LET hits == {i \in DOMAIN phaseTriggers : HasWord(text, phaseTriggers[i].word)}
  IN IF hits = {} THEN "unknown" ELSE phaseTriggers[FirstOf(hits)].phase

gatePatterns ==
  [compile |-> <<[word |-> ErrorWord, result |-> "failure"]>>,
   lint |-> <<[word |-> ErrorWord, result |-> "failure"]>>,
   test |-> <<[word |-> OkWord, result |-> "success"],
              [word |-> ErrorWord, result |-> "failure"]>>,
   unknown |-> <<>>]

\* The result of the first pattern that matches; without a match a compiler
\* or linter that printed no error has succeeded.
analyzeOutput(text, p) ==
  LET patterns == gatePatterns[p]
      hits == {i \in DOMAIN patterns : LineStartsWith(text, patterns[i].word)}
  IN CASE hits # {} -> patterns[FirstOf(hits)].result
       [] hits = {} /\ p \in {"compile", "lint"} -> "success"
       [] OTHER -> "unknown"

-----------------------------------------------------------------------------
(* OutputBuffer                                                            *)

OutputInit ==
  /\ obuf = <<>>
  /\ phase = "unknown"
  /\ overflow = FALSE
  /\ writes = <<>>

Sample(clean) ==
  IF Len(clean) > MaxTriggerSample THEN SubSeq(clean, 1, MaxTriggerSample) ELSE clean

\* Mutants of PhaseAfter: a later trigger replaces an earlier one; and of
\* Accepts: a chunk that fits is accepted in spite of an earlier overflow.
PhaseAfterLatest(clean) ==
  LET p == detectPhaseTrigger(Sample(clean)) IN IF p = "unknown" THEN phase ELSE p
AcceptsIfItFits(clean) == Len(obuf) + Len(clean) <= MaxBufferSize

\* The phase, once known, stays.
PhaseAfter(clean) ==
  IF phase = "unknown" THEN detectPhaseTrigger(Sample(clean)) ELSE phase

Accepts(clean) == ~overflow /\ Len(obuf) + Len(clean) <= MaxBufferSize

\* Mutant of Write: the buffer slides over the output instead of stopping.
WriteSliding(data) ==
  LET text == obuf \o StripANSI(data)
      over == IF Len(text) > MaxBufferSize THEN Len(text) - MaxBufferSize ELSE 0
  IN /\ writes' = Append(writes, data)
     /\ obuf' = SubSeq(text, over + 1, Len(text))
     /\ phase' = PhaseAfter(StripANSI(data))
     /\ UNCHANGED overflow

\* A chunk that does not fit is dropped whole, and so is all that follows.
Write(data) ==
  LET clean == StripANSI(data) IN
  /\ writes' = Append(writes, data)
  /\ \/ /\ Accepts(clean)
        /\ obuf' = obuf \o clean
        /\ phase' = PhaseAfter(clean)
        /\ UNCHANGED overflow
     \/ /\ ~Accepts(clean)
        /\ overflow' = TRUE
        /\ UNCHANGED <<obuf, phase>>

ResetBuffer == writes # <<>> /\ obuf' = <<>> /\ phase' = "unknown"
               /\ overflow' = FALSE /\ writes' = <<>>

\* Analyze, as a function of the state.
Analyze == [phase |-> phase, result |-> analyzeOutput(obuf, phase)]

\* Everything written since the last Reset.
Stream == Seqs!FlattenSeq(writes)

OutputNext ==
  \/ \E n \in 1..(MaxStream - Len(Stream)) :
       \E data \in [1..n -> OutputBytes] : Write(data)
  \/ ResetBuffer

OutputSpec == OutputInit /\ [][OutputNext]_outputVars

-----------------------------------------------------------------------------

Cleaned(k) == [i \in 1..k |-> StripANSI(writes[i])]

\* The buffer holds the text of the first k writes, and if there are more of
\* them the next one did not fit.
HoldsFirst(k) ==
  /\ obuf = Seqs!FlattenSeq(Cleaned(k))
  /\ overflow <=> k < Len(writes)
  /\ overflow => Len(obuf) + Len(StripANSI(writes[k + 1])) > MaxBufferSize

\* After an overflow the buffered text has no hole: it is the text of the
\* writes before the first one that did not fit, and of no later one, even if
\* that would fit.
NoHoleAfterOverflow == \E k \in 0..Len(writes) : HoldsFirst(k)

\* The tool that the beginning of the i-th write names, and the first one
\* that the first k writes name.
Named(i) == detectPhaseTrigger(Sample(StripANSI(writes[i])))

FirstNamed(k) ==
  LET triggers == {i \in 1..k : Named(i) # "unknown"}
  IN IF triggers = {} THEN "unknown" ELSE Named(FirstOf(triggers))

\* The phase is the one of the first write whose beginning names a tool, and
\* neither later writes nor an overflow change it.
FirstTriggerDecides ==
  \A k \in 0..Len(writes) : HoldsFirst(k) => phase = FirstNamed(k)

\* Between two Resets a failure that Analyze has reported stays one, whatever
\* is written later and overflow included, with one exception: in a test phase
\* the line of a package that passed hides the failure of another one, because
\* ok is looked for first.
FailureStands ==
  [][Analyze.result = "failure" /\ writes' # <<>> =>
       \/ Analyze' = Analyze
       \/ phase' = "test" /\ LineStartsWith(obuf', OkWord)]_outputVars

\* The whole escape sequences of s, by their first and last position.  ESC \
\* counts as a sequence of its own as well.
WholeSequences(s) ==
  {c \in Escapes(s) \X DOMAIN s :
     LET t == SubSeq(s, c[1], c[2])
         plain(a, b) == \A k \in a..b : t[k] \notin {ESC, Bel}
     IN \/ IsCsi(t)
        \/ Len(t) = 2 /\ t[2] \notin {ESC, 91, 93, 80, 95, 94, 88}
        \/ /\ Len(t) >= 3 /\ t[2] = 93
           /\ \/ plain(3, Len(t) - 1) /\ t[Len(t)] = Bel
              \/ Len(t) >= 4 /\ plain(3, Len(t) - 2)
                 /\ t[Len(t) - 1] = ESC /\ t[Len(t)] = Backslash}

OnlyWholeSequences(s) == \A i \in Escapes(s) : \E c \in WholeSequences(s) : c[1] = i

\* If no write breaks an escape sequence in two, exactly the sequences are
\* missing from the buffered text and how the output was cut into writes does
\* not show.
WholeSequencesGone ==
  (~overflow /\ \A i \in DOMAIN writes : OnlyWholeSequences(writes[i])) =>
    obuf = Pick(Stream, DOMAIN Stream \ UNION {c[1]..c[2] : c \in WholeSequences(Stream)})

=============================================================================
