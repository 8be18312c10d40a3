-------------------------- MODULE LauncherPartProofs --------------------------
(***************************************************************************)
(* Proofs about the parts of the launcher side: the idle detector under    *)
(* any callers, the PtyProcess with any exit codes, and the capture tool   *)
(* with any amount of output.  The stdin filter is in StreamProofs.        *)
(***************************************************************************)
EXTENDS MCLauncherParts, StreamProofs

-----------------------------------------------------------------------------
(* The idle detector                                                       *)

\* Type correctness, together with the accounting that makes the detector
\* one-shot: a pending timer, a goroutine that waits for the lock and a call
\* that was made each go back to a different Start or Reset.
IdleInv ==
  /\ HarnessTypeOK
  /\ StoppedIsDisarmed
  /\ CallsWithinArms

\* The invariant is inductive: expiry hands the credit of the timer on to a
\* fire goroutine, and the check hands it on to the call or drops it.
LEMMA IdleInvInductive == IdleInv /\ [HarnessNext]_harnessVars => IdleInv'
<1> SUFFICES ASSUME IdleInv, [HarnessNext]_harnessVars PROVE IdleInv'
  OBVIOUS
<1> USE MaxFireAssumption, MaxArmsAssumption
    DEF IdleInv, HarnessTypeOK, IdleTypeOK, StoppedIsDisarmed, CallsWithinArms
<1>1. CASE CallStart
  <2>1. CASE running
    BY <1>1, <2>1 DEF CallStart, Start
  <2>2. CASE ~running
    BY <1>1, <2>2 DEF CallStart, Start
  <2> QED BY <2>1, <2>2
<1>2. CASE CallReset
  <2>1. CASE running
    BY <1>2, <2>1 DEF CallReset, Reset
  <2>2. CASE ~running
    BY <1>2, <2>2 DEF CallReset, Reset
  <2> QED BY <2>1, <2>2
<1>3. CASE CallStop
  <2>1. CASE running
    BY <1>3, <2>1 DEF CallStop, Stop
  <2>2. CASE ~running
    BY <1>3, <2>2 DEF CallStop, Stop
  <2> QED BY <2>1, <2>2
<1>4. CASE Expire
  <2>1. ~armed' /\ running' \in BOOLEAN /\ armed' \in BOOLEAN
    BY <1>4, Zenon DEF Expire, TimerExpires
  <2>2. /\ fired' \in 0..MaxFire /\ calling' \in 0..MaxFire
        /\ fired' + calling' <= MaxFire
        /\ arms' \in 0..MaxArms /\ calls' \in Nat
        /\ calls' + fired' <= arms'
    BY <1>4 DEF Expire, TimerExpires
  <2> QED BY <2>1, <2>2
<1>5. CASE Fire
  BY <1>5 DEF Fire, FireCheck
<1>6. CASE OnIdle
  BY <1>6 DEF OnIdle, Callback
<1>7. CASE UNCHANGED harnessVars
  BY <1>7 DEF harnessVars, idleVars
<1> QED BY <1>1, <1>2, <1>3, <1>4, <1>5, <1>6, <1>7 DEF HarnessNext

LEMMA IdleInvInit == HarnessInit => IdleInv
<1> SUFFICES ASSUME HarnessInit PROVE IdleInv
  OBVIOUS
<1>1. ~armed /\ running \in BOOLEAN /\ armed \in BOOLEAN
  BY Zenon DEF HarnessInit, IdleInit
<1>2. fired = 0 /\ calling = 0 /\ arms = 0 /\ calls = 0
  BY DEF HarnessInit, IdleInit
<1> QED BY <1>1, <1>2, MaxFireAssumption, MaxArmsAssumption
        DEF IdleInv, HarnessTypeOK, IdleTypeOK, StoppedIsDisarmed, CallsWithinArms

\* The detector is type correct and its accounts balance in every state.
THEOREM IdleInvariance == HarnessSpec => []IdleInv
BY IdleInvInit, IdleInvInductive, PTL DEF HarnessSpec

\* onIdle is never called more often than Start and Reset armed the timer.
THEOREM OneShot == HarnessSpec => []CallsWithinArms
<1>1. IdleInv => CallsWithinArms
  BY DEF IdleInv
<1> QED BY <1>1, IdleInvariance, PTL

\* A stopped detector has no timer pending.
THEOREM StoppedStaysDisarmed == HarnessSpec => []StoppedIsDisarmed
<1>1. IdleInv => StoppedIsDisarmed
  BY DEF IdleInv
<1> QED BY <1>1, IdleInvariance, PTL

\* After Stop no fire goroutine is admitted until the next Start.
THEOREM StopIsFinal == HarnessSpec => StopSilences
<1>1. IdleInv /\ [HarnessNext]_harnessVars
        => [(~running /\ ~running') => calling' <= calling]_harnessVars
  <2> SUFFICES ASSUME IdleInv, HarnessNext, ~running
               PROVE  calling' <= calling
    BY DEF harnessVars
  <2> USE MaxFireAssumption DEF IdleInv, HarnessTypeOK, IdleTypeOK
  <2>1. CASE CallStart \/ CallReset \/ CallStop \/ Expire
    <3>1. calling' = calling
      BY <2>1 DEF CallStart, CallReset, CallStop, Expire, Start, Reset, Stop, TimerExpires
    <3> QED BY <3>1
  <2>2. CASE Fire
    BY <2>2 DEF Fire, FireCheck
  <2>3. CASE OnIdle
    BY <2>3 DEF OnIdle, Callback
  <2> QED BY <2>1, <2>2, <2>3 DEF HarnessNext
<1> QED BY <1>1, IdleInvariance, PTL DEF HarnessSpec, StopSilences

-----------------------------------------------------------------------------
(* PtyProcess                                                              *)

\* What the places of the wait goroutine and of Close say about the child.
\* The conjunct on kill is why Close cannot be impatient: it gets there after
\* the grace period, or because the child had already been collected.
PtyInv ==
  /\ PtyTypeOK
  /\ proc = "running" <=> status = NoStatus
  /\ proc = "reaped" <=> waiter # "wait"
  /\ waiter \in {"close", "ended"} => exitCode = ExitCodeOf(status)
  /\ done => waiter = "ended"
  /\ closer = "kill" => graced \/ proc = "reaped"

LEMMA PtyInvInit == PtyInit => PtyInv
<1> SUFFICES ASSUME PtyInit PROVE PtyInv
  OBVIOUS
<1>1. /\ master \in BOOLEAN /\ done \in BOOLEAN /\ spawnCtx \in BOOLEAN
      /\ closeErr \in BOOLEAN /\ graced \in BOOLEAN /\ ~done
  BY Zenon DEF PtyInit
<1>2. /\ proc = "running" /\ status = NoStatus /\ sigs = {} /\ waiter = "wait"
      /\ exitCode = -1 /\ fwd = "select" /\ fwdCh = 0 /\ closer = "out"
  BY DEF PtyInit
<1> QED BY <1>1, <1>2 DEF PtyInv, PtyTypeOK, WaitStatus

\* The child and the goroutine that waits for it.
LEMMA PtyChildInv ==
  ASSUME PtyInv,
         \/ ChildExits
         \/ \E s \in Forwarded \cup {SIGKILL} : ChildDiesOf(s)
         \/ \E s \in Forwarded : ChildSurvives(s)
         \/ WaitGoroutine
  PROVE  PtyInv'
<1> USE DEF PtyInv, PtyTypeOK, waitVars, fwdVars, closeVars, kernelVars
<1>1. ASSUME NEW n \in ExitCodes, Dies("exited", n) PROVE PtyInv'
  BY <1>1 DEF Dies, WaitStatus, NoStatus
<1>2. ASSUME NEW s \in Forwarded \cup {SIGKILL}, Dies("signaled", s) PROVE PtyInv'
  BY <1>2 DEF Dies, WaitStatus, NoStatus
<1>3. ASSUME NEW s \in Forwarded, ChildSurvives(s) PROVE PtyInv'
  BY <1>3 DEF ChildSurvives
<1>4. CASE WaitReturns
  BY <1>4 DEF WaitReturns
<1>5. CASE StoreCode
  <2>1. status \in WaitStatus /\ status # NoStatus
    BY <1>5 DEF StoreCode
  <2>2. status.n \in Nat
    <3>1. /\ ExitCodes \subseteq Nat
          /\ Forwarded \cup {SIGKILL} \subseteq Nat
      BY ExitCodesAssumption DEF Forwarded, SIGINT, SIGTERM, SIGHUP, SIGKILL
    <3> QED BY <2>1, <3>1 DEF WaitStatus
  <2>3. ExitCodeOf(status) \in Int
    BY <2>2 DEF ExitCodeOf
  <2> QED BY <1>5, <2>3 DEF StoreCode
<1>6. CASE CloseDone
  BY <1>6 DEF CloseDone
<1> QED BY <1>1, <1>2, <1>3, <1>4, <1>5, <1>6 DEF ChildExits, ChildDiesOf, WaitGoroutine

\* Signals from outside, their forwarder and the context of the spawn.
LEMMA PtyForwardInv ==
  ASSUME PtyInv,
         \/ \E s \in Forwarded : ParentSignalled(s)
         \/ Forward \/ ForwarderEnds \/ CancelSpawn \/ ContextKills
  PROVE  PtyInv'
<1> USE DEF PtyInv, PtyTypeOK, waitVars, closeVars, kernelVars, fwdVars
<1>1. ASSUME NEW s \in Forwarded, ParentSignalled(s) PROVE PtyInv'
  BY <1>1 DEF ParentSignalled
<1>2. CASE Forward
  BY <1>2 DEF Forward, Deliver
<1>3. CASE ForwarderEnds
  BY <1>3 DEF ForwarderEnds
<1>4. CASE CancelSpawn
  BY <1>4 DEF CancelSpawn
<1>5. CASE ContextKills
  BY <1>5 DEF ContextKills, Deliver
<1> QED BY <1>1, <1>2, <1>3, <1>4, <1>5

\* Close: it reaches kill by the grace period, or past a failed SIGTERM.
LEMMA PtyCloseInv ==
  ASSUME PtyInv, ClosePty \/ Close
  PROVE  PtyInv'
<1> USE DEF PtyInv, PtyTypeOK, CloseStep, waitVars, fwdVars, kernelVars
<1>1. CASE ClosePty
  BY <1>1 DEF ClosePty, Deliver, Forwarded
<1>2. CASE CloseCheck
  BY <1>2 DEF CloseCheck
<1>3. CASE CloseTerm
  BY <1>3 DEF CloseTerm, Deliver, Signalable, Forwarded
<1>4. ASSUME NEW at \in {"grace", "last"}, CloseExited(at) PROVE PtyInv'
  BY <1>4 DEF CloseExited
<1>5. CASE GraceElapses
  BY <1>5 DEF GraceElapses
<1>6. CASE CloseKill
  BY <1>6 DEF CloseKill, Deliver, Signalable
<1>7. CASE CloseGivesUp
  BY <1>7 DEF CloseGivesUp
<1> QED BY <1>1, <1>2, <1>3, <1>4, <1>5, <1>6, <1>7 DEF Close

LEMMA PtyInvInductive == PtyInv /\ [PtyNext]_ptyVars => PtyInv'
<1> SUFFICES ASSUME PtyInv, [PtyNext]_ptyVars PROVE PtyInv'
  OBVIOUS
<1>1. CASE UNCHANGED ptyVars
  BY <1>1 DEF ptyVars, kernelVars, waitVars, fwdVars, closeVars, PtyInv, PtyTypeOK
<1> QED BY <1>1, PtyChildInv, PtyForwardInv, PtyCloseInv DEF PtyNext

\* The wait goroutine, the forwarder, Close and the child keep the invariant.
THEOREM PtyInvariance == PtySpec => []PtyInv
BY PtyInvInit, PtyInvInductive, PTL DEF PtySpec

\* Whoever has seen done closed reads the exit code of the child's real end.
THEOREM CodeKnownHolds == PtySpec => []CodeKnownWhenDone
<1>1. PtyInv => CodeKnownWhenDone
  BY DEF PtyInv, PtyTypeOK, CodeKnownWhenDone
<1> QED BY <1>1, PtyInvariance, PTL

\* Close never kills a running child that was not given its grace period.
THEOREM GraceIsGiven == PtySpec => KillOnlyAfterGrace
<1>1. PtyInv => [(closer = "kill" /\ closer' = "last" /\ proc = "running")
                   => graced]_ptyVars
  BY DEF PtyInv
<1> QED BY <1>1, PtyInvariance, PTL DEF KillOnlyAfterGrace

-----------------------------------------------------------------------------
(* Capture                                                                 *)

\* The number of chunks of a stream that are in the slice: one less than were
\* read while the reader has a chunk in hand.
Appended(s) == IF reader[s] = "append" THEN taken[s] - 1 ELSE taken[s]

\* The chunk n of the stream s is among chunks.
HoldsChunk(chunks, s, n) == \E i \in DOMAIN chunks : chunks[i] = <<s, n>>

\* A dead client holds no pipe.  A reader that has ended has taken all of its
\* stream, and since nobody holds the pipe there will never be more: the client
\* may run on.  The slice holds what was appended, in order; main is past its
\* waits only after both readers ended, and what it writes is the slice, which
\* does not grow any more.
CaptureTypes ==
  /\ CaptureTypeOK
  /\ taken \in [Streams -> Nat]

ReadersInv ==
  \A s \in Streams :
    /\ captive = "dead" => "client" \notin holders[s]
    /\ reader[s] = "append" => taken[s] >= 1
    /\ reader[s] = "ended" => holders[s] = {} /\ taken[s] = sent[s]

SliceInv ==
  /\ InOrder(captured)
  /\ \A s \in Streams, n \in 1..MaxChunks :
       HoldsChunk(captured, s, n) <=> n <= Appended(s)

FileInv ==
  /\ cmain \in {"wait", "file", "exit", "failed"} => ReadersEnded
  /\ cmain = "exit" => written = captured
  /\ written = <<>> \/ (/\ ReadersEnded
                        /\ \E n \in 0..Len(captured) : written = SubSeq(captured, 1, n))

CaptureInv == CaptureTypes /\ ReadersInv /\ SliceInv /\ FileInv

LEMMA CaptureInvInit == CaptureInit => CaptureInv
<1> SUFFICES ASSUME CaptureInit PROVE CaptureInv
  OBVIOUS
<1>1. elapsed \in BOOLEAN
  BY Zenon DEF CaptureInit
<1>2. CaptureTypes
  BY <1>1, MaxChunksAssumption
  DEF CaptureInit, CaptureTypes, CaptureTypeOK, Streams, Holders
<1>3. ReadersInv
  BY DEF CaptureInit, ReadersInv
<1>4. SliceInv
  BY MaxChunksAssumption DEF CaptureInit, SliceInv, InOrder, HoldsChunk, Appended
<1>5. FileInv
  BY DEF CaptureInit, FileInv
<1> QED BY <1>2, <1>3, <1>4, <1>5 DEF CaptureInv

\* A step that leaves the slice and what the readers appended alone.
LEMMA SliceUntouched ==
  ASSUME SliceInv, captured' = captured,
         \A s \in Streams : Appended(s)' = Appended(s)
  PROVE  SliceInv'
BY DEF SliceInv, InOrder, HoldsChunk

LEMMA ReadChunkInv ==
  ASSUME CaptureInv, NEW s \in Streams, ReadChunk(s)
  PROVE  CaptureInv'
<1> USE DEF CaptureInv, CaptureTypes, CaptureTypeOK
<1>1. CaptureTypes'
  BY MaxChunksAssumption DEF ReadChunk
<1>2. ReadersInv'
  BY DEF ReadChunk, ReadersInv
<1>3. \A r \in Streams : Appended(r)' = Appended(r)
  BY DEF ReadChunk, Appended
<1>4. SliceInv'
  BY <1>3, SliceUntouched DEF ReadChunk
<1>5. FileInv'
  BY DEF ReadChunk, FileInv, ReadersEnded
<1> QED BY <1>1, <1>2, <1>4, <1>5

LEMMA PairParts ==
  ASSUME NEW S, NEW T, NEW x \in S \X T
  PROVE  x[1] \in S /\ x[2] \in T /\ x = <<x[1], x[2]>>
OBVIOUS

LEMMA AppendChunkInv ==
  ASSUME CaptureInv, NEW s \in Streams, AppendChunk(s)
  PROVE  CaptureInv'
<1> USE DEF CaptureInv, CaptureTypes, CaptureTypeOK
<1> DEFINE n == taken[s]
           c == <<s, n>>
           C == Streams \X (1..MaxChunks)
           len == Len(captured)
<1>1. n \in 1..MaxChunks /\ n - 1 = Appended(s) /\ n = Appended(s)'
  BY MaxChunksAssumption DEF AppendChunk, ReadersInv, Appended
<1>2. c \in C /\ captured \in Seq(C) /\ captured' = Append(captured, c)
  BY <1>1 DEF AppendChunk
<1>3. /\ len \in Nat /\ DOMAIN captured = 1..len
      /\ DOMAIN captured' = 1..(len + 1)
      /\ captured'[len + 1] = c
      /\ \A i \in 1..len : captured'[i] = captured[i]
      /\ \A i \in 1..len : captured[i] \in C
  BY <1>2
<1>4. CaptureTypes'
  <2>1. captured' \in Seq(C)
    BY <1>2
  <2> QED BY <2>1 DEF AppendChunk
<1> HIDE DEF n, c, C, len
<1>5. ReadersInv'
  BY DEF AppendChunk, ReadersInv
<1>6. InOrder(captured)'
  <2>1. ASSUME NEW i \in 1..len, captured[i][1] = s PROVE captured[i][2] < n
    <3>1. captured[i] \in C
      BY <1>3
    <3>2. /\ captured[i][2] \in 1..MaxChunks
          /\ captured[i] = <<captured[i][1], captured[i][2]>>
      BY <3>1, PairParts DEF C
    <3>3. captured[i] = <<s, captured[i][2]>>
      BY <2>1, <3>2
    <3>4. captured[i][2] <= n - 1
      BY <1>1, <1>3, <3>2, <3>3 DEF SliceInv, HoldsChunk
    <3> QED BY <1>1, <3>2, <3>4, MaxChunksAssumption
  <2> SUFFICES ASSUME NEW i \in 1..(len + 1), NEW j \in 1..(len + 1), i < j,
                      captured'[i][1] = captured'[j][1]
               PROVE  captured'[i][2] < captured'[j][2]
    BY <1>3 DEF InOrder
  <2>2. i \in 1..len /\ (j = len + 1 \/ j \in 1..len)
    <3>1. len \in Nat
      BY <1>3
    <3> QED BY <3>1
  <2>3. CASE j \in 1..len
    BY <1>3, <2>2, <2>3 DEF SliceInv, InOrder
  <2>4. CASE j = len + 1
    BY <1>3, <2>1, <2>2, <2>4 DEF c
  <2> QED BY <2>2, <2>3, <2>4
<1>7. ASSUME NEW r \in Streams, NEW m \in 1..MaxChunks
      PROVE  HoldsChunk(captured, r, m)' <=> m <= Appended(r)'
  <2>1. HoldsChunk(captured, r, m)' <=> HoldsChunk(captured, r, m) \/ <<r, m>> = c
    <3>1. \A i : i \in 1..(len + 1) <=> i \in 1..len \/ i = len + 1
      BY <1>3
    <3> QED BY <1>3, <3>1 DEF HoldsChunk
  <2>2. CASE r = s
    BY <1>1, <2>1, <2>2 DEF SliceInv, c
  <2>3. CASE r # s
    BY <2>1, <2>3 DEF SliceInv, Appended, AppendChunk, c
  <2> QED BY <2>2, <2>3
<1>8. SliceInv'
  BY <1>6, <1>7 DEF SliceInv
<1>9. FileInv'
  BY DEF AppendChunk, FileInv, ReadersEnded
<1> QED BY <1>4, <1>5, <1>8, <1>9

\* A step that leaves the readers, the slice and the file alone, and hands no
\* pipe that nobody holds to anyone.
LEMMA PipesChange ==
  ASSUME CaptureInv, CaptureTypes',
         reader' = reader, taken' = taken, captured' = captured, written' = written,
         cmain' = cmain,
         \A s \in Streams : holders[s] = {} => holders'[s] = {} /\ sent'[s] = sent[s],
         \A s \in Streams : captive' = "dead" => "client" \notin holders'[s]
  PROVE  CaptureInv'
<1>1. \A s \in Streams : Appended(s)' = Appended(s)
  BY DEF Appended
<1>2. SliceInv'
  BY <1>1, SliceUntouched DEF CaptureInv
<1>3. ReadersInv'
  BY DEF CaptureInv, ReadersInv
<1>4. FileInv'
  BY DEF CaptureInv, FileInv, ReadersEnded
<1> QED BY <1>2, <1>3, <1>4 DEF CaptureInv

\* The client, its children and the clock.
LEMMA CaptiveInv ==
  ASSUME CaptureInv,
         \/ \E s \in Streams : CaptivePrints(s) \/ ClosesStream(s) \/ ChildInherits(s)
         \/ CaptiveEnds \/ DurationEnds
  PROVE  CaptureInv'
<1> USE DEF CaptureInv, CaptureTypes, CaptureTypeOK, ReadersInv
<1>1. ASSUME NEW s \in Streams, CaptivePrints(s) PROVE CaptureInv'
  <2>1. CaptureTypes'
    BY <1>1, MaxChunksAssumption DEF CaptivePrints
  <2> QED BY <1>1, <2>1, PipesChange DEF CaptivePrints
<1>2. ASSUME NEW s \in Streams, ClosesStream(s) PROVE CaptureInv'
  <2>1. PICK h \in holders[s] : holders' = [holders EXCEPT ![s] = @ \ {h}]
    BY <1>2 DEF ClosesStream
  <2>2. CaptureTypes'
    BY <1>2, <2>1 DEF ClosesStream
  <2> QED BY <1>2, <2>1, <2>2, PipesChange DEF ClosesStream
<1>3. ASSUME NEW s \in Streams, ChildInherits(s) PROVE CaptureInv'
  <2>1. CaptureTypes'
    BY <1>3 DEF ChildInherits
  <2> QED BY <1>3, <2>1, PipesChange DEF ChildInherits
<1>4. CASE CaptiveEnds
  <2>1. CaptureTypes'
    BY <1>4 DEF CaptiveEnds, ClientDies
  <2> QED BY <1>4, <2>1, PipesChange DEF CaptiveEnds, ClientDies
<1>5. CASE DurationEnds
  <2>1. elapsed' \in BOOLEAN
    BY <1>5, Zenon DEF DurationEnds
  <2>2. CaptureTypes'
    BY <1>5, <2>1 DEF DurationEnds
  <2> QED BY <1>5, <2>2, PipesChange DEF DurationEnds
<1> QED BY <1>1, <1>2, <1>3, <1>4, <1>5

\* Main, and a reader that sees the end of its pipe.
LEMMA CaptureMainInv ==
  ASSUME CaptureInv, CaptureMain \/ \E s \in Streams : ReadEnds(s)
  PROVE  CaptureInv'
<1> USE DEF CaptureInv, CaptureTypes, CaptureTypeOK, ReadersInv
<1>1. captured' = captured /\ \A s \in Streams : Appended(s)' = Appended(s)
  BY DEF Appended, ReadEnds, CaptureMain, SelectDone, SelectTimeout, WaitReaders,
         WaitCaptive, WriteFile
<1>2. SliceInv'
  BY <1>1, SliceUntouched
<1>3. CASE \E s \in Streams : ReadEnds(s)
  BY <1>2, <1>3 DEF ReadEnds, FileInv, ReadersEnded
<1>4. CASE SelectTimeout
  BY <1>2, <1>4 DEF SelectTimeout, ClientDies, FileInv, ReadersEnded
<1>5. CASE SelectDone \/ WaitReaders \/ WaitCaptive
  BY <1>2, <1>5 DEF SelectDone, WaitReaders, WaitCaptive, FileInv, ReadersEnded
<1>6. CASE WriteFile
  <2>1. /\ ReadersEnded /\ ReadersEnded' /\ cmain' \in {"exit", "failed"}
        /\ UNCHANGED <<reader, captive, holders, sent, taken, captured, elapsed>>
    BY <1>6 DEF WriteFile, FileInv, ReadersEnded
  <2>2. /\ cmain' = "exit" => written' = captured
        /\ \E n \in 0..Len(captured) : written' = SubSeq(captured, 1, n)
    <3>1. captured = SubSeq(captured, 1, Len(captured)) /\ Len(captured) \in 0..Len(captured)
      OBVIOUS
    <3> QED BY <1>6, <3>1 DEF WriteFile
  <2>3. FileInv'
    BY <2>1, <2>2 DEF FileInv
  <2>4. CaptureTypes' /\ ReadersInv'
    BY <2>1
  <2> QED BY <1>2, <2>3, <2>4
<1> QED BY <1>3, <1>4, <1>5, <1>6 DEF CaptureMain

LEMMA CaptureInvInductive == CaptureInv /\ [CaptureNext]_captureVars => CaptureInv'
<1> SUFFICES ASSUME CaptureInv, [CaptureNext]_captureVars PROVE CaptureInv'
  OBVIOUS
<1>1. CASE UNCHANGED captureVars
  BY <1>1 DEF captureVars, CaptureInv, CaptureTypes, CaptureTypeOK, ReadersInv,
              SliceInv, InOrder, HoldsChunk, Appended, FileInv, ReadersEnded
<1> QED BY <1>1, ReadChunkInv, AppendChunkInv, CaptureMainInv, CaptiveInv
        DEF CaptureNext, Read, CaptureOver

\* Readers, main, client and children keep the invariant: what an ended reader
\* has not taken nobody can print any more, even if the client runs on.
THEOREM CaptureInvariance == CaptureSpec => []CaptureInv
BY CaptureInvInit, CaptureInvInductive, PTL DEF CaptureSpec

\* The beginning of a slice in order is in order.
LEMMA PrefixInOrder ==
  ASSUME NEW S, NEW s \in Seq(S), InOrder(s), NEW n \in 0..Len(s)
  PROVE  InOrder(SubSeq(s, 1, n))
<1>1. /\ DOMAIN SubSeq(s, 1, n) = 1..n
      /\ \A i \in 1..n : SubSeq(s, 1, n)[i] = s[i] /\ i \in DOMAIN s
  OBVIOUS
<1> QED BY <1>1 DEF InOrder

\* A tool that exits without an error leaves a file with all that was printed,
\* in order, for any amount of output and whoever ended the client; any file
\* is in order.
THEOREM FileHolds == CaptureSpec => []FileIsComplete
<1>1. CaptureInv => FileIsComplete
  <2> SUFFICES ASSUME CaptureInv PROVE FileIsComplete
    OBVIOUS
  <2>1. InOrder(written)
    <3>1. InOrder(<<>>)
      BY DEF InOrder
    <3>2. captured \in Seq(Streams \X (1..MaxChunks)) /\ InOrder(captured)
      BY DEF CaptureInv, CaptureTypes, CaptureTypeOK, SliceInv
    <3> QED BY <3>1, <3>2, PrefixInOrder DEF CaptureInv, FileInv
  <2>2. ASSUME cmain = "exit", NEW s \in Streams, NEW n \in 1..MaxChunks
        PROVE  HoldsChunk(written, s, n) <=> n \in 1..sent[s]
    <3>1. written = captured /\ ReadersEnded
      BY <2>2 DEF CaptureInv, FileInv
    <3>2. Appended(s) = sent[s] /\ sent[s] \in Nat
      BY <3>1, MaxChunksAssumption
      DEF CaptureInv, CaptureTypes, CaptureTypeOK, ReadersInv, ReadersEnded, Appended
    <3> QED BY <3>1, <3>2, MaxChunksAssumption DEF CaptureInv, SliceInv
  <2> QED BY <2>1, <2>2 DEF FileIsComplete, HoldsChunk
<1> QED BY <1>1, CaptureInvariance, PTL

-----------------------------------------------------------------------------
(* The parts side by side, as TLC runs them                                *)

PartsInv == IdleInv /\ PtyInv /\ FilterInv /\ CaptureInv

LEMMA PartsInvInductive == PartsInv /\ [PartsNext]_partsVars => PartsInv'
<1> SUFFICES ASSUME PartsInv, [PartsNext]_partsVars PROVE PartsInv'
  OBVIOUS
<1>1. /\ [HarnessNext]_harnessVars /\ [PtyNext]_ptyVars
      /\ [FilterNext]_filterVars /\ [CaptureNext]_captureVars
  BY DEF PartsNext, partsVars
<1> QED BY <1>1, IdleInvInductive, PtyInvInductive, FilterStepInv, CaptureInvInductive
        DEF PartsInv

\* The detector's counters, the codes and signals of the PtyProcess, the bytes
\* of the filter and the capture tool's chunks keep their types, whichever
\* part runs and for any bounds.
THEOREM PartsAreTyped == PartsSpec => []PartsTypeOK
<1>1. PartsInit => PartsInv
  BY IdleInvInit, PtyInvInit, FilterInitInv, CaptureInvInit DEF PartsInit, PartsInv
<1>2. PartsInv => PartsTypeOK
  BY DEF PartsInv, IdleInv, PtyInv, FilterInv, CaptureInv, CaptureTypes, PartsTypeOK
<1> QED BY <1>1, <1>2, PartsInvInductive, PTL DEF PartsSpec

=============================================================================
