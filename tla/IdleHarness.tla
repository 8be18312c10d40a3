----------------------------- MODULE IdleHarness -----------------------------
(***************************************************************************)
(* The idle detector on its own, under goroutines that call Start, Reset   *)
(* and Stop in any order and at any moment, the callback included (it may  *)
(* call Reset: it runs outside the lock).                                  *)
(***************************************************************************)
EXTENDS IdleDetector

CONSTANT MaxArms      \* bound: Start and Reset calls that arm the timer

ASSUME MaxArmsAssumption == MaxArms \in Nat

VARIABLES
  arms,               \* history: Start and Reset calls that armed the timer
  calls               \* history: fire goroutines admitted past the check

harnessVars == <<idleVars, arms, calls>>

HarnessInit ==
  /\ IdleInit
  /\ arms = 0
  /\ calls = 0

CallStart ==
  /\ arms < MaxArms
  /\ Start
  /\ arms' = IF running THEN arms ELSE arms + 1
  /\ UNCHANGED calls

CallReset ==
  /\ arms < MaxArms
  /\ Reset
  /\ arms' = IF running THEN arms + 1 ELSE arms
  /\ UNCHANGED calls

CallStop ==
  /\ Stop
  /\ UNCHANGED <<arms, calls>>

Expire ==
  /\ TimerExpires
  /\ UNCHANGED <<arms, calls>>

Fire ==
  /\ FireCheck
  /\ calls' = IF calling' > calling THEN calls + 1 ELSE calls
  /\ UNCHANGED arms

OnIdle ==
  /\ Callback
  /\ UNCHANGED <<arms, calls>>

HarnessNext ==
  \/ CallStart
  \/ CallReset
  \/ CallStop
  \/ Expire
  \/ Fire
  \/ OnIdle

HarnessSpec == HarnessInit /\ [][HarnessNext]_harnessVars

-----------------------------------------------------------------------------

\* The detector's type invariant, the counters of the harness included.
HarnessTypeOK ==
  /\ IdleTypeOK
  /\ arms \in 0..MaxArms
  /\ calls \in Nat

\* The detector is one-shot: however expiries, Reset and Stop interleave,
\* onIdle is never called more often than the timer was armed by Start or
\* Reset, and the pending timer and the goroutines that wait for the lock
\* are already accounted for.
CallsWithinArms ==
  /\ calls + fired <= arms
  /\ armed => calls + fired < arms

\* The timer is pending only while the detector runs, so a stopped detector
\* can start no further fire goroutine.
StoppedIsDisarmed == armed => running

\* After Stop has returned no fire goroutine gets past the check of fire
\* until the next Start, even one whose timer expired before Stop.
StopSilences == [][(~running /\ ~running') => calling' <= calling]_harnessVars

=============================================================================
