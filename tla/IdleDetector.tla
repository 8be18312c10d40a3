---------------------------- MODULE IdleDetector ----------------------------
(***************************************************************************)
(* launcher.IdleDetector: a one-shot timer guarded by a running flag.      *)
(*                                                                         *)
(* Start, Reset, Stop and the check at the head of fire each run under     *)
(* d.mu, so each is one step.  What is not atomic is what the code leaves  *)
(* outside the mutex: the runtime expires the timer and spawns a fire      *)
(* goroutine at any moment (TimerExpires), that goroutine takes the lock   *)
(* later (FireCheck), and the callback runs later still, unlocked.  Any    *)
(* Start, Reset or Stop may fall in either gap.                            *)
(*                                                                         *)
(* The actions constrain the detector's variables only, so that a user of  *)
(* the detector conjoins them with its own steps.                          *)
(***************************************************************************)
EXTENDS Naturals

CONSTANT MaxFire      \* bound: fire goroutines in flight at a time

ASSUME MaxFireAssumption == MaxFire \in Nat \ {0}

VARIABLES
  running,            \* d.running
  armed,              \* d.timer is pending in the runtime
  fired,              \* fire goroutines that have not taken d.mu yet
  calling             \* fire goroutines past the check, about to call onIdle

idleVars == <<running, armed, fired, calling>>

IdleInit ==
  /\ running = FALSE
  /\ armed = FALSE
  /\ fired = 0
  /\ calling = 0

IdleTypeOK ==
  /\ running \in BOOLEAN
  /\ armed \in BOOLEAN
  /\ fired \in 0..MaxFire
  /\ calling \in 0..MaxFire
  /\ fired + calling <= MaxFire

\* Mutant of Start: a running detector is started again.
StartUnguarded ==
  /\ running' = TRUE
  /\ armed' = TRUE
  /\ UNCHANGED <<fired, calling>>

\* No-op if already running; otherwise a new timer is armed.
Start ==
  /\ running' = TRUE
  /\ armed' = IF running THEN armed ELSE TRUE
  /\ UNCHANGED <<fired, calling>>

\* No-op if not running.  time.Timer.Reset re-arms a timer that has already
\* expired as well, and does not wait for the goroutine it spawned.
Reset ==
  /\ armed' = IF running THEN TRUE ELSE armed
  /\ UNCHANGED <<running, fired, calling>>

\* Mutant of Stop: the runtime timer is not cancelled.
StopKeepsTimer ==
  /\ running' = FALSE
  /\ UNCHANGED <<armed, fired, calling>>

\* No-op if not running.  time.Timer.Stop does not wait either.
Stop ==
  /\ running' = FALSE
  /\ armed' = IF running THEN FALSE ELSE armed
  /\ UNCHANGED <<fired, calling>>

\* The runtime: the timeout elapses and a goroutine is started on fire.
TimerExpires ==
  /\ armed
  /\ fired + calling < MaxFire
  /\ armed' = FALSE
  /\ fired' = fired + 1
  /\ UNCHANGED <<running, calling>>

\* Mutants of FireCheck: running is not read; and the goroutine, instead of
\* ending, fires again.
FireUnchecked ==
  /\ fired > 0
  /\ fired' = fired - 1
  /\ calling' = calling + 1
  /\ UNCHANGED <<running, armed>>

FireLoops ==
  /\ fired > 0
  /\ calling' = IF running THEN calling + 1 ELSE calling
  /\ UNCHANGED <<running, armed, fired>>

\* fire up to the unlock: the goroutine returns unless running.
FireCheck ==
  /\ fired > 0
  /\ fired' = fired - 1
  /\ calling' = IF running THEN calling + 1 ELSE calling
  /\ UNCHANGED <<running, armed>>

\* An admitted goroutine leaves the detector and runs d.onIdle().
Callback ==
  /\ calling > 0
  /\ calling' = calling - 1
  /\ UNCHANGED <<running, armed, fired>>

=============================================================================
