----------------------------- MODULE PtyProcess -----------------------------
(***************************************************************************)
(* launcher.PtyProcess after a successful spawn: the child in its PTY, the *)
(* goroutine that waits for it, forwardSignals, and Close, which may be    *)
(* called at any time and more than once.                                  *)
(*                                                                         *)
(* The kernel's part is small: a signal sent to a live child is pending    *)
(* until the child meets it; the child may survive any signal but SIGKILL; *)
(* a dead child is a zombie until cmd.Wait collects it, and from then on   *)
(* os.Process refuses to signal it.  Closing the master hangs up the       *)
(* terminal, which is a SIGHUP.  Timers may expire at any moment.          *)
(***************************************************************************)
EXTENDS Integers

CONSTANT ExitCodes    \* codes a client may exit with

ASSUME ExitCodesAssumption == ExitCodes \subseteq 0..255

SIGHUP == 1
SIGINT == 2
SIGKILL == 9
SIGTERM == 15

\* What forwardSignals asks signal.Notify for.
Forwarded == {SIGINT, SIGTERM, SIGHUP}

VARIABLES
  master,             \* p.PTY is open
  proc,               \* the child: running, zombie, reaped
  status,             \* its wait status
  sigs,               \* signals pending for the child
  waiter,             \* the goroutine around cmd.Wait: wait, store, close, ended
  exitCode,           \* p.exitCode
  done,               \* p.done is closed
  fwd,                \* forwardSignals: select, ended
  fwdCh,              \* the signal in its channel, 0 for none
  spawnCtx,           \* the context given to SpawnContext is cancelled
  closer,             \* where the caller of Close is
  closeErr,           \* Close will report an error
  graced              \* history: this Close has given the child its grace

kernelVars == <<proc, status, sigs>>
waitVars == <<waiter, exitCode, done>>
fwdVars == <<fwd, fwdCh, spawnCtx>>
closeVars == <<master, closer, closeErr, graced>>
ptyVars == <<kernelVars, waitVars, fwdVars, closeVars>>

NoStatus == [how |-> "none", n |-> 0]

\* spawn returns: the child runs, both goroutines are started.
PtyInit ==
  /\ master = TRUE
  /\ proc = "running" /\ status = NoStatus /\ sigs = {}
  /\ waiter = "wait" /\ exitCode = -1 /\ done = FALSE
  /\ fwd = "select" /\ fwdCh = 0 /\ spawnCtx = FALSE
  /\ closer = "out" /\ closeErr = FALSE /\ graced = FALSE

-----------------------------------------------------------------------------
(* The child                                                               *)

\* os.Process.Signal: refused once Wait has collected the child, without
\* effect on a zombie.
Signalable == proc # "reaped"
Deliver(s) == sigs' = IF proc = "running" THEN sigs \cup {s} ELSE sigs

Dies(how, n) ==
  /\ proc = "running"
  /\ proc' = "zombie"
  /\ status' = [how |-> how, n |-> n]
  /\ sigs' = {}
  /\ UNCHANGED <<waitVars, fwdVars, closeVars>>

ChildExits == \E n \in ExitCodes : Dies("exited", n)

ChildDiesOf(s) == s \in sigs /\ Dies("signaled", s)

ChildSurvives(s) ==
  /\ s \in sigs \ {SIGKILL}
  /\ sigs' = sigs \ {s}
  /\ UNCHANGED <<proc, status, waitVars, fwdVars, closeVars>>

-----------------------------------------------------------------------------
(* The wait goroutine of spawn                                             *)

\* The code a wait status is stored as.
ExitCodeOf(st) == IF st.how = "exited" THEN st.n ELSE -st.n

WaitReturns ==
  /\ waiter = "wait"
  /\ proc = "zombie"
  /\ proc' = "reaped"
  /\ waiter' = "store"
  /\ UNCHANGED <<status, sigs, exitCode, done, fwdVars, closeVars>>

\* Mutant of StoreCode: done is closed before the code is stored.
StoreCodeLate ==
  /\ waiter \in {"store", "close"}
  /\ IF waiter = "store" THEN done' = TRUE /\ waiter' = "close" /\ UNCHANGED exitCode
     ELSE exitCode' = ExitCodeOf(status) /\ waiter' = "ended" /\ UNCHANGED done
  /\ UNCHANGED <<kernelVars, fwdVars, closeVars>>

StoreCode ==
  /\ waiter = "store"
  /\ exitCode' = ExitCodeOf(status)
  /\ waiter' = "close"
  /\ UNCHANGED <<kernelVars, done, fwdVars, closeVars>>

CloseDone ==
  /\ waiter = "close"
  /\ done' = TRUE
  /\ waiter' = "ended"
  /\ UNCHANGED <<kernelVars, exitCode, fwdVars, closeVars>>

WaitGoroutine == WaitReturns \/ StoreCode \/ CloseDone

-----------------------------------------------------------------------------
(* forwardSignals                                                          *)

\* The runtime never blocks on the channel of one: a signal that finds it
\* full, or that comes after signal.Stop, is not seen here.
ParentSignalled(s) ==
  /\ fwd = "select"
  /\ fwdCh = 0
  /\ fwdCh' = s
  /\ UNCHANGED <<kernelVars, waitVars, fwd, spawnCtx, closeVars>>

\* A failure to signal the child is only logged.
Forward ==
  /\ fwd = "select"
  /\ fwdCh # 0
  /\ Deliver(fwdCh)
  /\ fwdCh' = 0
  /\ UNCHANGED <<proc, status, waitVars, fwd, spawnCtx, closeVars>>

ForwarderEnds ==
  /\ fwd = "select"
  /\ done \/ spawnCtx
  /\ fwd' = "ended"
  /\ fwdCh' = 0
  /\ UNCHANGED <<kernelVars, waitVars, spawnCtx, closeVars>>

CancelSpawn ==
  /\ ~spawnCtx
  /\ spawnCtx' = TRUE
  /\ UNCHANGED <<kernelVars, waitVars, fwd, fwdCh, closeVars>>

\* exec.CommandContext kills the child of a cancelled context.
ContextKills ==
  /\ spawnCtx
  /\ proc = "running"
  /\ Deliver(SIGKILL)
  /\ UNCHANGED <<proc, status, waitVars, fwdVars, closeVars>>

-----------------------------------------------------------------------------
(* Close                                                                   *)

\* Where Close goes after a select on done with its timer or default.
CloseStep(at, next) ==
  /\ closer = at
  /\ closer' = next

\* The master is closed; on a second call that fails.
ClosePty ==
  /\ closer \in {"out", "returned"}
  /\ closer' = "check"
  /\ closeErr' = ~master
  /\ master' = FALSE
  /\ graced' = FALSE
  /\ IF master THEN Deliver(SIGHUP) ELSE UNCHANGED sigs
  /\ UNCHANGED <<proc, status, waitVars, fwdVars>>

\* Already exited, or go on to SIGTERM.
CloseCheck ==
  /\ CloseStep("check", IF done THEN "returned" ELSE "term")
  /\ UNCHANGED <<kernelVars, waitVars, fwdVars, master, closeErr, graced>>

\* Mutant of CloseTerm: no time is left for a graceful end.
CloseTermImpatient ==
  /\ CloseStep("term", "kill")
  /\ IF Signalable THEN Deliver(SIGTERM) ELSE UNCHANGED sigs
  /\ UNCHANGED <<proc, status, waitVars, fwdVars, master, closeErr, graced>>

\* SIGTERM; if that fails the code falls through to SIGKILL.
CloseTerm ==
  /\ CloseStep("term", IF Signalable THEN "grace" ELSE "kill")
  /\ IF Signalable THEN Deliver(SIGTERM) ELSE UNCHANGED sigs
  /\ UNCHANGED <<proc, status, waitVars, fwdVars, master, closeErr, graced>>

CloseExited(at) ==
  /\ done
  /\ CloseStep(at, "returned")
  /\ UNCHANGED <<kernelVars, waitVars, fwdVars, master, closeErr, graced>>

\* gracefulKillWait elapses.
GraceElapses ==
  /\ CloseStep("grace", "kill")
  /\ graced' = TRUE
  /\ UNCHANGED <<kernelVars, waitVars, fwdVars, master, closeErr>>

\* Mutant of CloseKill: SIGTERM is thought to be enough.
CloseKillForgotten ==
  /\ CloseStep("kill", "last")
  /\ UNCHANGED <<kernelVars, waitVars, fwdVars, master, closeErr, graced>>

\* Process.Kill fails if the child has been collected meanwhile, and Close
\* reports that as an error.
CloseKill ==
  /\ CloseStep("kill", "last")
  /\ IF Signalable THEN Deliver(SIGKILL) ELSE UNCHANGED sigs
  /\ closeErr' = (closeErr \/ ~Signalable)
  /\ UNCHANGED <<proc, status, waitVars, fwdVars, master, graced>>

\* ptyCloseTimeout elapses: Close gives up waiting.
CloseGivesUp ==
  /\ CloseStep("last", "returned")
  /\ UNCHANGED <<kernelVars, waitVars, fwdVars, master, closeErr, graced>>

Close ==
  \/ CloseCheck
  \/ CloseTerm
  \/ CloseExited("grace")
  \/ GraceElapses
  \/ CloseKill
  \/ CloseExited("last")
  \/ CloseGivesUp

-----------------------------------------------------------------------------

PtyNext ==
  \/ ChildExits
  \/ \E s \in Forwarded \cup {SIGKILL} : ChildDiesOf(s)
  \/ \E s \in Forwarded : ChildSurvives(s)
  \/ WaitGoroutine
  \/ \E s \in Forwarded : ParentSignalled(s)
  \/ Forward
  \/ ForwarderEnds
  \/ CancelSpawn
  \/ ContextKills
  \/ ClosePty
  \/ Close

\* SIGKILL works, a dead child is reported, goroutines are scheduled and
\* timers expire.  Nobody has to call Close, and the child need not exit.
PtyFairness ==
  /\ WF_ptyVars(ChildDiesOf(SIGKILL))
  /\ WF_ptyVars(WaitGoroutine)
  /\ WF_ptyVars(Close)

PtySpec == PtyInit /\ [][PtyNext]_ptyVars /\ PtyFairness

-----------------------------------------------------------------------------

WaitStatus ==
  {NoStatus} \cup [how : {"exited"}, n : ExitCodes]
             \cup [how : {"signaled"}, n : Forwarded \cup {SIGKILL}]

\* Type invariant.
PtyTypeOK ==
  /\ master \in BOOLEAN
  /\ proc \in {"running", "zombie", "reaped"}
  /\ status \in WaitStatus
  /\ sigs \subseteq Forwarded \cup {SIGKILL}
  /\ waiter \in {"wait", "store", "close", "ended"}
  /\ exitCode \in Int
  /\ done \in BOOLEAN
  /\ fwd \in {"select", "ended"}
  /\ fwdCh \in Forwarded \cup {0}
  /\ spawnCtx \in BOOLEAN
  /\ closer \in {"out", "check", "term", "grace", "kill", "last", "returned"}
  /\ closeErr \in BOOLEAN
  /\ graced \in BOOLEAN

\* Whoever has seen done closed reads the child's real exit code: the code of
\* the wait status, of a child that has been collected, and so does everybody
\* after that.
CodeKnownWhenDone ==
  done => proc = "reaped" /\ status # NoStatus /\ exitCode = ExitCodeOf(status)

\* Close sends SIGKILL to a running child only after it has sent SIGTERM and
\* left the child gracefulKillWait to end by itself.
KillOnlyAfterGrace ==
  [][(closer = "kill" /\ closer' = "last" /\ proc = "running") => graced]_ptyVars

\* No orphans: once Close has returned, on whichever of its timeouts, the
\* child is dead, collected and its exit code known before long, even if it
\* ignores every signal it can ignore.
CloseEndsChild == (closer = "returned") ~> done

=============================================================================
