------------------------------- MODULE Session -------------------------------
(***************************************************************************)
(* One whole session: the launcher, its client and its goroutines, the     *)
(* backend's handler with its gate, and the connection between them.  The  *)
(* launcher and the handler share nothing but the wire.                    *)
(***************************************************************************)
EXTENDS Launcher, Handler

CONSTANT Faults       \* what may happen to the two processes from outside

ASSUME FaultsAssumption == Faults \subseteq {"signal", "kill", "cancel"}

sessionVars == <<launcherVars, handlerVars, wireVars, bctx>>

\* The prompts directory is the one the repository ships: idle.md only.
ShippedPrompts == [idle |-> "valid", failure |-> "missing"]

SessionInit ==
  /\ WireInit
  /\ LauncherInit
  /\ HandlerInit
  /\ templates = ShippedPrompts

LauncherMoves ==
  /\ LauncherStep
  /\ UNCHANGED <<handlerVars, bctx>>

BackendMoves ==
  /\ HandlerStep
  /\ UNCHANGED launcherVars

LauncherFaults ==
  /\ \E f \in Faults : LauncherFault(f)
  /\ UNCHANGED <<handlerVars, bctx>>

BackendStops ==
  /\ "cancel" \in Faults
  /\ CancelBackend
  /\ UNCHANGED launcherVars

TimePasses ==
  /\ Clock
  /\ UNCHANGED launcherVars

SessionOver ==
  /\ ~Up
  /\ hpc \in {"accept", "done"}
  /\ UNCHANGED sessionVars

SessionNext ==
  \/ LauncherMoves
  \/ BackendMoves
  \/ LauncherFaults
  \/ BackendStops
  \/ TimePasses
  \/ SessionOver

\* Fairness: every goroutine of the two processes is scheduled, tools end,
\* time passes, an armed timer expires, a dead child is reaped, and the client
\* reads what is typed.  Nobody has to exit, print, signal or kill.
SessionSpec ==
  /\ SessionInit
  /\ [][SessionNext]_sessionVars
  /\ WF_sessionVars(Up /\ Main /\ UNCHANGED <<handlerVars, bctx>>)
  /\ WF_sessionVars(Up /\ P2b /\ UNCHANGED <<handlerVars, bctx>>)
  /\ WF_sessionVars(Up /\ B2p /\ UNCHANGED <<handlerVars, bctx>>)
  /\ WF_sessionVars(Up /\ Sig /\ UNCHANGED <<handlerVars, bctx>>)
  /\ WF_sessionVars(Up /\ Idle /\ UNCHANGED <<handlerVars, bctx>>)
  /\ WF_sessionVars(LauncherMoves /\ Reap)
  /\ WF_sessionVars(LauncherMoves /\ ClientReads)
  /\ WF_sessionVars(BackendMoves)
  /\ WF_sessionVars(TimePasses)

\* The delivery of a prompt needs less: the handler, main (which starts the
\* pipes), the pipe into the PTY and a client that reads.
DeliverySpec ==
  /\ SessionInit
  /\ [][SessionNext]_sessionVars
  /\ WF_sessionVars(BackendMoves)
  /\ WF_sessionVars(Up /\ Main /\ UNCHANGED <<handlerVars, bctx>>)
  /\ WF_sessionVars(Up /\ B2p /\ UNCHANGED <<handlerVars, bctx>>)
  /\ WF_sessionVars(LauncherMoves /\ ClientReads)

-----------------------------------------------------------------------------

SessionEnding == ~Up \/ lctx \/ bctx \/ client = "dead" \/ hpc \in {"close", "done"}

\* Type invariant of the composition.
SessionTypeOK ==
  /\ LauncherTypeOK
  /\ HandlerTypeOK
  /\ Len(up) <= UpCap /\ \A i \in DOMAIN up : up[i].type \in UpKinds
  /\ \A i \in DOMAIN down : down[i].type = "type" /\ down[i].text \in Texts

\* A handler leaves only for a cause: the launcher has closed or said that
\* its client exited, or the backend is shutting down.  Nothing else that a
\* launcher sends can make the backend hang up on it.
HandlerEndsForCause ==
  hpc \in {"close", "done"} => ~Up \/ lclosed \/ bctx \/ lmain = "finish"

\* A run's verdict reaches the client: the prompt is typed into the PTY, or
\* the session is ending.
RunReachesClient == hpc = "enforce" ~> (b2p = "enter" \/ SessionEnding)

\* Comment in main: shutdown is sent to "Tell PipeBackendToPTY to stop before
\* sending the exit message"; so a client that exits ends its launcher.  The
\* frame goes to the backend, which ignores it, and nobody wakes the pipe.
ClientExitEndsLauncher == (client = "dead" /\ ~slave) ~> ~Up

=============================================================================
