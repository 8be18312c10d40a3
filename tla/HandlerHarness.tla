--------------------------- MODULE HandlerHarness ---------------------------
(***************************************************************************)
(* The handler against a launcher that follows no protocol: it sends any   *)
(* frame, well formed or not, in any order, reads its prompts or not, and  *)
(* closes at any moment.                                                   *)
(***************************************************************************)
EXTENDS Handler

harnessVars == <<handlerVars, wireVars, bctx>>

\* Every kind of frame, kinds the handler does not know included.
Frames ==
  {Frame(k, ok, "") : k \in UpKinds, ok \in BOOLEAN}
    \cup {Frame("corrupt", FALSE, ""), Frame("unknown", TRUE, "")}

HarnessInit ==
  /\ WireInit
  /\ HandlerInit

LauncherDials ==
  /\ ~dialed
  /\ Dial
  /\ UNCHANGED <<handlerVars, bctx>>

LauncherSends ==
  /\ dialed
  /\ \E m \in Frames : UpWrite(m)
  /\ UNCHANGED <<handlerVars, bctx>>

LauncherReads ==
  /\ ~lclosed
  /\ DownRead
  /\ UNCHANGED <<handlerVars, bctx>>

LauncherCloses ==
  /\ dialed /\ ~lclosed
  /\ lclosed' = TRUE
  /\ UNCHANGED <<handlerVars, bctx, dialed, up, down, bclosed>>

HarnessNext ==
  \/ HandlerStep
  \/ CancelBackend
  \/ Clock
  \/ EditPrompts
  \/ LauncherDials
  \/ LauncherSends
  \/ LauncherReads
  \/ LauncherCloses

\* The handler's goroutine is scheduled, the accept loop takes a connection,
\* and every tool ends.  Nothing is assumed of the launcher.
HarnessSpec ==
  /\ HarnessInit
  /\ [][HarnessNext]_harnessVars
  /\ WF_harnessVars(HandlerStep)

-----------------------------------------------------------------------------

\* g.running and the run in progress agree with the loop: the gate of a
\* handler that is not in HandleEnforcement is free, so the next idle frame
\* can never be refused as "already running".
GateFreeOutsideRun == hpc # "enforce" => ~enforcing /\ gpc["handler"] = "out"

\* A launcher that goes away ends its handler, which closes its own end, even
\* in the middle of a run or of a write that was blocked: provided that each
\* tool run ends, which a tool's children can prevent (see TimeoutEndsTool).
DisconnectEndsHandler == lclosed ~> (hpc = "done" /\ bclosed)

\* HandleLauncher implements the abstract loop: it owes a prompt from the
\* moment an idle frame passes the gate until HandleEnforcement returns, so
\* there is at most one prompt per idle frame and none without one.
Promise == INSTANCE EnforcementLoop WITH
  phase <- CASE hpc = "enforce" -> "owing"
             [] hpc \in {"close", "done"} -> "ended"
             [] OTHER -> "listening"

ImplementsPromise == Promise!Spec

=============================================================================
