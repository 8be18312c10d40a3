------------------------------- MODULE Handler -------------------------------
(***************************************************************************)
(* backend.HandleLauncher: the receive loop of one launcher connection.    *)
(*                                                                         *)
(* The loop owns a gate and calls HandleEnforcement synchronously, so it   *)
(* is deaf to the launcher while the tools run and while a prompt waits    *)
(* for room in the socket buffer.  The context is looked at before every   *)
(* Receive (twice in a row, by the loop and by Receive itself: one step    *)
(* here), but never while Receive blocks.                                  *)
(***************************************************************************)
EXTENDS Gate

\* The handler goroutine is the one caller its gate has.
ASSUME OneCaller == Callers = {"handler"}

VARIABLE hpc          \* accept, loop, recv, enforce, close, done

handlerVars == <<hpc, gateVars>>

HandlerInit ==
  /\ hpc = "accept"
  /\ bctx = FALSE
  /\ GateInit

HandlerPCs == {"accept", "loop", "recv", "enforce", "close", "done"}

\* Backend.Run hands an accepted connection to a new handler goroutine.
Accept ==
  /\ hpc = "accept"
  /\ dialed
  /\ hpc' = "loop"
  /\ UNCHANGED <<gateVars, wireVars, bctx>>

LoopCheck ==
  /\ hpc = "loop"
  /\ hpc' = IF bctx THEN "close" ELSE "recv"
  /\ UNCHANGED <<gateVars, wireVars, bctx>>

\* Receive returns an error: the connection ended.
Disconnected ==
  /\ hpc = "recv"
  /\ UpEnded
  /\ hpc' = "close"
  /\ UNCHANGED <<gateVars, wireVars, bctx>>

\* The frames that end the loop: a line that is not a message (Receive
\* returns an error), and exited, whether or not its payload decodes.
Ends(m) == m.type \in {"corrupt", "exited"}

\* Receive returns a frame other than idle.  Output is discarded, started is
\* logged or reported as malformed, and a kind the switch does not name
\* (shutdown among them) is warned about: the loop goes round.
ReceiveOther ==
  /\ hpc = "recv"
  /\ up # <<>>
  /\ Head(up).type # "idle"
  /\ UpRead
  /\ hpc' = IF Ends(Head(up)) THEN "close" ELSE "loop"
  /\ UNCHANGED <<gateVars, bctx>>

\* Mutant of ReceiveIdle: an idle frame in the cooldown ends the loop.
ReceiveIdleSkipEnds ==
  /\ hpc = "recv"
  /\ up # <<>>
  /\ Head(up).type = "idle"
  /\ UpRead
  /\ \/ Skip("handler") /\ hpc' = "close"
     \/ Enter("handler") /\ hpc' = "enforce"
  /\ UNCHANGED bctx

\* Receive returns an idle frame: HandleEnforcement is called, and returns at
\* once or goes into a run.
ReceiveIdle ==
  /\ hpc = "recv"
  /\ up # <<>>
  /\ Head(up).type = "idle"
  /\ UpRead
  /\ \/ Skip("handler") /\ hpc' = "loop"
     \/ Enter("handler") /\ hpc' = "enforce"
  /\ UNCHANGED bctx

\* The call to HandleEnforcement, until it returns.
Enforce ==
  /\ hpc = "enforce"
  /\ GateStep("handler")
  /\ hpc' = IF gpc'["handler"] = "out" THEN "loop" ELSE "enforce"
  /\ UNCHANGED bctx

\* Mutant of Close: the handler returns without closing its connection.
CloseForgotten ==
  /\ hpc = "close"
  /\ hpc' = "done"
  /\ UNCHANGED <<gateVars, bctx, wireVars>>

\* defer conn.Close().
Close ==
  /\ hpc = "close"
  /\ bclosed' = TRUE
  /\ hpc' = "done"
  /\ UNCHANGED <<gateVars, bctx, dialed, up, down, lclosed>>

HandlerStep ==
  \/ Accept
  \/ LoopCheck
  \/ Disconnected
  \/ ReceiveOther
  \/ ReceiveIdle
  \/ Enforce
  \/ Close

-----------------------------------------------------------------------------
(* The rest of the backend process and the machine it runs on.             *)

\* The backend's signal handler cancels the context shared by all handlers.
CancelBackend ==
  /\ ~bctx
  /\ bctx' = TRUE
  /\ UNCHANGED <<handlerVars, wireVars>>

Clock == Tick /\ UNCHANGED <<hpc, bctx, wireVars>>

EditPrompts ==
  /\ \E name \in Names, state \in TemplateStates : EditTemplate(name, state)
  /\ UNCHANGED <<hpc, bctx, wireVars>>

HandlerTypeOK ==
  /\ GateTypeOK
  /\ bctx \in BOOLEAN
  /\ hpc \in HandlerPCs

=============================================================================
