---------------------------- MODULE GateHarness ----------------------------
(***************************************************************************)
(* One gate under several goroutines that call HandleEnforcement whenever  *)
(* they like, a launcher that reads its prompts or closes, a clock, and    *)
(* somebody who edits the prompts directory.                               *)
(***************************************************************************)
EXTENDS Gate

VARIABLE quiet        \* history: time since a tool last ended, saturated

harnessVars == <<gateVars, wireVars, bctx, quiet>>

HarnessInit ==
  /\ dialed = TRUE
  /\ up = <<>>
  /\ down = <<>>
  /\ lclosed = FALSE
  /\ bclosed = FALSE
  /\ bctx = FALSE
  /\ GateInit
  /\ quiet = Cooldown

Call(c) ==
  /\ Skip(c) \/ Enter(c)
  /\ UNCHANGED <<wireVars, bctx, quiet>>

Step(c) ==
  /\ GateStep(c)
  /\ quiet' = IF gpc[c] \in Tools THEN 0 ELSE quiet
  /\ UNCHANGED bctx

LauncherReads ==
  /\ ~lclosed
  /\ DownRead
  /\ UNCHANGED <<gateVars, bctx, quiet>>

LauncherCloses ==
  /\ ~lclosed
  /\ lclosed' = TRUE
  /\ UNCHANGED <<gateVars, bctx, quiet, dialed, up, down, bclosed>>

Cancel ==
  /\ ~bctx
  /\ bctx' = TRUE
  /\ UNCHANGED <<gateVars, wireVars, quiet>>

\* One clock for the gate's cooldown and for the history.
Clock ==
  /\ \/ Tick
     \/ since = Cooldown /\ quiet < Cooldown /\ UNCHANGED gateVars
  /\ quiet' = IF quiet < Cooldown THEN quiet + 1 ELSE quiet
  /\ UNCHANGED <<wireVars, bctx>>

Edit ==
  /\ \E name \in Names, state \in TemplateStates : EditTemplate(name, state)
  /\ UNCHANGED <<wireVars, bctx, quiet>>

HarnessNext ==
  \/ \E c \in Callers : Call(c) \/ Step(c)
  \/ LauncherReads
  \/ LauncherCloses
  \/ Cancel
  \/ Clock
  \/ Edit

HarnessSpec == HarnessInit /\ [][HarnessNext]_harnessVars

-----------------------------------------------------------------------------

\* Type invariant of the gate and its harness.
HarnessTypeOK ==
  /\ GateTypeOK
  /\ quiet \in 0..Cooldown

\* running is set exactly while some caller is inside a run, so a gate is
\* never left locked by a run that failed, timed out or could not be sent.
EnforcingIffInRun == enforcing <=> \E c \in Callers : InRun(c)

\* The inductive invariant behind the gate's safety: besides the types, the
\* flag agrees with the callers, at most one of them is in a run, a free gate
\* never believes the last run to be longer ago than it is, and results and
\* prompt fit the place each caller has reached.
GateInv ==
  /\ HarnessTypeOK
  /\ EnforcingIffInRun
  /\ AtMostOneRun
  /\ ~enforcing => since <= quiet
  /\ \A c \in Callers : gpc[c] = "out" => results[c] = <<>>
  /\ \A c \in Callers : ResultsSoFar(c)
  /\ PromptMatchesRun

\* A run starts only when a full cooldown has passed since the last tool of
\* the run before it ended, however long that run took.
CooldownBetweenRuns ==
  [][\A c \in Callers : ~InRun(c) /\ InRun(c)' => quiet = Cooldown]_harnessVars

=============================================================================
