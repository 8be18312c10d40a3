------------------------------ MODULE GateProofs ------------------------------
(***************************************************************************)
(* Proofs about the gate, for any number of goroutines that call           *)
(* HandleEnforcement on it and any length of the cooldown.                 *)
(***************************************************************************)
EXTENDS GateHarness, GateData

-----------------------------------------------------------------------------
(* Control: who is in a run, what the flag says, and when                  *)

Control ==
  /\ enforcing \in BOOLEAN
  /\ since \in 0..Cooldown
  /\ quiet \in 0..Cooldown
  /\ gpc \in [Callers -> GatePCs]
  /\ EnforcingIffInRun
  /\ AtMostOneRun
  /\ ~enforcing => since <= quiet

\* A caller that enters finds the gate free and the cooldown over.
LEMMA ControlEnter ==
  ASSUME Control, NEW c \in Callers, Enter(c), UNCHANGED quiet
  PROVE  Control'
<1>1. ~enforcing /\ enforcing' = TRUE
  BY DEF Enter, Skipped
<1>2. gpc' = [gpc EXCEPT ![c] = "build"] /\ since' = since
  BY DEF Enter
<1>3. \A d \in Callers : ~InRun(d)
  BY <1>1 DEF Control, EnforcingIffInRun
<1>4. gpc' \in [Callers -> GatePCs]
  BY <1>2 DEF Control, GatePCs, Tools
<1>5. gpc'[c] = "build" /\ \A d \in Callers : d # c => gpc'[d] = gpc[d]
  BY <1>2 DEF Control
<1>6. InRun(c)' /\ \A d \in Callers : d # c => ~InRun(d)'
  BY <1>3, <1>5 DEF InRun, Tools
<1>7. EnforcingIffInRun'
  BY <1>1, <1>6 DEF EnforcingIffInRun
<1>8. AtMostOneRun'
  BY <1>6 DEF AtMostOneRun
<1>9. enforcing' \in BOOLEAN /\ (~enforcing' => since' <= quiet')
  BY <1>1
<1>10. since' \in 0..Cooldown /\ quiet' \in 0..Cooldown
  BY <1>2 DEF Control
<1> QED BY <1>4, <1>7, <1>8, <1>9, <1>10 DEF Control

\* A tool's end keeps its caller in the run.
LEMMA ControlRunTool ==
  ASSUME Control, NEW c \in Callers, NEW passed \in BOOLEAN, RunTool(c, passed),
         quiet' = 0
  PROVE  Control'
<1>1. gpc[c] \in Tools /\ enforcing' = enforcing /\ since' = since
  BY DEF RunTool
<1>2. gpc' \in [Callers -> GatePCs]
  BY DEF Control, RunTool, NextTool, GatePCs, Tools
<1>3. gpc'[c] \in Tools \cup {"stamp"} /\ \A d \in Callers : d # c => gpc'[d] = gpc[d]
  BY DEF Control, RunTool, NextTool, GatePCs, Tools
<1>4. \A d \in Callers : InRun(d)' <=> InRun(d)
  BY <1>1, <1>3 DEF InRun
<1>5. EnforcingIffInRun'
  BY <1>1, <1>4 DEF EnforcingIffInRun, Control
<1>6. AtMostOneRun'
  BY <1>4 DEF AtMostOneRun, Control
<1>7. enforcing'
  BY <1>1 DEF Control, EnforcingIffInRun, InRun
<1>8. enforcing' \in BOOLEAN
  BY <1>1 DEF Control
<1>9. since' \in 0..Cooldown /\ quiet' \in 0..Cooldown
  BY <1>1, CooldownAssumption DEF Control
<1> QED BY <1>2, <1>5, <1>6, <1>7, <1>8, <1>9 DEF Control

\* The stamp takes the one caller that was in a run out of it.
LEMMA ControlStamp ==
  ASSUME Control, NEW c \in Callers, Stamp(c), UNCHANGED quiet
  PROVE  Control'
<1>1. gpc[c] = "stamp" /\ enforcing' = FALSE /\ since' = 0
  BY DEF Stamp
<1>2. gpc' = [gpc EXCEPT ![c] = "render"]
  BY DEF Stamp
<1>3. gpc' \in [Callers -> GatePCs]
  BY <1>2 DEF Control, GatePCs
<1>4. gpc'[c] = "render" /\ \A d \in Callers : d # c => gpc'[d] = gpc[d]
  BY <1>2 DEF Control
<1>5. \A d \in Callers : d # c => ~InRun(d)
  BY <1>1 DEF Control, AtMostOneRun, InRun
<1>6. \A d \in Callers : ~InRun(d)'
  BY <1>4, <1>5 DEF InRun, Tools
<1>7. EnforcingIffInRun'
  BY <1>1, <1>6 DEF EnforcingIffInRun
<1>8. AtMostOneRun'
  BY <1>6 DEF AtMostOneRun
<1>9. since' \in 0..Cooldown /\ quiet' \in 0..Cooldown /\ since' <= quiet'
  BY <1>1, CooldownAssumption DEF Control
<1>10. enforcing' \in BOOLEAN
  BY <1>1
<1> QED BY <1>3, <1>7, <1>8, <1>9, <1>10 DEF Control

\* Outside the run callers move without touching flag or clock.
LEMMA ControlOutside ==
  ASSUME Control, NEW c \in Callers, UNCHANGED <<enforcing, since, quiet>>,
         gpc[c] \in {"render", "send", "write"},
         NEW pc \in {"send", "write", "out"}, gpc' = [gpc EXCEPT ![c] = pc]
  PROVE  Control'
<1>1. gpc' \in [Callers -> GatePCs]
  BY DEF Control, GatePCs
<1>2. gpc'[c] = pc /\ \A d \in Callers : d # c => gpc'[d] = gpc[d]
  BY DEF Control
<1>3. \A d \in Callers : InRun(d)' <=> InRun(d)
  BY <1>2 DEF InRun, Tools
<1>4. EnforcingIffInRun'
  BY <1>3 DEF EnforcingIffInRun, Control
<1>5. AtMostOneRun'
  BY <1>3 DEF AtMostOneRun, Control
<1> QED BY <1>1, <1>4, <1>5 DEF Control

\* Time passes for the gate and for the history alike.
LEMMA ControlClock ==
  ASSUME Control, Clock
  PROVE  Control'
<1>1. enforcing' = enforcing /\ gpc' = gpc
  BY DEF Clock, Tick, gateVars
<1>2. /\ since' \in 0..Cooldown /\ quiet' \in 0..Cooldown
      /\ since <= quiet => since' <= quiet'
  BY CooldownAssumption DEF Control, Clock, Tick, gateVars
<1>3. EnforcingIffInRun' /\ AtMostOneRun'
  BY <1>1 DEF Control, EnforcingIffInRun, AtMostOneRun, InRun
<1> QED BY <1>1, <1>2, <1>3 DEF Control

LEMMA ControlStutter ==
  ASSUME Control, UNCHANGED <<enforcing, since, quiet, gpc>>
  PROVE  Control'
BY DEF Control, EnforcingIffInRun, AtMostOneRun, InRun

-----------------------------------------------------------------------------
(* The invariant, and what follows from it                                 *)

LEMMA GateInvParts == GateInv <=> Control /\ Data
BY DEF GateInv, HarnessTypeOK, GateTypeOK, PromptMatchesRun, Control, Data,
       DataTypes, Fits, PromptFits

\* Every step of a caller, of the clock and of the environment keeps the
\* invariant.
LEMMA GateInvInductive == GateInv /\ [HarnessNext]_harnessVars => GateInv'
<1> SUFFICES ASSUME Control, Data, [HarnessNext]_harnessVars
             PROVE  Control' /\ Data'
  <2>1. (Control /\ Data)' => GateInv'
    BY GateInvParts, PTL
  <2> QED BY <2>1, GateInvParts
<1>1. ASSUME NEW c \in Callers, Call(c) PROVE Control' /\ Data'
  <2>1. CASE Skip(c)
    BY <1>1, <2>1, ControlStutter, DataEdit DEF Call, Skip, gateVars, Data, DataTypes
  <2>2. CASE Enter(c)
    BY <1>1, <2>2, ControlEnter, DataEnter DEF Call
  <2> QED BY <1>1, <2>1, <2>2 DEF Call
<1>2. ASSUME NEW c \in Callers, Step(c) PROVE Control' /\ Data'
  <2>1. ASSUME NEW passed \in BOOLEAN, RunTool(c, passed) PROVE Control' /\ Data'
    <3>1. quiet' = 0
      BY <1>2, <2>1 DEF Step, RunTool
    <3> QED BY <2>1, <3>1, ControlRunTool, DataRunTool
  <2>2. CASE Stamp(c)
    <3>1. UNCHANGED quiet
      BY <1>2, <2>2 DEF Step, Stamp, Tools
    <3> QED BY <2>2, <3>1, ControlStamp, DataStamp
  <2>3. CASE Render(c)
    <3>1. UNCHANGED quiet
      BY <1>2, <2>3 DEF Step, Render, Tools
    <3>2. gpc[c] = "render" /\ gpc' = [gpc EXCEPT ![c] = "send"] /\ UNCHANGED <<enforcing, since>>
      BY <2>3 DEF Render
    <3> QED BY <2>3, <3>1, <3>2, ControlOutside, DataRender
  <2>4. CASE SendCheck(c)
    <3>1. gpc[c] = "send" /\ UNCHANGED <<enforcing, since, quiet>>
      BY <1>2, <2>4 DEF Step, SendCheck, Tools
    <3>2. \E pc \in {"write", "out"} : gpc' = [gpc EXCEPT ![c] = pc]
      BY <2>4 DEF SendCheck, Return
    <3> QED BY <2>4, <3>1, <3>2, ControlOutside, DataSendCheck
  <2>5. CASE SendWrite(c)
    <3>1. gpc[c] = "write" /\ UNCHANGED <<enforcing, since, quiet, templates>>
      BY <1>2, <2>5 DEF Step, SendWrite, Tools
    <3>2. Return(c) /\ gpc' = [gpc EXCEPT ![c] = "out"]
      BY <2>5 DEF SendWrite, Return
    <3> QED BY <3>1, <3>2, ControlOutside, DataReturn
  <2> QED BY <1>2, <2>1, <2>2, <2>3, <2>4, <2>5 DEF Step, GateStep
<1>3. CASE LauncherReads \/ LauncherCloses \/ Cancel
  BY <1>3, ControlStutter, DataEdit
  DEF LauncherReads, LauncherCloses, Cancel, gateVars, Data, DataTypes
<1>4. CASE Clock
  <2>1. UNCHANGED <<gpc, results, prompt, templates>>
    BY <1>4 DEF Clock, Tick, gateVars
  <2> QED BY <1>4, <2>1, ControlClock, DataEdit DEF Data, DataTypes
<1>5. CASE Edit
  <2>1. PICK name \in Names, state \in TemplateStates : EditTemplate(name, state)
    BY <1>5 DEF Edit
  <2>2. templates' \in [Names -> TemplateStates]
    BY <2>1 DEF EditTemplate, Data, DataTypes
  <2>3. UNCHANGED <<enforcing, since, quiet, gpc, results, prompt>>
    BY <1>5, <2>1 DEF Edit, EditTemplate
  <2> QED BY <2>2, <2>3, ControlStutter, DataEdit
<1>6. CASE UNCHANGED harnessVars
  BY <1>6, ControlStutter, DataEdit DEF harnessVars, gateVars, Data, DataTypes
<1> QED BY <1>1, <1>2, <1>3, <1>4, <1>5, <1>6 DEF HarnessNext

\* The gate keeps its invariant under any callers.
THEOREM GateInvariance == HarnessSpec => []GateInv
<1>1. HarnessInit => GateInv
  <2> SUFFICES ASSUME HarnessInit PROVE Control /\ Data
    BY GateInvParts
  <2>1. /\ enforcing = FALSE /\ since = Cooldown /\ quiet = Cooldown
        /\ gpc = [c \in Callers |-> "out"]
        /\ results = [c \in Callers |-> <<>>]
        /\ prompt = [c \in Callers |-> NoText]
        /\ templates \in [Names -> TemplateStates]
    BY DEF HarnessInit, GateInit
  <2>2. \A c \in Callers : ~InRun(c)
    BY <2>1 DEF InRun, Tools
  <2>3. since \in 0..Cooldown /\ quiet \in 0..Cooldown /\ since <= quiet
    BY <2>1, CooldownAssumption
  <2>4. gpc \in [Callers -> GatePCs]
    BY <2>1 DEF GatePCs
  <2>5. enforcing \in BOOLEAN /\ EnforcingIffInRun /\ AtMostOneRun
    BY <2>1, <2>2 DEF EnforcingIffInRun, AtMostOneRun
  <2>6. Control
    BY <2>3, <2>4, <2>5 DEF Control
  <2>7. DataTypes
    <3>1. NoText \in Texts /\ <<>> \in Seq(ToolResult)
      BY DEF NoText, Text, Texts, Names
    <3> QED BY <2>1, <2>4, <3>1 DEF DataTypes
  <2>8. Data
    BY <2>1, <2>7 DEF Data, Fits, ResultsSoFar
  <2> QED BY <2>6, <2>8
<1> QED BY <1>1, GateInvInductive, PTL DEF HarnessSpec

\* At most one caller runs the tools of a gate at a time.
THEOREM MutualExclusion == HarnessSpec => []AtMostOneRun
<1>1. GateInv => AtMostOneRun
  BY DEF GateInv
<1> QED BY <1>1, GateInvariance, PTL

\* The prompt a caller is about to send is the one its run calls for.
THEOREM PromptIsRight == HarnessSpec => []PromptMatchesRun
<1>1. GateInv => PromptMatchesRun
  BY DEF GateInv
<1> QED BY <1>1, GateInvariance, PTL

\* A run starts only when a full cooldown has passed since the last tool ended.
THEOREM CooldownIsKept == HarnessSpec => CooldownBetweenRuns
<1>1. GateInv /\ [HarnessNext]_harnessVars =>
        [\A c \in Callers : ~InRun(c) /\ InRun(c)' => quiet = Cooldown]_harnessVars
  <2> SUFFICES ASSUME Control, HarnessNext, NEW c \in Callers, ~InRun(c), InRun(c)'
               PROVE  quiet = Cooldown
    BY GateInvParts
  <2>1. Enter(c) => quiet = Cooldown
    BY CooldownAssumption DEF Enter, Skipped, Control
  <2>2. ASSUME NEW d \in Callers, Call(d) PROVE Enter(c)
    BY <2>2 DEF Call, Skip, Enter, gateVars, InRun, Control
  <2>3. ASSUME NEW d \in Callers, Step(d) PROVE FALSE
    <3>1. d # c => gpc'[c] = gpc[c]
      BY <2>3 DEF Step, GateStep, RunTool, Stamp, Render, SendCheck, SendWrite,
                  Return, Control
    <3>2. d = c
      BY <3>1 DEF InRun
    <3>3. gpc[c] \in {"render", "send", "write"}
      BY <2>3, <3>2 DEF Step, GateStep, RunTool, Stamp, Render, SendCheck, SendWrite, InRun
    <3>4. gpc'[c] \in {"send", "write", "out"}
      BY <2>3, <3>2, <3>3 DEF Step, GateStep, RunTool, Stamp, Render, SendCheck,
                              SendWrite, Return, Tools, Control
    <3> QED BY <3>4 DEF InRun, Tools
  <2>4. CASE LauncherReads \/ LauncherCloses \/ Cancel \/ Clock \/ Edit
    <3>1. gpc' = gpc
      BY <2>4 DEF LauncherReads, LauncherCloses, Cancel, Clock, Tick, Edit,
                  EditTemplate, gateVars
    <3> QED BY <3>1 DEF InRun
  <2> QED BY <2>1, <2>2, <2>3, <2>4 DEF HarnessNext
<1> QED BY <1>1, GateInvariance, PTL DEF HarnessSpec, CooldownBetweenRuns

=============================================================================
