---------------------------- MODULE HandlerProofs ----------------------------
(***************************************************************************)
(* Proofs about the handler of one connection, for launchers that send     *)
(* anything, socket buffers of any size and any length of the cooldown:    *)
(* its gate is free whenever the loop is, and the loop implements the      *)
(* promise of one prompt per idle event.                                   *)
(***************************************************************************)
EXTENDS HandlerHarness, SequenceTheorems, TLAPS

-----------------------------------------------------------------------------
(* Streams of frames, whatever the frames are                              *)

IsSeq(s) == \E T : s \in Seq(T)

\* A frame that is written comes after those in flight.
LEMMA FrameAppended ==
  ASSUME NEW s, IsSeq(s), NEW m
  PROVE  /\ IsSeq(Append(s, m))
         /\ Len(Append(s, m)) = Len(s) + 1
         /\ SubSeq(Append(s, m), 1, Len(s)) = s
         /\ Append(s, m)[Len(Append(s, m))] = m
<1>1. PICK T : s \in Seq(T)
  BY DEF IsSeq
<1> DEFINE U == T \cup {m}
           a == Append(s, m)
<1>2. s \in Seq(U)
  BY <1>1
<1>3. /\ a \in Seq(U) /\ Len(a) = Len(s) + 1 /\ Len(s) \in Nat
      /\ a[Len(a)] = m /\ \A i \in 1..Len(s) : a[i] = s[i]
  BY <1>2
<1> HIDE DEF a, U
<1>4. SubSeq(a, 1, Len(s)) = s
  <2> DEFINE p == SubSeq(a, 1, Len(s))
  <2>1. p \in Seq(U) /\ Len(p) = Len(s) /\ \A i \in 1..Len(s) : p[i] = a[i]
    BY <1>3
  <2> HIDE DEF p
  <2>2. \A i \in 1..Len(s) : p[i] = s[i]
    BY <1>3, <2>1
  <2>3. p = s
    BY <1>2, <2>1, <2>2, SeqEqual
  <2> QED BY <2>3 DEF p
<1> QED BY <1>3, <1>4 DEF a, IsSeq

LEMMA FrameTaken ==
  ASSUME NEW s, IsSeq(s), s # <<>>
  PROVE  IsSeq(Tail(s))
BY DEF IsSeq

-----------------------------------------------------------------------------
(* The inductive invariant                                                 *)

\* The loop is in HandleEnforcement exactly while its gate has a caller, and
\* g.running says whether that caller still runs tools.
HandlerInv ==
  /\ hpc \in HandlerPCs
  /\ gpc \in [Callers -> GatePCs]
  /\ hpc = "enforce" <=> gpc["handler"] # "out"
  /\ enforcing <=> InRun("handler")
  /\ IsSeq(up) /\ IsSeq(down)

LEMMA HandlerInvInit == HarnessInit => HandlerInv
<1> SUFFICES ASSUME HarnessInit PROVE HandlerInv
  OBVIOUS
<1>1. hpc = "accept" /\ up = <<>> /\ down = <<>> /\ gpc = [c \in Callers |-> "out"]
  BY DEF HarnessInit, HandlerInit, GateInit, WireInit
<1>2. ~enforcing
  BY DEF HarnessInit, HandlerInit, GateInit
<1>3. IsSeq(<<>>)
  <2>1. <<>> \in Seq({})
    OBVIOUS
  <2> QED BY <2>1 DEF IsSeq
<1>4. gpc["handler"] = "out" /\ gpc \in [Callers -> GatePCs]
  BY <1>1, OneCaller DEF GatePCs
<1>5. ~InRun("handler")
  BY <1>4 DEF InRun, Tools
<1> QED BY <1>1, <1>2, <1>3, <1>4, <1>5 DEF HandlerInv, HandlerPCs

\* The steps of a run up to its stamp, those after it, and the return.
LEMMA RunStep ==
  ASSUME HandlerInv, NEW passed \in BOOLEAN, RunTool("handler", passed)
  PROVE  /\ enforcing' = enforcing /\ gpc' \in [Callers -> GatePCs]
         /\ InRun("handler") /\ InRun("handler")' /\ gpc'["handler"] # "out"
BY OneCaller
DEF HandlerInv, RunTool, InRun, NextTool, GatePCs, Tools

LEMMA StampStep ==
  ASSUME HandlerInv, Stamp("handler")
  PROVE  /\ ~enforcing' /\ gpc' \in [Callers -> GatePCs]
         /\ gpc'["handler"] = "render"
BY OneCaller DEF HandlerInv, Stamp, GatePCs

LEMMA AfterStampStep ==
  ASSUME HandlerInv,
         Render("handler") \/ SendCheck("handler") \/ SendWrite("handler")
  PROVE  /\ enforcing' = enforcing /\ gpc' \in [Callers -> GatePCs]
         /\ ~InRun("handler")
         /\ gpc'["handler"] \in {"send", "write", "out"}
         /\ gpc'["handler"] = "out" => ~Render("handler")
BY OneCaller
DEF HandlerInv, Render, SendCheck, SendWrite, Return, GatePCs, InRun, Tools

\* What the call to HandleEnforcement does to the two streams.
LEMMA EnforceStreams ==
  ASSUME HandlerInv, Enforce
  PROVE  /\ up' = up
         /\ \/ down' = down
            \/ /\ gpc'["handler"] = "out"
               /\ \E m : m.type = "type" /\ down' = Append(down, m)
<1>1. CASE SendWrite("handler")
  <2>1. gpc'["handler"] = "out"
    BY <1>1, OneCaller DEF SendWrite, Return, HandlerInv
  <2>2. CASE DownWrite(NewMessage("type", prompt["handler"]))
    <3> DEFINE m == NewMessage("type", prompt["handler"])
    <3>1. m.type = "type"
      BY DEF NewMessage, Frame
    <3>2. up' = up /\ down' = Append(down, m)
      BY <2>2 DEF DownWrite
    <3> QED BY <2>1, <3>1, <3>2
  <2>3. CASE UNCHANGED wireVars
    BY <2>3 DEF wireVars
  <2> QED BY <1>1, <2>2, <2>3 DEF SendWrite
<1>2. CASE UNCHANGED wireVars
  BY <1>2 DEF wireVars
<1> QED BY <1>1, <1>2 DEF Enforce, GateStep

LEMMA EnforceInv ==
  ASSUME HandlerInv, Enforce
  PROVE  HandlerInv'
<1>1. IsSeq(up') /\ IsSeq(down')
  <2>1. IsSeq(up) /\ IsSeq(down) /\ up' = up
    BY EnforceStreams DEF HandlerInv
  <2>2. CASE down' = down
    BY <2>1, <2>2
  <2>3. ASSUME NEW m, down' = Append(down, m) PROVE IsSeq(down')
    BY <2>1, <2>3, FrameAppended
  <2> QED BY <2>1, <2>2, <2>3, EnforceStreams
<1>2. hpc' \in HandlerPCs /\ (hpc' = "enforce" <=> gpc'["handler"] # "out")
  BY DEF Enforce, HandlerPCs
<1>3. gpc' \in [Callers -> GatePCs] /\ (enforcing' <=> InRun("handler")')
  <2>1. CASE \E passed \in BOOLEAN : RunTool("handler", passed)
    BY <2>1, RunStep DEF HandlerInv
  <2>2. CASE Stamp("handler")
    BY <2>2, StampStep DEF InRun, Tools
  <2>3. CASE Render("handler") \/ SendCheck("handler") \/ SendWrite("handler")
    BY <2>3, AfterStampStep DEF HandlerInv, InRun, Tools
  <2> QED BY <2>1, <2>2, <2>3 DEF Enforce, GateStep
<1> QED BY <1>1, <1>2, <1>3 DEF HandlerInv

LEMMA ReceiveIdleInv ==
  ASSUME HandlerInv, ReceiveIdle
  PROVE  HandlerInv'
<1>1. IsSeq(up') /\ down' = down
  BY FrameTaken DEF HandlerInv, ReceiveIdle, UpRead
<1>2. CASE Skip("handler") /\ hpc' = "loop"
  BY <1>1, <1>2 DEF HandlerInv, Skip, gateVars, HandlerPCs, InRun
<1>3. CASE Enter("handler") /\ hpc' = "enforce"
  <2>1. gpc' \in [Callers -> GatePCs] /\ gpc'["handler"] = "build"
    BY <1>3, OneCaller DEF Enter, HandlerInv, GatePCs, Tools
  <2>2. enforcing' /\ InRun("handler")'
    BY <1>3, <2>1 DEF Enter, InRun, Tools
  <2> QED BY <1>1, <1>3, <2>1, <2>2 DEF HandlerInv, HandlerPCs
<1> QED BY <1>2, <1>3 DEF ReceiveIdle

\* The other steps of the loop, and those of everybody else.
LEMMA LoopInv ==
  ASSUME HandlerInv, Accept \/ LoopCheck \/ Disconnected \/ ReceiveOther \/ Close
  PROVE  HandlerInv'
<1>1. gpc' = gpc /\ enforcing' = enforcing /\ down' = down
  BY DEF Accept, LoopCheck, Disconnected, ReceiveOther, Close, gateVars, wireVars, UpRead
<1>2. IsSeq(up')
  BY FrameTaken
  DEF HandlerInv, Accept, LoopCheck, Disconnected, ReceiveOther, Close, wireVars, UpRead
<1>3. hpc # "enforce" /\ hpc' \in HandlerPCs \ {"enforce"}
  BY DEF Accept, LoopCheck, Disconnected, ReceiveOther, Close, HandlerPCs
<1> QED BY <1>1, <1>2, <1>3 DEF HandlerInv, InRun

LEMMA EnvironmentInv ==
  ASSUME HandlerInv,
         \/ CancelBackend \/ Clock \/ EditPrompts
         \/ LauncherDials \/ LauncherSends \/ LauncherReads \/ LauncherCloses
  PROVE  HandlerInv'
<1>1. hpc' = hpc /\ gpc' = gpc /\ enforcing' = enforcing
  BY DEF CancelBackend, Clock, EditPrompts, LauncherDials, LauncherSends,
         LauncherReads, LauncherCloses, handlerVars, gateVars, Tick, EditTemplate
<1>2. IsSeq(up') /\ IsSeq(down')
  BY FrameAppended, FrameTaken
  DEF HandlerInv, CancelBackend, Clock, EditPrompts, LauncherDials, LauncherSends,
      LauncherReads, LauncherCloses, Dial, UpWrite, DownRead, wireVars
<1> QED BY <1>1, <1>2 DEF HandlerInv, InRun

\* Loop, gate and streams agree in every state.
THEOREM HandlerInvariance == HarnessSpec => []HandlerInv
<1>1. HandlerInv /\ [HarnessNext]_harnessVars => HandlerInv'
  <2> SUFFICES ASSUME HandlerInv, [HarnessNext]_harnessVars PROVE HandlerInv'
    OBVIOUS
  <2>1. CASE UNCHANGED harnessVars
    BY <2>1 DEF harnessVars, handlerVars, gateVars, wireVars, HandlerInv, InRun
  <2> QED BY <2>1, EnforceInv, ReceiveIdleInv, LoopInv, EnvironmentInv
          DEF HarnessNext, HandlerStep
<1> QED BY <1>1, HandlerInvInit, PTL DEF HarnessSpec

\* Outside HandleEnforcement the gate is free: no failed run, send or tool
\* leaves it locked against the next idle event.
THEOREM GateIsFree == HarnessSpec => []GateFreeOutsideRun
<1>1. HandlerInv => GateFreeOutsideRun
  BY DEF HandlerInv, GateFreeOutsideRun, InRun, Tools
<1> QED BY <1>1, HandlerInvariance, PTL

-----------------------------------------------------------------------------
(* The loop implements the promise                                         *)

\* Phase of the promise, as the instance maps it.
Phase ==
  CASE hpc = "enforce" -> "owing"
    [] hpc \in {"close", "done"} -> "ended"
    [] OTHER -> "listening"

LEMMA PhaseKept ==
  ASSUME UNCHANGED handlerVars
  PROVE  Phase' = Phase
BY DEF handlerVars, Phase

\* The frames the launcher sends and takes.
LEMMA LauncherPromise ==
  ASSUME HandlerInv, LauncherSends \/ LauncherReads
  PROVE  Promise!Launcher
<1>1. Phase' = Phase
  <2>1. LauncherSends => UNCHANGED handlerVars
    BY ZenonT(30) DEF LauncherSends
  <2>2. LauncherReads => UNCHANGED handlerVars
    BY ZenonT(30) DEF LauncherReads
  <2> QED BY <2>1, <2>2, PhaseKept
<1>2. CASE LauncherSends
  <2>1. PICK m \in Frames : UpWrite(m)
    BY <1>2 DEF LauncherSends
  <2>2. up' = Append(up, m) /\ down' = down
    BY <2>1 DEF UpWrite
  <2>3. Len(up') = Len(up) + 1 /\ SubSeq(up', 1, Len(up)) = up
    BY <2>2, FrameAppended DEF HandlerInv
  <2> QED BY <1>1, <2>2, <2>3 DEF Promise!Launcher, Phase
<1>3. CASE LauncherReads
  BY <1>1, <1>3 DEF LauncherReads, DownRead, Promise!Launcher, Phase
<1> QED BY <1>2, <1>3

\* An idle frame is refused or leaves one prompt owed; other frames end the
\* loop or do nothing.
LEMMA ReceivePromise ==
  ASSUME HandlerInv, HandlerInv'
  PROVE  /\ ReceiveIdle => Promise!TakeIdle
         /\ ReceiveOther => Promise!TakeOther
<1>1. ASSUME ReceiveIdle PROVE Promise!TakeIdle
  <2>1. hpc = "recv" /\ hpc' \in {"loop", "enforce"}
    BY <1>1 DEF ReceiveIdle
  <2>2. Phase = "listening" /\ Phase' \in {"listening", "owing"}
    BY <2>1 DEF Phase
  <2>3. up # <<>> /\ Head(up).type = "idle" /\ up' = Tail(up) /\ down' = down
    BY <1>1 DEF ReceiveIdle, UpRead
  <2> QED BY <2>2, <2>3 DEF Promise!TakeIdle, Phase
<1>2. ASSUME ReceiveOther PROVE Promise!TakeOther
  <2>1. hpc = "recv" /\ hpc' \in {"loop", "close"}
    BY <1>2 DEF ReceiveOther
  <2>2. Phase = "listening" /\ Phase' \in {"listening", "ended"}
    BY <2>1 DEF Phase
  <2>3. up # <<>> /\ Head(up).type # "idle" /\ up' = Tail(up) /\ down' = down
    BY <1>2 DEF ReceiveOther, UpRead
  <2> QED BY <2>2, <2>3 DEF Promise!TakeOther, Phase
<1> QED BY <1>1, <1>2

\* The return from HandleEnforcement settles the debt, with one prompt or
\* none; until then the streams stand still.
LEMMA EnforcePromise ==
  ASSUME HandlerInv, Enforce
  PROVE  Promise!Settle \/ UNCHANGED <<up, down, Phase>>
<1>1. hpc = "enforce" /\ Phase = "owing"
  BY DEF Enforce, Phase
<1>2. up' = up
  BY EnforceStreams
<1>3. CASE gpc'["handler"] = "out"
  <2>1. hpc' = "loop" /\ Phase' = "listening"
    BY <1>3 DEF Enforce, Phase
  <2>2. \/ down' = down
        \/ /\ Len(down') = Len(down) + 1
           /\ SubSeq(down', 1, Len(down)) = down
           /\ down'[Len(down')].type = "type"
    <3>1. ASSUME NEW m, m.type = "type", down' = Append(down, m)
          PROVE  /\ Len(down') = Len(down) + 1
                 /\ SubSeq(down', 1, Len(down)) = down
                 /\ down'[Len(down')].type = "type"
      BY <3>1, FrameAppended DEF HandlerInv
    <3> QED BY <3>1, EnforceStreams
  <2> QED BY <1>1, <1>2, <2>1, <2>2 DEF Promise!Settle, Phase
<1>4. CASE gpc'["handler"] # "out"
  <2>1. hpc' = "enforce" /\ down' = down
    BY <1>4, EnforceStreams DEF Enforce
  <2> QED BY <1>1, <1>2, <2>1 DEF Phase
<1> QED BY <1>3, <1>4

\* The loop ends, or moves without the launcher noticing.
LEMMA LoopPromise ==
  ASSUME HandlerInv, Accept \/ LoopCheck \/ Disconnected \/ Close
  PROVE  Promise!End \/ UNCHANGED <<up, down, Phase>>
<1>1. UNCHANGED <<up, down>>
  BY DEF Accept, LoopCheck, Disconnected, Close, wireVars
<1>2. CASE hpc' = "close"
  <2>1. hpc \in {"loop", "recv"}
    BY <1>2 DEF Accept, LoopCheck, Disconnected, Close
  <2>2. Phase = "listening" /\ Phase' = "ended"
    BY <1>2, <2>1 DEF Phase
  <2> QED BY <1>1, <2>2 DEF Promise!End, Phase
<1>3. CASE hpc' # "close"
  <2>1. \/ hpc \in {"accept", "loop"} /\ hpc' \in {"loop", "recv"}
        \/ hpc = "close" /\ hpc' = "done"
    BY <1>3 DEF Accept, LoopCheck, Disconnected, Close
  <2> QED BY <1>1, <2>1 DEF Phase
<1> QED BY <1>2, <1>3

\* HandleLauncher implements the promise of EnforcementLoop: at most one
\* prompt per idle event, none without one, and nothing after the end.
THEOREM HandlerKeepsPromise == HarnessSpec => ImplementsPromise
<1>1. HarnessInit => Promise!Init
  BY DEF HarnessInit, WireInit, HandlerInit, Promise!Init
<1>2. HandlerInv /\ HandlerInv' /\ [HarnessNext]_harnessVars
        => [Promise!Next]_Promise!loopVars
  <2> SUFFICES ASSUME HandlerInv, HandlerInv', [HarnessNext]_harnessVars
               PROVE  Promise!Next \/ UNCHANGED <<up, down, Phase>>
    BY DEF Promise!loopVars, Phase
  <2>1. CASE \/ UNCHANGED harnessVars \/ CancelBackend \/ Clock \/ EditPrompts
             \/ LauncherDials \/ LauncherCloses
    <3>1. hpc' = hpc /\ UNCHANGED <<up, down>>
      BY <2>1 DEF harnessVars, CancelBackend, Clock, EditPrompts, LauncherDials,
                  LauncherCloses, Dial, handlerVars, wireVars
    <3> QED BY <3>1 DEF Phase
  <2>2. CASE LauncherSends \/ LauncherReads
    BY <2>2, LauncherPromise DEF Promise!Next
  <2>3. CASE ReceiveIdle \/ ReceiveOther
    BY <2>3, ReceivePromise DEF Promise!Next
  <2>4. CASE Enforce
    BY <2>4, EnforcePromise DEF Promise!Next
  <2>5. CASE Accept \/ LoopCheck \/ Disconnected \/ Close
    BY <2>5, LoopPromise DEF Promise!Next
  <2> QED BY <2>1, <2>2, <2>3, <2>4, <2>5 DEF HarnessNext, HandlerStep
<1> QED BY <1>1, <1>2, HandlerInvariance, PTL
        DEF HarnessSpec, ImplementsPromise, Promise!Spec

=============================================================================
