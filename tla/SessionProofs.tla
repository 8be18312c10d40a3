----------------------------- MODULE SessionProofs -----------------------------
(***************************************************************************)
(* Proofs about a whole session, for buffers of any size, any cooldown and *)
(* any faults.  What LauncherProofs shows of the launcher against any      *)
(* backend holds here because a step of this backend is a BackendStep; the *)
(* data of the handler's gate is that of GateData; what is new is the wire *)
(* between the two, and why a handler hangs up.  (The frames of the harness*)
(* backend, BackendFrames, play no role.)                                  *)
(***************************************************************************)
EXTENDS Session, LauncherProofs, GateData

-----------------------------------------------------------------------------
(* The inductive invariant                                                 *)

\* The only frames this backend sends.
PromptFrames == [type : {"type"}, decodes : {TRUE}, text : Texts]

\* The handler's loop and its gate.
BackendInv ==
  /\ hpc \in HandlerPCs
  /\ bctx \in BOOLEAN
  /\ enforcing \in BOOLEAN
  /\ since \in 0..Cooldown
  /\ Data

WireInv ==
  /\ Len(up) <= UpCap
  /\ down \in Seq(PromptFrames)
  /\ bclosed => hpc = "done"

SessionInv == LauncherInv /\ BackendInv /\ WireInv /\ HandlerEndsForCause

\* The causes that HandlerEndsForCause names.
Cause == ~Up \/ lclosed \/ bctx \/ lmain = "finish"

LEMMA BackendInvInit ==
  ASSUME HandlerInit, templates = ShippedPrompts
  PROVE  BackendInv
<1>1. /\ hpc = "accept" /\ since = Cooldown
      /\ gpc = [c \in Callers |-> "out"]
      /\ results = [c \in Callers |-> <<>>]
      /\ prompt = [c \in Callers |-> NoText]
  BY DEF HandlerInit, GateInit
<1>2. bctx \in BOOLEAN /\ enforcing \in BOOLEAN
  BY Zenon DEF HandlerInit, GateInit
<1>3. templates \in [Names -> TemplateStates]
  BY DEF HandlerInit, GateInit
<1>4. <<>> \in Seq(ToolResult) /\ NoText \in Texts
  BY DEF NoText, Texts, Text, Names
<1>5. DataTypes
  BY <1>1, <1>3, <1>4 DEF DataTypes, GatePCs
<1>6. \A c \in Callers : Fits(c)
  BY <1>1 DEF Fits, ResultsSoFar
<1> QED BY <1>1, <1>2, <1>5, <1>6, CooldownAssumption
        DEF BackendInv, Data, HandlerPCs

LEMMA SessionInvInit == SessionInit => SessionInv
<1> SUFFICES ASSUME SessionInit PROVE SessionInv
  OBVIOUS
<1>1. LauncherInv
  BY LauncherInvInit DEF SessionInit
<1>2. BackendInv
  BY BackendInvInit DEF SessionInit
<1>3. up = <<>> /\ down = <<>> /\ ~bclosed
  BY DEF SessionInit, WireInit
<1>4. WireInv
  BY <1>3, SockCapAssumption DEF WireInv
<1>5. HandlerEndsForCause
  BY DEF SessionInit, HandlerInit, HandlerEndsForCause
<1> QED BY <1>1, <1>2, <1>4, <1>5 DEF SessionInv

-----------------------------------------------------------------------------
(* The backend                                                             *)

\* A step of this backend is one that the launcher's proofs allow for.
LEMMA HandlerIsBackend ==
  ASSUME BackendMoves \/ BackendStops \/ TimePasses \/ UNCHANGED sessionVars
  PROVE  BackendStep
<1>1. UNCHANGED launcherVars
  BY DEF BackendMoves, BackendStops, TimePasses, sessionVars
<1>2. CASE HandlerStep
  BY <1>1, <1>2
  DEF HandlerStep, Accept, LoopCheck, Disconnected, ReceiveOther, ReceiveIdle,
      Enforce, GateStep, SendWrite, DownWrite, UpRead, Close, wireVars,
      UpBroken, BackendStep
<1>3. CASE UNCHANGED wireVars
  BY <1>1, <1>3 DEF wireVars, UpBroken, BackendStep
<1> QED BY <1>2, <1>3
        DEF BackendMoves, BackendStops, CancelBackend, TimePasses, Clock, sessionVars

\* The loop and its gate stay well formed.
LEMMA EnforceKeepsData ==
  ASSUME BackendInv, Enforce
  PROVE  Data' /\ enforcing' \in BOOLEAN /\ since' \in 0..Cooldown
<1> DEFINE h == "handler"
<1>1. h \in Callers
  BY OneCaller
<1>2. Data /\ enforcing \in BOOLEAN /\ since \in 0..Cooldown
  BY DEF BackendInv
<1>3. CASE \E passed \in BOOLEAN : RunTool(h, passed)
  <2>1. Data'
    BY <1>1, <1>2, <1>3, DataRunTool
  <2> QED BY <1>2, <1>3, <2>1 DEF RunTool
<1>4. CASE Stamp(h)
  <2>1. Data'
    BY <1>1, <1>2, <1>4, DataStamp
  <2>2. since' = 0
    BY <1>4 DEF Stamp
  <2>3. enforcing' \in BOOLEAN
    BY <1>4, Zenon DEF Stamp
  <2> QED BY <2>1, <2>2, <2>3, CooldownAssumption
<1>5. CASE Render(h)
  <2>1. Data'
    BY <1>1, <1>2, <1>5, DataRender
  <2> QED BY <1>2, <1>5, <2>1 DEF Render
<1>6. CASE SendCheck(h)
  <2>1. Data'
    BY <1>1, <1>2, <1>6, DataSendCheck
  <2> QED BY <1>2, <1>6, <2>1 DEF SendCheck
<1>7. CASE SendWrite(h)
  <2>1. Data'
    BY <1>1, <1>2, <1>7, DataReturn DEF SendWrite
  <2> QED BY <1>2, <1>7, <2>1 DEF SendWrite
<1> QED BY <1>3, <1>4, <1>5, <1>6, <1>7 DEF Enforce, GateStep

LEMMA HandlerKeepsInv ==
  ASSUME BackendInv, HandlerStep
  PROVE  BackendInv'
<1>1. hpc' \in HandlerPCs /\ bctx' = bctx
  BY DEF HandlerStep, Accept, LoopCheck, Disconnected, ReceiveOther, ReceiveIdle,
         Enforce, Close, HandlerPCs
<1>2. CASE UNCHANGED gateVars
  <2>1. UNCHANGED <<enforcing, since, gpc, results, prompt, templates>>
    BY <1>2 DEF gateVars
  <2>2. Data'
    BY <2>1, DataEdit DEF BackendInv, Data, DataTypes
  <2> QED BY <1>1, <2>1, <2>2 DEF BackendInv
<1>3. CASE Enter("handler")
  <2>1. Data'
    BY <1>3, OneCaller, DataEnter DEF BackendInv
  <2>2. enforcing' \in BOOLEAN
    BY <1>3, Zenon DEF Enter
  <2>3. since' = since
    BY <1>3 DEF Enter
  <2> QED BY <1>1, <2>1, <2>2, <2>3 DEF BackendInv
<1>4. CASE Enforce
  BY <1>1, <1>4, EnforceKeepsData DEF BackendInv
<1> QED BY <1>2, <1>3, <1>4
        DEF HandlerStep, Accept, LoopCheck, Disconnected, ReceiveOther, ReceiveIdle,
            Close, Skip

LEMMA BackendKeepsInv ==
  ASSUME BackendInv,
         HandlerStep \/ CancelBackend \/ Clock \/ UNCHANGED <<handlerVars, bctx>>
  PROVE  BackendInv'
<1>1. CASE CancelBackend \/ UNCHANGED <<handlerVars, bctx>>
  <2>1. UNCHANGED <<hpc, enforcing, since, gpc, results, prompt, templates>>
    BY <1>1 DEF CancelBackend, handlerVars, gateVars
  <2>2. Data'
    BY <2>1, DataEdit DEF BackendInv, Data, DataTypes
  <2>3. bctx' \in BOOLEAN
    BY <1>1, Zenon DEF CancelBackend, BackendInv
  <2> QED BY <2>1, <2>2, <2>3 DEF BackendInv
<1>2. CASE Clock
  <2>1. /\ UNCHANGED <<hpc, bctx, enforcing, gpc, results, prompt, templates>>
        /\ since < Cooldown /\ since' = since + 1
    BY <1>2 DEF Clock, Tick
  <2>2. Data'
    BY <2>1, DataEdit DEF BackendInv, Data, DataTypes
  <2>3. since' \in 0..Cooldown
    BY <2>1, CooldownAssumption DEF BackendInv
  <2> QED BY <2>1, <2>2, <2>3 DEF BackendInv
<1> QED BY <1>1, <1>2, HandlerKeepsInv

-----------------------------------------------------------------------------
(* The wire                                                                *)

\* A step of the launcher: it appends to one stream while there is room, takes
\* from the other, and never reopens what is closed.
LauncherOnWire ==
  /\ up' = up \/ (Len(up) < UpCap /\ \E m : up' = Append(up, m))
  /\ down' = down \/ (down # <<>> /\ down' = Tail(down))
  /\ up' = up \/ down' = down
  /\ bclosed' = bclosed
  /\ lclosed => lclosed'

LEMMA StillOnWire ==
  ASSUME UNCHANGED <<up, down, bclosed>>, lclosed => lclosed'
  PROVE  LauncherOnWire
BY DEF LauncherOnWire

LEMMA WriteOnWire ==
  ASSUME NEW m, UpWrite(m) \/ UNCHANGED wireVars
  PROVE  LauncherOnWire
BY DEF UpWrite, wireVars, LauncherOnWire

LEMMA LauncherWrites ==
  ASSUME LauncherStep \/ \E f \in Faults : LauncherFault(f)
  PROVE  LauncherOnWire
<1>1. CASE Main
  <2>1. CASE MainStarted \/ MainShutdown \/ MainExited
    BY <2>1, WriteOnWire
    DEF MainStarted, MainShutdown, MainExited, MainSendCheck, MainSendWrite
  <2>2. CASE ~(MainStarted \/ MainShutdown \/ MainExited)
    <3>1. UNCHANGED <<up, down, bclosed>> /\ (lclosed => lclosed')
      BY <1>1, <2>2
      DEF Main, MainConnect, Dial, MainSpawn, MainNotify, MainStartIdle,
          MainStartPipes, MainFirstPipe, MainStopIdle, MainSecondPipe,
          MainWaitProc, MainFinish, wireVars
    <3> QED BY <3>1, StillOnWire
  <2> QED BY <2>1, <2>2
<1>2. CASE P2b
  <2>1. CASE P2bSendWrite
    BY <2>1, WriteOnWire DEF P2bSendWrite
  <2>2. CASE ~P2bSendWrite
    <3>1. UNCHANGED wireVars
      BY <1>2, <2>2, Zenon
      DEF P2b, P2bCheck, P2bRead, P2bEof, P2bReset, P2bSendCheck, wireVars
    <3> QED BY <3>1, StillOnWire DEF wireVars
  <2> QED BY <2>1, <2>2
<1>3. CASE B2p
  <2>1. CASE B2pReceive
    BY <2>1 DEF B2pReceive, DownRead, LauncherOnWire
  <2>2. CASE ~B2pReceive
    BY <1>3, <2>2, StillOnWire
    DEF B2p, B2pCheck, B2pDisconnected, B2pType, B2pWrite, wireVars
  <2> QED BY <2>1, <2>2
<1>4. CASE Idle
  <2>1. CASE IdleSendWrite
    BY <2>1, WriteOnWire DEF IdleSendWrite
  <2>2. CASE ~IdleSendWrite
    BY <1>4, <2>2, StillOnWire
    DEF Idle, IdleExpires, IdleFire, IdleSendCheck, wireVars
  <2> QED BY <2>1, <2>2
<1>5. CASE Sig \/ SignalArrives \/ LauncherKilled
  BY <1>5, StillOnWire
  DEF Sig, SigCancel, SigClose, SignalArrives, LauncherKilled, wireVars
<1>6. CASE Client
  BY <1>6, StillOnWire DEF Client, wireVars
<1> QED BY <1>1, <1>2, <1>3, <1>4, <1>5, <1>6 DEF LauncherStep, LauncherFault

LEMMA LauncherKeepsWire ==
  ASSUME LauncherInv, WireInv, LauncherOnWire, hpc' = hpc
  PROVE  WireInv'
<1>1. up \in Seq(UpFrames)
  BY DEF LauncherInv, FrameInv
<1>2. Len(up') <= UpCap
  <2>1. CASE up' = up
    BY <2>1 DEF WireInv
  <2>2. ASSUME NEW m, up' = Append(up, m), Len(up) < UpCap PROVE Len(up') <= UpCap
    <3>1. up \in Seq(UpFrames \cup {m})
      BY <1>1
    <3>2. Len(up') = Len(up) + 1 /\ Len(up) \in Nat
      BY <2>2, <3>1
    <3> QED BY <2>2, <3>2, SockCapAssumption
  <2> QED BY <2>1, <2>2 DEF LauncherOnWire
<1>3. down' \in Seq(PromptFrames)
  BY DEF LauncherOnWire, WireInv
<1> QED BY <1>2, <1>3 DEF LauncherOnWire, WireInv

\* The handler takes frames, sends prompts, and closes when it is done.
LEMMA HandlerKeepsWire ==
  ASSUME LauncherInv, BackendInv, WireInv, HandlerStep
  PROVE  WireInv'
<1>1. CASE ReceiveOther \/ ReceiveIdle
  <2>1. /\ up # <<>> /\ up' = Tail(up) /\ down' = down /\ bclosed' = bclosed
        /\ hpc = "recv"
    BY <1>1 DEF ReceiveOther, ReceiveIdle, UpRead
  <2>2. up \in Seq(UpFrames)
    BY DEF LauncherInv, FrameInv
  <2>3. Len(up') = Len(up) - 1 /\ Len(up) \in Nat
    BY <2>1, <2>2
  <2> QED BY <2>1, <2>3, SockCapAssumption DEF WireInv
<1>2. CASE Enforce
  <2>1. hpc = "enforce" /\ ~bclosed
    BY <1>2 DEF Enforce, WireInv
  <2>2. CASE DownWrite(NewMessage("type", prompt["handler"]))
    <3>1. prompt["handler"] \in Texts
      BY OneCaller DEF BackendInv, Data, DataTypes
    <3>2. NewMessage("type", prompt["handler"]) \in PromptFrames
      BY <3>1 DEF NewMessage, Frame, PromptFrames
    <3> QED BY <2>1, <2>2, <3>2 DEF DownWrite, WireInv
  <2>3. CASE UNCHANGED wireVars
    BY <2>1, <2>3 DEF WireInv, wireVars
  <2> QED BY <1>2, <2>2, <2>3 DEF Enforce, GateStep, SendWrite
<1>3. CASE Close
  BY <1>3 DEF Close, WireInv
<1>4. CASE Accept \/ LoopCheck \/ Disconnected
  BY <1>4 DEF Accept, LoopCheck, Disconnected, WireInv, wireVars
<1> QED BY <1>1, <1>2, <1>3, <1>4 DEF HandlerStep

-----------------------------------------------------------------------------
(* Why a handler hangs up                                                  *)

\* The loop ends for the context, for a connection the launcher closed, and
\* for an exited frame, which main sends last.
LEMMA HandlerEnds ==
  ASSUME LauncherInv, WireInv, HandlerStep,
         hpc' \in {"close", "done"}, hpc \notin {"close", "done"}
  PROVE  Cause
<1>1. CASE LoopCheck
  BY <1>1 DEF LoopCheck, Cause
<1>2. CASE Disconnected
  BY <1>2 DEF Disconnected, UpEnded, WireInv, Cause
<1>3. CASE ReceiveOther
  <2>1. up # <<>> /\ Head(up).type \in {"corrupt", "exited"}
    BY <1>3 DEF ReceiveOther, Ends
  <2>2. up \in Seq(UpFrames)
    BY DEF LauncherInv, FrameInv
  <2>3. 1 \in DOMAIN up /\ Head(up) = up[1] /\ up[1] \in UpFrames
    BY <2>1, <2>2
  <2>4. up[1].type = "exited"
    BY <2>1, <2>3 DEF UpFrames, UpKinds
  <2>5. HasExited
    BY <2>3, <2>4 DEF HasExited
  <2> QED BY <2>5 DEF LauncherInv, FrameInv, Cause, Up
<1> QED BY <1>1, <1>2, <1>3
        DEF HandlerStep, Accept, ReceiveIdle, Enforce, Close

\* A cause does not go away: nobody reopens the connection or restores the
\* context, and after finish the process is gone.
LEMMA CauseStaysHandler ==
  ASSUME Cause, BackendStep, lclosed => lclosed', bctx => bctx'
  PROVE  Cause'
BY DEF Cause, BackendStep, launcherVars, mainVars, Up

LEMMA CauseStaysLauncher ==
  ASSUME Cause, bctx' = bctx, LauncherStep \/ \E f \in Faults : LauncherFault(f)
  PROVE  Cause'
<1>1. Up /\ (lclosed => lclosed')
  BY LauncherWrites DEF LauncherStep, LauncherFault, LauncherOnWire
<1>2. lmain = "finish" => lmain' \in {"finish", "exit"}
  <2> SUFFICES ASSUME lmain = "finish" PROVE lmain' \in {"finish", "exit"}
    OBVIOUS
  <2>1. CASE Main
    BY <2>1
    DEF Main, MainConnect, MainSpawn, MainNotify, MainStarted, MainStartIdle,
        MainStartPipes, MainFirstPipe, MainStopIdle, MainShutdown, MainSecondPipe,
        MainWaitProc, MainExited, MainSendCheck, MainSendWrite, MainFinish, Gone
  <2>2. CASE P2b \/ B2p \/ Idle \/ Client
    BY <2>2
    DEF P2b, P2bCheck, P2bRead, P2bEof, P2bReset, P2bSendCheck, P2bSendWrite,
        B2p, B2pCheck, B2pReceive, B2pDisconnected, B2pType, B2pWrite,
        Idle, IdleExpires, IdleFire, IdleSendCheck, IdleSendWrite, Client, mainVars
  <2>3. CASE Sig \/ SignalArrives \/ LauncherKilled
    BY <2>3
    DEF Sig, SigCancel, SigClose, SignalArrives, LauncherKilled, Gone, mainVars
  <2> QED BY <2>1, <2>2, <2>3 DEF LauncherStep, LauncherFault
<1> QED BY <1>1, <1>2 DEF Cause, Up

-----------------------------------------------------------------------------
(* The session                                                             *)

LEMMA SessionInvInductive == SessionInv /\ [SessionNext]_sessionVars => SessionInv'
<1> SUFFICES ASSUME SessionInv, [SessionNext]_sessionVars PROVE SessionInv'
  OBVIOUS
<1>1. LauncherInv /\ BackendInv /\ WireInv
  BY DEF SessionInv
<1>2. hpc \in {"close", "done"} => Cause
  BY DEF SessionInv, HandlerEndsForCause, Cause
<1>3. (hpc' \in {"close", "done"} => Cause') => HandlerEndsForCause'
  BY DEF HandlerEndsForCause, Cause
<1>4. CASE LauncherMoves \/ LauncherFaults
  <2>1. /\ LauncherStep \/ \E f \in Faults : LauncherFault(f)
        /\ UNCHANGED <<handlerVars, bctx>> /\ hpc' = hpc
    BY <1>4 DEF LauncherMoves, LauncherFaults, handlerVars
  <2>2. LauncherInv'
    BY <1>1, <2>1, LauncherInvInductive
  <2>3. BackendInv'
    BY <1>1, <2>1, BackendKeepsInv
  <2>4. WireInv'
    BY <1>1, <2>1, LauncherWrites, LauncherKeepsWire
  <2>5. HandlerEndsForCause'
    BY <1>2, <1>3, <2>1, CauseStaysLauncher
  <2> QED BY <2>2, <2>3, <2>4, <2>5 DEF SessionInv
<1>5. CASE BackendMoves \/ BackendStops \/ TimePasses \/ UNCHANGED sessionVars
  <2>1. BackendStep
    BY <1>5, HandlerIsBackend
  <2>2. LauncherInv'
    BY <1>1, <2>1, LauncherInvInductive
  <2>3. BackendInv'
    BY <1>1, <1>5, BackendKeepsInv
    DEF BackendMoves, BackendStops, TimePasses, sessionVars
  <2>4. CASE HandlerStep
    <3>1. WireInv'
      BY <1>1, <2>4, HandlerKeepsWire
    <3>2. (lclosed => lclosed') /\ bctx' = bctx
      BY <2>4
      DEF HandlerStep, Accept, LoopCheck, Disconnected, ReceiveOther, ReceiveIdle,
          Enforce, GateStep, SendWrite, DownWrite, UpRead, Close, wireVars
    <3>3. hpc' \in {"close", "done"} => Cause
      BY <1>1, <1>2, <2>4, HandlerEnds
    <3>4. HandlerEndsForCause'
      BY <1>3, <2>1, <3>2, <3>3, CauseStaysHandler
    <3> QED BY <2>2, <2>3, <3>1, <3>4 DEF SessionInv
  <2>5. CASE BackendStops \/ TimePasses \/ UNCHANGED sessionVars
    <3>1. UNCHANGED <<wireVars, hpc>> /\ (bctx => bctx')
      BY <2>5 DEF BackendStops, CancelBackend, TimePasses, Clock, sessionVars,
                  handlerVars
    <3>2. WireInv'
      BY <1>1, <3>1 DEF WireInv, wireVars
    <3>3. HandlerEndsForCause'
      BY <1>2, <1>3, <2>1, <3>1, CauseStaysHandler DEF wireVars
    <3> QED BY <2>2, <2>3, <3>2, <3>3 DEF SessionInv
  <2> QED BY <1>5, <2>4, <2>5 DEF BackendMoves
<1> QED BY <1>4, <1>5 DEF SessionNext, SessionOver

\* Launcher, handler, gate and wire agree in every state of a session.
THEOREM SessionInvariance == SessionSpec => []SessionInv
BY SessionInvInit, SessionInvInductive, PTL DEF SessionSpec

\* The two processes and the frames between them are type correct, and the
\* socket buffer is respected.
THEOREM SessionIsTyped == SessionSpec => []SessionTypeOK
<1>1. SessionInv => SessionTypeOK
  <2> SUFFICES ASSUME SessionInv PROVE SessionTypeOK
    OBVIOUS
  <2>1. LauncherTypeOK /\ HandlerTypeOK
    BY DEF SessionInv, LauncherInv, BackendInv, Data, DataTypes, HandlerTypeOK, GateTypeOK
  <2>2. up \in Seq(UpFrames) /\ down \in Seq(PromptFrames) /\ Len(up) <= UpCap
    BY DEF SessionInv, LauncherInv, FrameInv, WireInv
  <2>3. \A i \in DOMAIN up : up[i].type \in UpKinds
    <3> TAKE i \in DOMAIN up
    <3>1. up[i] \in UpFrames
      BY <2>2
    <3> QED BY <3>1 DEF UpFrames
  <2>4. \A i \in DOMAIN down : down[i].type = "type" /\ down[i].text \in Texts
    <3> TAKE i \in DOMAIN down
    <3>1. down[i] \in PromptFrames
      BY <2>2
    <3> QED BY <3>1 DEF PromptFrames
  <2> QED BY <2>1, <2>2, <2>3, <2>4 DEF SessionTypeOK
<1> QED BY <1>1, SessionInvariance, PTL

\* HandleLauncher hangs up only on a launcher that has closed, has announced
\* its client's exit or is gone, or when the backend shuts down.
THEOREM HandlerLeavesForCause == SessionSpec => []HandlerEndsForCause
<1>1. SessionInv => HandlerEndsForCause
  BY DEF SessionInv
<1> QED BY <1>1, SessionInvariance, PTL

\* The launcher's promises hold in the session with the real backend: its
\* frames are in order, and exited comes after all output.
THEOREM SessionKeepsFrameOrder == SessionSpec => FrameOrder /\ []ExitedAfterAllOutput
<1>1. SessionInv => ExitedAfterAllOutput
  BY LauncherInvSuffices DEF SessionInv
<1>2. SessionInv /\ [SessionNext]_sessionVars => [SentInOrder]_harnessVars
  <2> SUFFICES ASSUME SessionInv, [SessionNext]_sessionVars PROVE SentInOrder
    OBVIOUS
  <2>1. LauncherInv
    BY DEF SessionInv
  <2>2. CASE LauncherMoves \/ LauncherFaults
    BY <2>1, <2>2, StepsSendInOrder DEF LauncherMoves, LauncherFaults
  <2>3. CASE BackendMoves \/ BackendStops \/ TimePasses \/ UNCHANGED sessionVars
    BY <2>1, <2>3, HandlerIsBackend, StepsSendInOrder
  <2> QED BY <2>2, <2>3 DEF SessionNext, SessionOver
<1> QED BY <1>1, <1>2, SessionInvariance, PTL DEF SessionSpec, FrameOrder

\* The prompt a handler is about to send is the one its own run calls for.
THEOREM SessionPromptIsRight == SessionSpec => []PromptMatchesRun
<1>1. SessionInv => PromptMatchesRun
  BY DEF SessionInv, BackendInv, Data, Fits, PromptFits, PromptMatchesRun
<1> QED BY <1>1, SessionInvariance, PTL

-----------------------------------------------------------------------------
(* The promise of one prompt per idle event, kept by the whole session     *)

Phase ==
  CASE hpc = "enforce" -> "owing"
    [] hpc \in {"close", "done"} -> "ended"
    [] OTHER -> "listening"

Promise == INSTANCE EnforcementLoop WITH phase <- Phase

\* A frame that is written comes after those in flight.
LEMMA FrameIsLast ==
  ASSUME NEW T, NEW s \in Seq(T), NEW m
  PROVE  /\ Len(Append(s, m)) = Len(s) + 1
         /\ SubSeq(Append(s, m), 1, Len(s)) = s
         /\ Append(s, m)[Len(Append(s, m))] = m
<1> DEFINE U == T \cup {m}
           a == Append(s, m)
<1>1. s \in Seq(U)
  OBVIOUS
<1>2. /\ a \in Seq(U) /\ Len(a) = Len(s) + 1 /\ Len(s) \in Nat
      /\ a[Len(a)] = m /\ \A i \in 1..Len(s) : a[i] = s[i]
  BY <1>1
<1> HIDE DEF a, U
<1>3. SubSeq(a, 1, Len(s)) = s
  <2> DEFINE p == SubSeq(a, 1, Len(s))
  <2>1. p \in Seq(U) /\ Len(p) = Len(s) /\ \A i \in 1..Len(s) : p[i] = a[i]
    BY <1>2
  <2> HIDE DEF p
  <2>2. p = s
    BY <1>1, <1>2, <2>1, SeqEqual
  <2> QED BY <2>2 DEF p
<1> QED BY <1>2, <1>3 DEF a

\* The launcher sends frames or takes prompts.
LEMMA LauncherPromise ==
  ASSUME LauncherInv, LauncherOnWire, UNCHANGED handlerVars
  PROVE  Promise!Launcher \/ UNCHANGED <<up, down, Phase>>
<1>1. Phase' = Phase
  BY DEF handlerVars, Phase
<1>2. CASE up' # up
  <2>1. PICK m : up' = Append(up, m)
    BY <1>2 DEF LauncherOnWire
  <2>2. up \in Seq(UpFrames)
    BY DEF LauncherInv, FrameInv
  <2>3. Len(up') = Len(up) + 1 /\ SubSeq(up', 1, Len(up)) = up
    BY <2>1, <2>2, FrameIsLast
  <2>4. down' = down
    BY <1>2 DEF LauncherOnWire
  <2> QED BY <1>1, <2>3, <2>4 DEF Promise!Launcher
<1>3. CASE up' = up
  BY <1>1, <1>3 DEF LauncherOnWire, Promise!Launcher
<1> QED BY <1>2, <1>3

\* An idle frame is refused or leaves one prompt owed, any other one ends the
\* loop or does nothing; returning from HandleEnforcement settles the debt.
LEMMA HandlerPromise ==
  ASSUME BackendInv, WireInv, HandlerStep
  PROVE  Promise!Next \/ UNCHANGED <<up, down, Phase>>
<1>1. CASE ReceiveIdle
  <2>1. hpc = "recv" /\ hpc' \in {"loop", "enforce"}
    BY <1>1 DEF ReceiveIdle
  <2>2. Phase = "listening" /\ Phase' \in {"listening", "owing"}
    BY <2>1 DEF Phase
  <2>3. up # <<>> /\ Head(up).type = "idle" /\ up' = Tail(up) /\ down' = down
    BY <1>1 DEF ReceiveIdle, UpRead
  <2> QED BY <2>2, <2>3 DEF Promise!Next, Promise!TakeIdle
<1>2. CASE ReceiveOther
  <2>1. hpc = "recv" /\ hpc' \in {"loop", "close"}
    BY <1>2 DEF ReceiveOther
  <2>2. Phase = "listening" /\ Phase' \in {"listening", "ended"}
    BY <2>1 DEF Phase
  <2>3. up # <<>> /\ Head(up).type # "idle" /\ up' = Tail(up) /\ down' = down
    BY <1>2 DEF ReceiveOther, UpRead
  <2> QED BY <2>2, <2>3 DEF Promise!Next, Promise!TakeOther
<1>3. CASE Enforce
  <2>1. /\ hpc = "enforce"
        /\ hpc' = IF gpc'["handler"] = "out" THEN "loop" ELSE "enforce"
    BY <1>3 DEF Enforce
  <2>2. Phase = "owing" /\ (hpc' = "loop" => Phase' = "listening")
        /\ (hpc' = "enforce" => Phase' = "owing")
    BY <2>1 DEF Phase
  <2>3. CASE UNCHANGED wireVars
    <3>1. up' = up /\ down' = down
      BY <2>3 DEF wireVars
    <3> HIDE DEF Phase
    <3>2. CASE hpc' = "loop"
      <4>1. Promise!Settle
        BY <2>2, <3>1, <3>2 DEF Promise!Settle
      <4> QED BY <4>1 DEF Promise!Next
    <3>3. CASE hpc' = "enforce"
      BY <2>2, <3>1, <3>3
    <3> QED BY <2>1, <3>2, <3>3
  <2>4. CASE SendWrite("handler") /\ DownWrite(NewMessage("type", prompt["handler"]))
    <3> DEFINE m == NewMessage("type", prompt["handler"])
    <3>1. m.type = "type"
      BY DEF NewMessage, Frame
    <3>2. up' = up /\ down' = Append(down, m)
      BY <2>4 DEF DownWrite
    <3>3. down \in Seq(PromptFrames)
      BY DEF WireInv
    <3> HIDE DEF m
    <3>4. /\ Len(down') = Len(down) + 1 /\ SubSeq(down', 1, Len(down)) = down
          /\ down'[Len(down')].type = "type"
      BY <3>1, <3>2, <3>3, FrameIsLast
    <3>5. gpc'["handler"] = "out"
      BY <2>4, OneCaller DEF SendWrite, Return, BackendInv, Data, DataTypes
    <3>6. Phase = "owing" /\ Phase' = "listening"
      <4>1. hpc' = "loop"
        BY <2>1, <3>5, Zenon
      <4> QED BY <2>2, <4>1, Zenon
    <3> HIDE DEF Phase
    <3>7. Promise!Settle
      BY <3>2, <3>4, <3>6 DEF Promise!Settle
    <3> QED BY <3>7 DEF Promise!Next
  <2> QED BY <1>3, <2>3, <2>4 DEF Enforce, GateStep, SendWrite
<1>4. CASE Accept \/ LoopCheck \/ Disconnected \/ Close
  <2>1. UNCHANGED <<up, down>>
    BY <1>4 DEF Accept, LoopCheck, Disconnected, Close, wireVars
  <2>2. CASE hpc' = "close"
    <3>1. hpc \in {"loop", "recv"}
      BY <1>4, <2>2 DEF Accept, LoopCheck, Disconnected, Close
    <3>2. Phase = "listening" /\ Phase' = "ended"
      BY <2>2, <3>1 DEF Phase
    <3> QED BY <2>1, <3>2 DEF Promise!Next, Promise!End
  <2>3. CASE hpc' # "close"
    <3>1. \/ hpc \in {"accept", "loop"} /\ hpc' \in {"loop", "recv"}
          \/ hpc = "close" /\ hpc' = "done"
      BY <1>4, <2>3 DEF Accept, LoopCheck, Disconnected, Close
    <3> QED BY <2>1, <3>1 DEF Phase
  <2> QED BY <2>2, <2>3
<1> QED BY <1>1, <1>2, <1>3, <1>4 DEF HandlerStep

\* The session as a whole implements the promise: at most one prompt is sent
\* for each idle frame of the real launcher, and none after the handler ended.
THEOREM SessionKeepsPromise == SessionSpec => Promise!Spec
<1>1. SessionInit => Promise!Init
  BY DEF SessionInit, WireInit, HandlerInit, Promise!Init, Phase
<1>2. SessionInv /\ [SessionNext]_sessionVars => [Promise!Next]_Promise!loopVars
  <2> SUFFICES ASSUME SessionInv, [SessionNext]_sessionVars
               PROVE  Promise!Next \/ UNCHANGED <<up, down, Phase>>
    BY DEF Promise!loopVars
  <2>1. CASE LauncherMoves \/ LauncherFaults
    <3>1. /\ LauncherStep \/ \E f \in Faults : LauncherFault(f)
          /\ UNCHANGED handlerVars
      BY <2>1 DEF LauncherMoves, LauncherFaults
    <3> QED BY <3>1, LauncherWrites, LauncherPromise DEF SessionInv, Promise!Next
  <2>2. CASE BackendMoves
    BY <2>2, HandlerPromise DEF BackendMoves, SessionInv
  <2>3. CASE BackendStops \/ TimePasses \/ UNCHANGED sessionVars
    <3>1. UNCHANGED <<wireVars, hpc>>
      BY <2>3 DEF BackendStops, CancelBackend, TimePasses, Clock, sessionVars, handlerVars
    <3> QED BY <3>1 DEF wireVars, Phase
  <2> QED BY <2>1, <2>2, <2>3 DEF SessionNext, SessionOver
<1> QED BY <1>1, <1>2, SessionInvariance, PTL DEF SessionSpec, Promise!Spec

=============================================================================
