---------------------------- MODULE LauncherProofs ----------------------------
(***************************************************************************)
(* Proofs about the launcher process against any backend, client and user, *)
(* for buffers of any size and any number of fire goroutines in flight:    *)
(* the order of the frames it sends, what its exited frame stands for, and *)
(* that the idle detector stays silent once main has stopped it.           *)
(***************************************************************************)
EXTENDS LauncherHarness, SequenceTheorems, TLAPS

-----------------------------------------------------------------------------
(* The inductive invariant                                                 *)

\* main before it has started the detector.
Early == {"connect", "spawn", "notify", "startedCheck", "startedWrite", "startIdle"}

\* main against the goroutines it starts, stops and waits for.
MainInv ==
  /\ armed => running
  /\ running => lmain \in {"startPipes", "wait1", "stopIdle"}
  /\ lmain \in Early => fired = 0 /\ calling = 0 /\ cbWrites = 0
  /\ fired + calling + cbWrites <= MaxFire
  /\ lmain \in Early \cup {"startPipes"} => p2b = "off" /\ b2p = "off"
  /\ lmain \in {"waitProc", "exitedCheck", "exitedWrite", "finish"}
       => P2bEnded /\ B2pEnded
  /\ lmain \in {"exitedCheck", "exitedWrite", "finish"} => procDone

\* How the output pipe ended.  The last conjunct is what the context check
\* before the exited frame buys: a signal that comes after it cannot have
\* been what made the pipe fail.
PipeInv ==
  /\ client = "alive" => slave
  /\ p2b = "eof" => ptyOut = 0 /\ ~slave
  /\ p2b = "failed" => teeErr \/ lctx \/ UpBroken
  /\ lmain = "exitedWrite" /\ p2b = "failed" => teeErr \/ UpBroken

UpFrames == [type : UpKinds, decodes : BOOLEAN, text : {""}]

HasExited == \E i \in DOMAIN up : up[i].type = "exited"

\* Of the frames in flight none comes before started and none but an idle
\* frame after exited.
OrderInFlight ==
  \A i, j \in DOMAIN up : i < j =>
    /\ up[j].type # "started"
    /\ up[i].type = "exited" => up[j].type = "idle"

\* The frames in flight.
FrameInv ==
  /\ up \in Seq(UpFrames)
  /\ lmain \in Early \ {"startIdle"} => up = <<>>
  /\ OrderInFlight
  /\ HasExited => \/ lmain = "exit"
                  \/ lmain = "finish" /\ (p2b = "failed" => teeErr)

LauncherInv == LauncherTypeOK /\ MainInv /\ PipeInv /\ FrameInv

-----------------------------------------------------------------------------
(* Control                                                                 *)

Control == LauncherTypeOK /\ MainInv /\ PipeInv

LEMMA ControlInit == LauncherInit => Control
<1> SUFFICES ASSUME LauncherInit PROVE Control
  OBVIOUS
<1>1. /\ ~armed /\ ~running /\ ~slave /\ ~procDone
      /\ armed \in BOOLEAN /\ running \in BOOLEAN /\ slave \in BOOLEAN
      /\ procDone \in BOOLEAN /\ teeErr \in BOOLEAN /\ lctx \in BOOLEAN
  BY Zenon DEF LauncherInit, IdleInit
<1>2. /\ lmain = "connect" /\ p2b = "off" /\ b2p = "off" /\ sig = "off"
      /\ cbWrites = 0 /\ fired = 0 /\ calling = 0 /\ client = "none"
      /\ ptyOut = 0 /\ ptyIn = 0
  BY DEF LauncherInit, IdleInit
<1> QED BY <1>1, <1>2, MaxFireAssumption, LauncherAssumption
        DEF Control, LauncherTypeOK, MainInv, PipeInv, MainPCs, IdleTypeOK,
            Early, UpBroken

\* The process ends.
LEMMA ControlGone ==
  ASSUME Gone
  PROVE  Control'
<1>1. /\ ~armed' /\ ~running' /\ ~slave' /\ ~procDone'
      /\ armed' \in BOOLEAN /\ running' \in BOOLEAN /\ slave' \in BOOLEAN
      /\ procDone' \in BOOLEAN /\ teeErr' \in BOOLEAN /\ lctx' \in BOOLEAN
  BY Zenon DEF Gone
<1>2. /\ lmain' = "exit" /\ p2b' = "off" /\ b2p' = "off" /\ sig' = "off"
      /\ cbWrites' = 0 /\ fired' = 0 /\ calling' = 0 /\ client' = "none"
      /\ ptyOut' = 0 /\ ptyIn' = 0
  BY DEF Gone
<1> QED BY <1>1, <1>2, MaxFireAssumption, LauncherAssumption
        DEF Control, LauncherTypeOK, MainInv, PipeInv, MainPCs, IdleTypeOK,
            Early, UpBroken

\* A send of the launcher does not close anything.
LEMMA SendKeepsOpen ==
  ASSUME NEW m, UpWrite(m) \/ UNCHANGED wireVars
  PROVE  UpBroken' <=> UpBroken
BY DEF UpWrite, wireVars, UpBroken

\* A step of main alone, which is where it was or goes where its goroutines
\* allow it to be.
LEMMA ControlMain ==
  ASSUME Control, Main
  PROVE  Control'
<1> USE DEF Control, LauncherTypeOK, MainInv, PipeInv, IdleTypeOK, Early,
            MainPCs, P2bEnded, B2pEnded, UpBroken
<1> USE DEF mainVars, pipeVars, clientVars, idleVars, wireVars
<1>1. CASE MainConnect
  BY <1>1 DEF MainConnect, Dial
<1>2. CASE MainSpawn
  BY <1>2 DEF MainSpawn
<1>3. CASE MainNotify
  BY <1>3 DEF MainNotify
<1>4. CASE MainStarted
  <2>1. /\ UNCHANGED <<lctx, pipeVars, sig, cbWrites, clientVars, idleVars>>
        /\ UpBroken' <=> UpBroken
    BY <1>4, SendKeepsOpen DEF MainStarted, MainSendCheck, MainSendWrite
  <2>2. /\ lmain \in {"startedCheck", "startedWrite"}
        /\ lmain' \in {"startedWrite", "startIdle"}
    BY <1>4 DEF MainStarted, MainSendCheck, MainSendWrite
  <2> HIDE DEF UpBroken
  <2> QED BY <2>1, <2>2
<1>5. CASE MainStartIdle
  BY <1>5 DEF MainStartIdle, Start
<1>6. CASE MainStartPipes
  BY <1>6 DEF MainStartPipes
<1>7. CASE MainFirstPipe
  BY <1>7 DEF MainFirstPipe
<1>8. CASE MainStopIdle
  <2>1. ~running' /\ ~armed' /\ running' \in BOOLEAN /\ armed' \in BOOLEAN
    BY <1>8, Zenon DEF MainStopIdle, Stop
  <2>2. /\ lmain = "stopIdle" /\ lmain' = "shutdownCheck"
        /\ UNCHANGED <<lctx, pipeVars, sig, cbWrites, clientVars, wireVars>>
        /\ UNCHANGED <<fired, calling>>
    BY <1>8 DEF MainStopIdle, Stop
  <2> QED BY <2>1, <2>2
<1>9. CASE MainShutdown
  <2>1. /\ UNCHANGED <<lctx, pipeVars, sig, cbWrites, clientVars, idleVars>>
        /\ UpBroken' <=> UpBroken
    BY <1>9, SendKeepsOpen DEF MainShutdown, MainSendCheck, MainSendWrite
  <2>2. /\ lmain \in {"shutdownCheck", "shutdownWrite"}
        /\ lmain' \in {"shutdownWrite", "wait2"}
    BY <1>9 DEF MainShutdown, MainSendCheck, MainSendWrite
  <2> HIDE DEF UpBroken
  <2> QED BY <2>1, <2>2
<1>10. CASE MainSecondPipe
  BY <1>10 DEF MainSecondPipe
<1>11. CASE MainWaitProc
  BY <1>11 DEF MainWaitProc
<1>12. CASE MainExited
  <2>1. /\ UNCHANGED <<lctx, pipeVars, sig, cbWrites, clientVars, idleVars>>
        /\ UpBroken' <=> UpBroken
    BY <1>12, SendKeepsOpen DEF MainExited, MainSendCheck, MainSendWrite
  <2>2. /\ lmain \in {"exitedCheck", "exitedWrite"}
        /\ lmain' = "finish" \/ (lmain' = "exitedWrite" /\ ~lctx)
    BY <1>12 DEF MainExited, MainSendCheck, MainSendWrite
  <2> HIDE DEF UpBroken
  <2> QED BY <2>1, <2>2
<1>13. CASE MainFinish
  BY <1>13, ControlGone DEF MainFinish
<1> QED BY <1>1, <1>2, <1>3, <1>4, <1>5, <1>6, <1>7, <1>8, <1>9, <1>10, <1>11,
           <1>12, <1>13
        DEF Main

\* The pipes end for the causes that PipeInv names.
LEMMA ControlP2b ==
  ASSUME Control, P2b
  PROVE  Control'
<1> USE DEF Control, LauncherTypeOK, MainInv, PipeInv, IdleTypeOK, Early,
            MainPCs, P2bEnded, B2pEnded, UpBroken
<1> USE DEF mainVars, pipeVars, clientVars, idleVars, wireVars
<1>1. CASE P2bCheck
  BY <1>1 DEF P2bCheck
<1>2. CASE P2bRead
  <2>1. /\ p2b = "read" /\ teeErr' \in BOOLEAN
        /\ p2b' = "reset" \/ (p2b' = "failed" /\ teeErr')
    BY <1>2, Zenon, LauncherAssumption DEF P2bRead
  <2>2. /\ ptyOut' \in 0..OutCap
        /\ UNCHANGED <<lmain, lctx, b2p, sig, cbWrites, idleVars, wireVars,
                        client, slave, ptyIn, procDone>>
    BY <1>2, LauncherAssumption DEF P2bRead
  <2> QED BY <2>1, <2>2
<1>3. CASE P2bEof
  BY <1>3 DEF P2bEof
<1>4. CASE P2bReset
  <2>1. (armed' => running') /\ armed' \in BOOLEAN
    BY <1>4, Zenon DEF P2bReset, Reset
  <2>2. /\ p2b = "reset" /\ p2b' = "sendCheck"
        /\ UNCHANGED <<lmain, lctx, b2p, teeErr, sig, cbWrites, clientVars, wireVars>>
        /\ UNCHANGED <<running, fired, calling>>
    BY <1>4 DEF P2bReset, Reset
  <2> QED BY <2>1, <2>2
<1>5. CASE P2bSendCheck
  BY <1>5 DEF P2bSendCheck
<1>6. CASE P2bSendWrite
  <2>1. /\ p2b = "sendWrite"
        /\ p2b' = "ctx" \/ (p2b' = "failed" /\ (teeErr \/ UpBroken))
    BY <1>6 DEF P2bSendWrite
  <2>2. /\ UNCHANGED <<lmain, lctx, b2p, teeErr, sig, cbWrites, clientVars, idleVars>>
        /\ UpBroken' <=> UpBroken
    BY <1>6, SendKeepsOpen DEF P2bSendWrite
  <2> HIDE DEF UpBroken
  <2> QED BY <2>1, <2>2
<1> QED BY <1>1, <1>2, <1>3, <1>4, <1>5, <1>6 DEF P2b

LEMMA ControlB2p ==
  ASSUME Control, B2p
  PROVE  Control'
<1> USE DEF Control, LauncherTypeOK, MainInv, PipeInv, IdleTypeOK, Early,
            MainPCs, P2bEnded, B2pEnded, UpBroken
<1> USE DEF mainVars, pipeVars, clientVars, idleVars, wireVars
<1>1. CASE B2pCheck \/ B2pDisconnected
  <2>1. /\ b2p \in {"ctx", "recv"} /\ b2p' \in {"recv", "ended"}
        /\ UNCHANGED <<lmain, lctx, p2b, teeErr, sig, cbWrites, clientVars,
                        idleVars, wireVars>>
    BY <1>1 DEF B2pCheck, B2pDisconnected
  <2> QED BY <2>1
<1>2. CASE B2pReceive
  <2>1. AfterReceive(Head(down)) \in {"text", "ctx", "ended"}
    BY DEF AfterReceive
  <2> QED BY <1>2, <2>1 DEF B2pReceive, DownRead
<1>3. CASE B2pType
  <2>1. /\ b2p \in {"text", "enter"} /\ b2p' \in {"enter", "ctx", "ended"}
        /\ ptyIn' \in 0..InCap
    BY <1>3, LauncherAssumption DEF B2pType, B2pWrite
  <2>2. UNCHANGED <<lmain, lctx, p2b, teeErr, sig, cbWrites, idleVars, wireVars,
                    client, slave, ptyOut, procDone>>
    BY <1>3 DEF B2pType, B2pWrite
  <2> QED BY <2>1, <2>2
<1> QED BY <1>1, <1>2, <1>3 DEF B2p

LEMMA ControlIdle ==
  ASSUME Control, Idle
  PROVE  Control'
<1> USE MaxFireAssumption
    DEF Control, LauncherTypeOK, MainInv, PipeInv, IdleTypeOK, Early,
        MainPCs, P2bEnded, B2pEnded, UpBroken
<1> USE DEF mainVars, pipeVars, clientVars, idleVars, wireVars
<1>1. CASE IdleExpires
  <2>1. ~armed' /\ armed' \in BOOLEAN /\ armed
    BY <1>1, Zenon DEF IdleExpires, TimerExpires
  <2>2. /\ fired' \in 0..MaxFire /\ fired' + calling' <= MaxFire
        /\ fired' + calling' + cbWrites' <= MaxFire
    BY <1>1 DEF IdleExpires, TimerExpires
  <2>3. UNCHANGED <<mainVars, pipeVars, sig, cbWrites, clientVars, wireVars,
                    running, calling>>
    BY <1>1 DEF IdleExpires, TimerExpires
  <2>4. lmain \notin Early
    BY <2>1
  <2>5. LauncherTypeOK'
    <3>1. IdleTypeOK'
      BY <2>1, <2>2, <2>3
    <3> HIDE DEF IdleTypeOK
    <3> QED BY <2>3, <3>1
  <2>6. MainInv'
    BY <2>1, <2>2, <2>3, <2>4
  <2>7. PipeInv'
    BY <2>3
  <2> HIDE DEF LauncherTypeOK, MainInv, PipeInv
  <2> QED BY <2>5, <2>6, <2>7
<1>2. CASE IdleFire
  BY <1>2 DEF IdleFire, FireCheck
<1>3. CASE IdleSendCheck
  BY <1>3 DEF IdleSendCheck, Callback
<1>4. CASE IdleSendWrite
  <2>1. /\ cbWrites > 0 /\ cbWrites' = cbWrites - 1
        /\ UNCHANGED <<mainVars, pipeVars, sig, clientVars, idleVars>>
        /\ UpBroken' <=> UpBroken
    BY <1>4, SendKeepsOpen DEF IdleSendWrite
  <2>2. /\ cbWrites' \in 0..MaxFire /\ fired' + calling' + cbWrites' <= MaxFire
        /\ lmain \notin Early
    BY <2>1
  <2> HIDE DEF UpBroken
  <2> QED BY <2>1, <2>2
<1> QED BY <1>1, <1>2, <1>3, <1>4 DEF Idle

LEMMA ControlSig ==
  ASSUME Control, Sig \/ SignalArrives
  PROVE  Control'
<1> USE DEF Control, LauncherTypeOK, MainInv, PipeInv, IdleTypeOK, Early,
            MainPCs, P2bEnded, B2pEnded, UpBroken
<1> USE DEF mainVars, pipeVars, clientVars, idleVars, wireVars
<1>1. CASE SigCancel
  BY <1>1 DEF SigCancel
<1>2. CASE SigClose
  BY <1>2 DEF SigClose
<1>3. CASE SignalArrives
  BY <1>3 DEF SignalArrives
<1> QED BY <1>1, <1>2, <1>3 DEF Sig

LEMMA ControlClient ==
  ASSUME Control, Client
  PROVE  Control'
<1> USE LauncherAssumption
    DEF Control, LauncherTypeOK, MainInv, PipeInv, IdleTypeOK, Early,
        MainPCs, P2bEnded, B2pEnded, UpBroken, Client
<1> USE DEF mainVars, pipeVars, clientVars, idleVars, wireVars
<1>1. CASE ClientOutput
  BY <1>1 DEF ClientOutput
<1>2. CASE ClientReads
  BY <1>2 DEF ClientReads
<1>3. CASE ClientExits
  BY <1>3 DEF ClientExits
<1>4. CASE OrphansExit
  <2>1. ~slave' /\ slave' \in BOOLEAN /\ client = "dead"
    BY <1>4, Zenon DEF OrphansExit
  <2>2. /\ UNCHANGED <<client, ptyOut, ptyIn, procDone>>
        /\ UNCHANGED <<mainVars, pipeVars, sig, cbWrites, idleVars, wireVars>>
    BY <1>4 DEF OrphansExit
  <2> HIDE DEF Client
  <2> QED BY <2>1, <2>2
<1>5. CASE Reap
  BY <1>5 DEF Reap
<1> QED BY <1>1, <1>2, <1>3, <1>4, <1>5

\* What a backend can do to a launcher: take frames, and close for good.  A
\* step of nobody is one of these.
BackendStep ==
  /\ UNCHANGED launcherVars
  /\ UpBroken => UpBroken'
  /\ up' = up \/ (up # <<>> /\ up' = Tail(up))

LEMMA ControlBackend ==
  ASSUME Control, BackendStep
  PROVE  Control'
BY DEF BackendStep, Control, LauncherTypeOK, MainInv, PipeInv, IdleTypeOK, P2bEnded,
       B2pEnded, launcherVars, mainVars, pipeVars, clientVars, idleVars

\* Goroutines, client, user and backend keep the control invariant.
LEMMA ControlNext ==
  ASSUME Control, LauncherStep \/ (\E f : LauncherFault(f)) \/ BackendStep
  PROVE  Control'
BY ControlMain, ControlP2b, ControlB2p, ControlIdle, ControlSig, ControlClient,
   ControlBackend, ControlGone
DEF LauncherStep, LauncherFault, LauncherKilled

-----------------------------------------------------------------------------
(* Frames                                                                  *)

\* What main must have done, after the step, for an exited frame in flight.
ExitedFits == lmain = "exit" \/ (lmain = "finish" /\ (p2b = "failed" => teeErr))

\* A frame is written.
LEMMA FrameWritten ==
  ASSUME FrameInv, NEW f \in UpFrames, up' = Append(up, f),
         lmain' \notin Early \ {"startIdle"},
         f.type = "started" => up = <<>>,
         HasExited => f.type = "idle",
         HasExited \/ f.type = "exited" => ExitedFits'
  PROVE  FrameInv'
<1> DEFINE n == Len(up)
<1>1. up \in Seq(UpFrames)
  BY DEF FrameInv
<1>2. /\ n \in Nat /\ DOMAIN up = 1..n /\ DOMAIN up' = 1..(n + 1)
      /\ up' \in Seq(UpFrames) /\ up'[n + 1] = f
      /\ \A i \in 1..n : up'[i] = up[i]
  BY <1>1
<1> HIDE DEF n
<1>3. OrderInFlight'
  <2> SUFFICES ASSUME NEW i \in 1..(n + 1), NEW j \in 1..(n + 1), i < j
               PROVE  /\ up'[j].type # "started"
                      /\ up'[i].type = "exited" => up'[j].type = "idle"
    BY <1>2 DEF OrderInFlight
  <2>1. i \in 1..n /\ (j \in 1..n \/ j = n + 1)
    <3>1. n \in Nat
      BY <1>2
    <3> QED BY <3>1
  <2>2. CASE j \in 1..n
    BY <1>2, <2>1, <2>2 DEF FrameInv, OrderInFlight
  <2>3. CASE j = n + 1
    <3>1. up # <<>>
      BY <1>2, <2>1
    <3>2. up'[i].type = "exited" => HasExited
      BY <1>2, <2>1 DEF HasExited
    <3> QED BY <1>2, <2>3, <3>1, <3>2
  <2> QED BY <2>1, <2>2, <2>3
<1>4. HasExited' => HasExited \/ f.type = "exited"
  <2>1. \A i \in 1..(n + 1) : i \in 1..n \/ i = n + 1
    BY <1>2
  <2> QED BY <1>2, <2>1 DEF HasExited
<1> QED BY <1>2, <1>3, <1>4 DEF FrameInv, ExitedFits

\* The backend takes the first frame.
LEMMA FrameRead ==
  ASSUME FrameInv, up # <<>>, up' = Tail(up), UNCHANGED <<lmain, p2b, teeErr>>
  PROVE  FrameInv'
<1> DEFINE n == Len(up)
<1>1. up \in Seq(UpFrames)
  BY DEF FrameInv
<1>2. /\ n \in Nat \ {0} /\ DOMAIN up = 1..n /\ DOMAIN up' = 1..(n - 1)
      /\ up' \in Seq(UpFrames)
      /\ \A i \in 1..(n - 1) : up'[i] = up[i + 1]
  BY <1>1
<1> HIDE DEF n
<1>3. \A i \in 1..(n - 1) : i + 1 \in 1..n
  BY <1>2
<1>4. OrderInFlight'
  <2> SUFFICES ASSUME NEW i \in 1..(n - 1), NEW j \in 1..(n - 1), i < j
               PROVE  /\ up'[j].type # "started"
                      /\ up'[i].type = "exited" => up'[j].type = "idle"
    BY <1>2 DEF OrderInFlight
  <2>1. i + 1 \in DOMAIN up /\ j + 1 \in DOMAIN up /\ i + 1 < j + 1
    BY <1>2, <1>3
  <2>2. /\ up[j + 1].type # "started"
        /\ up[i + 1].type = "exited" => up[j + 1].type = "idle"
    BY <2>1 DEF FrameInv, OrderInFlight
  <2> QED BY <1>2, <2>2
<1>5. HasExited' => HasExited
  BY <1>2, <1>3 DEF HasExited
<1>6. lmain \in Early \ {"startIdle"} => FALSE
  BY DEF FrameInv
<1> QED BY <1>2, <1>4, <1>5, <1>6 DEF FrameInv

\* Nothing is sent or taken.
LEMMA FramesKept ==
  ASSUME FrameInv, up' = up,
         lmain' \in Early \ {"startIdle"} => lmain \in Early \ {"startIdle"},
         ExitedFits => ExitedFits'
  PROVE  FrameInv'
BY DEF FrameInv, OrderInFlight, HasExited, ExitedFits

LEMMA NewFrames ==
  ASSUME NEW kind \in UpKinds
  PROVE  NewMessage(kind, "") \in UpFrames /\ NewMessage(kind, "").type = kind
BY DEF NewMessage, Frame, UpFrames

LEMMA FramesOfMain ==
  ASSUME Control, FrameInv, Up, Main
  PROVE  FrameInv'
<1> USE DEF mainVars, pipeVars, clientVars, idleVars, wireVars
<1>1. CASE \/ MainConnect \/ MainSpawn \/ MainNotify \/ MainStartIdle
           \/ MainStartPipes \/ MainFirstPipe \/ MainStopIdle
           \/ MainSecondPipe \/ MainWaitProc
  <2>1. up' = up /\ lmain # "finish"
    BY <1>1 DEF MainConnect, Dial, MainSpawn, MainNotify, MainStartIdle,
         MainStartPipes, MainFirstPipe, MainStopIdle, MainSecondPipe, MainWaitProc
  <2>2. lmain' \in Early \ {"startIdle"} => lmain \in Early \ {"startIdle"}
    BY <1>1 DEF MainConnect, MainSpawn, MainNotify, MainStartIdle, MainStartPipes,
         MainFirstPipe, MainStopIdle, MainSecondPipe, MainWaitProc, Early
  <2> QED BY <2>1, <2>2, FramesKept DEF ExitedFits, Up
<1>2. CASE MainFinish
  BY <1>2, FramesKept DEF MainFinish, Gone, ExitedFits, Early
<1>3. ASSUME NEW at, NEW write, NEW next, MainSendCheck(at, write, next),
             at # "finish", next \notin Early \ {"startIdle"},
             write \in Early => at \in Early \ {"startIdle"}
      PROVE  FrameInv'
  <2>1. up' = up /\ lmain = at /\ lmain' \in {write, next}
    BY <1>3 DEF MainSendCheck
  <2> QED BY <1>3, <2>1, FramesKept DEF ExitedFits, Up
<1>4. ASSUME NEW at, NEW kind \in UpKinds, NEW next,
             MainSendWrite(at, kind, next),
             at # "finish", next \notin Early \ {"startIdle"},
             kind = "started" => at = "startedWrite",
             kind = "exited" => at = "exitedWrite" /\ next = "finish"
      PROVE  FrameInv'
  <2>1. lmain = at /\ lmain' = next /\ UNCHANGED <<p2b, teeErr>>
    BY <1>4 DEF MainSendWrite
  <2>2. ~HasExited
    BY <1>4, <2>1 DEF FrameInv, Up
  <2>3. CASE UpWrite(NewMessage(kind, ""))
    <3>1. up' = Append(up, NewMessage(kind, "")) /\ ~UpBroken
      BY <2>3 DEF UpWrite, UpBroken
    <3>2. kind = "started" => up = <<>>
      BY <1>4, <2>1 DEF FrameInv, Early
    <3>3. kind = "exited" => ExitedFits'
      BY <1>4, <2>1, <3>1 DEF Control, PipeInv, ExitedFits
    <3> QED BY <1>4, <2>1, <2>2, <3>1, <3>2, <3>3, NewFrames, FrameWritten
  <2>4. CASE UNCHANGED wireVars
    BY <1>4, <2>1, <2>4, FramesKept DEF ExitedFits, Up
  <2> QED BY <1>4, <2>3, <2>4 DEF MainSendWrite
<1>5. CASE MainStarted
  BY <1>3, <1>4, <1>5 DEF MainStarted, UpKinds, Early
<1>6. CASE MainShutdown
  BY <1>3, <1>4, <1>6 DEF MainShutdown, UpKinds, Early
<1>7. CASE MainExited
  BY <1>3, <1>4, <1>7 DEF MainExited, UpKinds, Early
<1> QED BY <1>1, <1>2, <1>5, <1>6, <1>7 DEF Main

\* The output pipe has ended when an exited frame is in flight, and main is
\* past its first frame when the pipe or a callback writes.
LEMMA FramesOfP2b ==
  ASSUME Control, FrameInv, Up, P2b
  PROVE  FrameInv'
<1> USE DEF mainVars, pipeVars, clientVars, idleVars, wireVars
<1>1. lmain' = lmain /\ p2b \notin {"off", "eof", "failed"}
  BY DEF P2b, P2bCheck, P2bRead, P2bEof, P2bReset, P2bSendCheck, P2bSendWrite
<1>2. lmain \notin Early /\ lmain # "finish"
  BY <1>1 DEF Control, MainInv, P2bEnded
<1>3. CASE up' = up
  BY <1>1, <1>2, <1>3, FramesKept DEF ExitedFits, Up
<1>4. CASE up' = Append(up, NewMessage("output", ""))
  <2>1. ~HasExited
    BY <1>2 DEF FrameInv, Up
  <2> QED BY <1>1, <1>2, <1>4, <2>1, NewFrames, FrameWritten DEF UpKinds
<1> QED BY <1>3, <1>4
        DEF P2b, P2bCheck, P2bRead, P2bEof, P2bReset, P2bSendCheck, P2bSendWrite,
            UpWrite

LEMMA FramesOfIdle ==
  ASSUME Control, FrameInv, Up, Idle
  PROVE  FrameInv'
<1> USE DEF mainVars, pipeVars, clientVars, idleVars, wireVars
<1>1. lmain' = lmain /\ p2b' = p2b /\ teeErr' = teeErr
  BY DEF Idle, IdleExpires, IdleFire, IdleSendCheck, IdleSendWrite
<1>2. CASE up' = up
  BY <1>1, <1>2, FramesKept DEF ExitedFits
<1>3. CASE up' = Append(up, NewMessage("idle", "")) /\ cbWrites > 0
  <2>1. lmain \notin Early
    <3>1. cbWrites \in Nat
      BY MaxFireAssumption DEF Control, LauncherTypeOK
    <3>2. cbWrites > 0
      BY <1>3, Zenon
    <3>3. cbWrites # 0
      BY <3>1, <3>2
    <3> QED BY <3>3 DEF Control, MainInv
  <2>2. HasExited => ExitedFits'
    BY <1>1 DEF FrameInv, ExitedFits
  <2> QED BY <1>1, <1>3, <2>1, <2>2, NewFrames, FrameWritten DEF UpKinds
<1> QED BY <1>2, <1>3
        DEF Idle, IdleExpires, IdleFire, IdleSendCheck, IdleSendWrite, UpWrite

\* Everybody else leaves the frames alone, or takes one.
LEMMA FramesOfOthers ==
  ASSUME Control, FrameInv,
         B2p \/ Sig \/ SignalArrives \/ Client \/ LauncherKilled \/ BackendStep
  PROVE  FrameInv'
<1> USE DEF mainVars, pipeVars, clientVars, idleVars, wireVars
<1>1. CASE B2p
  BY <1>1, FramesKept
  DEF B2p, B2pCheck, B2pReceive, DownRead, B2pDisconnected, B2pType, B2pWrite,
      ExitedFits
<1>2. CASE Sig \/ SignalArrives
  BY <1>2, FramesKept DEF Sig, SigCancel, SigClose, SignalArrives, ExitedFits
<1>3. CASE Client
  BY <1>3, FramesKept DEF Client, ExitedFits
<1>4. CASE LauncherKilled
  BY <1>4, FramesKept DEF LauncherKilled, Gone, ExitedFits, Early
<1>5. CASE BackendStep
  <2>1. UNCHANGED <<lmain, p2b, teeErr>>
    BY <1>5 DEF BackendStep, launcherVars
  <2> QED BY <1>5, <2>1, FrameRead, FramesKept DEF BackendStep, ExitedFits
<1> QED BY <1>1, <1>2, <1>3, <1>4, <1>5

LEMMA LauncherInvInit == WireInit /\ LauncherInit => LauncherInv
<1> SUFFICES ASSUME WireInit, LauncherInit PROVE LauncherInv
  OBVIOUS
<1>1. up = <<>>
  BY DEF WireInit
<1>2. FrameInv
  BY <1>1 DEF FrameInv, OrderInFlight, HasExited
<1> QED BY <1>2, ControlInit DEF LauncherInv, Control

\* The invariant needs no more of the backend than BackendStep says.
LEMMA LauncherInvInductive ==
  ASSUME LauncherInv, LauncherStep \/ (\E f : LauncherFault(f)) \/ BackendStep
  PROVE  LauncherInv'
<1>1. Control /\ FrameInv
  BY DEF LauncherInv, Control
<1>2. Control'
  BY <1>1, ControlNext
<1>3. FrameInv'
  BY <1>1, FramesOfMain, FramesOfP2b, FramesOfIdle, FramesOfOthers
  DEF LauncherStep, LauncherFault
<1> QED BY <1>2, <1>3 DEF LauncherInv, Control

\* Main, pipes, detector, client and the frames in flight agree in every
\* state the launcher can reach.
THEOREM LauncherInvariance == HarnessSpec => []LauncherInv
<1>1. HarnessInit => LauncherInv
  BY LauncherInvInit DEF HarnessInit
<1>2. LauncherInv /\ [HarnessNext]_harnessVars => LauncherInv'
  <2> SUFFICES ASSUME LauncherInv, [HarnessNext]_harnessVars PROVE LauncherInv'
    OBVIOUS
  <2>1. CASE \/ BackendReads \/ BackendSends \/ BackendCloses
             \/ UNCHANGED harnessVars
    <3>1. BackendStep
      BY <2>1
      DEF BackendReads, BackendSends, BackendCloses, UpRead, DownWrite, UpBroken,
          harnessVars, wireVars, BackendStep
    <3> QED BY <3>1, LauncherInvInductive
  <2> QED BY <2>1, LauncherInvInductive DEF HarnessNext, Finished
<1> QED BY <1>1, <1>2, PTL DEF HarnessSpec

LEMMA LauncherInvSuffices == LauncherInv => OrderInFlight /\ ExitedAfterAllOutput
<1>1. LauncherInv => OrderInFlight
  BY DEF LauncherInv, FrameInv
<1>2. LauncherInv => ExitedAfterAllOutput
  <2> SUFFICES ASSUME LauncherInv, Up, HasExited
               PROVE  /\ procDone
                      /\ \/ p2b = "eof" /\ ptyOut = 0 /\ ~slave
                         \/ p2b = "failed" /\ teeErr
    BY DEF ExitedAfterAllOutput, HasExited
  <2>1. lmain = "finish" /\ (p2b = "failed" => teeErr)
    BY DEF LauncherInv, FrameInv, Up
  <2>2. procDone /\ P2bEnded
    BY <2>1 DEF LauncherInv, MainInv
  <2> QED BY <2>1, <2>2 DEF LauncherInv, PipeInv, P2bEnded
<1> QED BY <1>1, <1>2

\* In the socket nothing is ahead of started, and nothing but an idle frame
\* behind exited.
THEOREM FramesInFlight == HarnessSpec => []OrderInFlight
BY LauncherInvariance, LauncherInvSuffices, PTL

\* What a step sends is what main's position allows.
LEMMA StepsSendInOrder ==
  ASSUME LauncherInv,
         LauncherStep \/ (\E f : LauncherFault(f)) \/ BackendStep \/ UNCHANGED up
  PROVE  SentInOrder
<1>1. up \in Seq(UpFrames)
  BY DEF LauncherInv, FrameInv
<1>2. ASSUME NEW kind \in UpKinds, UpWrite(NewMessage(kind, ""))
      PROVE  up'[Len(up')].type = kind
  <2>1. NewMessage(kind, "") \in UpFrames /\ NewMessage(kind, "").type = kind
    BY <1>2, NewFrames
  <2>2. up' = Append(up, NewMessage(kind, ""))
    BY <1>2 DEF UpWrite
  <2>3. Len(up') = Len(up) + 1 /\ up'[Len(up) + 1] = NewMessage(kind, "")
    BY <1>1, <2>1, <2>2, AppendProperties
  <2> QED BY <2>1, <2>3
<1>3. CASE UNCHANGED up
  BY <1>1, <1>3 DEF SentInOrder
<1>4. CASE UNCHANGED wireVars
  BY <1>3, <1>4 DEF wireVars
<1>5. CASE BackendStep
  <2>1. CASE up # <<>> /\ up' = Tail(up)
    BY <1>1, <2>1 DEF SentInOrder
  <2> QED BY <1>3, <1>5, <2>1 DEF BackendStep
<1>6. CASE Main
  <2>1. CASE MainStarted
    BY <1>2, <1>4, <2>1 DEF SentInOrder, MainStarted, MainSendCheck, MainSendWrite, UpKinds
  <2>2. CASE MainShutdown
    BY <1>2, <1>4, <2>2 DEF SentInOrder, MainShutdown, MainSendCheck, MainSendWrite, UpKinds
  <2>3. CASE MainExited
    BY <1>2, <1>4, <2>3 DEF SentInOrder, MainExited, MainSendCheck, MainSendWrite, UpKinds
  <2> QED
    BY <1>3, <1>4, <1>6, <2>1, <2>2, <2>3
    DEF Main, MainConnect, Dial, MainSpawn, MainNotify, MainStartIdle, MainStartPipes,
        MainFirstPipe, MainStopIdle, MainSecondPipe, MainWaitProc, MainFinish, Gone, wireVars
<1>7. CASE P2bSendWrite
  <2>1. ~P2bEnded /\ p2b # "off"
    BY <1>7 DEF P2bSendWrite, P2bEnded
  <2>2. lmain \notin Early \cup {"waitProc", "exitedCheck", "exitedWrite", "finish"}
    BY <2>1 DEF LauncherInv, MainInv
  <2> QED BY <1>2, <1>4, <1>7, <2>2 DEF SentInOrder, P2bSendWrite, Early, UpKinds
<1>8. CASE IdleSendWrite
  <2>1. cbWrites \in Nat
    BY MaxFireAssumption DEF LauncherInv, LauncherTypeOK
  <2>2. cbWrites > 0
    BY <1>8, Zenon DEF IdleSendWrite
  <2>3. cbWrites # 0
    BY <2>1, <2>2
  <2>4. lmain \notin Early
    BY <2>3 DEF LauncherInv, MainInv
  <2> QED BY <1>2, <1>4, <1>8, <2>4 DEF SentInOrder, IdleSendWrite, Early, UpKinds
<1>9. CASE P2bCheck \/ P2bRead \/ P2bEof \/ P2bReset \/ P2bSendCheck
  BY <1>4, <1>9 DEF P2bCheck, P2bRead, P2bEof, P2bReset, P2bSendCheck
<1>10. CASE IdleExpires \/ IdleFire \/ IdleSendCheck
  BY <1>4, <1>10 DEF IdleExpires, IdleFire, IdleSendCheck
<1>11. CASE B2p \/ Sig \/ SignalArrives \/ Client \/ LauncherKilled
  BY <1>3, <1>11
  DEF B2p, B2pCheck, B2pReceive, DownRead, B2pDisconnected, B2pType, B2pWrite, Sig,
      SigCancel, SigClose, SignalArrives, Client, LauncherKilled, wireVars
<1> QED
  BY <1>3, <1>5, <1>6, <1>7, <1>8, <1>9, <1>10, <1>11
  DEF LauncherStep, LauncherFault, P2b, Idle

\* Started comes first, and nothing but an idle frame after exited.
THEOREM FramesInOrder == HarnessSpec => FrameOrder
<1>1. LauncherInv /\ [HarnessNext]_harnessVars => [SentInOrder]_harnessVars
  <2> SUFFICES ASSUME LauncherInv, HarnessNext PROVE SentInOrder
    OBVIOUS
  <2>1. CASE BackendReads
    <3>1. up # <<>> /\ up' = Tail(up)
      BY <2>1 DEF BackendReads, UpRead
    <3>2. up \in Seq(UpFrames)
      BY DEF LauncherInv, FrameInv
    <3> QED BY <3>1, <3>2 DEF SentInOrder
  <2>2. CASE BackendSends \/ BackendCloses \/ Finished
    BY <2>2, StepsSendInOrder
    DEF BackendSends, DownWrite, BackendCloses, Finished, harnessVars, wireVars
  <2> QED BY <2>1, <2>2, StepsSendInOrder DEF HarnessNext
<1> QED BY <1>1, LauncherInvariance, PTL DEF HarnessSpec, FrameOrder

\* An exited frame means that the client was reaped and that its output has
\* been forwarded, unless stdout broke.
THEOREM ExitedMeansAllSent == HarnessSpec => []ExitedAfterAllOutput
BY LauncherInvariance, LauncherInvSuffices, PTL

\* Once main has stopped the detector the callbacks in flight only run out.
THEOREM StoppedDetectorRunsOut == HarnessSpec => IdleRunsOut
<1> DEFINE Late == {"shutdownCheck", "shutdownWrite", "wait2", "waitProc",
                    "exitedCheck", "exitedWrite", "finish"}
           Fewer == fired' + calling' + cbWrites' <= fired + calling + cbWrites
<1>1. LauncherInv /\ [HarnessNext]_harnessVars => [(lmain \in Late) => Fewer]_harnessVars
  <2> SUFFICES ASSUME LauncherInv, HarnessNext, lmain \in Late PROVE Fewer
    OBVIOUS
  <2>1. ~armed
    BY DEF LauncherInv, MainInv
  <2>2. fired \in Nat /\ calling \in Nat /\ cbWrites \in Nat
    BY DEF LauncherInv, LauncherTypeOK, IdleTypeOK
  <2>3. CASE UNCHANGED <<fired, calling, cbWrites>>
    BY <2>2, <2>3
  <2>4. CASE Gone
    BY <2>2, <2>4 DEF Gone
  <2>5. CASE Idle
    <3>1. CASE IdleFire
      BY <2>2, <3>1 DEF IdleFire, FireCheck
    <3>2. CASE IdleSendCheck
      BY <2>2, <3>2 DEF IdleSendCheck, Callback
    <3>3. CASE IdleSendWrite
      <4>1. fired' = fired /\ calling' = calling /\ cbWrites' = cbWrites - 1
        BY <3>3 DEF IdleSendWrite, idleVars
      <4> QED BY <2>2, <4>1
    <3> QED BY <2>1, <2>5, <3>1, <3>2, <3>3 DEF Idle, IdleExpires, TimerExpires
  <2>6. CASE Main
    <3>1. \/ MainStopIdle \/ MainShutdown \/ MainSecondPipe \/ MainWaitProc
          \/ MainExited \/ MainFinish
      BY <2>6 DEF Main, MainConnect, MainSpawn, MainNotify, MainStarted,
            MainSendCheck, MainSendWrite, MainStartIdle, MainStartPipes, MainFirstPipe
    <3> QED BY <2>3, <2>4, <3>1
            DEF MainStopIdle, Stop, MainShutdown, MainSecondPipe, MainWaitProc,
                MainExited, MainSendCheck, MainSendWrite, MainFinish, idleVars
  <2>7. CASE P2b \/ B2p \/ Sig \/ SignalArrives \/ Client
    <3>1. UNCHANGED <<fired, calling, cbWrites>>
      BY <2>7 DEF P2b, P2bCheck, P2bRead, P2bEof, P2bReset, Reset, P2bSendCheck,
            P2bSendWrite, B2p, B2pCheck, B2pReceive, B2pDisconnected, B2pType,
            B2pWrite, Sig, SigCancel, SigClose, SignalArrives, Client, idleVars
    <3> QED BY <2>3, <3>1
  <2>8. CASE BackendReads \/ BackendSends \/ BackendCloses \/ UNCHANGED harnessVars
    BY <2>3, <2>8 DEF BackendReads, BackendSends, BackendCloses, harnessVars,
          launcherVars, idleVars
  <2> QED BY <2>4, <2>5, <2>6, <2>7, <2>8
          DEF HarnessNext, LauncherStep, LauncherFault, LauncherKilled, Finished
<1> QED BY <1>1, LauncherInvariance, PTL DEF HarnessSpec, IdleRunsOut

=============================================================================
