------------------------------ MODULE Launcher ------------------------------
(***************************************************************************)
(* The launcher process (cmd/loopai/main.go) with its two pipe goroutines  *)
(* (internal/launcher/stream.go), its idle detector, its signal goroutine  *)
(* and the client it runs inside a PTY (internal/launcher/pty.go).         *)
(*                                                                         *)
(*   lmain   the main goroutine, from Connect to os.Exit                   *)
(*   p2b     PipePTYToBackend                                              *)
(*   b2p     PipeBackendToPTY                                              *)
(*   sig     the goroutine waiting for SIGINT or SIGTERM                   *)
(*                                                                         *)
(* Every send is a context check and, later, a write that may block.  The  *)
(* PTY is two bounded byte streams of which only the fill matters here: a  *)
(* unit of ptyOut is a chunk one Read returns, a unit of ptyIn is one      *)
(* Write.  The slave side stays open while the client, or a process it     *)
(* left behind, holds it.                                                  *)
(***************************************************************************)
EXTENDS Wire, IdleDetector

CONSTANTS
  OutCap,             \* chunks of output the PTY buffers
  InCap,              \* writes of input the PTY buffers
  Passthrough         \* PTY output is also copied to stdout (-passthrough)

ASSUME LauncherAssumption ==
  /\ OutCap \in Nat \ {0}
  /\ InCap \in Nat \ {0}
  /\ Passthrough \in BOOLEAN

VARIABLES
  lmain, p2b, b2p, sig,
  teeErr,             \* the last Read also returned an error from stdout
  cbWrites,           \* idle callbacks past the context check of Send
  lctx,               \* the launcher's context is cancelled
  client,             \* the client process: none, alive, dead
  slave,              \* the slave side of the PTY is open
  ptyOut, ptyIn,      \* fill of the two directions of the PTY
  procDone            \* the wait goroutine stored the exit code, closed done

clientVars == <<client, slave, ptyOut, ptyIn, procDone>>
mainVars == <<lmain, lctx>>
pipeVars == <<p2b, b2p, teeErr>>
launcherVars == <<mainVars, pipeVars, sig, cbWrites, clientVars, idleVars>>

\* No goroutine but main, no client.
LauncherInit ==
  /\ lmain = "connect"
  /\ p2b = "off" /\ b2p = "off" /\ sig = "off"
  /\ teeErr = FALSE /\ cbWrites = 0 /\ lctx = FALSE
  /\ client = "none" /\ slave = FALSE
  /\ ptyOut = 0 /\ ptyIn = 0 /\ procDone = FALSE
  /\ IdleInit

\* The process is gone, its goroutines and the master side of the PTY with
\* it; what becomes of the client is not followed any further.
Gone ==
  /\ lmain' = "exit"
  /\ p2b' = "off" /\ b2p' = "off" /\ sig' = "off"
  /\ teeErr' = FALSE /\ cbWrites' = 0 /\ lctx' = FALSE
  /\ client' = "none" /\ slave' = FALSE
  /\ ptyOut' = 0 /\ ptyIn' = 0 /\ procDone' = FALSE
  /\ running' = FALSE /\ armed' = FALSE /\ fired' = 0 /\ calling' = 0

MainPCs ==
  {"connect", "spawn", "notify", "startedCheck", "startedWrite", "startIdle",
   "startPipes", "wait1", "stopIdle", "shutdownCheck", "shutdownWrite",
   "wait2", "waitProc", "exitedCheck", "exitedWrite", "finish", "exit"}

P2bEnded == p2b \in {"eof", "failed"}
B2pEnded == b2p = "ended"

LauncherTypeOK ==
  /\ lmain \in MainPCs
  /\ p2b \in {"off", "ctx", "read", "reset", "sendCheck", "sendWrite",
              "eof", "failed"}
  /\ b2p \in {"off", "ctx", "recv", "text", "enter", "ended"}
  /\ sig \in {"off", "wait", "cancel", "close", "done"}
  /\ teeErr \in BOOLEAN /\ cbWrites \in 0..MaxFire
  /\ lctx \in BOOLEAN
  /\ client \in {"none", "alive", "dead"} /\ slave \in BOOLEAN
  /\ ptyOut \in 0..OutCap /\ ptyIn \in 0..InCap
  /\ procDone \in BOOLEAN
  /\ IdleTypeOK

\* The process is there: no goroutine of it runs after os.Exit or a kill.
Up == lmain # "exit"

-----------------------------------------------------------------------------
(* main                                                                    *)

\* proto.Connect; without a backend the process exits.
MainConnect ==
  /\ lmain = "connect"
  /\ \/ lmain' = "spawn" /\ Dial
     \/ lmain' = "exit" /\ UNCHANGED wireVars
  /\ UNCHANGED <<lctx, pipeVars, sig, cbWrites, clientVars, idleVars>>

\* launcher.Spawn; if it fails the connection is closed and the process exits.
MainSpawn ==
  /\ lmain = "spawn"
  /\ \/ /\ lmain' = "notify"
        /\ client' = "alive" /\ slave' = TRUE
        /\ UNCHANGED wireVars
     \/ /\ lmain' = "exit"
        /\ lclosed' = TRUE
        /\ UNCHANGED <<client, slave, dialed, up, down, bclosed>>
  /\ UNCHANGED <<lctx, pipeVars, sig, cbWrites, idleVars,
                 ptyOut, ptyIn, procDone>>

\* signal.Notify and the goroutine that waits for the signal.
MainNotify ==
  /\ lmain = "notify"
  /\ lmain' = "startedCheck"
  /\ sig' = "wait"
  /\ UNCHANGED <<lctx, pipeVars, cbWrites, clientVars, idleVars, wireVars>>

\* The context check of a Send by main; on error main logs and goes on.
MainSendCheck(at, write, next) ==
  /\ lmain = at
  /\ lmain' = IF lctx THEN next ELSE write
  /\ UNCHANGED <<lctx, pipeVars, sig, cbWrites, clientVars, idleVars, wireVars>>

\* Its write.
MainSendWrite(at, kind, next) ==
  /\ lmain = at
  /\ UpWrite(NewMessage(kind, "")) \/ (UpBroken /\ UNCHANGED wireVars)
  /\ lmain' = next
  /\ UNCHANGED <<lctx, pipeVars, sig, cbWrites, clientVars, idleVars>>

MainStarted ==
  \/ MainSendCheck("startedCheck", "startedWrite", "startIdle")
  \/ MainSendWrite("startedWrite", "started", "startIdle")

MainStartIdle ==
  /\ lmain = "startIdle"
  /\ Start
  /\ lmain' = "startPipes"
  /\ UNCHANGED <<lctx, pipeVars, sig, cbWrites, clientVars, wireVars>>

MainStartPipes ==
  /\ lmain = "startPipes"
  /\ p2b' = "ctx"
  /\ b2p' = "ctx"
  /\ lmain' = "wait1"
  /\ UNCHANGED <<lctx, teeErr, sig, cbWrites, clientVars, idleVars, wireVars>>

\* The first <-errCh.
MainFirstPipe ==
  /\ lmain = "wait1"
  /\ P2bEnded \/ B2pEnded
  /\ lmain' = "stopIdle"
  /\ UNCHANGED <<lctx, pipeVars, sig, cbWrites, clientVars, idleVars, wireVars>>

MainStopIdle ==
  /\ lmain = "stopIdle"
  /\ Stop
  /\ lmain' = "shutdownCheck"
  /\ UNCHANGED <<lctx, pipeVars, sig, cbWrites, clientVars, wireVars>>

MainShutdown ==
  \/ MainSendCheck("shutdownCheck", "shutdownWrite", "wait2")
  \/ MainSendWrite("shutdownWrite", "shutdown", "wait2")

\* Mutant of MainSecondPipe: main does not wait for the other pipe.
MainSecondPipeSkipped ==
  /\ lmain = "wait2"
  /\ lmain' = "waitProc"
  /\ UNCHANGED <<lctx, pipeVars, sig, cbWrites, clientVars, idleVars, wireVars>>

\* The second <-errCh.
MainSecondPipe ==
  /\ lmain = "wait2"
  /\ P2bEnded /\ B2pEnded
  /\ lmain' = "waitProc"
  /\ UNCHANGED <<lctx, pipeVars, sig, cbWrites, clientVars, idleVars, wireVars>>

\* Mutant of MainWaitProc: main does not wait for the wait goroutine.
MainWaitProcSkipped ==
  /\ lmain = "waitProc"
  /\ lmain' = "exitedCheck"
  /\ UNCHANGED <<lctx, pipeVars, sig, cbWrites, clientVars, idleVars, wireVars>>

\* <-proc.Wait(), then proc.ExitCode().
MainWaitProc ==
  /\ lmain = "waitProc"
  /\ procDone
  /\ lmain' = "exitedCheck"
  /\ UNCHANGED <<lctx, pipeVars, sig, cbWrites, clientVars, idleVars, wireVars>>

MainExited ==
  \/ MainSendCheck("exitedCheck", "exitedWrite", "finish")
  \/ MainSendWrite("exitedWrite", "exited", "finish")

\* A nonzero code leaves by os.Exit, which runs no deferred call; otherwise
\* the deferred functions close the connection (unless the signal goroutine
\* did), close the PTY of the dead client and cancel the context.  Either
\* way the connection is closed when the process is gone.
MainFinish ==
  /\ lmain = "finish"
  /\ Gone
  /\ lclosed' = TRUE
  /\ UNCHANGED <<dialed, up, down, bclosed>>

Main ==
  \/ MainConnect
  \/ MainSpawn
  \/ MainNotify
  \/ MainStarted
  \/ MainStartIdle
  \/ MainStartPipes
  \/ MainFirstPipe
  \/ MainStopIdle
  \/ MainShutdown
  \/ MainSecondPipe
  \/ MainWaitProc
  \/ MainExited
  \/ MainFinish

-----------------------------------------------------------------------------
(* PipePTYToBackend                                                        *)

P2bCheck ==
  /\ p2b = "ctx"
  /\ p2b' = IF lctx THEN "failed" ELSE "read"
  /\ UNCHANGED <<mainVars, b2p, teeErr, sig, cbWrites, clientVars, idleVars, wireVars>>

\* Read returns a chunk.  With passthrough the TeeReader may fail on stdout:
\* the error comes with the chunk, or instead of it if nothing was copied.
P2bRead ==
  /\ p2b = "read"
  /\ ptyOut > 0
  /\ ptyOut' = ptyOut - 1
  /\ \/ /\ p2b' = "reset"
        /\ teeErr' \in (IF Passthrough THEN BOOLEAN ELSE {FALSE})
     \/ /\ Passthrough
        /\ p2b' = "failed"
        /\ teeErr' = TRUE
  /\ UNCHANGED <<mainVars, b2p, sig, cbWrites, idleVars, wireVars,
                 client, slave, ptyIn, procDone>>

\* EIO, reported as io.EOF: the slave side is closed and drained.
P2bEof ==
  /\ p2b = "read"
  /\ ptyOut = 0 /\ ~slave
  /\ p2b' = "eof"
  /\ UNCHANGED <<mainVars, b2p, teeErr, sig, cbWrites, clientVars, idleVars, wireVars>>

P2bReset ==
  /\ p2b = "reset"
  /\ Reset
  /\ p2b' = "sendCheck"
  /\ UNCHANGED <<mainVars, b2p, teeErr, sig, cbWrites, clientVars, wireVars>>

P2bSendCheck ==
  /\ p2b = "sendCheck"
  /\ p2b' = IF lctx THEN "failed" ELSE "sendWrite"
  /\ UNCHANGED <<mainVars, b2p, teeErr, sig, cbWrites, clientVars, idleVars, wireVars>>

\* The write; on success an error that came with the chunk ends the pipe.
P2bSendWrite ==
  /\ p2b = "sendWrite"
  /\ \/ /\ UpWrite(NewMessage("output", ""))
        /\ p2b' = IF teeErr THEN "failed" ELSE "ctx"
     \/ /\ UpBroken
        /\ p2b' = "failed"
        /\ UNCHANGED wireVars
  /\ UNCHANGED <<mainVars, b2p, teeErr, sig, cbWrites, clientVars, idleVars>>

P2b == P2bCheck \/ P2bRead \/ P2bEof \/ P2bReset \/ P2bSendCheck \/ P2bSendWrite

-----------------------------------------------------------------------------
(* PipeBackendToPTY                                                        *)

B2pCheck ==
  /\ b2p = "ctx"
  /\ b2p' = IF lctx THEN "ended" ELSE "recv"
  /\ UNCHANGED <<mainVars, p2b, teeErr, sig, cbWrites, clientVars, idleVars, wireVars>>

\* Mutant of AfterReceive: the error test on the payload is inverted.
AfterReceiveInverted(m) ==
  CASE m.type = "type" -> IF m.decodes THEN "ctx" ELSE "text"
    [] m.type \in {"shutdown", "corrupt"} -> "ended"
    [] OTHER -> "ctx"

\* Where a received frame takes the loop.  A type frame is written to the
\* PTY if its payload decodes; ctrl_c signals the client, whose reaction is
\* the client's; shutdown ends the loop, and so does a line that is not a
\* message; any other kind is warned about.
AfterReceive(m) ==
  CASE m.type = "type" -> IF m.decodes THEN "text" ELSE "ctx"
    [] m.type \in {"shutdown", "corrupt"} -> "ended"
    [] OTHER -> "ctx"

B2pReceive ==
  /\ b2p = "recv"
  /\ DownRead
  /\ b2p' = AfterReceive(Head(down))
  /\ UNCHANGED <<mainVars, p2b, teeErr, sig, cbWrites, clientVars, idleVars>>

B2pDisconnected ==
  /\ b2p = "recv"
  /\ DownEnded
  /\ b2p' = "ended"
  /\ UNCHANGED <<mainVars, p2b, teeErr, sig, cbWrites, clientVars, idleVars, wireVars>>

\* Write blocks while the client does not read.  With the slave side closed
\* it may fail.
B2pWrite(at, next) ==
  /\ b2p = at
  /\ \/ /\ ptyIn < InCap
        /\ ptyIn' = ptyIn + 1
        /\ b2p' = next
     \/ /\ ~slave
        /\ b2p' = "ended"
        /\ UNCHANGED ptyIn
  /\ UNCHANGED <<mainVars, p2b, teeErr, sig, cbWrites, idleVars, wireVars,
                 client, slave, ptyOut, procDone>>

\* The prompt text, then a carriage return as a second Write.
B2pType == B2pWrite("text", "enter") \/ B2pWrite("enter", "ctx")

B2p == B2pCheck \/ B2pReceive \/ B2pDisconnected \/ B2pType

-----------------------------------------------------------------------------
(* The idle detector's goroutines, and its callback: Send of an idle frame.*)

IdleExpires ==
  /\ TimerExpires
  /\ cbWrites + fired + calling < MaxFire
  /\ UNCHANGED <<mainVars, pipeVars, sig, cbWrites, clientVars, wireVars>>

IdleFire ==
  /\ FireCheck
  /\ UNCHANGED <<mainVars, pipeVars, sig, cbWrites, clientVars, wireVars>>

IdleSendCheck ==
  /\ Callback
  /\ cbWrites' = IF lctx THEN cbWrites ELSE cbWrites + 1
  /\ UNCHANGED <<mainVars, pipeVars, sig, clientVars, wireVars>>

IdleSendWrite ==
  /\ cbWrites > 0
  /\ cbWrites' = cbWrites - 1
  /\ UpWrite(NewMessage("idle", "")) \/ (UpBroken /\ UNCHANGED wireVars)
  /\ UNCHANGED <<mainVars, pipeVars, sig, clientVars, idleVars>>

Idle == IdleExpires \/ IdleFire \/ IdleSendCheck \/ IdleSendWrite

-----------------------------------------------------------------------------
(* Signals                                                                 *)

\* SIGINT or SIGTERM arrives.  It is also forwarded to the client, which may
\* ignore it.
SignalArrives ==
  /\ sig = "wait"
  /\ sig' = "cancel"
  /\ UNCHANGED <<mainVars, pipeVars, cbWrites, clientVars, idleVars, wireVars>>

SigCancel ==
  /\ sig = "cancel"
  /\ lctx' = TRUE
  /\ sig' = "close"
  /\ UNCHANGED <<lmain, pipeVars, cbWrites, clientVars, idleVars, wireVars>>

\* Mutant of SigClose: the goroutine only cancels the context.
SigCloseForgotten ==
  /\ sig = "close"
  /\ sig' = "done"
  /\ UNCHANGED <<mainVars, pipeVars, cbWrites, clientVars, idleVars, wireVars>>

\* closed.CompareAndSwap, then pc.Close; the flag is as good as lclosed.
SigClose ==
  /\ sig = "close"
  /\ sig' = "done"
  /\ lclosed' = TRUE
  /\ UNCHANGED <<mainVars, pipeVars, cbWrites, clientVars, idleVars,
                 dialed, up, down, bclosed>>

Sig == SigCancel \/ SigClose

\* The process is killed, or dies of a signal before signal.Notify (spawn's
\* forwarder or main's); the kernel closes its end of the connection.
LauncherKilled ==
  /\ Gone
  /\ lclosed' = TRUE
  /\ UNCHANGED <<dialed, up, down, bclosed>>

-----------------------------------------------------------------------------
(* The client and the PTY                                                  *)

\* Output and input of the client, or of a process it left behind.
ClientOutput ==
  /\ slave
  /\ ptyOut < OutCap
  /\ ptyOut' = ptyOut + 1
  /\ UNCHANGED <<client, slave, ptyIn, procDone>>

ClientReads ==
  /\ slave
  /\ ptyIn > 0
  /\ ptyIn' = ptyIn - 1
  /\ UNCHANGED <<client, slave, ptyOut, procDone>>

\* The client exits or is killed; a process it left behind may hold the slave.
ClientExits ==
  /\ client = "alive"
  /\ client' = "dead"
  /\ slave' \in BOOLEAN
  /\ UNCHANGED <<ptyOut, ptyIn, procDone>>

OrphansExit ==
  /\ client = "dead"
  /\ slave
  /\ slave' = FALSE
  /\ UNCHANGED <<client, ptyOut, ptyIn, procDone>>

\* The wait goroutine of spawn: it stores the code and closes done.
Reap ==
  /\ client = "dead"
  /\ ~procDone
  /\ procDone' = TRUE
  /\ UNCHANGED <<client, slave, ptyOut, ptyIn>>

Client ==
  /\ ClientOutput \/ ClientReads \/ ClientExits \/ OrphansExit \/ Reap
  /\ UNCHANGED <<mainVars, pipeVars, sig, cbWrites, idleVars, wireVars>>

-----------------------------------------------------------------------------

LauncherStep == Up /\ (Main \/ P2b \/ B2p \/ Idle \/ Sig \/ Client)

\* What users and the system do to the process from outside.
LauncherFault(f) ==
  /\ Up
  /\ \/ f = "signal" /\ SignalArrives
     \/ f = "kill" /\ LauncherKilled

=============================================================================
