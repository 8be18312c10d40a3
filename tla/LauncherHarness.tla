--------------------------- MODULE LauncherHarness ---------------------------
(***************************************************************************)
(* The launcher against a backend that follows no protocol: it sends any   *)
(* frame, well formed or not, reads or does not read, closes at any time.  *)
(***************************************************************************)
EXTENDS Launcher

harnessVars == <<launcherVars, wireVars>>

CONSTANT BackendFrames \* the frames this backend may send

HarnessInit == WireInit /\ LauncherInit

BackendReads ==
  /\ ~bclosed
  /\ UpRead
  /\ UNCHANGED launcherVars

BackendSends ==
  /\ dialed
  /\ \E m \in BackendFrames : DownWrite(m)
  /\ UNCHANGED launcherVars

BackendCloses ==
  /\ dialed /\ ~bclosed
  /\ bclosed' = TRUE
  /\ UNCHANGED <<launcherVars, dialed, up, down, lclosed>>

Finished == ~Up /\ UNCHANGED harnessVars

HarnessNext ==
  \/ LauncherStep
  \/ LauncherFault("signal")
  \/ LauncherFault("kill")
  \/ BackendReads
  \/ BackendSends
  \/ BackendCloses
  \/ Finished

\* Each goroutine of the launcher is scheduled and the kernel reports a dead
\* child.  Nothing is assumed of the backend, the client or the user.
HarnessSpec ==
  /\ HarnessInit
  /\ [][HarnessNext]_harnessVars
  /\ WF_harnessVars(Up /\ Main)
  /\ WF_harnessVars(Up /\ P2b)
  /\ WF_harnessVars(Up /\ B2p)
  /\ WF_harnessVars(Up /\ Sig)
  /\ WF_harnessVars(Up /\ Reap /\ UNCHANGED <<mainVars, pipeVars, sig, cbWrites,
                                            idleVars, wireVars>>)

-----------------------------------------------------------------------------

\* The exited frame is written only after the client was reaped (its exit code
\* is final) and all it, or a process it left behind, ever printed has been
\* forwarded; a broken stdout is the one excuse for missing output.
ExitedAfterAllOutput ==
  Up => \A i \in DOMAIN up : up[i].type = "exited" =>
    /\ procDone
    /\ \/ p2b = "eof" /\ ptyOut = 0 /\ ~slave
       \/ p2b = "failed" /\ teeErr

\* The frames of a session are sent in order although four goroutines send
\* them: started comes first and once; when main has joined both pipes there
\* is nothing to send but exited and an idle frame whose callback was past the
\* detector when main stopped it; after exited there is at most the latter.
SentInOrder ==
  Len(up') > Len(up) =>
    LET sent == up'[Len(up')].type
    IN /\ lmain \in {"connect", "spawn", "notify", "startedCheck", "startedWrite"}
            <=> sent = "started"
       /\ lmain \in {"waitProc", "exitedCheck", "exitedWrite"} => sent \in {"idle", "exited"}
       /\ lmain = "finish" => sent = "idle"

FrameOrder == [][SentInOrder]_harnessVars

\* Once main has stopped the detector, the idle callbacks in flight (expired,
\* admitted, or before the write of their frame) become fewer and never more,
\* whatever the output pipe and the timer did just before.
IdleRunsOut ==
  [][(lmain \in {"shutdownCheck", "shutdownWrite", "wait2", "waitProc",
                "exitedCheck", "exitedWrite", "finish"})
     => fired' + calling' + cbWrites' <= fired + calling + cbWrites]_harnessVars

\* When the connection is lost, or SIGINT or SIGTERM has arrived, and nobody
\* holds the PTY any more, the launcher exits whatever the backend does: no
\* goroutine is left blocked on a socket, a PTY or a channel.
AbandonedLauncherExits ==
  ((dialed /\ UpBroken) \/ sig \in {"cancel", "close"})
    /\ client = "dead" /\ ~slave ~> ~Up

=============================================================================
