------------------------------- MODULE PidFile -------------------------------
(***************************************************************************)
(* How backends on one machine keep out of each other's way: the PID file  *)
(* and the socket path they share (cmd/loopai-backend/pid.go, main.go and  *)
(* proto.Listen), and the stop subcommand.                                 *)
(*                                                                         *)
(* A process is named by its PID and runs once.  Every access to the file  *)
(* system is a step of its own: another process may come in between.  A    *)
(* PID that has become free may be given to a process that has nothing to  *)
(* do with this program.  A PID file is written whole or not at all: that  *)
(* one process may rename a temporary file another has only truncated is   *)
(* not followed.                                                           *)
(***************************************************************************)
CONSTANTS
  Procs,              \* backend processes, by PID
  None,               \* no file, no process
  SerialStarts        \* no two backends are started at the same time

ASSUME PidFileAssumption == None \notin Procs /\ SerialStarts \in BOOLEAN

VARIABLES
  ppc,                \* where each backend is
  seen,               \* the PID it read from the PID file
  pidFile,            \* whose PID loopai.pid holds
  tmpFile,            \* whose PID loopai.pid.tmp holds
  sock,               \* whose listener the socket path leads to
  cancelled,          \* backends whose signal handler has run
  recycled,           \* PIDs of dead backends now in use by other programs
                      \* of the same user (others cannot be signalled and
                      \* are taken for dead by the probe)
  stopper,            \* the stop subcommand: idle, kill, poll, ok, failed
  target              \* the PID it read

pidVars == <<ppc, seen, pidFile, tmpFile, sock, cancelled, recycled, stopper, target>>

Checking == {"read", "probe", "remove", "writeTmp", "rename", "removeTmp"}
Listening == {"unlink", "bind"}
Ended == {"refused", "exited", "crashed"}
PidPCs == {"none", "serving", "exiting"} \cup Checking \cup Listening \cup Ended

PidInit ==
  /\ ppc = [p \in Procs |-> "none"]
  /\ seen = [p \in Procs |-> None]
  /\ pidFile = None
  /\ tmpFile = None
  /\ sock = None
  /\ cancelled = {}
  /\ recycled = {}
  /\ stopper = "idle"
  /\ target = None

Running(p) == ppc[p] \notin Ended \cup {"none"}

\* Signal 0 finds a process with this PID, a backend or not.
Answers(p) == Running(p) \/ p \in recycled

Goto(p, pc) == ppc' = [ppc EXCEPT ![p] = pc]

-----------------------------------------------------------------------------
(* checkAndWritePID                                                        *)

Launch(p) ==
  /\ ppc[p] = "none"
  /\ SerialStarts => \A q \in Procs : ppc[q] \notin Checking \cup Listening
  /\ Goto(p, "read")
  /\ UNCHANGED <<seen, pidFile, tmpFile, sock, cancelled, recycled, stopper, target>>

ReadPid(p) ==
  /\ ppc[p] = "read"
  /\ seen' = [seen EXCEPT ![p] = pidFile]
  /\ Goto(p, IF pidFile = None THEN "writeTmp" ELSE "probe")
  /\ UNCHANGED <<pidFile, tmpFile, sock, cancelled, recycled, stopper, target>>

\* Mutant of ProbePid: a PID file that exists is taken for stale.
ProbePidSkipped(p) ==
  /\ ppc[p] = "probe"
  /\ Goto(p, "remove")
  /\ UNCHANGED <<seen, pidFile, tmpFile, sock, cancelled, recycled, stopper, target>>

\* proc.Signal(syscall.Signal(0)): refuse to start if it answers.
ProbePid(p) ==
  /\ ppc[p] = "probe"
  /\ Goto(p, IF Answers(seen[p]) THEN "refused" ELSE "remove")
  /\ UNCHANGED <<seen, pidFile, tmpFile, sock, cancelled, recycled, stopper, target>>

\* os.Remove(pidPath), whatever the file holds by now.
RemovePid(p) ==
  /\ ppc[p] = "remove"
  /\ pidFile' = None
  /\ Goto(p, "writeTmp")
  /\ UNCHANGED <<seen, tmpFile, sock, cancelled, recycled, stopper, target>>

\* Mutant of WriteTmp: the error of os.WriteFile is dropped, and whatever lies
\* under the temporary name is renamed.
WriteTmpUnchecked(p) ==
  /\ ppc[p] = "writeTmp"
  /\ tmpFile' \in {p, tmpFile}
  /\ Goto(p, "rename")
  /\ UNCHANGED <<seen, pidFile, sock, cancelled, recycled, stopper, target>>

\* os.WriteFile(tmpPath), which may fail; all processes share the one name.
WriteTmp(p) ==
  /\ ppc[p] = "writeTmp"
  /\ \/ tmpFile' = p /\ Goto(p, "rename")
     \/ tmpFile' = tmpFile /\ Goto(p, "refused")
  /\ UNCHANGED <<seen, pidFile, sock, cancelled, recycled, stopper, target>>

\* Mutant of RenameTmp: the temporary file is never moved into place.
RenameTmpSkipped(p) ==
  /\ ppc[p] = "rename"
  /\ Goto(p, "unlink")
  /\ UNCHANGED <<seen, pidFile, tmpFile, sock, cancelled, recycled, stopper, target>>

\* os.Rename moves whatever the shared temporary file holds, or fails: always
\* when another process has moved it already, and perhaps for other reasons.
RenameTmp(p) ==
  /\ ppc[p] = "rename"
  /\ \/ /\ tmpFile # None
        /\ pidFile' = tmpFile
        /\ tmpFile' = None
        /\ Goto(p, "unlink")
     \/ /\ Goto(p, "removeTmp")
        /\ UNCHANGED <<pidFile, tmpFile>>
  /\ UNCHANGED <<seen, sock, cancelled, recycled, stopper, target>>

\* os.Remove(tmpPath) after a failed rename, and the error.
RemoveTmp(p) ==
  /\ ppc[p] = "removeTmp"
  /\ tmpFile' = None
  /\ Goto(p, "refused")
  /\ UNCHANGED <<seen, pidFile, sock, cancelled, recycled, stopper, target>>

-----------------------------------------------------------------------------
(* Run: proto.Listen, serving, and the end of the process                  *)

\* os.Remove(socketPath): the stale socket, or somebody's live one.
UnlinkSocket(p) ==
  /\ ppc[p] = "unlink"
  /\ sock' = None
  /\ Goto(p, "bind")
  /\ UNCHANGED <<seen, pidFile, tmpFile, cancelled, recycled, stopper, target>>

\* net.Listen; the address may be in use again.
BindSocket(p) ==
  /\ ppc[p] = "bind"
  /\ \/ sock = None /\ sock' = p /\ Goto(p, "serving")
     \/ sock # None /\ sock' = sock /\ Goto(p, "exiting")
  /\ UNCHANGED <<seen, pidFile, tmpFile, cancelled, recycled, stopper, target>>

\* SIGINT or SIGTERM after signal.Notify: the context is cancelled.
Signalled(p) ==
  /\ ppc[p] \in Listening \cup {"serving"}
  /\ cancelled' = cancelled \cup {p}
  /\ UNCHANGED <<ppc, seen, pidFile, tmpFile, sock, recycled, stopper, target>>

\* Stop closes the listener, which unlinks the path it was bound to, whoever
\* owns that path now.
CloseListener(p) ==
  /\ ppc[p] = "serving"
  /\ p \in cancelled
  /\ sock' = None
  /\ Goto(p, "exiting")
  /\ UNCHANGED <<seen, pidFile, tmpFile, cancelled, recycled, stopper, target>>

\* Run never returns nil, so main leaves by os.Exit(1) and the deferred
\* removal of the PID file does not run.  A Run that notices the cancellation
\* by itself may leave before Stop has closed the listener.
ExitProcess(p) ==
  /\ ppc[p] = "exiting" \/ (ppc[p] = "serving" /\ p \in cancelled)
  /\ Goto(p, "exited")
  /\ UNCHANGED <<seen, pidFile, tmpFile, sock, cancelled, recycled, stopper, target>>

\* Killed, or a signal before signal.Notify; a bound socket path stays behind.
Crash(p) ==
  /\ Running(p)
  /\ Goto(p, "crashed")
  /\ UNCHANGED <<seen, pidFile, tmpFile, sock, cancelled, recycled, stopper, target>>

\* The system gives a free PID to another program.
Recycle(p) ==
  /\ ppc[p] \in Ended
  /\ p \notin recycled
  /\ recycled' = recycled \cup {p}
  /\ UNCHANGED <<ppc, seen, pidFile, tmpFile, sock, cancelled, stopper, target>>

BackendProc(p) ==
  \/ Launch(p) \/ ReadPid(p) \/ ProbePid(p) \/ RemovePid(p)
  \/ WriteTmp(p) \/ RenameTmp(p) \/ RemoveTmp(p) \/ UnlinkSocket(p) \/ BindSocket(p)
  \/ Signalled(p) \/ CloseListener(p) \/ ExitProcess(p)
  \/ Crash(p) \/ Recycle(p)

-----------------------------------------------------------------------------
(* stopBackend                                                             *)

StopReads ==
  /\ stopper = "idle"
  /\ target' = pidFile
  /\ stopper' = IF pidFile = None THEN "failed" ELSE "kill"
  /\ UNCHANGED <<ppc, seen, pidFile, tmpFile, sock, cancelled, recycled>>

\* SIGTERM to the PID read.  A backend that has not called signal.Notify yet
\* dies of it, a later one cancels its context; another program with that PID
\* gets it instead.
StopKills ==
  /\ stopper = "kill"
  /\ stopper' = IF Answers(target) THEN "poll" ELSE "failed"
  /\ ppc' = IF ppc[target] \in Checking THEN [ppc EXCEPT ![target] = "crashed"] ELSE ppc
  /\ cancelled' = IF ppc[target] \in Listening \cup {"serving"}
                  THEN cancelled \cup {target} ELSE cancelled
  /\ UNCHANGED <<seen, pidFile, tmpFile, sock, recycled, target>>

\* Up to 30 polls for the PID file to disappear.
StopPolls ==
  /\ stopper = "poll"
  /\ \/ pidFile = None /\ stopper' = "ok"
     \/ pidFile # None /\ stopper' = "failed"
  /\ UNCHANGED <<ppc, seen, pidFile, tmpFile, sock, cancelled, recycled, target>>

StopEnds ==
  /\ stopper \in {"ok", "failed"}
  /\ stopper' = "idle"
  /\ target' = None
  /\ UNCHANGED <<ppc, seen, pidFile, tmpFile, sock, cancelled, recycled>>

StopCommand == StopReads \/ StopKills \/ StopPolls \/ StopEnds

PidNext == StopCommand \/ \E p \in Procs : BackendProc(p)

PidSpec == PidInit /\ [][PidNext]_pidVars

-----------------------------------------------------------------------------

\* Type invariant.
PidTypeOK ==
  /\ ppc \in [Procs -> PidPCs]
  /\ seen \in [Procs -> Procs \cup {None}]
  /\ pidFile \in Procs \cup {None}
  /\ tmpFile \in Procs \cup {None}
  /\ sock \in Procs \cup {None}
  /\ cancelled \subseteq Procs /\ recycled \subseteq Procs
  /\ stopper \in {"idle", "kill", "poll", "ok", "failed"}
  /\ target \in Procs \cup {None}
  /\ stopper = "kill" => target # None

\* The processes past checkAndWritePID.
Owner(p) == ppc[p] \in Listening \cup {"serving", "exiting"}

\* "If the PID is alive, it returns an error": at most one backend at a time
\* gets past checkAndWritePID.
OneBackend == \A p, q \in Procs : Owner(p) /\ Owner(q) => p = q

\* While a backend serves, the PID file holds its PID, so that stop and the
\* next start find it, and the socket path leads to it, so that launchers do.
ServingIsFound ==
  \A p \in Procs : ppc[p] = "serving" => pidFile = p /\ sock = p

\* What makes the two inductive when starts do not overlap: a process on its
\* way through checkAndWritePID is alone there, what it has read is still what
\* the file says, and once it has found the file absent or stale nobody owns
\* the file any more.
PidInv ==
  /\ PidTypeOK
  /\ \A p, q \in Procs :
       ppc[p] \in Checking \cup Listening /\ ppc[q] \in Checking \cup Listening => p = q
  /\ \A p \in Procs : Owner(p) => pidFile = p
  /\ \A p \in Procs : ppc[p] = "probe" => seen[p] = pidFile /\ pidFile # None
  /\ \A p, q \in Procs :
       ppc[p] \in {"remove", "writeTmp", "rename", "removeTmp"} => ~Owner(q)
  /\ \A p \in Procs : ppc[p] = "rename" => tmpFile = p
  /\ \A p \in Procs : ppc[p] = "bind" => sock = None
  /\ \A p \in Procs : ppc[p] = "serving" => sock = p

\* "the backend's defer removes it on exit": no PID file of a backend that
\* has shut down in good order is left behind.
PidFileRemovedOnExit == \A p \in Procs : ppc[p] = "exited" => pidFile # p

=============================================================================
