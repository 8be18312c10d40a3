-------------------------- MODULE BackendPartProofs --------------------------
(***************************************************************************)
(* Proofs about the parts of the backend side: Run, Stop and the WaitGroup *)
(* for any number of connections, the PID file and the socket for any      *)
(* number of processes whose starts do not overlap, and the tool runner    *)
(* for any limit on the output.  The output buffer is in StreamProofs.     *)
(***************************************************************************)
EXTENDS Server, PidFile, ToolRunner, SequenceTheorems, TLAPS

-----------------------------------------------------------------------------
(* The server                                                              *)

\* Run, Stop and the handlers start in a state that satisfies the invariant.
LEMMA ServerInitInv == ServerInit => ServerInv
BY DEF ServerInit, ServerInv, ServerTypeOK, RunPCs, SigPCs, ConnStates

\* Every step of Backend.Run preserves the invariant: in particular the check
\* of the context after Store, which is what a Stop that found no listener
\* relies on.
LEMMA RunInv == ServerInv /\ rpc # "returned" /\ Run => ServerInv'
<1> SUFFICES ASSUME ServerInv, Run PROVE ServerInv'
  OBVIOUS
<1> USE DEF ServerInv, ServerTypeOK, RunPCs, SigPCs, ConnStates
<1>1. CASE RunListen
  BY <1>1 DEF RunListen
<1>2. CASE RunStore
  BY <1>2 DEF RunStore
<1>3. CASE RunCheck
  BY <1>3 DEF RunCheck
<1>4. ASSUME NEW c \in Conns, RunAccept(c) PROVE ServerInv'
  BY <1>4 DEF RunAccept
<1>5. ASSUME NEW err \in AcceptErrors \cup {"closed"}, RunAcceptFails(err)
      PROVE  ServerInv'
  BY <1>5, AcceptErrorsAssumption DEF RunAcceptFails, AfterAcceptError
<1>6. CASE RunSleep
  BY <1>6 DEF RunSleep
<1>7. CASE RunAdd
  BY <1>7 DEF RunAdd
<1>8. CASE RunWait
  BY <1>8 DEF RunWait
<1> QED BY <1>1, <1>2, <1>3, <1>4, <1>5, <1>6, <1>7, <1>8 DEF Run, RunProgress

\* Every step of the signal goroutine preserves it.
LEMMA StopInv == ServerInv /\ (SignalArrives \/ Stop) => ServerInv'
<1> SUFFICES ASSUME ServerInv, SignalArrives \/ Stop PROVE ServerInv'
  OBVIOUS
<1> USE DEF ServerInv, ServerTypeOK, RunPCs, SigPCs, ConnStates
<1>1. CASE SignalArrives
  BY <1>1 DEF SignalArrives
<1>2. CASE SigCancel
  BY <1>2 DEF SigCancel
<1>3. CASE StopLoad
  BY <1>3 DEF StopLoad
<1>4. CASE StopClose
  BY <1>4 DEF StopClose
<1>5. CASE StopWait
  BY <1>5 DEF StopWait
<1> QED BY <1>1, <1>2, <1>3, <1>4, <1>5 DEF Stop

\* Launchers that come and go, and handlers that return, preserve it.
LEMMA ConnInv ==
  ASSUME ServerInv, rpc # "returned", NEW c \in Conns,
         \/ LauncherDials(c) \/ LauncherLeaves(c)
         \/ HandlerDisconnected(c) \/ HandlerCancelled(c)
  PROVE  ServerInv'
<1> USE DEF ServerInv, ServerTypeOK, RunPCs, SigPCs, ConnStates
<1>1. CASE LauncherDials(c)
  BY <1>1 DEF LauncherDials
<1>2. CASE LauncherLeaves(c)
  BY <1>2 DEF LauncherLeaves
<1>3. CASE HandlerReturns(c)
  BY <1>3 DEF HandlerReturns
<1> QED BY <1>1, <1>2, <1>3 DEF HandlerDisconnected, HandlerCancelled

\* The inductive invariant holds in every reachable state of the server.
THEOREM ServerInvariance == ServerSpec => []ServerInv
<1>1. ServerInit => ServerInv
  BY ServerInitInv
<1>2. ServerInv /\ [ServerNext]_serverVars => ServerInv'
  <2> SUFFICES ASSUME ServerInv, [ServerNext]_serverVars PROVE ServerInv'
    OBVIOUS
  <2>1. CASE UNCHANGED serverVars
    BY <2>1 DEF serverVars, ServerInv, ServerTypeOK
  <2>2. CASE ServerNext /\ rpc # "returned"
    BY <2>2, RunInv, StopInv, ConnInv DEF ServerNext
  <2>3. CASE ServerNext /\ rpc = "returned"
    BY <2>1, <2>3 DEF ServerNext
  <2> QED BY <2>1, <2>2, <2>3
<1> QED BY <1>1, <1>2, PTL DEF ServerSpec

\* Whenever Stop has looked for the listener, Run is not left in Accept on a
\* listener that nobody closes, for any number of connections.
THEOREM NoLostWakeupHolds == ServerSpec => []NoLostWakeup
<1>1. ServerInv => NoLostWakeup
  BY DEF ServerInv, NoLostWakeup
<1> QED BY <1>1, ServerInvariance, PTL

\* A Run that returns because of the cancellation leaves no connection that
\* was accepted and not handled to its end.
THEOREM RunWaitsHolds == ServerSpec => []RunWaitsForHandlers
<1>1. ServerInv => RunWaitsForHandlers
  BY DEF ServerInv, RunWaitsForHandlers
<1> QED BY <1>1, ServerInvariance, PTL

-----------------------------------------------------------------------------
(* The PID file and the socket                                             *)

\* The invariant and all it is made of.
LEMMA PidInitInv == PidInit => PidInv
BY PidFileAssumption
DEF PidInit, PidInv, PidTypeOK, PidPCs, Checking, Listening, Ended, Owner

\* The steps of checkAndWritePID keep the invariant.  ProbePid is the heart:
\* an owner is running and its PID is what the process has read, so signal 0
\* answers and the start is refused.
LEMMA CheckingInv ==
  ASSUME PidInv, SerialStarts, NEW p \in Procs,
         \/ Launch(p) \/ ReadPid(p) \/ ProbePid(p) \/ RemovePid(p)
         \/ WriteTmp(p) \/ RenameTmp(p) \/ RemoveTmp(p)
  PROVE  PidInv'
<1> USE PidFileAssumption
    DEF PidInv, PidTypeOK, PidPCs, Checking, Listening, Ended, Owner, Goto
<1>1. CASE Launch(p)
  BY <1>1 DEF Launch
<1>2. CASE ReadPid(p)
  BY <1>2 DEF ReadPid
<1>3. CASE ProbePid(p)
  <2>1. ~Answers(seen[p]) => \A q \in Procs : ~Owner(q)
    BY <1>3 DEF ProbePid, Answers, Running
  <2> QED BY <1>3, <2>1 DEF ProbePid
<1>4. CASE RemovePid(p)
  BY <1>4 DEF RemovePid
<1>5. CASE WriteTmp(p)
  BY <1>5 DEF WriteTmp
<1>6. CASE RenameTmp(p)
  BY <1>6 DEF RenameTmp
<1>7. CASE RemoveTmp(p)
  BY <1>7 DEF RemoveTmp
<1> QED BY <1>1, <1>2, <1>3, <1>4, <1>5, <1>6, <1>7

\* So do proto.Listen, the end of the process in good order or not, and the
\* reuse of its PID.
LEMMA ServingInv ==
  ASSUME PidInv, NEW p \in Procs,
         \/ UnlinkSocket(p) \/ BindSocket(p) \/ Signalled(p)
         \/ CloseListener(p) \/ ExitProcess(p) \/ Crash(p) \/ Recycle(p)
  PROVE  PidInv'
<1> USE PidFileAssumption
    DEF PidInv, PidTypeOK, PidPCs, Checking, Listening, Ended, Owner, Goto
<1>1. CASE UnlinkSocket(p)
  BY <1>1 DEF UnlinkSocket
<1>2. CASE BindSocket(p)
  BY <1>2 DEF BindSocket
<1>3. CASE Signalled(p)
  BY <1>3 DEF Signalled
<1>4. CASE CloseListener(p)
  BY <1>4 DEF CloseListener
<1>5. CASE ExitProcess(p)
  BY <1>5 DEF ExitProcess
<1>6. CASE Crash(p)
  BY <1>6 DEF Crash, Running
<1>7. CASE Recycle(p)
  BY <1>7 DEF Recycle
<1> QED BY <1>1, <1>2, <1>3, <1>4, <1>5, <1>6, <1>7

\* So does the stop subcommand, which writes no file.
LEMMA StopCommandInv == PidInv /\ StopCommand => PidInv'
<1> SUFFICES ASSUME PidInv, StopCommand PROVE PidInv'
  OBVIOUS
<1> USE PidFileAssumption
    DEF PidInv, PidTypeOK, PidPCs, Checking, Listening, Ended, Owner
<1>1. CASE StopReads
  BY <1>1 DEF StopReads
<1>2. CASE StopKills
  <2>1. target \in Procs
    BY <1>2 DEF StopKills
  <2>2. CASE ppc[target] \in Checking
    BY <1>2, <2>1, <2>2 DEF StopKills
  <2>3. CASE ppc[target] \notin Checking
    BY <1>2, <2>1, <2>3 DEF StopKills
  <2> QED BY <2>2, <2>3
<1>3. CASE StopPolls
  BY <1>3 DEF StopPolls
<1>4. CASE StopEnds
  BY <1>4 DEF StopEnds
<1> QED BY <1>1, <1>2, <1>3, <1>4 DEF StopCommand

\* With starts that do not overlap the invariant holds in every state.
THEOREM PidInvariance == ASSUME SerialStarts PROVE PidSpec => []PidInv
<1>1. PidInit => PidInv
  BY PidInitInv
<1>2. PidInv /\ [PidNext]_pidVars => PidInv'
  <2> SUFFICES ASSUME PidInv, [PidNext]_pidVars PROVE PidInv'
    OBVIOUS
  <2>1. CASE UNCHANGED pidVars
    BY <2>1 DEF pidVars, PidInv, PidTypeOK, Owner
  <2>2. CASE StopCommand
    BY <2>2, StopCommandInv
  <2>3. ASSUME NEW p \in Procs, BackendProc(p) PROVE PidInv'
    BY <2>3, CheckingInv, ServingInv DEF BackendProc
  <2> QED BY <2>1, <2>2, <2>3 DEF PidNext
<1> QED BY <1>1, <1>2, PTL DEF PidSpec

\* At most one backend at a time is past checkAndWritePID.
THEOREM OneBackendHolds == ASSUME SerialStarts PROVE PidSpec => []OneBackend
<1>1. PidInv => OneBackend
  BY PidFileAssumption DEF PidInv, OneBackend
<1> QED BY <1>1, PidInvariance, PTL

\* A serving backend is the one the PID file and the socket path lead to.
THEOREM ServingIsFoundHolds == ASSUME SerialStarts PROVE PidSpec => []ServingIsFound
<1>1. PidInv => ServingIsFound
  BY DEF PidInv, ServingIsFound, Owner
<1> QED BY <1>1, PidInvariance, PTL

-----------------------------------------------------------------------------
(* ToolRunner                                                              *)

ToolOutcomes ==
  [tool : {"build", "lint", "test"}, passed : BOOLEAN, timedOut : BOOLEAN,
   output : [bytes : Nat, cut : BOOLEAN]]

ToolEnded == {"passed", "failed", "killed"}

ToolTypes ==
  /\ tpc \in {"start", "wait", "drain", "verdict", "returned"}
  /\ tool \in 1..3
  /\ toolProc \in {"none", "running"} \cup ToolEnded
  /\ helpers \in BOOLEAN /\ expired \in BOOLEAN /\ waitErr \in BOOLEAN
  /\ printed \in Nat /\ collected \in Nat
  /\ toolResults \in Seq(ToolOutcomes)

\* What runTool has established at each of its steps.  That nobody holds the
\* pipe at the verdict, and that the tool has ended, is what keeps the output
\* it reports from growing afterwards.
ToolInv ==
  /\ ToolTypes
  /\ toolProc = "none" => ~helpers /\ printed = 0 /\ collected = 0
  /\ tpc = "start" => toolProc = "none" /\ ~waitErr
  /\ tpc = "wait" => toolProc # "none"
  /\ tpc = "drain" => toolProc \in ToolEnded /\ waitErr = (toolProc # "passed")
  /\ tpc = "verdict" =>
       \/ toolProc = "none" /\ waitErr
       \/ /\ toolProc \in ToolEnded
          /\ waitErr = (toolProc # "passed")
          /\ ~helpers /\ collected = printed

LEMMA ToolInvInit == ToolInit => ToolInv
<1> SUFFICES ASSUME ToolInit PROVE ToolInv
  OBVIOUS
<1>1. /\ helpers \in BOOLEAN /\ expired \in BOOLEAN /\ waitErr \in BOOLEAN
      /\ ~helpers /\ ~waitErr
  BY Zenon DEF ToolInit
<1>2. /\ tpc = "start" /\ tool = 1 /\ toolProc = "none" /\ printed = 0
      /\ collected = 0 /\ toolResults = <<>>
  BY DEF ToolInit
<1> QED BY <1>1, <1>2 DEF ToolInv, ToolTypes

\* Starting, killing, waiting and copying.
LEMMA ToolRunInv ==
  ASSUME ToolInv, StartTool \/ KillTool \/ WaitTool \/ CopyOutput \/ OutputEnds
  PROVE  ToolInv'
<1> USE DEF ToolInv, ToolTypes, ToolEnded
<1>1. CASE StartTool
  BY <1>1 DEF StartTool
<1>2. CASE KillTool
  BY <1>2 DEF KillTool
<1>3. CASE WaitTool
  BY <1>3 DEF WaitTool
<1>4. CASE CopyOutput
  BY <1>4 DEF CopyOutput
<1>5. CASE OutputEnds
  BY <1>5 DEF OutputEnds
<1> QED BY <1>1, <1>2, <1>3, <1>4, <1>5

\* The verdict is a well-formed result, whatever the limit on its output.
LEMMA OutcomeType == ToolInv => ToolOutcome \in ToolOutcomes
<1> SUFFICES ASSUME ToolInv PROVE ToolOutcome \in ToolOutcomes
  OBVIOUS
<1>1. ToolOrder[tool] \in {"build", "lint", "test"}
  BY DEF ToolInv, ToolTypes, ToolOrder
<1>2. Truncate(collected) \in [bytes : Nat, cut : BOOLEAN]
  BY MaxToolOutputAssumption DEF ToolInv, ToolTypes, Truncate
<1>3. Passed \in BOOLEAN /\ expired \in BOOLEAN
  BY DEF Passed, ToolInv, ToolTypes
<1> HIDE DEF Passed
<1> QED BY <1>1, <1>2, <1>3 DEF ToolOutcome, ToolOutcomes

\* runTool returns, and RunAll goes on or returns; the gate calls it again.
LEMMA ToolReturnInv ==
  ASSUME ToolInv, ReturnTool \/ CallRunAll
  PROVE  ToolInv'
<1>1. CASE ReturnTool
  <2>1. toolResults' \in Seq(ToolOutcomes)
    BY <1>1, OutcomeType DEF ReturnTool, ToolInv, ToolTypes
  <2>2. CASE Passed /\ tool < Len(ToolOrder)
    <3>1. tool' = tool + 1 /\ tool' \in 1..3 /\ tpc' = "start" /\ Fresh
      BY <1>1, <2>2 DEF ReturnTool, ToolInv, ToolTypes, ToolOrder
    <3> QED BY <2>1, <3>1 DEF Fresh, ToolInv, ToolTypes
  <2>3. CASE ~(Passed /\ tool < Len(ToolOrder))
    BY <1>1, <2>1, <2>3 DEF ReturnTool, ToolInv, ToolTypes
  <2> QED BY <2>2, <2>3
<1>2. CASE CallRunAll
  <2>1. tool' \in 1..3 /\ tpc' = "start" /\ Fresh /\ toolResults' \in Seq(ToolOutcomes)
    BY <1>2 DEF CallRunAll
  <2> QED BY <2>1 DEF Fresh, ToolInv, ToolTypes
<1> QED BY <1>1, <1>2

\* The clock, the tool and its children.
LEMMA ToolEnvironmentInv ==
  ASSUME ToolInv, DeadlinePasses \/ ToolEnds \/ HelpersChange \/ ToolPrints
  PROVE  ToolInv'
<1> USE DEF ToolInv, ToolTypes, ToolEnded
<1>1. CASE DeadlinePasses
  BY <1>1 DEF DeadlinePasses
<1>2. CASE ToolEnds
  BY <1>2 DEF ToolEnds
<1>3. CASE HelpersChange
  BY <1>3 DEF HelpersChange
<1>4. CASE ToolPrints
  BY <1>4 DEF ToolPrints
<1> QED BY <1>1, <1>2, <1>3, <1>4

\* Runner, tools, their children and the clock keep the invariant.
THEOREM ToolInvariance == ToolSpec => []ToolInv
<1>1. ToolInv /\ [ToolNext]_toolVars => ToolInv'
  <2> SUFFICES ASSUME ToolInv, [ToolNext]_toolVars PROVE ToolInv'
    OBVIOUS
  <2>1. CASE UNCHANGED toolVars
    BY <2>1 DEF toolVars, ToolInv, ToolTypes
  <2> QED BY <2>1, ToolRunInv, ToolReturnInv, ToolEnvironmentInv DEF ToolNext, Runner
<1> QED BY <1>1, ToolInvInit, PTL DEF ToolSpec

\* A tool is reported as passed only if it succeeded in time, and its output
\* is reported whole or as cut.
THEOREM VerdictHolds == ToolSpec => []VerdictIsSound
<1>1. ToolInv => VerdictIsSound
  BY MaxToolOutputAssumption
  DEF ToolInv, ToolTypes, VerdictIsSound, Passed, Truncate
<1> QED BY <1>1, ToolInvariance, PTL

\* The steps of a tool's run that the gate does not see.
LEMMA ToolInnerStep ==
  ASSUME ToolInv,
         \/ StartTool \/ KillTool \/ WaitTool \/ CopyOutput \/ OutputEnds
         \/ DeadlinePasses \/ ToolEnds \/ HelpersChange \/ ToolPrints
  PROVE  UNCHANGED <<GateView, ResultsView>>
<1>1. tool' = tool /\ toolResults' = toolResults
  BY DEF StartTool, KillTool, WaitTool, CopyOutput, OutputEnds,
         DeadlinePasses, ToolEnds, HelpersChange, ToolPrints
<1>2. tpc' = "returned" <=> tpc = "returned"
  BY DEF StartTool, KillTool, WaitTool, CopyOutput, OutputEnds,
         DeadlinePasses, ToolEnds, HelpersChange, ToolPrints
<1> QED BY <1>1, <1>2 DEF GateView, ResultsView

\* What the gate keeps of a result, and that it sees a result appended as one
\* appended to its own list.
Brief(o) == [tool |-> o.tool, passed |-> o.passed]
Briefs == [tool : {"build", "lint", "test"}, passed : BOOLEAN]

LEMMA SeenAppend ==
  ASSUME NEW rs \in Seq(ToolOutcomes), NEW o \in ToolOutcomes
  PROVE  Seen(Append(rs, o)) = Append(Seen(rs), Brief(o))
<1> DEFINE n == Len(rs)
           a == Append(rs, o)
           s == Seen(a)
           t == Append(Seen(rs), Brief(o))
<1>1. /\ n \in Nat /\ DOMAIN rs = 1..n /\ DOMAIN a = 1..(n + 1)
      /\ a[n + 1] = o /\ \A i \in 1..n : a[i] = rs[i]
      /\ \A i \in 1..n : rs[i] \in ToolOutcomes
  OBVIOUS
<1>2. Brief(o) \in Briefs /\ \A i \in 1..n : Brief(rs[i]) \in Briefs
  BY <1>1 DEF Brief, Briefs, ToolOutcomes
<1> HIDE DEF a, n
<1>3. Seen(rs) \in Seq(Briefs) /\ Len(Seen(rs)) = n
  BY <1>1, <1>2 DEF Seen, Brief
<1>4. s \in Seq(Briefs) /\ Len(s) = n + 1
  BY <1>1, <1>2 DEF Seen, Brief
<1>5. t \in Seq(Briefs) /\ Len(t) = n + 1
  BY <1>2, <1>3
<1>6. ASSUME NEW i \in 1..(n + 1) PROVE s[i] = t[i]
  <2>1. s[i] = Brief(a[i])
    BY <1>1 DEF Seen, Brief
  <2>2. CASE i = n + 1
    BY <1>1, <1>2, <1>3, <2>1, <2>2
  <2>3. CASE i \in 1..n
    <3>1. t[i] = Seen(rs)[i]
      BY <1>2, <1>3, <2>3
    <3>2. Seen(rs)[i] = Brief(rs[i])
      BY <1>1, <2>3 DEF Seen, Brief
    <3>3. a[i] = rs[i]
      BY <1>1, <2>3
    <3>4. t[i] = Brief(a[i])
      BY ONLY <3>1, <3>2, <3>3, Zenon
    <3> QED BY ONLY <2>1, <3>4, Zenon
  <2>4. i = n + 1 \/ i \in 1..n
    BY <1>1
  <2> QED BY <2>2, <2>3, <2>4
<1> HIDE DEF s, t
<1>7. s = t
  BY <1>4, <1>5, <1>6, SeqEqual
<1> QED BY <1>7 DEF s, t, a

\* The result that runTool returns is a step of the gate.
LEMMA ToolReturnStep ==
  ASSUME ToolInv, ReturnTool
  PROVE  G!RunTool("runner", Passed)
<1> USE DEF ToolInv, ToolTypes
<1>1. tpc = "verdict" /\ GateView["runner"] = ToolOrder[tool]
  BY DEF ReturnTool, GateView
<1>2. ToolOrder[tool] \in G!Tools
  BY DEF ToolOrder, G!Tools
<1>3. GateView' = [GateView EXCEPT !["runner"] =
                     IF Passed THEN G!NextTool[@] ELSE "stamp"]
  BY <1>1 DEF ReturnTool, GateView, G!NextTool, ToolOrder
<1>4. ResultsView' = [ResultsView EXCEPT !["runner"] =
         Append(@, [tool |-> GateView["runner"], passed |-> Passed])]
  <2>1. toolResults' = Append(toolResults, ToolOutcome)
    BY DEF ReturnTool
  <2>2. Seen(toolResults)' = Append(Seen(toolResults), Brief(ToolOutcome))
    BY <2>1, OutcomeType, SeenAppend DEF Seen
  <2>3. Brief(ToolOutcome) = [tool |-> ToolOrder[tool], passed |-> Passed]
    BY DEF Brief, ToolOutcome
  <2>4. ResultsView' = [runner |->
           Append(Seen(toolResults), [tool |-> ToolOrder[tool], passed |-> Passed])]
    BY <2>2, <2>3 DEF ResultsView
  <2> QED BY <1>1, <2>4 DEF ResultsView
<1> QED BY <1>1, <1>2, <1>3, <1>4 DEF G!RunTool

\* The runner is what the gate takes it for, whatever the tools do: seen from
\* the gate each step of runTool is a stutter or the gate's own RunTool.
THEOREM RunnerImplementsGate == ToolSpec => ImplementsRunTool
<1> DEFINE Step == (\E passed \in BOOLEAN : G!RunTool("runner", passed)) \/ CallRunAll
<1>1. ToolInv /\ [ToolNext]_toolVars => [Step]_<<GateView, ResultsView>>
  <2> SUFFICES ASSUME ToolInv, [ToolNext]_toolVars
               PROVE  Step \/ UNCHANGED <<GateView, ResultsView>>
    OBVIOUS
  <2>1. CASE UNCHANGED toolVars
    BY <2>1 DEF toolVars, GateView, ResultsView
  <2>2. CASE ReturnTool
    <3>1. Passed \in BOOLEAN
      BY DEF Passed
    <3> QED BY <2>2, <3>1, ToolReturnStep
  <2> QED BY <2>1, <2>2, ToolInnerStep DEF ToolNext, Runner
<1> QED BY <1>1, ToolInvariance, PTL DEF ToolSpec, ImplementsRunTool

=============================================================================
