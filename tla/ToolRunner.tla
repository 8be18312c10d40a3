----------------------------- MODULE ToolRunner -----------------------------
(***************************************************************************)
(* backend.ToolRunner: RunAll and, in detail, runTool, which starts a tool *)
(* under a deadline and collects its output with CombinedOutput.           *)
(*                                                                         *)
(* CombinedOutput reads the tool's output from a pipe, whose write end the *)
(* tool's own children inherit.  It returns when the tool has been waited  *)
(* for and the pipe is at its end, and cmd.WaitDelay is not set: while the *)
(* deadline kills the tool, nothing limits the wait for the pipe.  After   *)
(* the wait the deadline is looked at once more.                           *)
(*                                                                         *)
(* Output is counted in bytes.  A call of RunAll is one behaviour's loop:  *)
(* the next one starts where the last one returned.                        *)
(***************************************************************************)
EXTENDS Integers, Sequences

CONSTANTS
  MaxToolOutput,      \* -tool-output-max
  MaxPrinted          \* bound: bytes a tool and its children print

\* The flag is not validated: with a negative value the slice expression of
\* runTool panics, so the model is about the others.
ASSUME MaxToolOutputAssumption == MaxToolOutput \in Nat /\ MaxPrinted \in Nat

VARIABLES
  tpc,                \* where runTool is
  tool,               \* the tool in hand
  toolProc,           \* its process: none, running, passed, failed, killed
  helpers,            \* its children hold the write end of the pipe
  expired,            \* its deadline has passed
  printed,            \* bytes in or through the pipe
  collected,          \* bytes CombinedOutput has read
  waitErr,            \* CombinedOutput will report an error
  toolResults         \* what RunAll has so far

toolVars == <<tpc, tool, toolProc, helpers, expired, printed, collected,
              waitErr, toolResults>>

\* The order of RunAll.
ToolOrder == <<"build", "lint", "test">>

\* The state of runTool when it is entered.
Fresh ==
  /\ toolProc' = "none" /\ helpers' = FALSE /\ expired' = FALSE
  /\ printed' = 0 /\ collected' = 0 /\ waitErr' = FALSE

ToolInit ==
  /\ tpc = "start" /\ tool = 1
  /\ toolProc = "none" /\ helpers = FALSE /\ expired = FALSE
  /\ printed = 0 /\ collected = 0 /\ waitErr = FALSE
  /\ toolResults = <<>>

-----------------------------------------------------------------------------
(* runTool                                                                 *)

\* cmd.Start; it fails if there is no such binary or the deadline has passed.
StartTool ==
  /\ tpc = "start"
  /\ \/ /\ ~expired
        /\ toolProc' = "running"
        /\ tpc' = "wait"
        /\ UNCHANGED waitErr
     \/ /\ waitErr' = TRUE
        /\ tpc' = "verdict"
        /\ UNCHANGED toolProc
  /\ UNCHANGED <<tool, helpers, expired, printed, collected, toolResults>>

\* Mutant of KillTool: CommandContext without the kill.
KillToolNever ==
  /\ FALSE
  /\ UNCHANGED toolVars

\* The watching goroutine of os/exec kills the tool itself, not its children.
KillTool ==
  /\ tpc = "wait"
  /\ expired
  /\ toolProc = "running"
  /\ toolProc' = "killed"
  /\ UNCHANGED <<tpc, tool, helpers, expired, printed, collected, waitErr, toolResults>>

\* Process.Wait returns; a tool that did not succeed is an error.
WaitTool ==
  /\ tpc = "wait"
  /\ toolProc \in {"passed", "failed", "killed"}
  /\ waitErr' = (toolProc # "passed")
  /\ tpc' = "drain"
  /\ UNCHANGED <<tool, toolProc, helpers, expired, printed, collected, toolResults>>

\* The copying goroutine takes what is in the pipe.
CopyOutput ==
  /\ tpc \in {"wait", "drain"}
  /\ collected < printed
  /\ collected' = printed
  /\ UNCHANGED <<tpc, tool, toolProc, helpers, expired, printed, waitErr, toolResults>>

\* Mutant of OutputEnds: Wait does not wait for the copying goroutine.
OutputEndsEarly ==
  /\ tpc = "drain"
  /\ tpc' = "verdict"
  /\ UNCHANGED <<tool, toolProc, helpers, expired, printed, collected, waitErr, toolResults>>

\* The pipe is at its end: nobody can write to it any more, all is read.
OutputEnds ==
  /\ tpc = "drain"
  /\ ~helpers
  /\ collected = printed
  /\ tpc' = "verdict"
  /\ UNCHANGED <<tool, toolProc, helpers, expired, printed, collected, waitErr, toolResults>>

\* The bytes of tool output that go into a prompt; a marker line says that
\* the rest was cut off, another one that the tool timed out.
Truncate(n) ==
  [bytes |-> IF n > MaxToolOutput THEN MaxToolOutput ELSE n,
   cut |-> n > MaxToolOutput]

Passed == ~waitErr /\ ~expired

ToolOutcome ==
  [tool |-> ToolOrder[tool], passed |-> Passed, timedOut |-> expired,
   output |-> Truncate(collected)]

\* Mutant of ReturnTool: a failed tool does not stop RunAll.
ReturnToolGoesOn ==
  /\ tpc = "verdict"
  /\ toolResults' = Append(toolResults, ToolOutcome)
  /\ IF tool < Len(ToolOrder)
     THEN tool' = tool + 1 /\ tpc' = "start" /\ Fresh
     ELSE tpc' = "returned" /\ UNCHANGED <<tool, toolProc, helpers, expired,
                                           printed, collected, waitErr>>

\* runTool returns; RunAll appends the result, and returns after the first
\* failure or the last tool, or else goes on with the next tool.
ReturnTool ==
  /\ tpc = "verdict"
  /\ toolResults' = Append(toolResults, ToolOutcome)
  /\ IF Passed /\ tool < Len(ToolOrder)
     THEN tool' = tool + 1 /\ tpc' = "start" /\ Fresh
     ELSE tpc' = "returned" /\ UNCHANGED <<tool, toolProc, helpers, expired,
                                           printed, collected, waitErr>>

\* The gate calls RunAll again.
CallRunAll ==
  /\ tpc = "returned"
  /\ tpc' = "start"
  /\ tool' = 1
  /\ toolResults' = <<>>
  /\ Fresh

Runner ==
  \/ StartTool
  \/ KillTool
  \/ WaitTool
  \/ CopyOutput
  \/ OutputEnds
  \/ ReturnTool

-----------------------------------------------------------------------------
(* The clock, the tool and its children                                    *)

DeadlinePasses ==
  /\ tpc # "returned"
  /\ ~expired
  /\ expired' = TRUE
  /\ UNCHANGED <<tpc, tool, toolProc, helpers, printed, collected, waitErr, toolResults>>

ToolEnds ==
  /\ toolProc = "running"
  /\ toolProc' \in {"passed", "failed"}
  /\ UNCHANGED <<tpc, tool, helpers, expired, printed, collected, waitErr, toolResults>>

\* The tool starts a child, or the last of its children ends.
HelpersChange ==
  /\ toolProc = "running" \/ helpers
  /\ helpers' = ~helpers
  /\ UNCHANGED <<tpc, tool, toolProc, expired, printed, collected, waitErr, toolResults>>

ToolPrints ==
  /\ toolProc = "running" \/ helpers
  /\ printed < MaxPrinted
  /\ printed' = printed + 1
  /\ UNCHANGED <<tpc, tool, toolProc, helpers, expired, collected, waitErr, toolResults>>

ToolNext ==
  \/ Runner
  \/ CallRunAll
  \/ DeadlinePasses
  \/ ToolEnds
  \/ HelpersChange
  \/ ToolPrints

\* The backend's goroutines are scheduled and the clock runs.  The tools need
\* not end, and neither need their children.
ToolFairness == WF_toolVars(Runner) /\ WF_toolVars(DeadlinePasses)

ToolSpec == ToolInit /\ [][ToolNext]_toolVars /\ ToolFairness

-----------------------------------------------------------------------------

\* A result that says passed is one of a tool that really ended with success
\* within its time, and whose output is complete unless it says that it was
\* cut: a timeout that strikes between the end of the tool and the end of its
\* output is never reported as a success.
VerdictIsSound ==
  (tpc = "verdict") =>
    /\ Passed => toolProc = "passed" /\ ~expired
    /\ toolProc # "none" =>
         LET o == Truncate(collected) IN o.bytes = printed \/ o.cut

\* The gate as it sees its runner: it is at the tool in hand, or past RunAll,
\* and has the results that were appended so far.
GateView == [runner |-> IF tpc = "returned" THEN "stamp" ELSE ToolOrder[tool]]
Seen(rs) ==
  [i \in DOMAIN rs |-> [tool |-> rs[i].tool, passed |-> rs[i].passed]]
ResultsView == [runner |-> Seen(toolResults)]

G == INSTANCE Gate WITH
  UpCap <- 1, DownCap <- 1, Callers <- {"runner"}, Cooldown <- 1,
  gpc <- GateView, results <- ResultsView, enforcing <- TRUE, since <- 1,
  prompt <- [runner |-> ""], templates <- [idle |-> "valid", failure |-> "valid"],
  bctx <- FALSE, dialed <- TRUE, up <- <<>>, down <- <<>>,
  lclosed <- FALSE, bclosed <- FALSE

\* The runner implements what the gate's model takes it for: seen from the
\* gate, starting, killing, waiting and copying are nothing, and every other
\* step is the gate's RunTool, one tool after the other with some verdict,
\* and stop at the first failure; or else a new call of RunAll.
ImplementsRunTool ==
  [][\/ \E passed \in BOOLEAN : G!RunTool("runner", passed)
     \/ CallRunAll]_<<GateView, ResultsView>>

\* "Each tool is run with a timeout": a tool that hangs is got rid of, and
\* runTool gives its verdict, unless children of the tool hold its output.
TimeoutEndsTool ==
  (tpc \in {"wait", "drain"} /\ expired) ~> (tpc \notin {"wait", "drain"} \/ helpers)

=============================================================================
