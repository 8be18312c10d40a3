-------------------------------- MODULE Gate --------------------------------
(***************************************************************************)
(* backend.Gate: the enforcement run that an idle event asks for, together *)
(* with the tool runner (runner.go) and the prompt loader (prompt.go) it   *)
(* drives.                                                                 *)
(*                                                                         *)
(* HandleEnforcement has two critical sections (entry, and the stamp after *)
(* the run); the tools, the rendering and the send happen outside g.mu, so *)
(* several callers of one gate interleave there.  Each caller walks        *)
(*                                                                         *)
(*   out -> build -> lint -> test -> stamp -> render -> send -> write      *)
(*                                                                         *)
(* leaving for stamp at the first tool that fails.  Time enters only       *)
(* through the cooldown: time.Since(lastEnforce) in units of a fraction of *)
(* enforceCooldown, saturated where the comparison cannot tell any more.   *)
(*                                                                         *)
(* The prompts directory is read on every Render, and somebody may edit it *)
(* between two of them.                                                    *)
(***************************************************************************)
EXTENDS Wire

CONSTANTS
  Callers,            \* goroutines that call HandleEnforcement on this gate
  Cooldown            \* enforceCooldown, in clock units

ASSUME CooldownAssumption == Cooldown \in Nat \ {0}

VARIABLES
  enforcing,          \* g.running
  since,              \* time.Since(g.lastEnforce), saturated at Cooldown
  gpc,                \* where each caller is in HandleEnforcement
  results,            \* each caller's []ToolResult, empty outside its call
  prompt,             \* each caller's rendered text
  templates,          \* the files of the prompts directory
  bctx                \* the context of the connection is cancelled

gateVars == <<enforcing, since, gpc, results, prompt, templates>>

Tools == {"build", "lint", "test"}

\* RunAll: build, then lint, then test.
NextTool == [build |-> "lint", lint |-> "test", test |-> "stamp"]

\* The name runTool is given, which is the name of the binary: ToolResult.Name.
BinaryName == [build |-> "go", lint |-> "golangci-lint", test |-> "go"]

ToolResult == [tool : Tools, passed : BOOLEAN]

Names == {"idle", "failure"}
TemplateStates == {"valid", "invalid", "missing"}

\* The text of a prompt: the rendered template, its raw bytes, or the marker
\* "[prompt:name]".  FailedTool shows in a rendered failure template only.
Text(form, name, failedTool) ==
  [form |-> form, name |-> name, failedTool |-> failedTool]

NoText == Text("none", "idle", "")

Texts == [form : {"none", "rendered", "raw", "marker"}, name : Names,
          failedTool : {"", "go", "golangci-lint"}]

GatePCs == {"out", "stamp", "render", "send", "write"} \cup Tools

GateTypeOK ==
  /\ enforcing \in BOOLEAN
  /\ since \in 0..Cooldown
  /\ gpc \in [Callers -> GatePCs]
  /\ results \in [Callers -> Seq(ToolResult)]
  /\ prompt \in [Callers -> Texts]
  /\ templates \in [Names -> TemplateStates]

\* A new gate: lastEnforce is the zero time, long past the cooldown.
GateInit ==
  /\ enforcing = FALSE
  /\ since = Cooldown
  /\ gpc = [c \in Callers |-> "out"]
  /\ results = [c \in Callers |-> <<>>]
  /\ prompt = [c \in Callers |-> NoText]
  /\ templates \in [Names -> TemplateStates]

-----------------------------------------------------------------------------
(* HandleEnforcement, first critical section.                              *)

\* Mutants of Skipped: the running flag is not tested; the cooldown is not.
SkippedByCooldown == since < Cooldown
SkippedWhenRunning == enforcing

\* Already running, or suppressed by the cooldown: the call returns.
Skipped == enforcing \/ since < Cooldown

Skip(c) ==
  /\ gpc[c] = "out"
  /\ Skipped
  /\ UNCHANGED gateVars

Enter(c) ==
  /\ gpc[c] = "out"
  /\ ~Skipped
  /\ enforcing' = TRUE
  /\ gpc' = [gpc EXCEPT ![c] = "build"]
  /\ UNCHANGED <<since, results, prompt, templates>>

-----------------------------------------------------------------------------
(* g.runner.RunAll(), one step per tool.                                   *)

\* Mutant of RunTool: a lint failure does not stop the run.
RunToolNoFailFast(c, passed) ==
  /\ gpc[c] \in Tools
  /\ results' = [results EXCEPT
                   ![c] = Append(@, [tool |-> gpc[c], passed |-> passed])]
  /\ gpc' = [gpc EXCEPT ![c] = IF passed \/ @ = "lint" THEN NextTool[@]
                                                       ELSE "stamp"]
  /\ UNCHANGED <<enforcing, since, prompt, templates>>

\* runTool returns: passed unless the command failed or timed out; RunAll
\* appends the result and stops at the first failure.
RunTool(c, passed) ==
  /\ gpc[c] \in Tools
  /\ results' = [results EXCEPT
                   ![c] = Append(@, [tool |-> gpc[c], passed |-> passed])]
  /\ gpc' = [gpc EXCEPT ![c] = IF passed THEN NextTool[@] ELSE "stamp"]
  /\ UNCHANGED <<enforcing, since, prompt, templates>>

\* Mutants of Stamp: lastEnforce is left at the previous run; and the gate is
\* left locked when a tool failed.
StampForgotten(c) ==
  /\ gpc[c] = "stamp"
  /\ enforcing' = FALSE
  /\ gpc' = [gpc EXCEPT ![c] = "render"]
  /\ UNCHANGED <<since, results, prompt, templates>>

StampKeepsRunning(c) ==
  /\ gpc[c] = "stamp"
  /\ since' = 0
  /\ enforcing' = \E i \in DOMAIN results[c] : ~results[c][i].passed
  /\ gpc' = [gpc EXCEPT ![c] = "render"]
  /\ UNCHANGED <<results, prompt, templates>>

\* Second critical section: lastEnforce = now, running = false.
Stamp(c) ==
  /\ gpc[c] = "stamp"
  /\ since' = 0
  /\ enforcing' = FALSE
  /\ gpc' = [gpc EXCEPT ![c] = "render"]
  /\ UNCHANGED <<results, prompt, templates>>

-----------------------------------------------------------------------------
(* The verdict, the prompt and its delivery.                               *)

AllPassed(rs) == \A i \in DOMAIN rs : rs[i].passed

\* The first failure among the results; RunAll leaves it in last place.
FirstFailure(rs) ==
  CHOOSE i \in DOMAIN rs :
    /\ ~rs[i].passed
    /\ \A j \in 1..(i - 1) : rs[j].passed

\* PromptLoader.Render on the file as it is at this moment.
RenderPrompt(name, failedTool) ==
  CASE templates[name] = "missing" -> Text("marker", name, "")
    [] templates[name] = "invalid" -> Text("raw", name, "")
    [] templates[name] = "valid" -> Text("rendered", name, failedTool)

Render(c) ==
  /\ gpc[c] = "render"
  /\ prompt' = [prompt EXCEPT ![c] =
       IF AllPassed(results[c])
       THEN RenderPrompt("idle", "")
       ELSE RenderPrompt("failure",
              BinaryName[results[c][FirstFailure(results[c])].tool])]
  /\ gpc' = [gpc EXCEPT ![c] = "send"]
  /\ UNCHANGED <<enforcing, since, results, templates>>

\* HandleEnforcement returns and its local variables go out of scope.
Return(c) ==
  /\ gpc' = [gpc EXCEPT ![c] = "out"]
  /\ results' = [results EXCEPT ![c] = <<>>]
  /\ prompt' = [prompt EXCEPT ![c] = NoText]

\* Conn.Send looks at the context before it writes.
SendCheck(c) ==
  /\ gpc[c] = "send"
  /\ \/ bctx /\ Return(c)
     \/ /\ ~bctx
        /\ gpc' = [gpc EXCEPT ![c] = "write"]
        /\ UNCHANGED <<results, prompt>>
  /\ UNCHANGED <<enforcing, since, templates>>

\* Mutant of SendWrite: after a write that succeeded the send is repeated.
SendWriteRepeats(c) ==
  /\ gpc[c] = "write"
  /\ \/ DownWrite(NewMessage("type", prompt[c])) /\ UNCHANGED <<gpc, results, prompt>>
     \/ DownBroken /\ UNCHANGED wireVars /\ Return(c)
  /\ UNCHANGED <<enforcing, since, templates>>

\* The write, successful or not: a failed send is only logged.
SendWrite(c) ==
  /\ gpc[c] = "write"
  /\ \/ DownWrite(NewMessage("type", prompt[c]))
     \/ DownBroken /\ UNCHANGED wireVars
  /\ Return(c)
  /\ UNCHANGED <<enforcing, since, templates>>

-----------------------------------------------------------------------------
(* The clock and the prompts directory.                                    *)

Tick ==
  /\ since < Cooldown
  /\ since' = since + 1
  /\ UNCHANGED <<enforcing, gpc, results, prompt, templates>>

EditTemplate(name, state) ==
  /\ templates[name] # state
  /\ templates' = [templates EXCEPT ![name] = state]
  /\ UNCHANGED <<enforcing, since, gpc, results, prompt>>

\* One step of a call to HandleEnforcement, between its entry and its return.
GateStep(c) ==
  \/ /\ \/ \E passed \in BOOLEAN : RunTool(c, passed)
        \/ Stamp(c)
        \/ Render(c)
        \/ SendCheck(c)
     /\ UNCHANGED wireVars
  \/ SendWrite(c)

-----------------------------------------------------------------------------
(* What the gate promises.                                                 *)

InRun(c) == gpc[c] \in Tools \cup {"stamp"}

\* g.running excludes concurrent runs: however many goroutines call
\* HandleEnforcement on one gate, the tools of at most one run at a time.
AtMostOneRun == \A c, d \in Callers : InRun(c) /\ InRun(d) => c = d

Pass(tool) == [tool |-> tool, passed |-> TRUE]
Fail(tool) == [tool |-> tool, passed |-> FALSE]

AllThreePassed(rs) == rs = <<Pass("build"), Pass("lint"), Pass("test")>>

LastOneFailed(rs) ==
  \/ rs = <<Fail("build")>>
  \/ rs = <<Pass("build"), Fail("lint")>>
  \/ rs = <<Pass("build"), Pass("lint"), Fail("test")>>

\* What a caller's results are at each point of its run.
ResultsSoFar(c) ==
  /\ gpc[c] = "build" => results[c] = <<>>
  /\ gpc[c] = "lint" => results[c] = <<Pass("build")>>
  /\ gpc[c] = "test" => results[c] = <<Pass("build"), Pass("lint")>>
  /\ gpc[c] \in {"stamp", "render"} =>
       AllThreePassed(results[c]) \/ LastOneFailed(results[c])

\* The best-practices prompt is sent only when build, lint and test all ran,
\* in this order, and passed; a failure prompt only when exactly the last
\* tool that ran failed (fail-fast), whatever happens to the templates.
PromptMatchesRun ==
  \A c \in Callers : gpc[c] \in {"send", "write"} =>
    \/ prompt[c].name = "idle" /\ AllThreePassed(results[c])
    \/ prompt[c].name = "failure" /\ LastOneFailed(results[c])

=============================================================================
