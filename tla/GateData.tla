------------------------------- MODULE GateData -------------------------------
(***************************************************************************)
(* What the callers of a gate know at the place each has reached: lemmas   *)
(* about the steps of Gate, for any callers and whatever surrounds them.   *)
(***************************************************************************)
EXTENDS Gate, SequenceTheorems, TLAPS

-----------------------------------------------------------------------------
(* Results and prompts                                                     *)

\* Appending to a result list of length one and of length two.
LEMMA AppendToOne ==
  ASSUME NEW S, NEW a \in S, NEW b \in S
  PROVE  Append(<<a>>, b) = <<a, b>>
<1> DEFINE s == Append(<<a>>, b)
<1>1. s \in Seq(S) /\ Len(s) = 2 /\ s[1] = a /\ s[2] = b
  OBVIOUS
<1>2. <<a, b>> \in Seq(S) /\ Len(<<a, b>>) = 2
  OBVIOUS
<1> HIDE DEF s
<1>3. \A i \in 1..Len(s) : s[i] = <<a, b>>[i]
  BY <1>1
<1>4. s = <<a, b>>
  BY <1>1, <1>2, <1>3, SeqEqual
<1> QED BY <1>4 DEF s

LEMMA AppendToTwo ==
  ASSUME NEW S, NEW a \in S, NEW b \in S, NEW c \in S
  PROVE  Append(<<a, b>>, c) = <<a, b, c>>
<1> DEFINE s == Append(<<a, b>>, c)
<1>1. s \in Seq(S) /\ Len(s) = 3 /\ s[1] = a /\ s[2] = b /\ s[3] = c
  OBVIOUS
<1>2. <<a, b, c>> \in Seq(S) /\ Len(<<a, b, c>>) = 3
  OBVIOUS
<1> HIDE DEF s
<1>3. \A i \in 1..Len(s) : s[i] = <<a, b, c>>[i]
  BY <1>1
<1>4. s = <<a, b, c>>
  BY <1>1, <1>2, <1>3, SeqEqual
<1> QED BY <1>4 DEF s

LEMMA ResultTypes ==
  ASSUME NEW tool \in Tools
  PROVE  Pass(tool) \in ToolResult /\ Fail(tool) \in ToolResult
BY DEF Pass, Fail, ToolResult

\* Every verdict the code takes on the results a run can leave: allPassed is
\* right, and the search for the first failure finds one.
LEMMA PassedVerdict ==
  ASSUME NEW rs, AllThreePassed(rs)
  PROVE  AllPassed(rs)
BY DEF AllThreePassed, AllPassed, Pass

LEMMA FailedVerdict ==
  ASSUME NEW rs, LastOneFailed(rs)
  PROVE  ~AllPassed(rs) /\ FirstFailure(rs) \in DOMAIN rs
<1>1. \E i \in DOMAIN rs : ~rs[i].passed /\ \A j \in 1..(i - 1) : rs[j].passed
  <2>1. CASE rs = <<Fail("build")>>
    <3>1. 1 \in DOMAIN rs /\ ~rs[1].passed
      BY <2>1 DEF Fail
    <3>2. \A j \in 1..(1 - 1) : rs[j].passed
      OBVIOUS
    <3> QED BY <3>1, <3>2
  <2>2. CASE rs = <<Pass("build"), Fail("lint")>>
    <3>1. 2 \in DOMAIN rs /\ ~rs[2].passed
      BY <2>2 DEF Pass, Fail
    <3>2. \A j \in 1..(2 - 1) : rs[j].passed
      BY <2>2 DEF Pass, Fail
    <3> QED BY <3>1, <3>2
  <2>3. CASE rs = <<Pass("build"), Pass("lint"), Fail("test")>>
    <3>1. 3 \in DOMAIN rs /\ ~rs[3].passed
      BY <2>3 DEF Pass, Fail
    <3>2. \A j \in 1..(3 - 1) : rs[j].passed
      BY <2>3 DEF Pass, Fail
    <3> QED BY <3>1, <3>2
  <2> QED BY <2>1, <2>2, <2>3 DEF LastOneFailed
<1>2. ~AllPassed(rs)
  BY <1>1 DEF AllPassed
<1>3. FirstFailure(rs) \in DOMAIN rs
  BY <1>1 DEF FirstFailure
<1> QED BY <1>2, <1>3

\* A rendered prompt is a text with the name asked for, whatever state its
\* template is in.
LEMMA RenderedIsText ==
  ASSUME templates \in [Names -> TemplateStates], NEW name \in Names,
         NEW tool \in {"", "go", "golangci-lint"}
  PROVE  RenderPrompt(name, tool) \in Texts /\ RenderPrompt(name, tool).name = name
<1>1. templates[name] \in {"valid", "invalid", "missing"}
  BY DEF TemplateStates
<1>2. CASE templates[name] = "missing"
  BY <1>2 DEF RenderPrompt, Text, Texts
<1>3. CASE templates[name] = "invalid"
  BY <1>3 DEF RenderPrompt, Text, Texts
<1>4. CASE templates[name] = "valid"
  BY <1>4 DEF RenderPrompt, Text, Texts
<1> QED BY <1>1, <1>2, <1>3, <1>4

-----------------------------------------------------------------------------
(* Data: what each caller knows at the place it has reached                *)

PromptFits(c) ==
  \/ prompt[c].name = "idle" /\ AllThreePassed(results[c])
  \/ prompt[c].name = "failure" /\ LastOneFailed(results[c])

Fits(c) ==
  /\ gpc[c] = "out" => results[c] = <<>>
  /\ ResultsSoFar(c)
  /\ gpc[c] \in {"send", "write"} => PromptFits(c)

DataTypes ==
  /\ gpc \in [Callers -> GatePCs]
  /\ results \in [Callers -> Seq(ToolResult)]
  /\ prompt \in [Callers -> Texts]
  /\ templates \in [Names -> TemplateStates]

Data == DataTypes /\ \A c \in Callers : Fits(c)

\* A step of one caller leaves the data of the others alone.
LEMMA DataFrame ==
  ASSUME Data, NEW c \in Callers,
         \A d \in Callers : d # c => /\ gpc'[d] = gpc[d]
                                    /\ results'[d] = results[d]
                                    /\ prompt'[d] = prompt[d],
         DataTypes', Fits(c)'
  PROVE  Data'
BY DEF Data, Fits, ResultsSoFar, PromptFits

LEMMA DataEnter ==
  ASSUME Data, NEW c \in Callers, Enter(c)
  PROVE  Data'
<1>1. gpc[c] = "out" /\ results[c] = <<>>
  BY DEF Enter, Data, Fits
<1>2. DataTypes'
  BY DEF Data, DataTypes, Enter, GatePCs, Tools
<1>3. \A d \in Callers : d # c => /\ gpc'[d] = gpc[d]
                                 /\ results'[d] = results[d]
                                 /\ prompt'[d] = prompt[d]
  BY DEF Data, DataTypes, Enter
<1>4. gpc'[c] = "build" /\ results'[c] = <<>>
  BY <1>1 DEF Data, DataTypes, Enter
<1>5. Fits(c)'
  BY <1>4 DEF Fits, ResultsSoFar
<1> QED BY <1>2, <1>3, <1>5, DataFrame

\* RunAll: a tool that passes extends the list, one that fails ends it.
LEMMA DataRunTool ==
  ASSUME Data, NEW c \in Callers, NEW passed \in BOOLEAN, RunTool(c, passed)
  PROVE  Data'
<1> DEFINE r == [tool |-> gpc[c], passed |-> passed]
<1>1. gpc[c] \in Tools /\ prompt' = prompt /\ templates' = templates
  BY DEF RunTool
<1>2. results[c] \in Seq(ToolResult)
  BY DEF Data, DataTypes
<1>3. r \in ToolResult
  BY <1>1 DEF ToolResult
<1>4. /\ results' = [results EXCEPT ![c] = Append(results[c], r)]
      /\ gpc' = [gpc EXCEPT ![c] = IF passed THEN NextTool[gpc[c]] ELSE "stamp"]
  BY DEF RunTool
<1>5. results'[c] = Append(results[c], r)
  BY <1>4 DEF Data, DataTypes
<1>6. gpc'[c] = IF passed THEN NextTool[gpc[c]] ELSE "stamp"
  BY <1>4 DEF Data, DataTypes
<1>7. \A d \in Callers : d # c => /\ gpc'[d] = gpc[d]
                                 /\ results'[d] = results[d]
                                 /\ prompt'[d] = prompt[d]
  BY <1>1, <1>4 DEF Data, DataTypes
<1>8. Append(results[c], r) \in Seq(ToolResult)
  BY <1>2, <1>3
<1>9. gpc' \in [Callers -> GatePCs]
  BY <1>1, <1>4 DEF Data, DataTypes, NextTool, GatePCs, Tools
<1>10. results' \in [Callers -> Seq(ToolResult)]
  BY <1>4, <1>8 DEF Data, DataTypes
<1>11. DataTypes'
  BY <1>1, <1>9, <1>10 DEF Data, DataTypes
<1>12. (passed /\ r = Pass(gpc[c])) \/ (~passed /\ r = Fail(gpc[c]))
  BY DEF Pass, Fail
<1>13. /\ Pass("build") \in ToolResult /\ Pass("lint") \in ToolResult
       /\ Pass("test") \in ToolResult /\ Fail("lint") \in ToolResult
       /\ Fail("test") \in ToolResult
  BY DEF Pass, Fail, ToolResult, Tools
<1> HIDE DEF r
<1>14. ASSUME gpc[c] = "build" PROVE Fits(c)'
  <2>1. results[c] = <<>>
    BY <1>14 DEF Data, Fits, ResultsSoFar
  <2>2. results'[c] = <<r>>
    BY <1>5, <2>1
  <2>3. passed => gpc'[c] = "lint"
    BY <1>6, <1>14 DEF NextTool
  <2> QED BY <1>6, <1>12, <1>14, <2>2, <2>3 DEF Fits, ResultsSoFar, LastOneFailed
<1>15. ASSUME gpc[c] = "lint" PROVE Fits(c)'
  <2>1. results[c] = <<Pass("build")>>
    BY <1>15 DEF Data, Fits, ResultsSoFar
  <2>2. results'[c] = <<Pass("build"), r>>
    BY <1>5, <1>3, <1>13, <2>1, AppendToOne
  <2>3. passed => gpc'[c] = "test"
    BY <1>6, <1>15 DEF NextTool
  <2> QED BY <1>6, <1>12, <1>15, <2>2, <2>3 DEF Fits, ResultsSoFar, LastOneFailed
<1>16. ASSUME gpc[c] = "test" PROVE Fits(c)'
  <2>1. results[c] = <<Pass("build"), Pass("lint")>>
    BY <1>16 DEF Data, Fits, ResultsSoFar
  <2>2. results'[c] = <<Pass("build"), Pass("lint"), r>>
    BY <1>5, <1>3, <1>13, <2>1, AppendToTwo
  <2>3. gpc'[c] = "stamp"
    BY <1>6, <1>16 DEF NextTool
  <2> QED BY <1>12, <1>16, <2>2, <2>3 DEF Fits, ResultsSoFar, LastOneFailed, AllThreePassed
<1>17. Fits(c)'
  BY <1>1, <1>14, <1>15, <1>16 DEF Tools
<1> QED BY <1>7, <1>11, <1>17, DataFrame

LEMMA DataStamp ==
  ASSUME Data, NEW c \in Callers, Stamp(c)
  PROVE  Data'
<1>1. gpc[c] = "stamp" /\ UNCHANGED <<results, prompt, templates>>
  BY DEF Stamp
<1>2. gpc' = [gpc EXCEPT ![c] = "render"]
  BY DEF Stamp
<1>3. DataTypes' /\ gpc'[c] = "render" /\ \A d \in Callers : d # c => gpc'[d] = gpc[d]
  BY <1>1, <1>2 DEF Data, DataTypes, GatePCs
<1>4. Fits(c)'
  BY <1>1, <1>3 DEF Data, Fits, ResultsSoFar
<1> QED BY <1>1, <1>3, <1>4, DataFrame

\* The prompt chosen is the one the results call for.
LEMMA DataRender ==
  ASSUME Data, NEW c \in Callers, Render(c)
  PROVE  Data'
<1> DEFINE failed == BinaryName[results[c][FirstFailure(results[c])].tool]
           text == IF AllPassed(results[c]) THEN RenderPrompt("idle", "")
                                            ELSE RenderPrompt("failure", failed)
<1>1. /\ gpc[c] = "render" /\ UNCHANGED <<results, templates>>
      /\ gpc' = [gpc EXCEPT ![c] = "send"]
      /\ prompt' = [prompt EXCEPT ![c] = text]
  BY DEF Render
<1>2. /\ results[c] \in Seq(ToolResult)
      /\ templates \in [Names -> TemplateStates]
      /\ AllThreePassed(results[c]) \/ LastOneFailed(results[c])
  BY <1>1 DEF Data, DataTypes, Fits, ResultsSoFar
<1>3. /\ text \in Texts
      /\ \/ text.name = "idle" /\ AllThreePassed(results[c])
         \/ text.name = "failure" /\ LastOneFailed(results[c])
  <2>1. CASE AllThreePassed(results[c])
    <3>1. text = RenderPrompt("idle", "")
      BY <2>1, PassedVerdict
    <3>2. RenderPrompt("idle", "") \in Texts /\ RenderPrompt("idle", "").name = "idle"
      BY <1>2, RenderedIsText DEF Names
    <3> QED BY <2>1, <3>1, <3>2
  <2>2. CASE LastOneFailed(results[c])
    <3>1. ~AllPassed(results[c]) /\ FirstFailure(results[c]) \in DOMAIN results[c]
      BY <2>2, FailedVerdict
    <3>2. results[c][FirstFailure(results[c])] \in ToolResult
      BY <1>2, <3>1
    <3>3. failed \in {"", "go", "golangci-lint"}
      <4>1. results[c][FirstFailure(results[c])].tool \in {"build", "lint", "test"}
        BY <3>2 DEF ToolResult, Tools
      <4>2. /\ BinaryName["build"] = "go" /\ BinaryName["test"] = "go"
            /\ BinaryName["lint"] = "golangci-lint"
        BY DEF BinaryName
      <4> QED BY <4>1, <4>2
    <3>4. /\ RenderPrompt("failure", failed) \in Texts
          /\ RenderPrompt("failure", failed).name = "failure"
      BY <1>2, <3>3, RenderedIsText DEF Names
    <3> QED BY <2>2, <3>1, <3>4
  <2> QED BY <1>2, <2>1, <2>2
<1> HIDE DEF text
<1>4. /\ DataTypes' /\ gpc'[c] = "send" /\ prompt'[c] = text
      /\ \A d \in Callers : d # c => gpc'[d] = gpc[d] /\ prompt'[d] = prompt[d]
  BY <1>1, <1>3 DEF Data, DataTypes, GatePCs
<1>5. Fits(c)'
  BY <1>1, <1>3, <1>4 DEF Fits, ResultsSoFar, PromptFits
<1> QED BY <1>1, <1>4, <1>5, DataFrame

LEMMA DataReturn ==
  ASSUME Data, NEW c \in Callers, Return(c), UNCHANGED templates
  PROVE  Data'
<1>1. <<>> \in Seq(ToolResult) /\ NoText \in Texts
  BY DEF NoText, Texts, Text, Names
<1>2. /\ DataTypes' /\ gpc'[c] = "out" /\ results'[c] = <<>>
      /\ \A d \in Callers : d # c => /\ gpc'[d] = gpc[d]
                                    /\ results'[d] = results[d]
                                    /\ prompt'[d] = prompt[d]
  BY <1>1 DEF Return, Data, DataTypes, GatePCs
<1>3. Fits(c)'
  BY <1>2 DEF Fits, ResultsSoFar
<1> QED BY <1>2, <1>3, DataFrame

LEMMA DataSendCheck ==
  ASSUME Data, NEW c \in Callers, SendCheck(c)
  PROVE  Data'
<1>1. CASE bctx
  BY <1>1, DataReturn DEF SendCheck
<1>2. CASE ~bctx
  <2>1. /\ gpc[c] = "send" /\ UNCHANGED <<results, prompt, templates>>
        /\ gpc' = [gpc EXCEPT ![c] = "write"]
    BY <1>2 DEF SendCheck
  <2>2. /\ DataTypes' /\ gpc'[c] = "write"
        /\ \A d \in Callers : d # c => gpc'[d] = gpc[d]
    BY <2>1 DEF Data, DataTypes, GatePCs
  <2>3. Fits(c)'
    BY <2>1, <2>2 DEF Data, Fits, ResultsSoFar, PromptFits
  <2> QED BY <2>1, <2>2, <2>3, DataFrame
<1> QED BY <1>1, <1>2

\* Editing the prompts directory changes no result and no rendered prompt.
LEMMA DataEdit ==
  ASSUME Data, templates' \in [Names -> TemplateStates],
         UNCHANGED <<gpc, results, prompt>>
  PROVE  Data'
BY DEF Data, DataTypes, Fits, ResultsSoFar, PromptFits

=============================================================================
