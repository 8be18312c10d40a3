SPECIFICATION HarnessSpec
CONSTANTS
  c1 = c1
  c2 = c2
  Callers <- TwoCallers
  Cooldown = 2
  UpCap = 1
  DownCap = 1
SYMMETRY CallerSymmetry
INVARIANTS
  GateInv
  AtMostOneRun
  PromptMatchesRun
PROPERTY CooldownBetweenRuns
