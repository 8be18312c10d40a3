SPECIFICATION PartsSpec
CONSTANTS
  Conns = {c1, c2, c3}
  AcceptErrors = {"timeout", "transient"}
  Procs = {p1, p2, p3}
  None = None
  SerialStarts = TRUE
  MaxToolOutput = 1
  MaxPrinted = 2
  MaxBufferSize = 3
  MaxTriggerSample = 2
  CompileTrigger <- CompileWord
  LintTrigger <- LintWord
  TestTrigger <- TestWord
  ErrorWord <- FailureWord
  OkWord <- SuccessWord
  OutputBytes = {27, 91, 93, 92, 10, 98, 7}
  MaxStream = 5
INVARIANTS
  ServerInv
  NoLostWakeup
  RunWaitsForHandlers
  PidInv
  OneBackend
  ServingIsFound
  VerdictIsSound
  NoHoleAfterOverflow
  FirstTriggerDecides
  WholeSequencesGone
PROPERTIES
  CancelEndsRun
  ImplementsRunTool
  TimeoutEndsTool
  FailureStands
