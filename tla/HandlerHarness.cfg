SPECIFICATION HarnessSpec
CONSTANTS
  Callers = {"handler"}
  Cooldown = 1
  UpCap = 1
  DownCap = 1
INVARIANT GateFreeOutsideRun
PROPERTIES
  DisconnectEndsHandler
  ImplementsPromise
