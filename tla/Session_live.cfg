SPECIFICATION DeliverySpec
CHECK_DEADLOCK FALSE
CONSTANTS
  Callers = {"handler"}
  Cooldown = 1
  UpCap = 1
  DownCap = 1
  MaxFire = 1
  OutCap = 1
  InCap = 1
  Passthrough = FALSE
  Faults = {}
PROPERTY RunReachesClient
