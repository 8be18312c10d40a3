SPECIFICATION HarnessSpec
CONSTANTS
  UpCap = 1
  DownCap = 1
  MaxFire = 1
  OutCap = 1
  InCap = 1
  Passthrough = TRUE
  BackendFrames <- TypeOrShutdown
INVARIANT ExitedAfterAllOutput
PROPERTIES
  FrameOrder
  IdleRunsOut
  AbandonedLauncherExits
