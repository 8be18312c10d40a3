SPECIFICATION PartsSpec
CONSTANTS
  MaxFire = 3
  MaxArms = 5
  ExitCodes = {0, 3}
  Bytes = {27, 91, 79, 60, 117, 53, 63, 10}
  MaxInput = 5
  MaxChunks = 2
INVARIANTS
  PartsTypeOK
  CallsWithinArms
  StoppedIsDisarmed
  CodeKnownWhenDone
  NothingElseLost
  DropsAreBounded
  WholeSequencesStripped
  FileIsComplete
PROPERTIES
  StopSilences
  KillOnlyAfterGrace
  CloseEndsChild
  DurationEndsCapture
