SPECIFICATION PidSpec
CONSTANTS
  Procs = {p1, p2}
  None = None
  SerialStarts = TRUE
INVARIANT PidFileRemovedOnExit
