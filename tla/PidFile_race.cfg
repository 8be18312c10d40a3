SPECIFICATION PidSpec
CONSTANTS
  Procs = {p1, p2}
  None = None
  SerialStarts = FALSE
INVARIANT OneBackend
