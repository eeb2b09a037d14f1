SPECIFICATION LiveSpec
CONSTANTS
  Procs = {p1, p2}
  ATTEMPTS = 2
  HasLocal = FALSE
  MaxPub = 2
  MaxFaults = 1
INVARIANTS TypeOK FilesComplete
PROPERTIES RefreshEnds Converges
CHECK_DEADLOCK FALSE
