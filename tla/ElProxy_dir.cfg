SPECIFICATION LiveSpec
CONSTANTS
  Chunks = 3
  RxCap = 2
  MaxSess = 3
  MaxFaults = 1
  MaxNet = 2
INVARIANTS TypeOK
PROPERTIES IsDirStream OperationEnds
CHECK_DEADLOCK FALSE
