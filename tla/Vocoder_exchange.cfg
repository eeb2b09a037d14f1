SPECIFICATION LiveSpec
CONSTANTS
  MaxNet = 3
  MaxFaults = 3
INVARIANTS TypeOK LateAnswersForgotten
PROPERTIES RateRestored
CHECK_DEADLOCK FALSE
