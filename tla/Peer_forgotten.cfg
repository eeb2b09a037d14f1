SPECIFICATION LiveSpec
CONSTANTS
  ALARM = 2
  MaxLate = 1
  TIMEOUT = 7
  NAK_HOLD = 2
  Options = TRUE
  NakUnknown = TRUE
  Faults = {"restart"}
  MaxFaults = 1
  MaxNet = 3
PROPERTIES LostRegistrationNoticed
CHECK_DEADLOCK FALSE
