SPECIFICATION MCSpec
CONSTANTS
  ALARM = 2
  MaxLate = 2
  TIMEOUT = 8
  LOST_TIMEOUT = 8
  NAK_HOLD = 2
  Options = TRUE
  NakUnknown = FALSE
  Faults = {"loss", "dup", "reject", "restart"}
  MaxFaults = 3
  MaxNet = 3
INVARIANTS TypeOK HoldoffIsSilent
PROPERTIES ConnectedIsRegistered NoSpuriousTimeout EventuallyConnected SurvivesLoss RegistrationRenewed
CHECK_DEADLOCK FALSE
