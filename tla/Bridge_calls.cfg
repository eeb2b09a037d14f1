SPECIFICATION MCSpec
CONSTANTS
  Own = {o1, o2, o3}
  Remote = {r1, r2}
  NoStream = none
  Clear = TRUE
  Sources = {"dmr", "ysf"}
  Flaps = {"dmr", "ysf"}
  Steady = TRUE
  CapDmr = 20
  CapYsf = 20
  MaxQueue = 10
INVARIANTS TypeOK IdleIsClean ClearedByBridge
PROPERTIES TerminatorThenHeader UplinkWellFormed CallEnds PttEnds
CHECK_DEADLOCK FALSE
