SPECIFICATION Spec
CONSTANTS
  Own = {o1, o2, o3}
  Remote = {r1, r2}
  NoStream = none
  Clear = FALSE
  Sources = {"dmr"}
  Flaps = {}
  Steady = TRUE
  CapDmr = 20
  CapYsf = 20
  MaxQueue = 10
PROPERTIES OnlyDuplicatesIgnored
CHECK_DEADLOCK FALSE
