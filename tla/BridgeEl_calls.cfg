SPECIFICATION MCSpec
CONSTANTS
  Own = {o1, o2, o3}
  Remote = {r1, r2}
  NoStream = none
  Clear = TRUE
  Flaps = TRUE
  Steady = TRUE
  CapDmr = 20
  CapYsf = 30
  MaxQueue = 3
  MaxYsf = 11
  MaxPcm = 2
  MaxRx = 2
INVARIANTS TypeOK YsfTypeOK
PROPERTIES UplinkWellFormed EndingEnds HeaderFirst DrainEnds SlotReleased
