SPECIFICATION LiveLaneSpec
CONSTANTS
  Group = 5
  Frame = 3
  Cap = 12
  MaxN = 22
INVARIANTS CountCoversRing EotIntact
PROPERTIES EotDelivered
CHECK_DEADLOCK FALSE
