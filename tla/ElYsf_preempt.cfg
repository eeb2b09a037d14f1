SPECIFICATION YsfLiveSpec
CONSTANTS
  Steady = TRUE
  CapYsf = 30
  MaxPcm = 4
  MaxYsf = 12
  MaxRx = 4
PROPERTIES YsfEndingEnds
