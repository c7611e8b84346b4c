CONSTANTS
  MaxDiff = 1
  MaxQueue = 2
  InputSize = 1
  OutputSize = 1
  MaxDelay = 2
  MaxClock = 2
SPECIFICATION SafeSpec
INVARIANT PairsAlignedByPts
CHECK_DEADLOCK FALSE
