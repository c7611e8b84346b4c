CONSTANTS
  MaxDiff = 1
  MaxQueue = 2
  InputSize = 1
  OutputSize = 1
  MaxDelay = 0
  MaxClock = 3
SPECIFICATION Spec
INVARIANTS PairsInOrder FramesConserved StaleFramesUnmatchable
PROPERTIES ImplementsMatcher StopTerminates MatchesLeaveDeques
CHECK_DEADLOCK FALSE
