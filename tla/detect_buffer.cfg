CONSTANTS
  NumWorkers = 2
  InputSize = 1
  OutputSize = 1
  MaxFrames = 2
SPECIFICATION SafeSpec
INVARIANT ResultFromOwnFrame
CHECK_DEADLOCK FALSE
