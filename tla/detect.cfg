CONSTANTS
  NumWorkers = 2
  InputSize = 1
  OutputSize = 1
  MaxFrames = 3
SPECIFICATION Spec
INVARIANTS NoWorkerStarves FramesAccounted StoppedDetectorHoldsNothing
PROPERTY StopTerminates
CHECK_DEADLOCK FALSE
