CONSTANTS
  MaxReconnect = 2
  MaxDecoded = 2
  Optional = {"infrared", "synchronizer", "plc"}
SPECIFICATION PipelineSpec
INVARIANTS PipelineTypeOK AllOrNothing NoUseAfterRelease OpenOnFirstStart
PROPERTIES StreamHasOneUser CallsReturn
CHECK_DEADLOCK FALSE
