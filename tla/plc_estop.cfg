CONSTANTS
  MaxPending = 1
  HistorySize = 3
  MinInterval = 2
  LevelWindow = 3
  MinLevel = 2
  Enabled = {"SPEED_LIMIT", "SWING_DAMPING", "EMERGENCY_STOP"}
  MaxClock = 3
  MaxAsked = 2
SPECIFICATION Spec
PROPERTY EmergencyStopReported
CHECK_DEADLOCK FALSE
