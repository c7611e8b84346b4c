CONSTANTS
  MaxPending = 1
  HistorySize = 3
  MinInterval = 2
  LevelWindow = 3
  MinLevel = 2
  Enabled = {"SPEED_LIMIT", "SWING_DAMPING", "EMERGENCY_STOP"}
  MaxClock = 5
  MaxAsked = 4
SPECIFICATION SafeSpec
INVARIANTS TypeOK ThrottleSpacing CommandsConserved TakenInIssueOrder LevelNotUnderstated
CHECK_DEADLOCK FALSE
