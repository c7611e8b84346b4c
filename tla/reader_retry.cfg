CONSTANTS
  MaxReconnect = 2
  MaxDecoded = 2
SPECIFICATION SafeSpec
INVARIANT ReconnectRetries
CHECK_DEADLOCK FALSE
