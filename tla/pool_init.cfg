CONSTANTS
  Clients = {c1}
  NumContexts = 2
SPECIFICATION Spec
PROPERTY InitReturns
CHECK_DEADLOCK FALSE
