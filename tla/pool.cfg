CONSTANTS
  Clients = {c1, c2, c3, c4}
  NumContexts = 2
SPECIFICATION Spec
INVARIANTS ExclusiveUse NoContextLost NoLostWakeup
PROPERTIES ImplementsLeases AcquireReturns ShutdownFreesAll
CHECK_DEADLOCK FALSE
