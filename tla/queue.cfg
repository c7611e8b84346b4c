CONSTANTS
  Threads = {t1, t2, t3}
  Items = {a, b}
  MaxSize = 2
  MaxLen = 2
SPECIFICATION Spec
INVARIANTS CapacityRespected NoLostConsumerWakeup NoLostProducerWakeup
PROPERTIES ImplementsChannel CallersReturn
