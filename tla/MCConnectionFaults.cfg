SPECIFICATION Spec
CONSTANTS
  Capacity = 3
  Exchange <- FaultyExchanges
INVARIANTS
  TypeOK
  NoLostWakeup
  RequestInOrder
  ResponseInOrder
  DoneIsComplete
CHECK_DEADLOCK FALSE
