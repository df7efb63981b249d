SPECIFICATION Spec
CONSTANTS
  Capacity = 3
  Exchange <- DisturbedByNobody
INVARIANTS
  NoDeadlock
CHECK_DEADLOCK FALSE
