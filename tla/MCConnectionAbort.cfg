SPECIFICATION Spec
CONSTANTS
  Capacity = 3
  Exchange <- OriginResets
INVARIANTS
  NoAbort
CHECK_DEADLOCK FALSE
