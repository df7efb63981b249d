SPECIFICATION Spec
CONSTANTS
  Capacity = 3
  Exchange <- HeadAlone
INVARIANTS
  WholeResponse
CHECK_DEADLOCK FALSE
