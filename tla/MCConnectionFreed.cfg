SPECIFICATION Spec
CONSTANTS
  Capacity = 3
  Exchange <- GarbageOnly
INVARIANTS
  NoUseAfterFree
CHECK_DEADLOCK FALSE
