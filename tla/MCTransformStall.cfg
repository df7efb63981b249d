SPECIFICATION Spec
CONSTANTS
  Capacity = 6
  PipeSize = 2
  Hold = 2
  Exchange <- TooMuch
INVARIANT NeverStalled
CHECK_DEADLOCK FALSE
