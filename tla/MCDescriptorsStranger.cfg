SPECIFICATION DescriptorsSpec
CONSTANTS
  MaxFd = 10
  MaxAccepted = 3
  MediaActive = {1, 2}
INVARIANT NoStranger
CHECK_DEADLOCK FALSE
