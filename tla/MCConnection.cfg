SPECIFICATION FairSpec
CONSTANTS
  Capacity = 3
  Exchange <- Exchanges
PROPERTIES
  Served
  Ends
CHECK_DEADLOCK FALSE
