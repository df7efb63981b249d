SPECIFICATION FairSpec
CONSTANTS
  Capacity = 6
  PipeSize = 2
  Hold = 2
  Exchange <- Exchanges
INVARIANTS
  TypeOK
  NothingLost
  WellFramed
  LostOnlyThen
PROPERTIES
  Relayed
  Delivered
  Ends
CHECK_DEADLOCK FALSE
