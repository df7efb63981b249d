SPECIFICATION Spec
CONSTANTS
  FD_SETSIZE = 2
  t1 = t1
  t2 = t2
  Task = {t1, t2}
  SelectorThread = SelectorThread
  NoOne = NoOne
SYMMETRY JobSymmetry
INVARIANTS
  TypeOK
  NoJobLost
  PollsWhatItemsAsk
  MaxFdIsMax
