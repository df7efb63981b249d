SPECIFICATION FairSpec
CONSTANTS
  FD_SETSIZE = 2
  t1 = t1
  t2 = t2
  Task = {t1}
  SelectorThread = SelectorThread
  NoOne = NoOne
PROPERTIES
  ReadyIsServed
  NotificationsArrive
