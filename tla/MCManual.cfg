\* A looper, as the main thread of CoppWrap.cpp, a thread that closes and drains, and one that posts.
SPECIFICATION FairSpec
CONSTANTS
  None = None
  x1 = x1  x2 = x2  x3 = x3
  Threads = {t1, t2, t3}
  Items = {x1, x2, x3}
  Counts = {1, 2}
  Loopers = {t3}
  Drainers = {t1}
  Posters = {t1, t2}
  Closers = {t1}
  Acting = {x1}
INVARIANTS
  TypeOK
  NoLostWakeup
  ShutdownConsistent
PROPERTIES
  ImplementsTaskQueue
  WaitsEnd
  TasksLeave
CHECK_DEADLOCK FALSE
