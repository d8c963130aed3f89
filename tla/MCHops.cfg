\* A pool of two threads and a main thread, in timely behaviours.
SPECIFICATION TimelyFairSpec
CONSTANTS
  None = None
  c1 = c1  c2 = c2  c3 = c3  t1 = t1  t2 = t2 t3 = t3 e1 = e1  e2 = e2
  Coros = {c1, c2}
  Threads = {t1, t2, t3}
  Executors = {e1, e2}
  Serves <- HopsServes
  Posts <- HopsPosts
  Starts <- HopsStarts
  SyncWaits <- HopsSyncWaits
  Hops <- HopsHops
  Awaits <- HopsAwaits
  Calls <- Nothing
  TaskAwaits <- HopsTasks
  Failing = {}
  Completers = {t2}
  Bare = {c2}
  Resumes <- Nothing
  Yielders = {}
  Destroys <- Nothing
  Closable = {}
  Catchers = {t2, t3}
  MaxOps = 2
  MaxUses = 1
INVARIANTS
  NoFault
  OneContinuation
  RunsOnExecutor
  SyncWaitSound
PROPERTIES
  ImplementsProtocol
  AllFinish
  AllReturn
CHECK_DEADLOCK FALSE
