\* One thread serves both executors; async tasks complete on another thread.
SPECIFICATION FairSpec
CONSTANTS
  None = None
  c1 = c1  c2 = c2  c3 = c3  t1 = t1  t2 = t2 t3 = t3 e1 = e1  e2 = e2
  Coros = {c1, c2, c3}
  Threads = {t1, t2}
  Executors = {e1, e2}
  Serves <- LoopServes
  Posts <- LoopPosts
  Starts <- LoopStarts
  SyncWaits <- Nothing
  Hops <- LoopHops
  Awaits <- LoopAwaits
  Calls <- Nothing
  TaskAwaits <- LoopTasks
  Failing = {c3}
  Completers = {t2}
  Bare = {}
  Resumes <- Nothing
  Yielders = {}
  Destroys <- Nothing
  Closable = {e2}
  Catchers = {t1, t2}
  MaxOps = 2
  MaxUses = 1
INVARIANTS
  NoFault
  OneContinuation
  AwaitOrder
  ThisCoroIsRunning
  NoLeak
  PointersAlive
PROPERTIES
  FunCalledOnReturn
  AllFinish
CHECK_DEADLOCK FALSE
