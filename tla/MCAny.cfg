\* Every operation on two threads, misuse included.
SPECIFICATION Spec
CONSTANTS
  None = None
  c1 = c1  c2 = c2  c3 = c3  t1 = t1  t2 = t2 t3 = t3 e1 = e1  e2 = e2
  Coros = {c1, c2}
  Threads = {t1, t2}
  Executors = {e1}
  Serves <- AnyServes
  Posts <- AnyPosts
  Starts <- AnyStarts
  SyncWaits <- AnySyncWaits
  Hops <- AnyHops
  Awaits <- AnyAwaits
  Calls <- AnyCalls
  TaskAwaits <- AnyTasks
  Failing = {c1}
  Completers = {t2}
  Bare = {c1, c2}
  Resumes <- AnyResumes
  Yielders = {c2}
  Destroys <- AnyDestroys
  Closable = {e1}
  Catchers = {t2}
  MaxOps = 1
  MaxUses = 2
INVARIANTS
  TypeOK
  
CHECK_DEADLOCK FALSE
