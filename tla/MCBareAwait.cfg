\* One thread, no executor: c1 awaits c2, which finishes without suspending.
SPECIFICATION Spec
CONSTANTS
  None = None
  c1 = c1  c2 = c2  c3 = c3  t1 = t1  t2 = t2  t3 = t3  e1 = e1  e2 = e2
  Coros = {c1, c2}
  Threads = {t1}
  Executors = {e1}
  Serves <- OneServes
  Posts <- Nothing
  Starts <- OneStart
  SyncWaits <- Nothing
  Hops <- Nothing
  Awaits <- OnePair
  Calls <- Nothing
  TaskAwaits = {}
  Failing = {}
  Completers = {}
  Bare = {c1}
  Resumes <- Nothing
  Yielders = {}
  Destroys <- Nothing
  Closable = {}
  Catchers = {}
  MaxOps = 1
  MaxUses = 1
INVARIANT
  HandleNotEmpty
CHECK_DEADLOCK FALSE
