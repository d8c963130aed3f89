\* One thread: the body of c1 calls c2 as a function, then awaits.
SPECIFICATION Spec
CONSTANTS
  None = None
  c1 = c1  c2 = c2  c3 = c3  t1 = t1  t2 = t2  t3 = t3  e1 = e1  e2 = e2
  Coros = {c1, c2, c3}
  Threads = {t1}
  Executors = {e1}
  Serves <- OneServes
  Posts <- StartPosts
  Starts <- Nothing
  SyncWaits <- Nothing
  Hops <- StartHops
  Awaits <- StartAwaits
  Calls <- StartCalls
  TaskAwaits = {}
  Failing = {}
  Completers = {}
  Bare = {}
  Resumes <- Nothing
  Yielders = {}
  Destroys <- Nothing
  Closable = {}
  Catchers = {}
  MaxOps = 2
  MaxUses = 1
INVARIANT
  CoroutineFound
CHECK_DEADLOCK FALSE
