\* The demo: is every function given to yield called?
SPECIFICATION DemoSpec
CONSTANTS
  None = None
  handler = handler  timeOut = timeOut  asyncHandle = asyncHandle  test1 = test1
  manualExecutor = manualExecutor  threadPoolA = threadPoolA
  threadPoolB = threadPoolB  threadPoolC = threadPoolC
  main = main  threadA = threadA  threadB = threadB  threadC = threadC
  Coros = {handler, timeOut, asyncHandle, test1}
  Threads = {main, threadA, threadB, threadC}
  Executors = {manualExecutor, threadPoolA, threadPoolB, threadPoolC}
  Serves <- DemoServes
  Posts <- Nothing
  Starts <- DemoStarts
  SyncWaits <- Nothing
  Hops <- DemoHops
  Awaits <- DemoAwaits
  Calls <- Nothing
  TaskAwaits = {}
  Failing = {}
  Completers = {}
  Bare = {}
  Resumes <- Nothing
  Yielders = {}
  Destroys <- Nothing
  Closable = {}
  Catchers = {}
  MaxOps = 5
  MaxUses = 1
PROPERTY
  FunCalledOnReturn
CHECK_DEADLOCK FALSE
