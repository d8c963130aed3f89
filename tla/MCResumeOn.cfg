\* The program in the comment of test1.cpp, with two fibers and a shutdown.
SPECIFICATION FairSpec
CONSTANTS
  None = None
  main = main  worker = worker  manualExecutor = manualExecutor  threadPool = threadPool
  Fibers = {f1, f2}
  Threads = {main, worker}
  Executors = {manualExecutor, threadPool}
  Serves <- TestServes
  Starters = {main}
  Closable = {manualExecutor}
  MaxHops = 2
INVARIANTS
  OneHandle
  HandleArrives
PROPERTIES
  UnwoundByShutdown
  FibersEnd
CHECK_DEADLOCK FALSE
