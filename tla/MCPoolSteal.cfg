\* Two workers that steal; post(Fun&&) only, counted from zero, a pinned task, and wait.
SPECIFICATION FairSpec
CONSTANTS
  None = None
  x1 = x1  x2 = x2  x3 = x3
  Clients = {k1}
  Items = {x1, x2, x3}
  ThreadNum = 2
  EnableWorkSteal = TRUE
  InitialTaskNums = {0}
  Counted = {x1, x2, x3}
  Id <- OnePin
  Spawns <- OneSpawn
  Wrapped = 1
  MayCancel = {}
  MayDestroy = {k1}
INVARIANTS
  TypeOK
  ExactlyOnce
  NoEmptyTask
  PinnedStay
  WaitSound
PROPERTY
  TasksRun
CHECK_DEADLOCK FALSE
