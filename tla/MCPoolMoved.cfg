\* Two workers that steal, and tasks given to post(task).
SPECIFICATION Spec
CONSTANTS
  None = None
  x1 = x1  x2 = x2  x3 = x3
  Clients = {k1, k2}
  Items = {x1, x2}
  ThreadNum = 2
  EnableWorkSteal = TRUE
  InitialTaskNums = {0}
  Counted = {}
  Id <- AnyId
  Spawns <- Nothing
  Wrapped = 1
  MayCancel = {}
  MayDestroy = {k2}
INVARIANT
  NoEmptyTask
CHECK_DEADLOCK FALSE
