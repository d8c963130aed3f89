\* Two workers without stealing; both overloads of post, cancel, destruction.
SPECIFICATION FairSpec
CONSTANTS
  None = None
  x1 = x1  x2 = x2  x3 = x3
  Clients = {k1, k2}
  Items = {x1, x2, x3}
  ThreadNum = 2
  EnableWorkSteal = FALSE
  InitialTaskNums = {0, 1}
  Counted = {x1, x3}
  Id <- AnyId
  Spawns <- BackSpawn
  Wrapped = 1
  MayCancel = {k1}
  MayDestroy = {k2}
INVARIANT
  NoLostWakeup
PROPERTIES
  ImplementsTaskBag
  DestructorEnds
CHECK_DEADLOCK FALSE
