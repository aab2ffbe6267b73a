SPECIFICATION Spec
CONSTANTS
  NumThreads = 2
  t1 = t1
  t2 = t2
  t3 = t3
  Tasks = {t1, t2}
  Clients = {c1}
  Spawns <- Nested
  ThreadsMayFail = FALSE
  MayDestroy = FALSE
  NoTask = NoTask
  Free = Free
PROPERTY WaitSound
CHECK_DEADLOCK FALSE
