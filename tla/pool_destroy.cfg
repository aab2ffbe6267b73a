SPECIFICATION FairSpec
CONSTANTS
  NumThreads = 2
  t1 = t1
  t2 = t2
  t3 = t3
  Tasks = {t1}
  Clients = {c1}
  Spawns <- Flat
  ThreadsMayFail = FALSE
  MayDestroy = TRUE
  NoTask = NoTask
  Free = Free
PROPERTY DestroyTerminates
CHECK_DEADLOCK FALSE
