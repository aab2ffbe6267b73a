SPECIFICATION FairSpec
CONSTANTS
  NumThreads = 2
  t1 = t1
  t2 = t2
  t3 = t3
  Tasks = {t1, t2}
  Clients = {c1}
  Spawns <- Flat
  ThreadsMayFail = TRUE
  MayDestroy = TRUE
  NoTask = NoTask
  Free = Free
PROPERTIES ImplementsFairTaskPool
CHECK_DEADLOCK FALSE
