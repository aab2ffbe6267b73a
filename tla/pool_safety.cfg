SPECIFICATION Spec
CONSTANTS
  NumThreads = 3
  t1 = t1
  t2 = t2
  t3 = t3
  Tasks = {t1, t2, t3}
  Clients = {c1}
  Spawns <- Flat
  ThreadsMayFail = TRUE
  MayDestroy = TRUE
  NoTask = NoTask
  Free = Free
INVARIANTS TypeOK ExactlyOnce Accounting WaitersCounted DestroyQuiesces IInv
PROPERTIES WaitSound
SYMMETRY Symmetric
CHECK_DEADLOCK FALSE
