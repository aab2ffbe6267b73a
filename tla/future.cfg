SPECIFICATION FairSpec
CONSTANTS
  Futures = {f1, f2}
  Waiters = {w1, w2}
  Free = Free
INVARIANTS ReadyMeansRun
PROPERTIES FutureWaitReturns
CHECK_DEADLOCK FALSE
