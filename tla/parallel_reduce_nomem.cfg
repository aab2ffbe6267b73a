SPECIFICATION Spec
CONSTANTS
  SizeT = 16
  MinRange = 4
  Calls <- SmallCalls
  PoolSizes = {1, 2, 3, 4}
  Caller = Caller
INVARIANTS PartialsAlive
CHECK_DEADLOCK FALSE
