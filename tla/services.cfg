SPECIFICATION SvSpec
CONSTANTS
  world_size = 3
  MaxN = 7
  MaxBeats = 1
INVARIANTS   RequestsWhole DeliveredInOrder
PROPERTIES   CrashRemoved
CHECK_DEADLOCK FALSE
