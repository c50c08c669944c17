SPECIFICATION Spec
CONSTANTS
  Limit = 1
  MaxPresses = 2
  MaxOthers = 2
INVARIANT NeverSelfLocks
CHECK_DEADLOCK FALSE
