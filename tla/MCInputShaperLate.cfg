SPECIFICATION Spec
CONSTANTS
  Limit = 1
  MaxPresses = 2
  MaxTaps = 0
  MaxOthers = 1
PROPERTY LateWordsIgnored
CHECK_DEADLOCK FALSE
