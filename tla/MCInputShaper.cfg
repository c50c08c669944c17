SPECIFICATION Spec
CONSTANTS
  Limit = 1
  MaxPresses = 2
  MaxTaps = 1
  MaxOthers = 2
INVARIANTS TypeOK OneAxisAtATime RunIsWatched
PROPERTIES ResultOfThisRun RunEnds
CHECK_DEADLOCK FALSE
