SPECIFICATION Spec
CONSTANTS
  Limit = 0
  MaxPresses = 2
  MaxOthers = 2
INVARIANTS TypeOK RunIsWatched OneSweepAtATime PlotIsOfThisRun
PROPERTY RunEnds
CHECK_DEADLOCK FALSE
