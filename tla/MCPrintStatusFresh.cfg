SPECIFICATION Spec
CONSTANTS
  Files = {"benchy", "cube"}
  Scanned = {"benchy"}
  Pictured = {"benchy"}
  Full = 2
  MaxPrints = 2
  MaxRounds = 2
  MaxPresses = 1
  MaxQueued = 2
INVARIANT EveryPrintDescribed
CHECK_DEADLOCK FALSE
