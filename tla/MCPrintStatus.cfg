SPECIFICATION Spec
CONSTANTS
  Files = {"benchy", "cube"}
  Scanned = {"benchy"}
  Pictured = {"benchy"}
  Full = 2
  MaxPrints = 2
  MaxRounds = 2
  MaxPresses = 1
  MaxQueued = 1
INVARIANTS TypeOK ScreenAgrees DetailsOfThisPrint
PROPERTY OnlyAPrintTakesTheScreen
CHECK_DEADLOCK FALSE
