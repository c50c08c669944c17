SPECIFICATION Spec
CONSTANTS
  Files = {"a", "b"}
  MaxOpens = 2
  MaxTaps = 1
  MaxNotes = 1
PROPERTIES PrintReleased ViewCatchesUp
INVARIANTS TypeOK LatestScanHoldsPrint CacheNotStale
CHECK_DEADLOCK FALSE
