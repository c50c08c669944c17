SPECIFICATION Spec
CONSTANTS
  Abandon = 2
  MaxToggles = 2
  MaxPolls = 1
  MaxPresses = 2
  MaxLines = 2
INVARIANTS TypeOK NoticeObeysSetting OneUpdateAtATime
PROPERTIES CheckSettles OutcomeShown
CHECK_DEADLOCK FALSE
