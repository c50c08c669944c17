SPECIFICATION Spec
CONSTANTS
  Objects <- MCObjects
  Config <- MCConfig
  Monitored <- MCMonitored
  MaxOpens = 2
  MaxChanges = 2
INVARIANTS TypeOK StateOfThisBoot QuiescentAgrees
PROPERTY SessionComesUp
CHECK_DEADLOCK FALSE
