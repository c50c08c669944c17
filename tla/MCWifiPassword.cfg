SPECIFICATION Spec
CONSTANTS
  Networks <- MCNetworks
  Stored <- MCStored
  Saved = {}
  Doubled = {}
  Configured = {0}
  QueueMax = 2
  MaxTouches = 2
  MaxScans = 1
  MaxMishaps = 0
PROPERTY EveryAttemptSettles
CHECK_DEADLOCK FALSE
