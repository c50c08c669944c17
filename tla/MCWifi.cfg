SPECIFICATION Spec
CONSTANTS
  Networks <- MCNetworks
  Stored <- MCStored
  Saved = {"cafe"}
  Doubled = {"cafe"}
  Configured = {0, 1, 2}
  QueueMax = 2
  MaxTouches = 4
  MaxScans = 1
  MaxMishaps = 1
INVARIANTS TypeOK BlocksSound IdsExact
PROPERTIES MailboxSpec ConnectingSettles
CHECK_DEADLOCK FALSE
