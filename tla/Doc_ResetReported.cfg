SPECIFICATION FairSpec
CONSTANTS
  MaxConns = 1
  Streams = {2}
  EventCap = 3
  CloseCap = 1
  MaxUnits = 1
  NumberUnits = TRUE
  MaxPairs = 1
  OpenIds = {}
  AnnounceHooks <- HooksOn
  WithEventFd = TRUE
  PhpOps = {}
PROPERTIES ResetIsReported
CHECK_DEADLOCK FALSE
