SPECIFICATION FairSpec
CONSTANTS
  MaxConns = 1
  Streams = {0}
  EventCap = 2
  CloseCap = 1
  MaxUnits = 1
  NumberUnits = FALSE
  MaxPairs = 1
  OpenIds = {}
  AnnounceHooks <- HooksOn
  WithEventFd = TRUE
  PhpOps = {"signal"}
PROPERTIES SignalEndsTick
CHECK_DEADLOCK FALSE
