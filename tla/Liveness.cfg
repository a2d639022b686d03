SPECIFICATION FairSpec
CONSTANTS
  MaxConns = 1
  Streams = {0, 1}
  EventCap = 6
  CloseCap = 1
  MaxUnits = 1
  NumberUnits = TRUE
  MaxPairs = 1
  OpenIds = {1}
  AnnounceHooks <- HooksOn
  WithEventFd = TRUE
  PhpOps = {"open", "close", "signal"}
PROPERTIES ClosedIsPruned SignalEndsTick BufferedIsDelivered
CHECK_DEADLOCK FALSE
