SPECIFICATION BusyPeerSpec
CONSTANTS
  MaxConns = 1
  Streams = {0}
  EventCap = 1
  CloseCap = 1
  MaxUnits = 1
  NumberUnits = TRUE
  MaxPairs = 1
  OpenIds = {}
  AnnounceHooks <- HooksOn
  WithEventFd = TRUE
  PhpOps = {}
PROPERTIES BufferedIsDelivered
CHECK_DEADLOCK FALSE
