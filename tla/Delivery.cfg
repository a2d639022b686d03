SPECIFICATION Spec
CONSTANTS
  MaxConns = 2
  Streams = {0}
  EventCap = 2
  CloseCap = 1
  MaxUnits = 1
  NumberUnits = TRUE
  MaxPairs = 1
  OpenIds = {}
  AnnounceHooks <- HooksOn
  WithEventFd = TRUE
  PhpOps = {}
INVARIANTS AnnouncedBeforeData NeverReannounced InOrder FewClosesLost
CHECK_DEADLOCK FALSE
