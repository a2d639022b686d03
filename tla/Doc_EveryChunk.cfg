SPECIFICATION Spec
CONSTANTS
  MaxConns = 1
  Streams = {0}
  EventCap = 2
  CloseCap = 1
  MaxUnits = 1
  NumberUnits = TRUE
  MaxPairs = 1
  OpenIds = {}
  AnnounceHooks <- HooksOn
  WithEventFd = TRUE
  PhpOps = {}
INVARIANTS EveryChunkIsGiven
CHECK_DEADLOCK FALSE
