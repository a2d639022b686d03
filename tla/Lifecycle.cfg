SPECIFICATION Spec
CONSTANTS
  MaxConns = 1
  Streams = {0, 1}
  EventCap = 2
  CloseCap = 1
  MaxUnits = 1
  NumberUnits = TRUE
  MaxPairs = 1
  OpenIds = {1}
  AnnounceHooks <- HooksOn
  WithEventFd = TRUE
  PhpOps = {"open", "hook", "reenter", "close", "signal"}
INVARIANTS TypeOK OnCloseAtMostOnce PeerFlagTruthful ToldOfClose OpenNeverBlocks
PROPERTIES ImplementsContract ClosedIsSilent
CHECK_DEADLOCK FALSE
