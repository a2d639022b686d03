SPECIFICATION FairFdSpec
CONSTANTS
  Fds = {0, 1, 2}
  MaxOthers = 3
INVARIANTS FdTypeOK TickOwnsEventFd NoLeakedFd
PROPERTIES ShutdownStopsThread OwnedFdIsStable
CHECK_DEADLOCK FALSE
