SPECIFICATION FairSetupSpec
CONSTANTS
  a1 = a1
  a2 = a2
  PlainValues = {0, 1}
  Millis = {3}
  MsPerSec = 2
  Radix = 2
  TokenMax = 3
  Texts <- TokenTexts
  Threads = {t1, t2}
  Addrs = {a1, a2}
  AddrLists <- Lists
  EnvWorkers <- Env
  Cores <- CoreCounts
INVARIANTS SetupTypeOK OneRuntime AllOrNothing CopiesOver
PROPERTIES ConstructEnds
CHECK_DEADLOCK FALSE
