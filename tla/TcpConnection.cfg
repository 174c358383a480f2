SPECIFICATION FairSpec
CONSTANTS
  Messages = {a, b}
  MessageLength = 2
  Workers = {w, x}
  MayShutdown = {w}
  HighWaterMark = 3
  ServerStops = TRUE
INVARIANTS TypeOK StreamIntact WritesWhenBuffered ClosesOnce
PROPERTIES FinAfterData ShutdownCompletes GoneIsRemoved
CHECK_DEADLOCK FALSE
