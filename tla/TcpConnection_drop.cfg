SPECIFICATION Spec
CONSTANTS
  Messages = {a}
  MessageLength = 1
  Workers = {w}
  MayShutdown = {}
  HighWaterMark = 2
  ServerStops = FALSE
INVARIANTS SendIsSafe
CHECK_DEADLOCK FALSE
