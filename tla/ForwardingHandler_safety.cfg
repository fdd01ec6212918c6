SPECIFICATION Spec
CONSTANTS
  Threads = 3
  MaxBody = 2
  MaxResponse = 2
INVARIANTS
  TurnsAndReferences
  QuietWhenReleased
  SuccessIsComplete
  WebSocketCounts
PROPERTIES
  AllEnd
CHECK_DEADLOCK FALSE
