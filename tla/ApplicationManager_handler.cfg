SPECIFICATION Spec
CONSTANTS
  Requests = {r1, r2}
  Keys <- MCKeys
  ChangePaths <- MCChangePaths
  MaxInfos = 2
  MaxApps = 2
  MaxEvents = 2
  Slash = "/"
  ThreadFails = TRUE
SYMMETRY Symmetry
INVARIANTS
  HandlerFindsApplication
CHECK_DEADLOCK FALSE
