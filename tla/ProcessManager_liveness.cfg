\* Two requests for one slot and a configured port; the processes listen themselves.
SPECIFICATION Spec
CONSTANTS
  Requests = {r1, r2}
  NSlots = 1
  Ports = {p1}
  PortIsFixed = TRUE
  Launchers = FALSE
  RapidFails = 1
  Null = Null
PROPERTIES
  CrashIsReplaced
  NobodyWaitsForever
CHECK_DEADLOCK FALSE
