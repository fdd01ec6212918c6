\* The instance of ProcessManager_safety.cfg.
SPECIFICATION Spec
CONSTANTS
  Requests = {r1, r2}
  NSlots = 1
  Ports = {p1}
  PortIsFixed = TRUE
  Launchers = TRUE
  RapidFails = 0
  Null = Null
INVARIANTS
  UnresponsiveIsTerminated
SYMMETRY Symmetry
CHECK_DEADLOCK FALSE
