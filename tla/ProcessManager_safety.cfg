\* Two requests for one slot, a configured port, and back-end processes that may start
\* a child that listens: one crash is above the rapid-fail limit.
SPECIFICATION Spec
CONSTANTS
  Requests = {r1, r2}
  NSlots = 1
  Ports = {p1}
  PortIsFixed = TRUE
  Launchers = TRUE
  RapidFails = 0
  Null = Null
INVARIANTS
  ReferencesHold
  NoOrphan
  StartsAreGuarded
SYMMETRY Symmetry
CHECK_DEADLOCK FALSE
