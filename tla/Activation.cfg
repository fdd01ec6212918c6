\* One request may find what the other has left at any point.  Both applications have
\* processes of their own, or one is in-process and the other misconfigured.
SPECIFICATION Spec
CONSTANTS
  Requests = {r1, r2}
  Apps = {a1, a2}
  Situations <- MCSituations
  Null = Null
INVARIANTS
  ConfigIsShared
  HostFxrIsRight
  LoadingSafe
PROPERTIES
  FailureIsFinal
  RequestsEnd
CHECK_DEADLOCK FALSE
