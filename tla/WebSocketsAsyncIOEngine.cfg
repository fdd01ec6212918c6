\* Two callback threads: one may still free what it has completed while the next
\* call of the same operation is answered on the other.
SPECIFICATION Spec
CONSTANTS
  Threads = 2
INVARIANTS
  OperationsSafe
  PinnedWhilePending
PROPERTIES
  AllEnd
CHECK_DEADLOCK FALSE
