\* Two requests and a caller of ShutDown besides the file watcher; every time
\* limit may expire, and no liveness property but loading counts on one.
SPECIFICATION Spec
CONSTANTS
  Requests = {r1, r2}
  Shutdowns = {s1}
  Limits = {"startup", "stop", "shutdown"}
INVARIANTS
  DrainSafe
  RecycledOnce
PROPERTIES
  
  NobodyWaits
CHECK_DEADLOCK FALSE
