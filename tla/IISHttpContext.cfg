\* Every call to IIS may fail, and so may setting the headers.
SPECIFICATION ContextSpec
CONSTANTS
  Clients = {"reader", "writer"}
  Nobody = "nobody"
  MayFail = {"read", "write", "flush", "headers"}
  MaxBytes = 2
  MaxOps = 2
  MaxBody = 2
  InPause = 1
  OutPause = 2
INVARIANTS
  ContextSafe
  ResponseComplete
  EndIsTheEnd
PROPERTIES
  RequestEnds
  OutputFlows
