\* The two callers a request really has: ReadBody and the writing side.
SPECIFICATION Spec
CONSTANTS
  Clients = {reader, writer}
  ReadOps = {r1, r2}
  WriteOps = {w1, w2}
  FlushOps = {f1}
  NoOp = NoOp
  Null = Null
  Called = Called
  MaxBytes = 0
INVARIANTS
  EngineSafe
  NoLostWakeup
PROPERTIES
  OnlyOvertakenPinsLeak
  ImplementsRequestIO
  ClientsAreServed
