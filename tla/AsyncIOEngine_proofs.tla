------------------------- MODULE AsyncIOEngine_proofs -------------------------
(* Theorems about AsyncIOEngine, for any number of callers and of operation  *)
(* objects.                                                                  *)
EXTENDS AsyncIOEngine, TLAPS

-----------------------------------------------------------------------------
(* Operators the model is built from.                                        *)

(* Every operation belongs to the kind KindOf chooses for it, and to that    *)
(* one only: ReturnOperation's overloads put it into the slot it came from.  *)
LEMMA KindOfOp ==
  ASSUME NEW o \in Ops
  PROVE  /\ KindOf(o) \in Kinds
         /\ o \in OpsOf[KindOf(o)]
         /\ \A k \in Kinds : o \in OpsOf[k] => k = KindOf(o)
<1>1. \E k \in Kinds : o \in OpsOf[k]
  BY DEF Ops, Kinds, OpsOf
<1>2. KindOf(o) \in Kinds /\ o \in OpsOf[KindOf(o)]
  BY <1>1 DEF KindOf
<1>3. \A j, k \in Kinds : o \in OpsOf[j] /\ o \in OpsOf[k] => j = k
  BY OpsAssumption DEF Kinds, OpsOf
<1>4. QED BY <1>2, <1>3

(* The objects of a kind are operations, and none of them is null.           *)
LEMMA OpsOfOps ==
  /\ NoOp \notin Ops
  /\ \A k \in Kinds : OpsOf[k] \subseteq Ops
  BY OpsAssumption DEF Ops, Kinds, OpsOf

(* IIS reports a byte count or a failure.                                    *)
LEMMA OutcomesTyped ==
  ASSUME NEW o \in Ops
  PROVE  /\ Outcomes(o) \subseteq Outcome
         /\ {Unset, Failed, Aborted} \subseteq Outcome
         /\ Unset \notin Outcomes(o) /\ Unset # Aborted
  BY BytesAssumption DEF Outcomes, Outcome, Unset, Failed, Aborted

-----------------------------------------------------------------------------
(* Issuing an operation.                                                     *)

(* The object an operation is issued on is referenced by nobody.             *)
LEMMA BeginFresh ==
  ASSUME IInv, NEW c \in Clients, NEW k \in Kinds, NEW o \in OpsOf[k],
         Begin(c, k, o)
  PROVE  /\ o \in Ops /\ NoOp \notin Ops
         /\ o \notin {runningOperation, nextOperation, freeing, ioOp}
         /\ \A d \in Clients : held[d] # o
         /\ \A j \in Kinds \ {k} : cached[j] # o
         /\ continuation[o] = Null /\ result[o] = Unset
         /\ lock = "free" /\ freeing = NoOp /\ wake = {}
         /\ pc[c] = "idle" /\ held[c] = NoOp /\ c \notin wake \union pool
         /\ HandleBeforeRun(o, k) \in {"null", "clear", "pinned"}
         /\ o \notin WriteOps => HandleBeforeRun(o, k) # "null"
<1>1. o \in Ops /\ NoOp \notin Ops
  BY OpsOfOps
<1>2. \A d \in Clients : held[d] # o
  BY <1>1 DEF IInv, HolderInv, Begin, GetOperation, FreshOps
<1>3. lock = "free" /\ freeing = NoOp /\ wake = {} /\ ioOp = runningOperation
  BY DEF IInv, LockInv, Begin
<1>4. o \notin {runningOperation, nextOperation}
  BY <1>1, <1>2, <1>3 DEF IInv, HolderInv, Pending
<1>5. continuation[o] = Null /\ result[o] = Unset
  BY <1>1, <1>2 DEF IInv, HolderInv
<1>6. pc[c] = "idle" /\ held[c] = NoOp /\ c \notin wake \union pool
  BY DEF IInv, HolderInv, CallerInv, Begin
<1>7. handle[o] \in {"null", "clear", "pinned"}
      /\ (o \notin WriteOps => handle[o] # "null" /\ k # "write")
  BY <1>1 DEF IInv, TypeOK, HandleInv, Ops, OpsOf
<1>8. \A j \in Kinds \ {k} : cached[j] # o
  BY <1>1, KindOfOp DEF IInv, TypeOK
<1>9. QED BY <1>1, <1>2, <1>3, <1>4, <1>5, <1>6, <1>7, <1>8 DEF HandleBeforeRun

LEMMA RunThrowsInv ==
  ASSUME IInv, NEW c \in Clients, NEW k \in Kinds, NEW o \in OpsOf[k],
         RunThrows(c, k, o)
  PROVE  IInv'
<1>0. Begin(c, k, o)
  BY DEF RunThrows
<1>1. o \in Ops /\ Failed \in Outcome
  BY <1>0, BeginFresh, OutcomesTyped
<1>2. TypeOK'
  BY <1>1 DEF IInv, TypeOK, RunThrows, engineVars, ioVars
<1>3. LockInv'
  BY DEF IInv, LockInv, RunThrows, engineVars, ioVars
<1>4. HolderInv'
  BY DEF IInv, TypeOK, HolderInv, Pending, RunThrows, engineVars, ioVars
<1>5. \A d \in Clients : CallerInv(d)'
  BY DEF IInv, CallerInv, Pending, RunThrows, engineVars, ioVars
<1>6. HandleInv'
  BY DEF IInv, HandleInv, WritesDrained, RunThrows, engineVars, ioVars
<1>7. QED BY <1>2, <1>3, <1>4, <1>5, <1>6 DEF IInv

(* What Hold establishes: the caller, and nobody else, holds the operation.  *)
LEMMA HoldFacts ==
  ASSUME IInv, NEW c \in Clients, NEW k \in Kinds, NEW o \in OpsOf[k],
         Begin(c, k, o), Hold(c, k, o)
  PROVE  /\ \A d \in Clients \ {c} : held'[d] = held[d] /\ pc'[d] = pc[d]
         /\ held'[c] = o /\ pc'[c] = "issued"
         /\ \A d \in Clients : held'[d] = NoOp <=> pc'[d] = "idle"
         /\ \A d, e \in Clients : held'[d] = held'[e] /\ held'[d] # NoOp => d = e
         /\ \A j \in Kinds, d \in Clients : cached'[j] # NoOp => held'[d] # cached'[j]
         /\ pc' \in [Clients -> {"idle", "issued", "registering", "waiting"}]
         /\ held' \in [Clients -> Ops \union {NoOp}] /\ got' \in [Clients -> Outcome]
         /\ cached' \in [Kinds -> Ops \union {NoOp}]
         /\ \A j \in Kinds : cached'[j] \in OpsOf[j] \union {NoOp}
<1>1. /\ o \in Ops /\ NoOp \notin Ops /\ held[c] = NoOp /\ pc[c] = "idle"
      /\ \A d \in Clients : held[d] # o
      /\ \A j \in Kinds \ {k} : cached[j] # o
  BY BeginFresh
<1>2. Unset \in Outcome
  BY <1>1, OutcomesTyped
<1>3. /\ held' = [held EXCEPT ![c] = o] /\ pc' = [pc EXCEPT ![c] = "issued"]
      /\ cached' = [cached EXCEPT ![k] = NoOp] /\ got' = [got EXCEPT ![c] = Unset]
      /\ held \in [Clients -> Ops \union {NoOp}] /\ got \in [Clients -> Outcome]
      /\ pc \in [Clients -> {"idle", "issued", "registering", "waiting"}]
      /\ cached \in [Kinds -> Ops \union {NoOp}]
      /\ \A j \in Kinds : cached[j] \in OpsOf[j] \union {NoOp}
  BY DEF IInv, TypeOK, Hold
<1>4. \A d \in Clients \ {c} : held'[d] = held[d] /\ pc'[d] = pc[d]
  BY <1>3
<1>5. held'[c] = o /\ pc'[c] = "issued"
  BY <1>3
<1>6. \A d \in Clients : held'[d] = NoOp <=> pc'[d] = "idle"
  BY <1>1, <1>4, <1>5 DEF IInv, HolderInv
<1>7. \A d, e \in Clients : held'[d] = held'[e] /\ held'[d] # NoOp => d = e
  BY <1>1, <1>4, <1>5 DEF IInv, HolderInv
<1>8. \A j \in Kinds, d \in Clients : cached'[j] # NoOp => held'[d] # cached'[j]
  BY <1>1, <1>3, <1>4, <1>5 DEF IInv, HolderInv
<1>9. QED BY <1>1, <1>2, <1>3, <1>4, <1>5, <1>6, <1>7, <1>8

LEMMA RunQueuesInv ==
  ASSUME IInv, NEW c \in Clients, NEW k \in Kinds, NEW o \in OpsOf[k],
         RunQueues(c, k, o)
  PROVE  IInv'
<1>0. Begin(c, k, o)
  BY DEF RunQueues
<1>1. /\ o \in Ops /\ NoOp \notin Ops
      /\ o \notin {runningOperation, nextOperation, freeing, ioOp}
      /\ \A d \in Clients : held[d] # o
      /\ \A j \in Kinds \ {k} : cached[j] # o
      /\ continuation[o] = Null /\ result[o] = Unset
      /\ lock = "free" /\ freeing = NoOp /\ wake = {}
      /\ pc[c] = "idle" /\ held[c] = NoOp /\ c \notin wake \union pool
      /\ HandleBeforeRun(o, k) \in {"null", "clear", "pinned"}
      /\ o \notin WriteOps => HandleBeforeRun(o, k) # "null"
  BY <1>0, BeginFresh
<1>2. /\ \A d \in Clients \ {c} : held'[d] = held[d] /\ pc'[d] = pc[d]
      /\ held'[c] = o /\ pc'[c] = "issued"
      /\ \A d \in Clients : held'[d] = NoOp <=> pc'[d] = "idle"
      /\ \A d, e \in Clients : held'[d] = held'[e] /\ held'[d] # NoOp => d = e
      /\ \A j \in Kinds, d \in Clients : cached'[j] # NoOp => held'[d] # cached'[j]
      /\ pc' \in [Clients -> {"idle", "issued", "registering", "waiting"}]
      /\ held' \in [Clients -> Ops \union {NoOp}] /\ got' \in [Clients -> Outcome]
      /\ cached' \in [Kinds -> Ops \union {NoOp}]
      /\ \A j \in Kinds : cached'[j] \in OpsOf[j] \union {NoOp}
  BY <1>0, HoldFacts DEF RunQueues
<1>3. TypeOK'
  BY <1>1, <1>2 DEF IInv, TypeOK, RunQueues, CancelRead, TryCancelIO
<1>4. LockInv'
  BY <1>1 DEF IInv, TypeOK, LockInv, RunQueues, Busy, CancelRead, TryCancelIO
<1>5. HolderInv'
  <2>1. \A p \in Ops : Pending(p)' => \E d \in Clients : held'[d] = p
    BY <1>1, <1>2 DEF IInv, HolderInv, Pending, RunQueues
  <2>2. \A p \in Ops : (\A d \in Clients : held'[d] # p) =>
          continuation'[p] = Null /\ result'[p] = Unset
    BY <1>1, <1>2 DEF IInv, HolderInv, RunQueues
  <2>3. QED BY <1>2, <2>1, <2>2 DEF HolderInv
<1>6. \A d \in Clients : CallerInv(d)'
  BY <1>1, <1>2 DEF IInv, TypeOK, HolderInv, CallerInv, Pending, RunQueues
<1>7. HandleInv'
  <2>1. handle' = [handle EXCEPT ![o] = HandleBeforeRun(o, k)] /\ DOMAIN handle = Ops
    BY DEF IInv, TypeOK, RunQueues
  <2>2. \A p \in Ops \ {o} : handle'[p] = handle[p]
    BY <1>1, <2>1
  <2>3. handle'[o] = HandleBeforeRun(o, k)
    BY <1>1, <2>1
  <2>4. ReadOps \union WriteOps \union FlushOps = Ops /\ ioOp' = ioOp /\ freeing' = NoOp
        /\ ~stopped' /\ ~fault'
    BY <1>1 DEF IInv, HandleInv, RunQueues, Ops
  <2>5. \A p \in ReadOps \union FlushOps : handle'[p] # "null"
    BY <1>1, <2>2, <2>3, <2>4, OpsAssumption DEF IInv, HandleInv
  <2>6. QED BY <1>1, <2>2, <2>4, <2>5 DEF IInv, HandleInv
<1>8. QED BY <1>3, <1>4, <1>5, <1>6, <1>7 DEF IInv

LEMMA RunCompletesInv ==
  ASSUME IInv, NEW c \in Clients, NEW k \in Kinds, NEW o \in OpsOf[k],
         RunCompletes(c, k, o)
  PROVE  IInv'
<1>0. Begin(c, k, o)
  BY DEF RunCompletes
<1>1. /\ o \in Ops /\ NoOp \notin Ops
      /\ o \notin {runningOperation, nextOperation, freeing, ioOp}
      /\ \A d \in Clients : held[d] # o
      /\ \A j \in Kinds \ {k} : cached[j] # o
      /\ continuation[o] = Null /\ result[o] = Unset
      /\ lock = "free" /\ freeing = NoOp /\ wake = {}
      /\ pc[c] = "idle" /\ held[c] = NoOp /\ c \notin wake \union pool
      /\ HandleBeforeRun(o, k) \in {"null", "clear", "pinned"}
      /\ o \notin WriteOps => HandleBeforeRun(o, k) # "null"
  BY <1>0, BeginFresh
<1>2. /\ \A d \in Clients \ {c} : held'[d] = held[d] /\ pc'[d] = pc[d]
      /\ held'[c] = o /\ pc'[c] = "issued"
      /\ \A d \in Clients : held'[d] = NoOp <=> pc'[d] = "idle"
      /\ \A d, e \in Clients : held'[d] = held'[e] /\ held'[d] # NoOp => d = e
      /\ \A j \in Kinds, d \in Clients : cached'[j] # NoOp => held'[d] # cached'[j]
      /\ pc' \in [Clients -> {"idle", "issued", "registering", "waiting"}]
      /\ held' \in [Clients -> Ops \union {NoOp}] /\ got' \in [Clients -> Outcome]
      /\ cached' \in [Kinds -> Ops \union {NoOp}]
      /\ \A j \in Kinds : cached'[j] \in OpsOf[j] \union {NoOp}
  BY <1>0, HoldFacts DEF RunCompletes
<1>a. PICK oc \in Outcomes(o) : result' = [result EXCEPT ![o] = oc]
  BY DEF RunCompletes
<1>b. oc \in Outcome
  BY <1>1, <1>a, OutcomesTyped
<1>c. /\ continuation' = [continuation EXCEPT ![o] = Called]
      /\ handle' = [handle EXCEPT ![o] = "clear"]
      /\ continuation \in [Ops -> Clients \union {Null, Called}]
      /\ result \in [Ops -> Outcome]
      /\ handle \in [Ops -> {"null", "clear", "pinned"}]
  BY <1>1 DEF IInv, TypeOK, RunCompletes, CompletedContinuation
<1>d. \A p \in Ops \ {o} : /\ continuation'[p] = continuation[p]
                           /\ result'[p] = result[p]
                           /\ handle'[p] = handle[p]
  BY <1>1, <1>a, <1>c
<1>e. continuation'[o] = Called /\ handle'[o] = "clear"
  BY <1>1, <1>c
<1>3. TypeOK'
  BY <1>1, <1>2, <1>a, <1>b, <1>c DEF IInv, TypeOK, RunCompletes, engineVars, ioVars
<1>4. LockInv'
  BY DEF IInv, LockInv, RunCompletes, engineVars, ioVars
<1>5. HolderInv'
  <2>1. \A p \in Ops : Pending(p)' => \E d \in Clients : held'[d] = p
    BY <1>1, <1>2 DEF IInv, HolderInv, Pending, RunCompletes, engineVars
  <2>2. \A p \in Ops : (\A d \in Clients : held'[d] # p) =>
          continuation'[p] = Null /\ result'[p] = Unset
    BY <1>1, <1>2, <1>d DEF IInv, HolderInv
  <2>3. QED BY <1>2, <2>1, <2>2 DEF HolderInv
<1>6. \A d \in Clients : CallerInv(d)'
  BY <1>1, <1>2, <1>d, <1>e, ContinuationAssumption
  DEF IInv, TypeOK, HolderInv, CallerInv, Pending, RunCompletes, engineVars
<1>7. HandleInv'
  <2>1. /\ ReadOps \union WriteOps \union FlushOps = Ops /\ ioOp' = ioOp
        /\ freeing' = NoOp /\ ~stopped' /\ ~fault'
    BY <1>1 DEF IInv, HandleInv, RunCompletes, engineVars, ioVars, Ops
  <2>2. QED BY <1>1, <1>d, <1>e, <2>1 DEF IInv, HandleInv
<1>8. QED BY <1>3, <1>4, <1>5, <1>6, <1>7 DEF IInv

LEMMA RunPendsInv ==
  ASSUME IInv, NEW c \in Clients, NEW k \in Kinds, NEW o \in OpsOf[k],
         RunPends(c, k, o)
  PROVE  IInv'
<1>0. Begin(c, k, o)
  BY DEF RunPends
<1>1. /\ o \in Ops /\ NoOp \notin Ops
      /\ o \notin {runningOperation, nextOperation, freeing, ioOp}
      /\ \A d \in Clients : held[d] # o
      /\ \A j \in Kinds \ {k} : cached[j] # o
      /\ continuation[o] = Null /\ result[o] = Unset
      /\ lock = "free" /\ freeing = NoOp /\ wake = {}
      /\ pc[c] = "idle" /\ held[c] = NoOp /\ c \notin wake \union pool
      /\ HandleBeforeRun(o, k) \in {"null", "clear", "pinned"}
      /\ o \notin WriteOps => HandleBeforeRun(o, k) # "null"
  BY <1>0, BeginFresh
<1>2. /\ \A d \in Clients \ {c} : held'[d] = held[d] /\ pc'[d] = pc[d]
      /\ held'[c] = o /\ pc'[c] = "issued"
      /\ \A d \in Clients : held'[d] = NoOp <=> pc'[d] = "idle"
      /\ \A d, e \in Clients : held'[d] = held'[e] /\ held'[d] # NoOp => d = e
      /\ \A j \in Kinds, d \in Clients : cached'[j] # NoOp => held'[d] # cached'[j]
      /\ pc' \in [Clients -> {"idle", "issued", "registering", "waiting"}]
      /\ held' \in [Clients -> Ops \union {NoOp}] /\ got' \in [Clients -> Outcome]
      /\ cached' \in [Kinds -> Ops \union {NoOp}]
      /\ \A j \in Kinds : cached'[j] \in OpsOf[j] \union {NoOp}
  BY <1>0, HoldFacts DEF RunPends
<1>c. /\ handle' = [handle EXCEPT ![o] = InvokedHandle(o)]
      /\ handle \in [Ops -> {"null", "clear", "pinned"}]
      /\ InvokedHandle(o) \in {"clear", "pinned"}
      /\ runningOperation = NoOp /\ nextOperation = NoOp
  BY <1>1 DEF IInv, TypeOK, LockInv, RunPends, Busy, InvokedHandle
<1>d. \A p \in Ops \ {o} : handle'[p] = handle[p]
  BY <1>1, <1>c
<1>e. handle'[o] = InvokedHandle(o)
  BY <1>1, <1>c
<1>3. TypeOK'
  BY <1>1, <1>2, <1>c DEF IInv, TypeOK, RunPends
<1>4. LockInv'
  BY <1>1, <1>c DEF IInv, LockInv, RunPends
<1>5. HolderInv'
  <2>1. \A p \in Ops : Pending(p)' => \E d \in Clients : held'[d] = p
    BY <1>1, <1>2, <1>c DEF Pending, RunPends
  <2>2. \A p \in Ops : (\A d \in Clients : held'[d] # p) =>
          continuation'[p] = Null /\ result'[p] = Unset
    BY <1>1, <1>2 DEF IInv, HolderInv, RunPends
  <2>3. QED BY <1>2, <2>1, <2>2 DEF HolderInv
<1>6. \A d \in Clients : CallerInv(d)'
  BY <1>1, <1>2, <1>c DEF IInv, TypeOK, HolderInv, CallerInv, Pending, RunPends
<1>7. HandleInv'
  <2>1. /\ ioOp' = o /\ freeing' = NoOp /\ ~stopped' /\ ~fault'
        /\ \A p \in ReadOps \union FlushOps : p \in Ops
    BY <1>1 DEF IInv, HandleInv, RunPends, Ops
  <2>2. o \in ReadOps \union WriteOps => handle'[o] = "pinned"
    BY <1>e, OpsAssumption DEF InvokedHandle
  <2>3. \A p \in ReadOps \union FlushOps : handle'[p] # "null"
    BY <1>c, <1>d, <1>e, <2>1 DEF IInv, HandleInv
  <2>4. QED BY <1>1, <2>1, <2>2, <2>3 DEF HandleInv
<1>8. QED BY <1>3, <1>4, <1>5, <1>6, <1>7 DEF IInv

-----------------------------------------------------------------------------
(* Awaiting an operation.                                                    *)

(* Taking the result of an operation that IIS and the queue are done with.   *)
LEMMA GetResultInv ==
  ASSUME IInv, NEW c \in Clients, held[c] # NoOp, ~Pending(held[c]), GetResult(c),
         c \notin wake, wake' = wake, pool' = pool \ {c},
         UNCHANGED <<engineVars, fault, ioVars>>
  PROVE  IInv'
<1> DEFINE o == held[c]
<1>1. o \in Ops /\ NoOp \notin Ops /\ Unset \in Outcome
  BY OpsOfOps, OutcomesTyped DEF IInv, TypeOK
<1>2. KindOf(o) \in Kinds /\ o \in OpsOf[KindOf(o)]
  BY <1>1, KindOfOp
<1>3. \A p : Pending(p)' <=> Pending(p)
  BY DEF Pending, engineVars
<1>4. /\ held' = [held EXCEPT ![c] = NoOp] /\ pc' = [pc EXCEPT ![c] = "idle"]
      /\ cached' = [cached EXCEPT ![KindOf(o)] = o]
      /\ continuation' = [continuation EXCEPT ![o] = Null]
      /\ result' = [result EXCEPT ![o] = Unset]
      /\ handle' = [handle EXCEPT ![o] = IF @ = "null" THEN @ ELSE "clear"]
      /\ held \in [Clients -> Ops \union {NoOp}] /\ DOMAIN pc = Clients
      /\ DOMAIN cached = Kinds /\ DOMAIN handle = Ops
      /\ DOMAIN continuation = Ops /\ DOMAIN result = Ops
  BY DEF IInv, TypeOK, GetResult
<1>5. /\ \A d \in Clients \ {c} : held'[d] = held[d] /\ pc'[d] = pc[d]
      /\ held'[c] = NoOp /\ pc'[c] = "idle"
      /\ \A p \in Ops \ {o} : /\ continuation'[p] = continuation[p]
                              /\ result'[p] = result[p] /\ handle'[p] = handle[p]
      /\ continuation'[o] = Null /\ result'[o] = Unset
      /\ handle'[o] = IF handle[o] = "null" THEN "null" ELSE "clear"
  BY <1>1, <1>4
<1>6. \A d \in Clients \ {c} : held[d] # o
  BY DEF IInv, HolderInv
<1>7. TypeOK'
  BY <1>1, <1>2 DEF IInv, TypeOK, GetResult, engineVars, ioVars
<1>8. LockInv'
  BY DEF IInv, LockInv, engineVars, ioVars
<1>9. HolderInv'
  <2>1. \A d \in Clients : held'[d] = NoOp <=> pc'[d] = "idle"
    BY <1>5 DEF IInv, HolderInv
  <2>2. \A d, e \in Clients : held'[d] = held'[e] /\ held'[d] # NoOp => d = e
    BY <1>5 DEF IInv, HolderInv
  <2>3. \A p \in Ops : Pending(p)' => \E d \in Clients : held'[d] = p
    BY <1>3, <1>5 DEF IInv, HolderInv
  <2>4. \A k \in Kinds, d \in Clients : cached'[k] # NoOp => held'[d] # cached'[k]
    BY <1>1, <1>2, <1>4, <1>5, <1>6 DEF IInv, HolderInv
  <2>5. \A p \in Ops : (\A d \in Clients : held'[d] # p) =>
          continuation'[p] = Null /\ result'[p] = Unset
    BY <1>5 DEF IInv, HolderInv
  <2>6. QED BY <2>1, <2>2, <2>3, <2>4, <2>5 DEF HolderInv
<1>10. \A d \in Clients : CallerInv(d)'
  <2>1. \A d \in Clients \ {c} : held[d] \in Ops \union {NoOp}
    BY <1>4
  <2>2. \A d \in Clients \ {c} : pc[d] # "idle" => held[d] \in Ops \ {o}
    BY <1>6, <2>1 DEF IInv, HolderInv
  <2>3. QED BY <1>3, <1>5, <2>2 DEF IInv, CallerInv
<1>11. HandleInv'
  <2>1. ioOp # o
    BY <1>1 DEF IInv, LockInv, Pending
  <2>2. /\ ioOp' = ioOp /\ freeing' = freeing /\ stopped' = stopped /\ fault' = fault
        /\ ReadOps \union WriteOps \union FlushOps = Ops /\ freeing \in Ops \union {NoOp}
    BY DEF IInv, TypeOK, engineVars, ioVars, Ops
  <2>3. WritesDrained => WritesDrained'
    BY <1>1, <1>5, <2>2 DEF WritesDrained
  <2>4. QED BY <1>5, <2>1, <2>2, <2>3 DEF IInv, HandleInv
<1>12. QED BY <1>7, <1>8, <1>9, <1>10, <1>11 DEF IInv

LEMMA AwaitInv ==
  ASSUME IInv, NEW c \in Clients, Await(c)
  PROVE  IInv'
<1>0. pc[c] \in {"idle", "issued", "registering", "waiting"} /\ held[c] \in Ops \union {NoOp}
  BY DEF IInv, TypeOK
<1>1. CASE AwaitCompleted(c)
  <2>1. held[c] # NoOp /\ ~Pending(held[c]) /\ c \notin wake \union pool
    BY <1>1 DEF IInv, HolderInv, CallerInv, AwaitCompleted
  <2>2. QED BY <1>1, <2>1, GetResultInv DEF AwaitCompleted
<1>2. CASE RunContinuation(c)
  <2>1. pc[c] = "waiting" /\ c \in pool
    BY <1>0, <1>2 DEF IInv, CallerInv, RunContinuation
  <2>2. held[c] # NoOp /\ ~Pending(held[c]) /\ c \notin wake
    BY <2>1 DEF IInv, HolderInv, CallerInv
  <2>3. QED BY <1>2, <2>2, GetResultInv DEF RunContinuation
<1>3. CASE AwaitPending(c)
  <2>1. TypeOK'
    BY <1>3 DEF IInv, TypeOK, AwaitPending, engineVars, opVars, ioVars
  <2>2. LockInv'
    BY <1>3 DEF IInv, LockInv, AwaitPending, engineVars, ioVars
  <2>3. HolderInv'
    BY <1>3 DEF IInv, TypeOK, HolderInv, Pending, AwaitPending, engineVars, opVars
  <2>4. \A d \in Clients : CallerInv(d)'
    BY <1>3 DEF IInv, TypeOK, CallerInv, Pending, AwaitPending, engineVars, opVars
  <2>5. HandleInv'
    BY <1>3 DEF IInv, HandleInv, WritesDrained, AwaitPending, engineVars, opVars, ioVars
  <2>6. QED BY <2>1, <2>2, <2>3, <2>4, <2>5 DEF IInv
<1>4. CASE OnCompleted(c)
  <2>1. held[c] \in Ops
    BY <1>0, <1>4 DEF IInv, HolderInv, OnCompleted
  <2>2. \A d \in Clients \ {c} : held[d] # held[c]
    BY <2>1, OpsOfOps DEF IInv, HolderInv
  <2>3. TypeOK'
    BY <1>4, <2>1 DEF IInv, TypeOK, OnCompleted, engineVars, ioVars
  <2>4. LockInv'
    BY <1>4 DEF IInv, LockInv, OnCompleted, engineVars, ioVars
  <2>5. HolderInv'
    BY <1>4, <2>1 DEF IInv, TypeOK, HolderInv, Pending, OnCompleted, engineVars
  <2>6. \A d \in Clients : CallerInv(d)'
    <3>1. CallerInv(c)'
      BY <1>4, <2>1, ContinuationAssumption
      DEF IInv, TypeOK, CallerInv, Pending, OnCompleted, Registers, engineVars
    <3>2. \A d \in Clients \ {c} : CallerInv(d)'
      BY <1>4, <2>1, <2>2
      DEF IInv, TypeOK, HolderInv, CallerInv, Pending, OnCompleted, engineVars
    <3>3. QED BY <3>1, <3>2
  <2>7. HandleInv'
    BY <1>4 DEF IInv, HandleInv, WritesDrained, OnCompleted, engineVars, ioVars
  <2>8. QED BY <2>3, <2>4, <2>5, <2>6, <2>7 DEF IInv
<1>5. QED BY <1>1, <1>2, <1>3, <1>4 DEF Await

-----------------------------------------------------------------------------
(* Completions, Dispose and IIS.                                             *)

(* Freeing resources keeps the kinds of handles apart.                       *)
LEMMA FreedHandleTyped ==
  ASSUME IInv, NEW o \in Ops
  PROVE  /\ FreedHandle(o) \in {"null", "clear", "pinned"}
         /\ FreedHandle(o) = "null" <=> handle[o] = "null"
  BY DEF IInv, TypeOK, FreedHandle

LEMMA NotifyRunningInv ==
  ASSUME IInv, NotifyRunning
  PROVE  IInv'
<1> DEFINE o == runningOperation
<1>1. /\ o \in Ops /\ NoOp \notin Ops /\ lock = "free" /\ lock' = "running"
      /\ wake = {} /\ freeing = NoOp /\ nextOperation # o /\ Pending(o)
      /\ Unset \in Outcome
  BY OpsOfOps, OutcomesTyped DEF IInv, TypeOK, LockInv, Pending, NotifyRunning
<1>2. PICK h \in Clients : held[h] = o
  BY <1>1 DEF IInv, HolderInv
<1>3. \A d \in Clients \ {h} : held[d] # o
  BY <1>1, <1>2 DEF IInv, HolderInv
<1>4. /\ result' = [result EXCEPT ![o] = ioDone]
      /\ continuation' = [continuation EXCEPT ![o] = CompletedContinuation(o)]
      /\ DOMAIN result = Ops /\ DOMAIN continuation = Ops
      /\ continuation[o] \in {Null, h}
  BY <1>1, <1>2 DEF IInv, TypeOK, HolderInv, CallerInv, NotifyRunning
<1>5. /\ \A p \in Ops \ {o} : continuation'[p] = continuation[p] /\ result'[p] = result[p]
      /\ continuation'[o] = IF continuation[o] = Null THEN Called ELSE h
      /\ wake' = IF continuation[o] = Null THEN {} ELSE {h}
  BY <1>1, <1>4, ContinuationAssumption
  DEF NotifyRunning, CompletedContinuation, TakenContinuation
<1>6. \A p \in Ops : Pending(p)' <=> Pending(p) /\ p # o
  BY <1>1 DEF Pending, NotifyRunning
<1>7. TypeOK'
  BY <1>1, <1>5 DEF IInv, TypeOK, NotifyRunning, CompletedContinuation, clientVars
<1>8. LockInv'
  BY <1>1 DEF IInv, LockInv, NotifyRunning
<1>9. HolderInv'
  BY <1>2, <1>5, <1>6 DEF IInv, HolderInv, NotifyRunning, clientVars
<1>10. \A d \in Clients : CallerInv(d)'
  <2>1. CallerInv(h)'
    BY <1>1, <1>2, <1>5, <1>6, ContinuationAssumption
    DEF IInv, TypeOK, HolderInv, CallerInv, NotifyRunning, clientVars
  <2>2. \A d \in Clients \ {h} : pc[d] # "idle" => held[d] \in Ops \ {o}
    BY <1>3 DEF IInv, TypeOK, HolderInv
  <2>3. \A d \in Clients \ {h} : CallerInv(d)'
    BY <1>1, <1>5, <1>6, <2>2 DEF IInv, CallerInv, NotifyRunning, clientVars
  <2>4. QED BY <2>1, <2>3
<1>11. HandleInv'
  BY <1>1 DEF IInv, HandleInv, WritesDrained, NotifyRunning, clientVars, Ops
<1>12. QED BY <1>7, <1>8, <1>9, <1>10, <1>11 DEF IInv

(* Leaving the lock hands the callers in wake to the pool.                   *)
LEMMA ReleaseInv ==
  ASSUME IInv, lock # "free", Release, UNCHANGED <<continuation, clientVars>>,
         \A o \in Ops : Pending(o)' <=> Pending(o)
  PROVE  \A d \in Clients : CallerInv(d)'
<1>1. \A d \in Clients : pc[d] # "idle" => held[d] \in Ops
  BY DEF IInv, TypeOK, HolderInv
<1>2. QED BY <1>1 DEF IInv, CallerInv, Release, clientVars

LEMMA NotifyNoNextInv ==
  ASSUME IInv, NotifyNoNext
  PROVE  IInv'
<1>1. /\ runningOperation \in Ops /\ NoOp \notin Ops /\ ioOp = NoOp /\ freeing = NoOp
  BY OpsOfOps DEF IInv, TypeOK, LockInv, NotifyNoNext
<1>2. \A o \in Ops : Pending(o)' <=> Pending(o)
  BY <1>1 DEF Pending, NotifyNoNext, Release
<1>3. TypeOK'
  BY <1>1, FreedHandleTyped DEF IInv, TypeOK, NotifyNoNext, Release, ioVars, clientVars
<1>4. LockInv'
  BY <1>1 DEF IInv, LockInv, NotifyNoNext, Release, ioVars
<1>5. HolderInv'
  BY <1>2 DEF IInv, HolderInv, NotifyNoNext, clientVars
<1>6. \A d \in Clients : CallerInv(d)'
  BY <1>2, ReleaseInv DEF NotifyNoNext
<1>7. HandleInv'
  BY <1>1, FreedHandleTyped
  DEF IInv, TypeOK, HandleInv, WritesDrained, NotifyNoNext, ioVars, clientVars, Ops
<1>8. QED BY <1>3, <1>4, <1>5, <1>6, <1>7 DEF IInv

LEMMA NotifyNextPendsInv ==
  ASSUME IInv, NotifyNextPends
  PROVE  IInv'
<1> DEFINE o == nextOperation
<1>1. /\ runningOperation \in Ops /\ o \in Ops /\ o # runningOperation
      /\ NoOp \notin Ops /\ ioOp = NoOp /\ ioDone = Unset /\ freeing = NoOp
      /\ InvokedHandle(o) \in {"clear", "pinned"}
  BY OpsOfOps DEF IInv, TypeOK, LockInv, NotifyNextPends, InvokedHandle
<1>2. \A p \in Ops : Pending(p)' <=> Pending(p)
  BY <1>1 DEF Pending, NotifyNextPends, TakeNext, Release
<1>3. TypeOK'
  BY <1>1, FreedHandleTyped
  DEF IInv, TypeOK, NotifyNextPends, TakeNext, Release, clientVars
<1>4. LockInv'
  BY <1>1 DEF IInv, LockInv, NotifyNextPends, TakeNext, Release
<1>5. HolderInv'
  BY <1>2 DEF IInv, HolderInv, NotifyNextPends, clientVars
<1>6. \A d \in Clients : CallerInv(d)'
  BY <1>2, ReleaseInv DEF NotifyNextPends
<1>7. HandleInv'
  <2>1. /\ handle'[o] = InvokedHandle(o)
        /\ handle'[runningOperation] = FreedHandle(runningOperation)
        /\ \A p \in Ops \ {o, runningOperation} : handle'[p] = handle[p]
        /\ ioOp' = o /\ freeing' = NoOp /\ ~stopped' /\ fault' = fault
    BY <1>1 DEF IInv, TypeOK, NotifyNextPends
  <2>2. o \in ReadOps \union WriteOps => handle'[o] = "pinned"
    BY <2>1, OpsAssumption DEF InvokedHandle
  <2>3. \A p \in ReadOps \union FlushOps : handle'[p] # "null"
    BY <1>1, <2>1, FreedHandleTyped DEF IInv, HandleInv, Ops
  <2>4. QED BY <1>1, <2>1, <2>2, <2>3 DEF IInv, HandleInv
<1>8. QED BY <1>3, <1>4, <1>5, <1>6, <1>7 DEF IInv

LEMMA NotifyNextCompletesInv ==
  ASSUME IInv, NotifyNextCompletes
  PROVE  IInv'
<1> DEFINE o == nextOperation
           r == runningOperation
<1>1. /\ r \in Ops /\ o \in Ops /\ o # r /\ NoOp \notin Ops
      /\ ioOp = NoOp /\ ioDone = Unset /\ Pending(o)
      /\ InvokedHandle(o) \in {"clear", "pinned"}
  BY OpsOfOps DEF IInv, TypeOK, LockInv, NotifyNextCompletes, InvokedHandle, Pending
<1>2. PICK h \in Clients : held[h] = o
  BY <1>1 DEF IInv, HolderInv
<1>3. \A d \in Clients \ {h} : held[d] # o
  BY <1>1, <1>2 DEF IInv, HolderInv
<1>4. PICK oc \in Outcome : result' = [result EXCEPT ![o] = oc]
  BY <1>1, OutcomesTyped DEF NotifyNextCompletes
<1>5. /\ continuation' = [continuation EXCEPT ![o] = CompletedContinuation(o)]
      /\ DOMAIN result = Ops /\ DOMAIN continuation = Ops
      /\ continuation[o] \in {Null, h}
  BY <1>1, <1>2 DEF IInv, TypeOK, HolderInv, CallerInv, NotifyNextCompletes
<1>6. /\ \A p \in Ops \ {o} : continuation'[p] = continuation[p] /\ result'[p] = result[p]
      /\ continuation'[o] = IF continuation[o] = Null THEN Called ELSE h
      /\ wake' = wake \union IF continuation[o] = Null THEN {} ELSE {h}
  BY <1>1, <1>4, <1>5, ContinuationAssumption
  DEF NotifyNextCompletes, CompletedContinuation, TakenContinuation
<1>7. \A p \in Ops : ~Pending(p)' /\ (Pending(p) => p = o)
  BY <1>1 DEF Pending, NotifyNextCompletes, TakeNext
<1>8. /\ DOMAIN handle = Ops
      /\ handle' = [handle EXCEPT ![r] = FreedHandle(r),
                                  ![o] = IF stopped THEN @ ELSE InvokedHandle(o)]
      /\ stopped => o \notin WriteOps
  BY <1>2 DEF IInv, TypeOK, HandleInv, WritesDrained, NotifyNextCompletes
<1>9. /\ \A p \in Ops \ {o, r} : handle'[p] = handle[p]
      /\ handle'[r] = FreedHandle(r)
      /\ handle'[o] = IF stopped THEN handle[o] ELSE InvokedHandle(o)
  BY <1>1, <1>8
<1>10. TypeOK'
  <2>1. handle' \in [Ops -> {"null", "clear", "pinned"}]
    BY <1>1, <1>8, FreedHandleTyped DEF IInv, TypeOK
  <2>2. continuation' \in [Ops -> Clients \union {Null, Called}]
    BY <1>5, <1>6 DEF IInv, TypeOK
  <2>3. result' \in [Ops -> Outcome]
    BY <1>4 DEF IInv, TypeOK
  <2>4. wake' \subseteq Clients
    BY <1>6 DEF IInv, TypeOK
  <2>5. QED BY <1>1, <2>1, <2>2, <2>3, <2>4
            DEF IInv, TypeOK, NotifyNextCompletes, TakeNext, ioVars, clientVars
<1>11. LockInv'
  BY <1>1 DEF IInv, LockInv, NotifyNextCompletes, TakeNext, ioVars
<1>12. HolderInv'
  BY <1>2, <1>6, <1>7 DEF IInv, HolderInv, NotifyNextCompletes, clientVars
<1>13. \A d \in Clients : CallerInv(d)'
  <2>1. CallerInv(h)'
    BY <1>1, <1>2, <1>6, <1>7, ContinuationAssumption
    DEF IInv, TypeOK, HolderInv, CallerInv, NotifyNextCompletes, clientVars
  <2>2. \A d \in Clients \ {h} : pc[d] # "idle" => held[d] \in Ops \ {o}
    BY <1>3 DEF IInv, TypeOK, HolderInv
  <2>3. \A d \in Clients \ {h} : CallerInv(d)'
    BY <1>6, <1>7, <2>2 DEF IInv, CallerInv, NotifyNextCompletes, clientVars
  <2>4. QED BY <2>1, <2>3
<1>14. HandleInv'
  <2>1. /\ ioOp' = NoOp /\ freeing' = o /\ stopped' = stopped /\ fault' = fault
        /\ held' = held /\ ReadOps \union WriteOps \union FlushOps = Ops
    BY <1>1 DEF NotifyNextCompletes, ioVars, clientVars, Ops
  <2>2. handle'[o] # "null"
    BY <1>1, <1>8, <1>9, <2>1 DEF IInv, HandleInv
  <2>3. \A p \in ReadOps \union FlushOps : handle'[p] # "null"
    BY <1>1, <1>9, <2>1, <2>2, FreedHandleTyped DEF IInv, HandleInv
  <2>4. QED BY <1>1, <2>1, <2>2, <2>3 DEF IInv, HandleInv, WritesDrained, Ops
<1>15. QED BY <1>10, <1>11, <1>12, <1>13, <1>14 DEF IInv

LEMMA NotifyFreeNextInv ==
  ASSUME IInv, NotifyFreeNext
  PROVE  IInv'
<1>1. /\ freeing \in Ops /\ NoOp \notin Ops /\ handle[freeing] # "null"
      /\ ioOp = NoOp /\ runningOperation = NoOp /\ nextOperation = NoOp
  BY OpsOfOps DEF IInv, TypeOK, LockInv, HandleInv, NotifyFreeNext
<1>2. Release /\ fault' = fault /\ freeing' = NoOp
      /\ handle' = [handle EXCEPT ![freeing] = FreedHandle(freeing)]
  BY <1>1 DEF NotifyFreeNext
<1>3. \A o \in Ops : Pending(o)' <=> Pending(o)
  BY <1>1 DEF Pending, NotifyFreeNext
<1>4. TypeOK'
  BY <1>1, <1>2, FreedHandleTyped
  DEF IInv, TypeOK, NotifyFreeNext, Release, ioVars, clientVars
<1>5. LockInv'
  BY <1>1, <1>2 DEF IInv, LockInv, NotifyFreeNext, Release, ioVars
<1>6. HolderInv'
  BY <1>3 DEF IInv, HolderInv, NotifyFreeNext, clientVars
<1>7. \A d \in Clients : CallerInv(d)'
  BY <1>2, <1>3, ReleaseInv DEF NotifyFreeNext
<1>8. HandleInv'
  BY <1>1, <1>2, FreedHandleTyped
  DEF IInv, TypeOK, HandleInv, WritesDrained, NotifyFreeNext, ioVars, clientVars, Ops
<1>9. QED BY <1>4, <1>5, <1>6, <1>7, <1>8 DEF IInv

LEMMA DisposeInv ==
  ASSUME IInv, WritesDrained, Dispose
  PROVE  IInv'
<1>1. TypeOK'
  BY DEF IInv, TypeOK, Dispose, TryCancelIO, opVars, clientVars
<1>2. LockInv'
  BY DEF IInv, LockInv, Dispose, TryCancelIO
<1>3. HolderInv'
  BY DEF IInv, HolderInv, Pending, Dispose, opVars, clientVars
<1>4. \A d \in Clients : CallerInv(d)'
  BY DEF IInv, CallerInv, Pending, Dispose, opVars, clientVars
<1>5. HandleInv'
  BY DEF IInv, HandleInv, WritesDrained, Dispose, opVars, clientVars
<1>6. QED BY <1>1, <1>2, <1>3, <1>4, <1>5 DEF IInv

LEMMA PostCompletionInv ==
  ASSUME IInv, PostCompletion
  PROVE  IInv'
<1>1. ioOp \in Ops
  BY DEF IInv, TypeOK, PostCompletion
<1>2. TypeOK'
  BY <1>1, OutcomesTyped
  DEF IInv, TypeOK, PostCompletion, engineVars, opVars, clientVars
<1>3. LockInv'
  BY DEF IInv, LockInv, PostCompletion, engineVars
<1>4. HolderInv'
  BY DEF IInv, HolderInv, Pending, PostCompletion, engineVars, opVars, clientVars
<1>5. \A d \in Clients : CallerInv(d)'
  BY DEF IInv, CallerInv, Pending, PostCompletion, engineVars, opVars, clientVars
<1>6. HandleInv'
  BY DEF IInv, HandleInv, WritesDrained, PostCompletion, engineVars, opVars, clientVars
<1>7. QED BY <1>2, <1>3, <1>4, <1>5, <1>6 DEF IInv

LEMMA IInvStep == IInv /\ [Next]_vars => IInv'
<1> SUFFICES ASSUME IInv, [Next]_vars PROVE IInv'
  OBVIOUS
<1>1. ASSUME NEW c \in Clients, NEW k \in Kinds, Issue(c, k) PROVE IInv'
  BY <1>1, RunThrowsInv, RunQueuesInv, RunCompletesInv, RunPendsInv DEF Issue
<1>2. ASSUME NEW c \in Clients, Await(c) PROVE IInv'
  BY <1>2, AwaitInv
<1>3. CASE NotifyCompletion
  BY <1>3, NotifyRunningInv, NotifyNoNextInv, NotifyNextPendsInv,
     NotifyNextCompletesInv, NotifyFreeNextInv DEF NotifyCompletion
<1>4. CASE ~stopped /\ WritesDrained /\ Dispose
  BY <1>4, DisposeInv
<1>5. CASE PostCompletion
  BY <1>5, PostCompletionInv
<1>6. CASE UNCHANGED vars
  BY <1>6 DEF IInv, TypeOK, LockInv, HolderInv, CallerInv, Pending, HandleInv,
              WritesDrained, vars, engineVars, opVars, ioVars, clientVars
<1>7. QED BY <1>1, <1>2, <1>3, <1>4, <1>5, <1>6 DEF Next

-----------------------------------------------------------------------------
(* The theorems.                                                             *)

(* IInv holds initially and every step of the engine, of its callers and of  *)
(* IIS preserves it.                                                         *)
THEOREM Inductive == Spec => []IInv
<1>1. Init => IInv
  <2> SUFFICES ASSUME Init PROVE IInv
    OBVIOUS
  <2>1. Unset \in Outcome /\ NoOp \notin Ops
    BY OpsAssumption, BytesAssumption DEF Outcome, Unset
  <2>2. TypeOK
    BY <2>1 DEF Init, TypeOK
  <2>3. LockInv /\ HandleInv
    BY <2>1 DEF Init, LockInv, HandleInv, WritesDrained, Ops
  <2>4. HolderInv
    BY <2>1 DEF Init, HolderInv, Pending
  <2>5. \A c \in Clients : CallerInv(c)
    BY DEF Init, CallerInv
  <2>6. QED BY <2>2, <2>3, <2>4, <2>5 DEF IInv
<1>2. IInv /\ [Next]_vars => IInv'
  BY IInvStep
<1>3. QED BY <1>1, <1>2, PTL DEF Spec

(* Every variable of the engine keeps its type.                              *)
THEOREM Typing == Spec => []TypeOK
BY Inductive, PTL DEF IInv

(* IIS always works for the operation the engine thinks is running, so the   *)
(* Debug.Assert of NotifyCompletion (AsyncIOEngine.cs) holds.                *)
THEOREM OneCall == Spec => []OneCallAtATime
<1>1. IInv => OneCallAtATime
  BY DEF IInv, LockInv, OneCallAtATime
<1>2. QED BY <1>1, Inductive, PTL

(* The buffers of the call in progress are pinned, although awaiters reset   *)
(* operations without the lock.                                              *)
THEOREM Pinned == Spec => []PinnedDuringIO
<1>1. IInv => PinnedDuringIO
  BY DEF IInv, HandleInv, PinnedDuringIO
<1>2. QED BY <1>1, Inductive, PTL

(* A pooled operation is used by nobody and carries nothing over.            *)
THEOREM Isolation == Spec => []CacheIsolation
<1> SUFFICES ASSUME IInv PROVE CacheIsolation
  BY Inductive, PTL
<1>1. SUFFICES ASSUME NEW k \in Kinds, cached[k] # NoOp
               PROVE  /\ cached[k] \notin {nextOperation, ioOp} \union {held[c] : c \in Clients}
                      /\ cached[k] = runningOperation => lock = "running"
                      /\ continuation[cached[k]] = Null /\ result[cached[k]] = Unset
  BY DEF CacheIsolation
<1>2. cached[k] \in Ops /\ \A c \in Clients : held[c] # cached[k]
  BY <1>1 DEF IInv, TypeOK, HolderInv
<1>3. ~Pending(cached[k])
  BY <1>2 DEF IInv, HolderInv
<1>4. QED BY <1>1, <1>2, <1>3 DEF IInv, TypeOK, LockInv, HolderInv, Pending

(* A suspended caller is always still to be woken, and by one party only.    *)
THEOREM NoneLost == Spec => []NoLostWakeup
<1>1. IInv => NoLostWakeup
  <2> SUFFICES ASSUME IInv PROVE NoLostWakeup
    OBVIOUS
  <2>1. \A c \in Clients : pc[c] = "waiting" => Wakeable(c)
    BY DEF IInv, TypeOK, LockInv, CallerInv, Pending, Wakeable
  <2>2. \A c \in wake \union pool : pc[c] = "waiting"
    BY DEF IInv, TypeOK, CallerInv
  <2>3. QED BY <2>1, <2>2 DEF NoLostWakeup
<1>2. QED BY <1>1, Inductive, PTL

(* Because the writes have drained before Dispose, no completion ever frees  *)
(* the handles of a write that was never invoked.                            *)
THEOREM Faultless == Spec => []NoFault
<1>1. IInv => NoFault
  BY DEF IInv, HandleInv, NoFault
<1>2. QED BY <1>1, Inductive, PTL

(* The engine calls IIS only when no call is in progress.                    *)
THEOREM NoOverlap == Spec => NoOverlappingCalls
<1> DEFINE Single == ioOp # NoOp /\ ioOp' # NoOp => ioOp' = ioOp
<1>1. IInv /\ [Next]_vars => [Single]_vars
  <2> SUFFICES ASSUME IInv, [Next]_vars PROVE Single
    OBVIOUS
  <2>1. ASSUME NEW c \in Clients, NEW k \in Kinds, Issue(c, k) PROVE Single
    BY <2>1 DEF IInv, LockInv, Issue, RunThrows, RunQueues, RunCompletes, RunPends,
                Begin, Busy, ioVars
  <2>2. ASSUME NEW c \in Clients, Await(c) PROVE Single
    BY <2>2 DEF Await, AwaitCompleted, AwaitPending, OnCompleted, RunContinuation, ioVars
  <2>3. CASE NotifyCompletion
    BY <2>3 DEF IInv, LockInv, NotifyCompletion, NotifyRunning, NotifyNoNext,
                NotifyNextPends, NotifyNextCompletes, NotifyFreeNext, ioVars
  <2>4. CASE Dispose
    BY <2>4 DEF Dispose
  <2>5. CASE PostCompletion
    BY <2>5 DEF PostCompletion
  <2>6. CASE UNCHANGED vars
    BY <2>6 DEF vars, ioVars
  <2>7. QED BY <2>1, <2>2, <2>3, <2>4, <2>5, <2>6 DEF Next
<1>2. QED BY <1>1, Inductive, PTL DEF Spec, NoOverlappingCalls

(* Nothing the engine does between two calls to IIS can overlap them, use an *)
(* unpinned buffer, share an operation or fault, with any number of callers. *)
THEOREM Safe == Spec => []EngineSafe
<1>1. TypeOK /\ OneCallAtATime /\ PinnedDuringIO /\ CacheIsolation /\ NoFault => EngineSafe
  BY DEF EngineSafe
<1>2. QED BY <1>1, Typing, OneCall, Pinned, Isolation, Faultless, PTL

-----------------------------------------------------------------------------
(* The pins of a write: they exist while IIS works on it, and after that     *)
(* until NotifyCompletion, which is at that operation, has freed them.       *)
PinInv ==
  \A o \in WriteOps : handle[o] = "pinned" =>
    \/ o = ioOp
    \/ lock = "running" /\ o = runningOperation
    \/ lock = "next" /\ o = freeing

LEMMA IssueKeepsPins ==
  ASSUME IInv, PinInv, NEW c \in Clients, NEW k \in Kinds, Issue(c, k)
  PROVE  PinInv'
<1>1. PICK o \in OpsOf[k] : \/ RunThrows(c, k, o) \/ RunQueues(c, k, o)
                            \/ RunCompletes(c, k, o) \/ RunPends(c, k, o)
  BY DEF Issue
<1>2. /\ o \in Ops /\ lock = "free" /\ ioOp = runningOperation
      /\ handle \in [Ops -> {"null", "clear", "pinned"}] /\ WriteOps \subseteq Ops
  BY <1>1, OpsOfOps DEF RunThrows, RunQueues, RunCompletes, RunPends, Begin, IInv, LockInv,
                        TypeOK, Ops
<1>3. CASE RunThrows(c, k, o)
  BY <1>3 DEF RunThrows, engineVars, ioVars, PinInv
<1>4. CASE RunQueues(c, k, o)
  <2>1. /\ handle' = [handle EXCEPT ![o] = HandleBeforeRun(o, k)]
        /\ ioOp' = ioOp /\ lock' = "free"
    BY <1>2, <1>4 DEF RunQueues
  <2>2. handle'[o] = "pinned" => handle[o] = "pinned"
    BY <1>2, <2>1 DEF HandleBeforeRun
  <2>3. QED BY <1>2, <2>1, <2>2 DEF PinInv
<1>5. CASE RunCompletes(c, k, o)
  BY <1>2, <1>5 DEF RunCompletes, engineVars, ioVars, PinInv
<1>6. CASE RunPends(c, k, o)
  <2>1. ioOp = NoOp
    BY <1>2, <1>6 DEF RunPends, Busy
  <2>2. /\ handle' = [handle EXCEPT ![o] = InvokedHandle(o)]
        /\ ioOp' = o /\ lock' = "free"
    BY <1>2, <1>6 DEF RunPends
  <2>3. QED BY <1>2, <2>1, <2>2, OpsOfOps DEF PinInv
<1>7. QED BY <1>1, <1>3, <1>4, <1>5, <1>6

(* FreeOperationResources leaves nothing pinned but what is invoked next.    *)
LEMMA NotifyKeepsPins ==
  ASSUME IInv, PinInv, NotifyCompletion
  PROVE  PinInv'
<1>1. /\ handle \in [Ops -> {"null", "clear", "pinned"}] /\ WriteOps \subseteq Ops
      /\ NoOp \notin Ops
      /\ runningOperation \in Ops \union {NoOp} /\ nextOperation \in Ops \union {NoOp}
  BY OpsOfOps DEF IInv, TypeOK, Ops
<1>2. CASE NotifyRunning
  <2>1. ioOp = runningOperation /\ handle' = handle /\ lock' = "running"
        /\ runningOperation' = runningOperation /\ lock = "free"
    BY <1>2 DEF NotifyRunning, IInv, LockInv
  <2>2. QED BY <2>1 DEF PinInv
<1>3. CASE NotifyNoNext
  <2>1. lock = "running" /\ ioOp = NoOp /\ runningOperation \in Ops
        /\ handle' = [handle EXCEPT ![runningOperation] = FreedHandle(runningOperation)]
    BY <1>1, <1>3 DEF NotifyNoNext, IInv, LockInv
  <2>2. QED BY <1>1, <2>1 DEF PinInv, FreedHandle
<1>4. CASE NotifyNextPends
  <2>1. lock = "running" /\ ioOp = NoOp /\ runningOperation \in Ops /\ nextOperation \in Ops
        /\ nextOperation # runningOperation /\ ioOp' = nextOperation
        /\ handle' = [handle EXCEPT ![runningOperation] = FreedHandle(runningOperation),
                                    ![nextOperation] = InvokedHandle(nextOperation)]
    BY <1>1, <1>4 DEF NotifyNextPends, IInv, LockInv
  <2>2. QED BY <1>1, <2>1 DEF PinInv, FreedHandle
<1>5. CASE NotifyNextCompletes
  <2>1. lock = "running" /\ ioOp = NoOp /\ runningOperation \in Ops /\ nextOperation \in Ops
        /\ nextOperation # runningOperation /\ lock' = "next" /\ freeing' = nextOperation
        /\ handle' = [handle EXCEPT
              ![runningOperation] = FreedHandle(runningOperation),
              ![nextOperation] = IF stopped THEN @ ELSE InvokedHandle(nextOperation)]
    BY <1>1, <1>5 DEF NotifyNextCompletes, IInv, LockInv
  <2>2. QED BY <1>1, <2>1 DEF PinInv, FreedHandle
<1>6. CASE NotifyFreeNext
  <2>1. lock = "next" /\ ioOp = NoOp /\ freeing \in Ops
        /\ \/ handle[freeing] = "null" /\ handle' = handle
           \/ handle' = [handle EXCEPT ![freeing] = FreedHandle(freeing)]
    BY <1>1, <1>6 DEF NotifyFreeNext, IInv, LockInv, TypeOK
  <2>2. QED BY <1>1, <2>1 DEF PinInv, FreedHandle
<1>7. QED BY <1>2, <1>3, <1>4, <1>5, <1>6 DEF NotifyCompletion

(* An await only clears handles.                                             *)
LEMMA AwaitKeepsPins ==
  ASSUME IInv, PinInv, NEW c \in Clients, Await(c)
  PROVE  PinInv'
<1>1. handle \in [Ops -> {"null", "clear", "pinned"}] /\ WriteOps \subseteq Ops
  BY DEF IInv, TypeOK, Ops
<1>2. UNCHANGED <<engineVars, ioVars>>
  BY DEF Await, AwaitCompleted, AwaitPending, OnCompleted, RunContinuation
<1>3. \A p \in WriteOps : handle'[p] = "pinned" => handle[p] = "pinned"
  <2>1. CASE GetResult(c)
    BY <1>1, <2>1 DEF GetResult
  <2>2. CASE handle' = handle
    BY <2>2
  <2>3. QED BY <2>1, <2>2 DEF Await, AwaitCompleted, AwaitPending, OnCompleted, RunContinuation,
                             opVars
<1>4. QED BY <1>2, <1>3 DEF PinInv, engineVars, ioVars

LEMMA PinsKept == IInv /\ PinInv /\ [Next]_vars => PinInv'
<1> SUFFICES ASSUME IInv, PinInv, [Next]_vars PROVE PinInv'
  OBVIOUS
<1>1. CASE Dispose
  BY <1>1 DEF Dispose, opVars, PinInv
<1>2. CASE PostCompletion
  BY <1>2 DEF PostCompletion, engineVars, opVars, PinInv
<1>3. CASE UNCHANGED vars
  BY <1>3 DEF vars, engineVars, opVars, ioVars, PinInv
<1>4. QED BY <1>1, <1>2, <1>3, IssueKeepsPins, NotifyKeepsPins, AwaitKeepsPins DEF Next

(* Only a GetResult that overtakes FreeOperationResources loses pins.        *)
LEMMA LeakStep ==
  ASSUME IInv, PinInv, Next, leaked' # leaked
  PROVE  \E c \in Clients :
           /\ held'[c] # held[c]
           /\ \/ lock = "running" /\ held[c] = runningOperation
              \/ lock = "next" /\ held[c] = freeing
<1>1. PICK c \in Clients : AwaitCompleted(c) \/ RunContinuation(c)
  BY DEF Next, Issue, RunThrows, RunQueues, RunCompletes, RunPends, Await, AwaitPending,
         OnCompleted, NotifyCompletion, NotifyRunning, NotifyNoNext, NotifyNextPends,
         NotifyNextCompletes, NotifyFreeNext, Dispose, PostCompletion, opVars
<1>2. GetResult(c)
  BY <1>1 DEF AwaitCompleted, RunContinuation
<1>3. held[c] \in WriteOps /\ handle[held[c]] = "pinned" /\ NoOp \notin Ops /\ WriteOps \subseteq Ops
  BY <1>2, OpsOfOps DEF GetResult, IInv, TypeOK, Ops
<1>4. ~Pending(held[c])
  BY <1>1, <1>3, OpsOfOps DEF AwaitCompleted, RunContinuation, IInv, TypeOK, HolderInv, CallerInv
<1>5. held[c] # ioOp
  BY <1>3, <1>4 DEF IInv, LockInv, Pending
<1>6. held'[c] = NoOp
  BY <1>2 DEF GetResult, IInv, TypeOK
<1>7. QED BY <1>3, <1>5, <1>6 DEF PinInv

(* The pins of a write are lost in one case only: its awaiter takes the      *)
(* result between the CompareExchange of Complete and the call that frees    *)
(* them (AsyncIOOperation.cs).                                               *)
THEOREM PinsLeakOnlyOvertaken == Spec => OnlyOvertakenPinsLeak
<1>1. Init => PinInv
  BY DEF Init, PinInv, Ops
<1>2. IInv /\ PinInv /\ [Next]_vars => PinInv'
  BY PinsKept
<1>3. IInv /\ PinInv /\ [Next]_vars =>
        [leaked' # leaked =>
           \E c \in Clients :
             /\ held'[c] # held[c]
             /\ \/ lock = "running" /\ held[c] = runningOperation
                \/ lock = "next" /\ held[c] = freeing]_vars
  BY LeakStep
<1>4. QED BY <1>1, <1>2, <1>3, Inductive, PTL DEF Spec, OnlyOvertakenPinsLeak

-----------------------------------------------------------------------------
(* The refinement: every step of the engine is one of RequestIO's, or hides  *)
(* behind it.  What IIS has posted can be the answer of the call it is for,  *)
(* and every operation that is not pending any more has its answer.          *)
ReplyInv ==
  /\ ioDone # Unset => ioDone \in Outcomes(ioOp) \union (IF canceled THEN {Aborted} ELSE {})
  /\ \A c \in Clients : held[c] # NoOp /\ ~Pending(held[c]) => result[held[c]] # Unset

(* The variables of RequestIO, as AsyncIOEngine's Abstract gives them.       *)
Owner(h, o) == IF o = NoOp THEN NoOp ELSE CHOOSE c \in Clients : h[c] = o

opView == [c \in Clients |-> IF held[c] = NoOp THEN "none" ELSE KindOf(held[c])]
firstView == Owner(held, FirstPending)
secondView == Owner(held, SecondPending)
answerView == [c \in Clients |->
                 IF held[c] = NoOp \/ Pending(held[c]) THEN Unset ELSE result[held[c]]]
views == <<stopped, opView, firstView, secondView, canceled, answerView, got>>

(* What a client may be told of an operation of each kind.                   *)
Replies(k) == (IF k = "read" THEN 0..MaxBytes ELSE {0}) \union {Failed}

LEMMA RefuseView ==
  ASSUME NEW c \in Clients, opView[c] = "none", stopped \/ secondView # NoOp,
         got' = [got EXCEPT ![c] = Failed],
         UNCHANGED <<stopped, opView, firstView, secondView, canceled, answerView>>
  PROVE  Abstract!Refuse(c)
  BY DEF Abstract!Refuse, opView, firstView, secondView, answerView, Owner, Holder, Failed,
         Abstract!Failed

LEMMA AcceptView ==
  ASSUME NEW c \in Clients, NEW k \in Kinds, opView[c] = "none", ~stopped,
         opView' = [opView EXCEPT ![c] = k], got' = [got EXCEPT ![c] = Unset]
  PROVE  Abstract!Accept(c, k)
  BY DEF Abstract!Accept, opView, Unset, Abstract!Unset

LEMMA AnswerView ==
  ASSUME NEW c \in Clients, NEW k \in Kinds, Abstract!Accept(c, k), firstView = NoOp,
         NEW oc \in Replies(k), answerView' = [answerView EXCEPT ![c] = oc],
         UNCHANGED <<stopped, firstView, secondView, canceled>>
  PROVE  Abstract!AnswerAtOnce(c, k)
<1>1. oc \in Abstract!Outcomes(k)
  BY DEF Replies, Abstract!Outcomes, Failed, Abstract!Failed
<1> QED BY <1>1 DEF Abstract!AnswerAtOnce, firstView, secondView, answerView, Owner, Holder,
                    Unset, Abstract!Unset

LEMMA StartView ==
  ASSUME NEW c \in Clients, NEW k \in Kinds, Abstract!Accept(c, k), firstView = NoOp,
         firstView' = c, UNCHANGED <<stopped, secondView, canceled, answerView>>
  PROVE  Abstract!Start(c, k)
  BY DEF Abstract!Start, firstView, secondView, answerView, Owner, Holder

LEMMA QueueView ==
  ASSUME NEW c \in Clients, NEW k \in Kinds, Abstract!Accept(c, k), firstView # NoOp,
         secondView = NoOp, secondView' = c,
         canceled' \in IF opView[firstView] = "read" THEN BOOLEAN ELSE {canceled},
         canceled => canceled', UNCHANGED <<stopped, firstView, answerView>>
  PROVE  Abstract!Queue(c, k)
  BY DEF Abstract!Queue, firstView, secondView, answerView, opView, Owner, Holder

LEMMA FinishView ==
  ASSUME firstView # NoOp, NEW k \in Kinds, k = opView[firstView],
         NEW oc \in Replies(k) \union (IF canceled \/ stopped THEN {Aborted} ELSE {}),
         answerView' = [answerView EXCEPT ![firstView] = oc],
         firstView' = secondView, secondView' = NoOp, canceled' = FALSE,
         UNCHANGED <<stopped, opView, got>>
  PROVE  Abstract!Finish
<1>1. oc \in Abstract!Outcomes(opView[firstView])
               \union (IF canceled \/ stopped THEN {Abstract!Aborted} ELSE {})
  <2>1. Abstract!Outcomes(k) = Replies(k)
    BY DEF Replies, Abstract!Outcomes, Failed, Abstract!Failed
  <2>2. Abstract!Aborted = Aborted
    BY DEF Aborted, Abstract!Aborted
  <2> QED BY <2>1, <2>2
<1> QED BY <1>1 DEF Abstract!Finish, firstView, secondView, answerView, opView, Owner, Holder

LEMMA TakeView ==
  ASSUME NEW c \in Clients, answerView[c] # Unset, got' = [got EXCEPT ![c] = answerView[c]],
         answerView' = [answerView EXCEPT ![c] = Unset], opView' = [opView EXCEPT ![c] = "none"],
         UNCHANGED <<stopped, firstView, secondView, canceled>>
  PROVE  Abstract!Take(c)
  BY DEF Abstract!Take, firstView, secondView, answerView, opView, Owner, Holder, Unset,
         Abstract!Unset

LEMMA CloseView ==
  ASSUME stopped' = TRUE, canceled' \in IF firstView # NoOp THEN BOOLEAN ELSE {canceled},
         canceled => canceled', UNCHANGED <<opView, firstView, secondView, answerView, got>>
  PROVE  Abstract!Close
  BY DEF Abstract!Close, firstView, secondView, answerView, opView, Owner, Holder

LEMMA StutterView ==
  ASSUME UNCHANGED views
  PROVE  UNCHANGED Abstract!ioVars
  BY DEF views, Abstract!ioVars, firstView, secondView, answerView, opView, Owner, Holder


(* Who owns what.  Only Hold and GetResult change held, and neither for an   *)
(* operation that is pending.                                                *)
LEMMA OwnerIs ==
  ASSUME NEW h, NEW o, o # NoOp, NEW c \in Clients, h[c] = o,
         \A d \in Clients : h[d] = o => d = c
  PROVE  Owner(h, o) = c
  BY DEF Owner

LEMMA OwnerFound ==
  ASSUME IInv, NEW o \in Ops, Pending(o)
  PROVE  /\ Owner(held, o) \in Clients /\ Owner(held, o) # NoOp /\ held[Owner(held, o)] = o
         /\ \A d \in Clients : held[d] = o => d = Owner(held, o)
<1>1. PICK c \in Clients : held[c] = o
  BY DEF IInv, HolderInv
<1>2. o # NoOp
  BY OpsOfOps
<1>3. \A d \in Clients : held[d] = o => d = c
  BY <1>1, <1>2 DEF IInv, HolderInv
<1> QED BY <1>1, <1>2, <1>3, OwnerIs, NobodyAssumption

LEMMA OwnerKept ==
  ASSUME IInv, IInv', NEW o, o # NoOp => o \in Ops /\ Pending(o),
         \A d \in Clients : held[d] = o => held'[d] = o
  PROVE  Owner(held', o) = Owner(held, o)
<1>1. CASE o = NoOp
  BY <1>1 DEF Owner
<1>2. CASE o # NoOp
  <2>1. PICK c \in Clients : c = Owner(held, o) /\ held[c] = o
    BY <1>2, OwnerFound
  <2>2. held'[c] = o
    BY <2>1
  <2>3. \A d \in Clients : held'[d] = o => d = c
    BY <1>2, <2>2 DEF IInv, HolderInv
  <2> QED BY <1>2, <2>1, <2>2, <2>3, OwnerIs
<1> QED BY <1>1, <1>2

(* The two pending operations.                                               *)
LEMMA PendingOps ==
  ASSUME IInv
  PROVE  /\ FirstPending = IF lock = "free" THEN runningOperation ELSE nextOperation
         /\ SecondPending = IF lock = "free" THEN nextOperation ELSE NoOp
         /\ FirstPending # NoOp => FirstPending \in Ops /\ Pending(FirstPending)
         /\ SecondPending # NoOp => SecondPending \in Ops /\ Pending(SecondPending)
         /\ firstView = NoOp <=> FirstPending = NoOp
         /\ secondView = NoOp <=> SecondPending = NoOp
<1>1. /\ FirstPending = IF lock = "free" THEN runningOperation ELSE nextOperation
      /\ SecondPending = IF lock = "free" THEN nextOperation ELSE NoOp
  BY DEF FirstPending, SecondPending
<1>2. /\ FirstPending # NoOp => FirstPending \in Ops /\ Pending(FirstPending)
      /\ SecondPending # NoOp => SecondPending \in Ops /\ Pending(SecondPending)
  BY <1>1 DEF Pending, IInv, TypeOK
<1>3. firstView = NoOp <=> FirstPending = NoOp
  <2>1. CASE FirstPending = NoOp
    BY <2>1 DEF firstView, Owner
  <2>2. CASE FirstPending # NoOp
    BY <1>2, <2>2, OwnerFound DEF firstView
  <2> QED BY <2>1, <2>2
<1>4. secondView = NoOp <=> SecondPending = NoOp
  <2>1. CASE SecondPending = NoOp
    BY <2>1 DEF secondView, Owner
  <2>2. CASE SecondPending # NoOp
    BY <1>2, <2>2, OwnerFound DEF secondView
  <2> QED BY <2>1, <2>2
<1> QED BY <1>1, <1>2, <1>3, <1>4

(* Where the pending operations and their holders stay, so do the views.     *)
LEMMA FirstKept ==
  ASSUME IInv, IInv', FirstPending' = FirstPending,
         \A d \in Clients : held[d] = FirstPending => held'[d] = FirstPending
  PROVE  firstView' = firstView
<1>1. PICK o : o = FirstPending
  OBVIOUS
<1>2. Owner(held', o) = Owner(held, o)
  BY <1>1, PendingOps, OwnerKept
<1> QED BY <1>1, <1>2 DEF firstView

LEMMA SecondKept ==
  ASSUME IInv, IInv', SecondPending' = SecondPending,
         \A d \in Clients : held[d] = SecondPending => held'[d] = SecondPending
  PROVE  secondView' = secondView
<1>1. PICK o : o = SecondPending
  OBVIOUS
<1>2. Owner(held', o) = Owner(held, o)
  BY <1>1, PendingOps, OwnerKept
<1> QED BY <1>1, <1>2 DEF secondView

(* The kind of an operation decides what it may answer.                      *)
LEMMA RepliesOfKind ==
  ASSUME NEW o \in Ops
  PROVE  Outcomes(o) = Replies(KindOf(o)) /\ KindOf(o) # "none"
<1>1. o \in ReadOps <=> KindOf(o) = "read"
  BY KindOfOp DEF Kinds, OpsOf
<1>2. KindOf(o) # "none"
  BY KindOfOp DEF Kinds
<1> QED BY <1>1, <1>2 DEF Outcomes, Replies


(* ReplyInv is kept: a result is published before its operation stops being  *)
(* pending, and nobody changes what IIS has posted.                          *)
LEMMA ReplyIssue ==
  ASSUME IInv, ReplyInv, NEW c \in Clients, NEW k \in Kinds, Issue(c, k)
  PROVE  ReplyInv'
<1>1. PICK o \in OpsOf[k] : \/ RunThrows(c, k, o) \/ RunQueues(c, k, o)
                            \/ RunCompletes(c, k, o) \/ RunPends(c, k, o)
  BY DEF Issue
<1>2. Begin(c, k, o)
  BY <1>1 DEF RunThrows, RunQueues, RunCompletes, RunPends
<1>3. /\ o \in Ops /\ o \notin {runningOperation, nextOperation, freeing, ioOp}
      /\ \A d \in Clients : held[d] # o
      /\ lock = "free" /\ ioOp = runningOperation
  BY <1>2, BeginFresh DEF IInv, LockInv
<1>4. CASE RunThrows(c, k, o)
  BY <1>4 DEF RunThrows, engineVars, ioVars, ReplyInv, Pending
<1>5. CASE RunQueues(c, k, o) \/ RunCompletes(c, k, o) \/ RunPends(c, k, o)
  <2>1. Hold(c, k, o)
    BY <1>5 DEF RunQueues, RunCompletes, RunPends
  <2>2. held'[c] = o /\ \A d \in Clients \ {c} : held'[d] = held[d]
    BY <1>2, <2>1, HoldFacts
  <2>3. ioDone' # Unset => ioDone' \in Outcomes(ioOp') \union (IF canceled' THEN {Aborted} ELSE {})
    BY <1>3, <1>5 DEF RunQueues, RunCompletes, RunPends, ioVars, ReplyInv, CancelRead, TryCancelIO,
       IInv, LockInv, Busy
  <2>4. \A p \in Ops \ {o} : result'[p] = result[p]
    BY <1>5 DEF RunQueues, RunCompletes, RunPends, IInv, TypeOK
  <2>5. \A p \in Ops \ {o} : Pending(p) => Pending(p)'
    BY <1>5 DEF RunQueues, RunCompletes, RunPends, Pending, engineVars, Busy
  <2>6. ~Pending(o)' => result'[o] # Unset
    <3>1. CASE RunQueues(c, k, o) \/ RunPends(c, k, o)
      BY <1>3, <3>1, OpsOfOps DEF RunQueues, RunPends, Pending
    <3>2. CASE RunCompletes(c, k, o)
      BY <1>3, <3>2, OutcomesTyped DEF RunCompletes, IInv, TypeOK
    <3> QED BY <1>5, <3>1, <3>2
  <2>7. \A d \in Clients : held[d] \in Ops \union {NoOp}
    BY DEF IInv, TypeOK
  <2>8. ASSUME NEW d \in Clients, held'[d] # NoOp, ~Pending(held[d])'
        PROVE  result'[held'[d]] # Unset
    <3>1. CASE d = c
      BY <2>2, <2>6, <2>8, <3>1 DEF Pending
    <3>2. CASE d # c
      <4>1. PICK p \in Ops \ {o} : p = held[d] /\ p = held'[d]
        BY <1>3, <2>2, <2>7, <2>8, <3>2
      <4>2. ~Pending(p)
        BY <2>5, <2>8, <4>1 DEF Pending
      <4> QED BY <2>4, <2>8, <4>1, <4>2 DEF ReplyInv
    <3> QED BY <3>1, <3>2
  <2> QED BY <2>3, <2>8 DEF ReplyInv
<1> QED BY <1>1, <1>4, <1>5

LEMMA ReplyStep == IInv /\ ReplyInv /\ [Next]_vars => ReplyInv'
<1> SUFFICES ASSUME IInv, ReplyInv, [Next]_vars PROVE ReplyInv'
  OBVIOUS
<1>1. /\ \A d \in Clients : held[d] \in Ops \union {NoOp}
      /\ runningOperation \in Ops \union {NoOp} /\ nextOperation \in Ops \union {NoOp}
      /\ result \in [Ops -> Outcome] /\ held \in [Clients -> Ops \union {NoOp}]
      /\ NoOp \notin Ops
  BY OpsOfOps DEF IInv, TypeOK
<1>2. ASSUME NEW c \in Clients, Await(c) PROVE ReplyInv'
  <2>1. /\ \A p : Pending(p)' <=> Pending(p)
        /\ UNCHANGED <<ioDone, ioOp, canceled>>
    BY <1>2 DEF Await, AwaitCompleted, AwaitPending, OnCompleted, RunContinuation, engineVars, ioVars,
       Pending
  <2>2. CASE GetResult(c)
    <3>1. /\ held' = [held EXCEPT ![c] = NoOp] /\ result' = [result EXCEPT ![held[c]] = Unset]
      BY <2>2 DEF GetResult
    <3>2. \A d \in Clients \ {c} : held[d] # NoOp => held[d] # held[c]
      BY DEF IInv, HolderInv
    <3>3. /\ held'[c] = NoOp
          /\ \A d \in Clients \ {c} : held'[d] = held[d] /\ (held[d] # NoOp => result'[held[d]] = result[held[d]])
      BY <1>1, <3>1, <3>2
    <3> QED BY <2>1, <3>3 DEF ReplyInv, Pending
  <2>3. CASE UNCHANGED <<held, result>>
    BY <2>1, <2>3 DEF ReplyInv, Pending
  <2> QED BY <1>2, <2>2, <2>3 DEF Await, AwaitCompleted, AwaitPending, OnCompleted, RunContinuation,
             opVars
<1>3. CASE NotifyRunning
  <2>1. /\ lock = "free" /\ ioDone # Unset /\ runningOperation # NoOp /\ lock' = "running"
        /\ result' = [result EXCEPT ![runningOperation] = ioDone] /\ ioDone' = Unset
        /\ UNCHANGED <<runningOperation, nextOperation, held>>
    BY <1>3 DEF NotifyRunning, clientVars
  <2>2. \A p \in Ops : ~Pending(p)' => ~Pending(p) \/ p = runningOperation
    BY <2>1 DEF Pending
  <2>3. \A p \in Ops : result'[p] = IF p = runningOperation THEN ioDone ELSE result[p]
    BY <1>1, <2>1
  <2> QED BY <1>1, <2>1, <2>2, <2>3 DEF ReplyInv, Pending
<1>4. CASE NotifyNextCompletes
  <2>1. /\ lock = "running" /\ lock' = "next" /\ nextOperation # NoOp /\ nextOperation' = NoOp
        /\ ioOp = NoOp /\ ioDone = Unset
        /\ UNCHANGED <<held, ioDone, ioOp, canceled>>
    BY <1>4 DEF NotifyNextCompletes, clientVars, ioVars, TakeNext, IInv, LockInv
  <2>2. PICK oc : /\ oc \in IF stopped THEN {Aborted} ELSE Outcomes(nextOperation)
                  /\ result' = [result EXCEPT ![nextOperation] = oc]
    BY <1>4 DEF NotifyNextCompletes
  <2>3. oc # Unset
    BY <1>1, <2>1, <2>2, OutcomesTyped
  <2>4. \A p \in Ops : ~Pending(p) \/ p = nextOperation
    BY <2>1 DEF Pending
  <2>5. \A p \in Ops : result'[p] = IF p = nextOperation THEN oc ELSE result[p]
    BY <1>1, <2>1, <2>2
  <2> QED BY <1>1, <2>1, <2>3, <2>4, <2>5 DEF ReplyInv, Pending
<1>5. CASE NotifyNoNext \/ NotifyNextPends \/ NotifyFreeNext
  <2>1. UNCHANGED <<held, result, ioDone>> /\ ioDone = Unset /\ lock' = "free"
    BY <1>5 DEF NotifyNoNext, NotifyNextPends, NotifyFreeNext, clientVars, ioVars, Release, IInv, LockInv
  <2>2. \A p \in Ops : Pending(p) => Pending(p)'
    BY <1>5, <2>1 DEF NotifyNoNext, NotifyNextPends, NotifyFreeNext, TakeNext, Pending, IInv, LockInv
  <2> QED BY <1>1, <2>1, <2>2 DEF ReplyInv, Pending
<1>6. CASE Dispose
  BY <1>6 DEF Dispose, TryCancelIO, opVars, clientVars, ReplyInv, Pending
<1>7. CASE PostCompletion
  BY <1>7 DEF PostCompletion, engineVars, opVars, clientVars, ReplyInv, Pending
<1>8. CASE UNCHANGED vars
  BY <1>8 DEF vars, engineVars, opVars, ioVars, clientVars, ReplyInv, Pending
<1> QED BY <1>2, <1>3, <1>4, <1>5, <1>6, <1>7, <1>8, ReplyIssue DEF Next, NotifyCompletion


(* Issuing is RequestIO's Refuse, or one of the ways to Submit.              *)
LEMMA IssueRefines ==
  ASSUME IInv, IInv', NEW c \in Clients, NEW k \in Kinds, Issue(c, k)
  PROVE  Abstract!Refuse(c) \/ Abstract!Submit(c, k)
<1>1. PICK o \in OpsOf[k] : \/ RunThrows(c, k, o) \/ RunQueues(c, k, o)
                            \/ RunCompletes(c, k, o) \/ RunPends(c, k, o)
  BY DEF Issue
<1>2. Begin(c, k, o)
  BY <1>1 DEF RunThrows, RunQueues, RunCompletes, RunPends
<1>3. /\ o \in Ops /\ NoOp \notin Ops /\ o \notin {runningOperation, nextOperation}
      /\ \A d \in Clients : held[d] # o
      /\ held[c] = NoOp /\ lock = "free" /\ ioOp = runningOperation /\ KindOf(o) = k
  BY <1>2, BeginFresh, KindOfOp DEF IInv, LockInv
<1>4. opView[c] = "none" /\ answerView[c] = Unset
  BY <1>3 DEF opView, answerView
<1>5. /\ FirstPending = runningOperation /\ SecondPending = nextOperation
      /\ firstView = NoOp <=> runningOperation = NoOp
      /\ secondView = NoOp <=> nextOperation = NoOp
      /\ runningOperation \in Ops \union {NoOp} /\ nextOperation \in Ops \union {NoOp}
  BY <1>3, PendingOps DEF IInv, TypeOK
<1>6. CASE RunThrows(c, k, o)
  <2>1. /\ stopped \/ nextOperation # NoOp
        /\ got' = [got EXCEPT ![c] = Failed]
        /\ UNCHANGED <<stopped, runningOperation, nextOperation, lock, held, result, canceled>>
    BY <1>6 DEF RunThrows, engineVars, ioVars
  <2>2. UNCHANGED <<opView, firstView, secondView, answerView>>
    BY <2>1 DEF opView, firstView, secondView, answerView, FirstPending, SecondPending, Pending
  <2> QED BY <1>4, <1>5, <2>1, <2>2, RefuseView
<1>7. CASE RunQueues(c, k, o) \/ RunCompletes(c, k, o) \/ RunPends(c, k, o)
  <2>1. Hold(c, k, o) /\ ~stopped /\ stopped' = stopped /\ lock' = lock
    BY <1>7 DEF RunQueues, RunCompletes, RunPends, engineVars
  <2>2. held'[c] = o /\ \A d \in Clients \ {c} : held'[d] = held[d]
    BY <1>2, <2>1, HoldFacts
  <2>3. opView' = [opView EXCEPT ![c] = k] /\ got' = [got EXCEPT ![c] = Unset]
    <3>1. opView' = [d \in Clients |-> IF held'[d] = NoOp THEN "none" ELSE KindOf(held'[d])]
      BY DEF opView
    <3>2. \A d \in Clients : opView'[d] = IF d = c THEN k ELSE opView[d]
      <4> SUFFICES ASSUME NEW d \in Clients PROVE opView'[d] = IF d = c THEN k ELSE opView[d]
        OBVIOUS
      <4>1. CASE d = c
        <5>1. KindOf(held'[d]) = k /\ held'[d] # NoOp
          BY <1>3, <2>2, <4>1
        <5> QED BY <3>1, <4>1, <5>1
      <4>2. CASE d # c
        <5>1. held'[d] = held[d]
          BY <2>2, <4>2
        <5> QED BY <3>1, <4>2, <5>1 DEF opView
      <4> QED BY <4>1, <4>2
    <3>3. opView' = [opView EXCEPT ![c] = k]
      BY <3>1, <3>2 DEF opView
    <3> QED BY <2>1, <3>3 DEF Hold
  <2>4. Abstract!Accept(c, k)
    BY <1>4, <2>1, <2>3, AcceptView
  <2>5. \A p \in Ops : \A d \in Clients : held[d] = p => held'[d] = p
    BY <1>3, <2>2
  <2>6. \A p \in Ops \ {o} : result'[p] = result[p]
    BY <1>7 DEF RunQueues, RunCompletes, RunPends, IInv, TypeOK
  <2>7. /\ FirstPending' = runningOperation' /\ SecondPending' = nextOperation'
    BY <1>3, <2>1 DEF FirstPending, SecondPending
  <2>8. ASSUME \A p \in Ops \ {o} : Pending(p)' <=> Pending(p)
        PROVE  \A d \in Clients \ {c} :
                 (IF held[d] = NoOp \/ Pending(held[d]) THEN Unset ELSE result[held[d]])'
                 = answerView[d]
    <3> SUFFICES ASSUME NEW d \in Clients \ {c}
                 PROVE  (IF held[d] = NoOp \/ Pending(held[d]) THEN Unset ELSE result[held[d]])'
                        = answerView[d]
      OBVIOUS
    <3>1. held'[d] = held[d] /\ held[d] \in (Ops \ {o}) \union {NoOp}
      BY <1>3, <2>2 DEF IInv, TypeOK
    <3>2. held[d] # NoOp => (Pending(held[d])' <=> Pending(held[d])) /\ result'[held[d]] = result[held[d]]
      <4>1. PICK p : p = held[d]
        OBVIOUS
      <4>2. p # NoOp => p \in Ops \ {o} /\ p = held'[d]
        BY <3>1, <4>1
      <4> QED BY <2>6, <2>8, <3>1, <4>1, <4>2 DEF Pending
    <3> QED BY <3>1, <3>2 DEF answerView
  <2>9. CASE RunQueues(c, k, o)
    <3>1. /\ runningOperation # NoOp /\ nextOperation = NoOp /\ nextOperation' = o
          /\ UNCHANGED <<runningOperation, ioOp, ioDone, result>> /\ CancelRead
      BY <2>9 DEF RunQueues, Busy
    <3>2. firstView' = firstView
      BY <1>3, <1>5, <2>5, <2>7, <3>1, FirstKept
    <3>3. secondView' = c
      <4>1. \A d \in Clients : held'[d] = o => d = c
        BY <1>3, <2>2
      <4>2. Owner(held', o) = c
        BY <1>3, <2>2, <4>1, OwnerIs
      <4> QED BY <2>7, <3>1, <4>2 DEF secondView
    <3>4. \A p \in Ops \ {o} : Pending(p)' <=> Pending(p)
      BY <1>3, <2>1, <3>1 DEF Pending
    <3>5. answerView' = answerView
      <4>1. Pending(o)'
        BY <1>3, <3>1 DEF Pending
      <4>2. (IF held[c] = NoOp \/ Pending(held[c]) THEN Unset ELSE result[held[c]])' = Unset
        BY <2>2, <4>1 DEF Pending
      <4> QED BY <1>4, <2>8, <3>4, <4>2 DEF answerView
    <3>6. /\ canceled' \in IF opView[firstView] = "read" THEN BOOLEAN ELSE {canceled}
          /\ canceled => canceled'
      <4>1. runningOperation \in ReadOps => opView[firstView] = "read"
        <5>1. SUFFICES ASSUME runningOperation \in ReadOps PROVE opView[firstView] = "read"
          OBVIOUS
        <5>2. PICK p : p = runningOperation /\ p \in Ops /\ Pending(p)
          BY <1>3, <1>5, <3>1 DEF Pending
        <5>3. firstView \in Clients /\ held[firstView] = p
          BY <1>5, <5>2, OwnerFound DEF firstView
        <5>4. KindOf(p) = "read"
          BY <5>1, <5>2, KindOfOp DEF Kinds, OpsOf
        <5> QED BY <1>3, <5>2, <5>3, <5>4 DEF opView
      <4>2. canceled \in BOOLEAN
        BY DEF IInv, TypeOK
      <4>3. canceled' \in BOOLEAN
        BY DEF IInv, TypeOK
      <4>4. canceled => canceled'
        BY <3>1 DEF CancelRead, TryCancelIO
      <4>5. runningOperation \notin ReadOps => canceled' = canceled
        BY <3>1 DEF CancelRead
      <4> QED BY <4>1, <4>2, <4>3, <4>4, <4>5
    <3>7. firstView # NoOp /\ secondView = NoOp
      BY <1>5, <3>1
    <3> QED BY <2>1, <2>4, <3>2, <3>3, <3>5, <3>6, <3>7, QueueView DEF Abstract!Submit
  <2>10. CASE RunCompletes(c, k, o)
    <3>1. /\ runningOperation = NoOp /\ UNCHANGED <<runningOperation, nextOperation, canceled>>
      BY <2>10 DEF RunCompletes, Busy, engineVars, ioVars
    <3>2. PICK oc \in Outcomes(o) : result' = [result EXCEPT ![o] = oc]
      BY <2>10 DEF RunCompletes
    <3>3. nextOperation = NoOp
      BY <3>1 DEF IInv, LockInv
    <3>4. firstView' = firstView /\ secondView' = secondView
      BY <1>5, <2>7, <3>1, <3>3 DEF firstView, secondView, Owner
    <3>5. ~Pending(o)' /\ \A p \in Ops \ {o} : Pending(p)' <=> Pending(p)
      BY <1>3, <3>1 DEF Pending
    <3>6. answerView' = [answerView EXCEPT ![c] = oc]
      <4>1. (IF held[c] = NoOp \/ Pending(held[c]) THEN Unset ELSE result[held[c]])' = oc
        <5>1. result'[o] = oc
          BY <1>3, <3>2 DEF IInv, TypeOK
        <5> QED BY <1>3, <2>2, <3>5, <5>1 DEF Pending
      <4>2. \A d \in Clients \ {c} :
              (IF held[d] = NoOp \/ Pending(held[d]) THEN Unset ELSE result[held[d]])' = answerView[d]
        BY <2>8, <3>5
      <4>3. answerView' = [d \in Clients |-> IF d = c THEN oc ELSE answerView[d]]
        BY <4>1, <4>2 DEF answerView
      <4> QED BY <4>3 DEF answerView
    <3>7. oc \in Replies(k)
      BY <1>3, RepliesOfKind
    <3>8. firstView = NoOp
      BY <1>5, <3>1
    <3> QED BY <2>1, <2>4, <3>1, <3>4, <3>6, <3>7, <3>8, AnswerView DEF Abstract!Submit
  <2>11. CASE RunPends(c, k, o)
    <3>1. /\ runningOperation = NoOp /\ runningOperation' = o
          /\ UNCHANGED <<nextOperation, canceled, result>>
      BY <2>11 DEF RunPends, Busy
    <3>2. nextOperation = NoOp
      BY <3>1 DEF IInv, LockInv
    <3>3. secondView' = secondView
      BY <1>5, <2>7, <3>1, <3>2 DEF secondView, Owner
    <3>4. firstView' = c
      <4>1. \A d \in Clients : held'[d] = o => d = c
        BY <1>3, <2>2
      <4>2. Owner(held', o) = c
        BY <1>3, <2>2, <4>1, OwnerIs
      <4> QED BY <2>7, <3>1, <4>2 DEF firstView
    <3>5. Pending(o)' /\ \A p \in Ops \ {o} : Pending(p)' <=> Pending(p)
      BY <1>3, <2>1, <3>1 DEF Pending
    <3>6. answerView' = answerView
      <4>2. (IF held[c] = NoOp \/ Pending(held[c]) THEN Unset ELSE result[held[c]])' = Unset
        BY <2>2, <3>5 DEF Pending
      <4> QED BY <1>4, <2>8, <3>5, <4>2 DEF answerView
    <3>7. firstView = NoOp
      BY <1>5, <3>1
    <3> QED BY <2>1, <2>4, <3>1, <3>3, <3>4, <3>6, <3>7, StartView DEF Abstract!Submit
  <2> QED BY <1>7, <2>9, <2>10, <2>11
<1> QED BY <1>1, <1>6, <1>7


(* Taking a result is RequestIO's Take; the other steps of an await hide.    *)
LEMMA AwaitRefines ==
  ASSUME IInv, IInv', ReplyInv, NEW c \in Clients, Await(c)
  PROVE  Abstract!Take(c) \/ UNCHANGED views
<1>1. /\ UNCHANGED <<stopped, runningOperation, nextOperation, lock, canceled>>
      /\ \A p : Pending(p)' <=> Pending(p)
      /\ FirstPending' = FirstPending /\ SecondPending' = SecondPending
  BY DEF Await, AwaitCompleted, AwaitPending, OnCompleted, RunContinuation, engineVars, ioVars,
     Pending, FirstPending, SecondPending
<1>2. CASE AwaitPending(c) \/ OnCompleted(c)
  <2>1. UNCHANGED <<held, got, result>>
    BY <1>2 DEF AwaitPending, OnCompleted, opVars
  <2> QED BY <1>1, <2>1 DEF views, opView, firstView, secondView, answerView, Pending
<1>3. CASE AwaitCompleted(c) \/ RunContinuation(c)
  <2>1. GetResult(c)
    BY <1>3 DEF AwaitCompleted, RunContinuation
  <2>2. PICK o \in Ops : o = held[c] /\ ~Pending(o) /\ o # NoOp
    <3>1. pc[c] \in {"issued", "waiting"} /\ held[c] \in Ops \union {NoOp}
      BY <1>3 DEF AwaitCompleted, RunContinuation, IInv, TypeOK, CallerInv
    <3>2. held[c] # NoOp
      BY <3>1 DEF IInv, HolderInv
    <3>3. ~Pending(held[c])
      BY <1>3, <3>1 DEF AwaitCompleted, RunContinuation, IInv, CallerInv
    <3> QED BY <3>1, <3>2, <3>3
  <2>3. /\ held' = [held EXCEPT ![c] = NoOp] /\ result' = [result EXCEPT ![o] = Unset]
        /\ got' = [got EXCEPT ![c] = result[o]]
        /\ held \in [Clients -> Ops \union {NoOp}] /\ result \in [Ops -> Outcome]
    BY <2>1, <2>2 DEF GetResult, IInv, TypeOK
  <2>4. /\ held'[c] = NoOp /\ \A d \in Clients \ {c} : held'[d] = held[d]
        /\ \A p \in Ops \ {o} : result'[p] = result[p]
    BY <2>3
  <2>5. \A d \in Clients \ {c} : held[d] # o
    BY <2>2 DEF IInv, HolderInv
  <2>6. \A p : Pending(p) => \A d \in Clients : held[d] = p => held'[d] = p
    BY <2>2, <2>4
  <2>7. UNCHANGED <<firstView, secondView>>
    <3>1. \A d \in Clients : held[d] = FirstPending => held'[d] = FirstPending
      <4>1. FirstPending = NoOp \/ Pending(FirstPending)
        BY PendingOps
      <4>2. CASE FirstPending = NoOp
        BY <2>4, <4>2
      <4>3. CASE Pending(FirstPending)
        BY <2>6, <4>3
      <4> QED BY <4>1, <4>2, <4>3
    <3>2. \A d \in Clients : held[d] = SecondPending => held'[d] = SecondPending
      <4>1. SecondPending = NoOp \/ Pending(SecondPending)
        BY PendingOps
      <4>2. CASE SecondPending = NoOp
        BY <2>4, <4>2
      <4>3. CASE Pending(SecondPending)
        BY <2>6, <4>3
      <4> QED BY <4>1, <4>2, <4>3
    <3> QED BY <1>1, <3>1, <3>2, FirstKept, SecondKept
  <2>8. answerView[c] = result[o] /\ result[o] # Unset
    BY <2>2 DEF answerView, ReplyInv
  <2>9. answerView' = [answerView EXCEPT ![c] = Unset]
    <3>1. answerView' = [d \in Clients |->
             (IF held[d] = NoOp \/ Pending(held[d]) THEN Unset ELSE result[held[d]])']
      BY DEF answerView
    <3>2. ASSUME NEW d \in Clients
          PROVE  (IF held[d] = NoOp \/ Pending(held[d]) THEN Unset ELSE result[held[d]])'
                 = IF d = c THEN Unset ELSE answerView[d]
      <4>1. CASE d = c
        BY <2>4, <4>1
      <4>2. CASE d # c
        <5>1. held'[d] = held[d] /\ held[d] \in (Ops \ {o}) \union {NoOp}
          BY <2>3, <2>4, <2>5, <4>2
        <5>2. held[d] # NoOp =>
                (Pending(held[d])' <=> Pending(held[d])) /\ result'[held[d]] = result[held[d]]
          BY <1>1, <2>4, <5>1 DEF Pending
        <5> QED BY <4>2, <5>1, <5>2 DEF answerView
      <4> QED BY <4>1, <4>2
    <3> QED BY <3>1, <3>2 DEF answerView
  <2>10. opView' = [opView EXCEPT ![c] = "none"]
    BY <2>4 DEF opView
  <2> QED BY <1>1, <2>3, <2>7, <2>8, <2>9, <2>10, TakeView
<1> QED BY <1>2, <1>3 DEF Await

(* Inside the lock only a publication of a result is RequestIO's Finish.     *)
LEMMA FinishRefines ==
  ASSUME IInv, IInv', NEW o \in Ops, o = FirstPending, NEW oc,
         oc \in Outcomes(o) \union (IF canceled \/ stopped THEN {Aborted} ELSE {}),
         result' = [result EXCEPT ![o] = oc], ~Pending(o)',
         \A p \in Ops \ {o} : Pending(p)' <=> Pending(p),
         FirstPending' = SecondPending, SecondPending' = NoOp, ~canceled',
         UNCHANGED <<stopped, held, got>>
  PROVE  Abstract!Finish
<1>1. Pending(o) /\ o # NoOp
  BY PendingOps, OpsOfOps
<1>2. PICK c \in Clients : /\ c = firstView /\ held[c] = o /\ c # NoOp
                           /\ \A d \in Clients : held[d] = o => d = c
  BY <1>1, OwnerFound DEF firstView
<1>3. PICK k \in Kinds : k = KindOf(o) /\ k = opView[firstView]
  <2>1. opView[c] = KindOf(o)
    BY <1>1, <1>2 DEF opView
  <2> QED BY <1>2, <2>1, KindOfOp
<1>4. oc \in Replies(k) \union (IF canceled \/ stopped THEN {Aborted} ELSE {})
  BY <1>3, RepliesOfKind
<1>5. firstView' = secondView
  BY DEF firstView, secondView, Owner
<1>6. secondView' = NoOp /\ opView' = opView
  BY DEF secondView, Owner, opView
<1>7. answerView' = [answerView EXCEPT ![firstView] = oc]
  <2>1. answerView' = [d \in Clients |->
           (IF held[d] = NoOp \/ Pending(held[d]) THEN Unset ELSE result[held[d]])']
    BY DEF answerView
  <2>2. ASSUME NEW d \in Clients
        PROVE  (IF held[d] = NoOp \/ Pending(held[d]) THEN Unset ELSE result[held[d]])'
               = IF d = c THEN oc ELSE answerView[d]
    <3>1. result \in [Ops -> Outcome] /\ held[d] \in Ops \union {NoOp}
      BY DEF IInv, TypeOK
    <3>2. CASE d = c
      BY <1>1, <1>2, <3>1, <3>2 DEF Pending
    <3>3. CASE d # c
      <4>1. held[d] \in (Ops \ {o}) \union {NoOp} /\ held'[d] = held[d]
        BY <1>2, <3>1, <3>3
      <4>2. held[d] # NoOp =>
              (Pending(held[d])' <=> Pending(held[d])) /\ result'[held[d]] = result[held[d]]
        BY <3>1, <4>1 DEF Pending
      <4> QED BY <3>3, <4>1, <4>2 DEF answerView
    <3> QED BY <3>2, <3>3
  <2> QED BY <1>2, <2>1, <2>2 DEF answerView
<1>8. canceled' = FALSE
  BY DEF IInv, TypeOK
<1> QED BY <1>2, <1>3, <1>4, <1>5, <1>6, <1>7, <1>8, FinishView

LEMMA NotifyRefines ==
  ASSUME IInv, IInv', ReplyInv, NotifyCompletion
  PROVE  Abstract!Finish \/ UNCHANGED views
<1>1. /\ NoOp \notin Ops /\ runningOperation \in Ops \union {NoOp}
      /\ nextOperation \in Ops \union {NoOp} /\ result \in [Ops -> Outcome]
  BY OpsOfOps DEF IInv, TypeOK
<1>2. CASE NotifyRunning
  <2>1. /\ lock = "free" /\ ioDone # Unset /\ runningOperation \in Ops /\ lock' = "running"
        /\ result' = [result EXCEPT ![runningOperation] = ioDone] /\ ~canceled'
        /\ UNCHANGED <<stopped, runningOperation, nextOperation, held, got>>
        /\ ioOp = runningOperation
    BY <1>1, <1>2 DEF NotifyRunning, clientVars, IInv, LockInv
  <2>2. PICK o \in Ops : o = runningOperation /\ o # nextOperation
    BY <1>1, <2>1 DEF IInv, LockInv
  <2>3. /\ o = FirstPending /\ FirstPending' = SecondPending /\ SecondPending' = NoOp
    BY <2>1, <2>2 DEF FirstPending, SecondPending
  <2>4. ~Pending(o)' /\ \A p \in Ops \ {o} : Pending(p)' <=> Pending(p)
    BY <2>1, <2>2 DEF Pending
  <2>5. ioDone \in Outcomes(o) \union (IF canceled \/ stopped THEN {Aborted} ELSE {})
    BY <2>1, <2>2 DEF ReplyInv
  <2> QED BY <2>1, <2>2, <2>3, <2>4, <2>5, FinishRefines
<1>3. CASE NotifyNextCompletes
  <2>1. /\ lock = "running" /\ lock' = "next" /\ nextOperation \in Ops /\ nextOperation' = NoOp
        /\ runningOperation' = NoOp /\ ~canceled'
        /\ UNCHANGED <<stopped, held, got>>
    BY <1>1, <1>3 DEF NotifyNextCompletes, clientVars, ioVars, TakeNext, IInv, LockInv
  <2>2. PICK o \in Ops : o = nextOperation
    BY <2>1
  <2>3. PICK oc : /\ oc \in IF stopped THEN {Aborted} ELSE Outcomes(o)
                  /\ result' = [result EXCEPT ![o] = oc]
    BY <1>3, <2>2 DEF NotifyNextCompletes
  <2>4. /\ o = FirstPending /\ FirstPending' = SecondPending /\ SecondPending' = NoOp
    BY <2>1, <2>2 DEF FirstPending, SecondPending
  <2>5. ~Pending(o)' /\ \A p \in Ops \ {o} : Pending(p)' <=> Pending(p)
    BY <1>1, <2>1, <2>2 DEF Pending
  <2>6. oc \in Outcomes(o) \union (IF canceled \/ stopped THEN {Aborted} ELSE {})
    BY <2>3
  <2> QED BY <2>1, <2>2, <2>3, <2>4, <2>5, <2>6, FinishRefines
<1>4. CASE NotifyNoNext \/ NotifyNextPends \/ NotifyFreeNext
  <2>1. /\ UNCHANGED <<stopped, held, got, result, canceled>> /\ lock # "free" /\ lock' = "free"
    BY <1>4 DEF NotifyNoNext, NotifyNextPends, NotifyFreeNext, clientVars, ioVars, Release
  <2>2. runningOperation' = nextOperation /\ nextOperation' = NoOp
    BY <1>4 DEF NotifyNoNext, NotifyNextPends, NotifyFreeNext, TakeNext, IInv, LockInv
  <2>3. \A p \in Ops : Pending(p)' <=> Pending(p)
    BY <1>1, <2>1, <2>2 DEF Pending
  <2>4. FirstPending' = FirstPending /\ SecondPending' = SecondPending
    BY <2>1, <2>2 DEF FirstPending, SecondPending
  <2>5. firstView' = firstView /\ secondView' = secondView /\ opView' = opView
    BY <2>1, <2>4 DEF firstView, secondView, opView
  <2>6. answerView' = answerView
    <3>1. answerView' = [d \in Clients |->
             (IF held[d] = NoOp \/ Pending(held[d]) THEN Unset ELSE result[held[d]])']
      BY DEF answerView
    <3>2. ASSUME NEW d \in Clients
          PROVE  (IF held[d] = NoOp \/ Pending(held[d]) THEN Unset ELSE result[held[d]])'
                 = answerView[d]
      <4>1. held[d] \in Ops \union {NoOp} /\ held'[d] = held[d] /\ result' = result
        BY <2>1 DEF IInv, TypeOK
      <4>2. held[d] # NoOp => (Pending(held[d])' <=> Pending(held[d]))
        BY <2>3, <4>1 DEF Pending
      <4> QED BY <4>1, <4>2 DEF answerView
    <3> QED BY <3>1, <3>2 DEF answerView
  <2> QED BY <2>1, <2>5, <2>6 DEF views
<1> QED BY <1>2, <1>3, <1>4 DEF NotifyCompletion


LEMMA InitRefines == Init => Abstract!Init
<1> SUFFICES ASSUME Init PROVE Abstract!Init
  OBVIOUS
<1>1. FirstPending = NoOp /\ SecondPending = NoOp
  BY DEF Init, FirstPending, SecondPending
<1> QED BY <1>1 DEF Init, Abstract!Init, Unset, Abstract!Unset

(* Dispose is RequestIO's Close, and IIS posts behind the back of everybody. *)
LEMMA DisposeRefines ==
  ASSUME IInv, IInv', ~stopped, WritesDrained, Dispose
  PROVE  ~stopped /\ Abstract!WritesDrained /\ Abstract!Close
<1>1. /\ lock = "free" /\ stopped' = TRUE /\ TryCancelIO /\ ioOp = runningOperation
      /\ UNCHANGED <<runningOperation, nextOperation, lock, held, result, got>>
  BY DEF Dispose, opVars, clientVars, IInv, LockInv
<1>2. UNCHANGED <<opView, firstView, secondView, answerView, got>>
  BY <1>1 DEF opView, firstView, secondView, answerView, FirstPending, SecondPending, Pending
<1>3. /\ canceled => canceled'
      /\ canceled' \in IF firstView # NoOp THEN BOOLEAN ELSE {canceled}
  <2>1. canceled \in BOOLEAN /\ canceled' \in BOOLEAN
    BY DEF IInv, TypeOK
  <2>2. canceled => canceled'
    BY <1>1 DEF TryCancelIO
  <2>3. firstView = NoOp => canceled' = canceled
    BY <1>1, <2>1, PendingOps DEF TryCancelIO
  <2> QED BY <2>1, <2>2, <2>3
<1>4. Abstract!WritesDrained
  <2> SUFFICES ASSUME NEW c \in Clients PROVE opView[c] \in {"none", "read"}
    BY DEF Abstract!WritesDrained, opView
  <2>1. held[c] \in Ops \union {NoOp} /\ held[c] \notin WriteOps \union FlushOps
    BY DEF WritesDrained, IInv, TypeOK
  <2>2. CASE held[c] = NoOp
    BY <2>2 DEF opView
  <2>3. CASE held[c] # NoOp
    <3>1. held[c] \in Ops /\ held[c] \in OpsOf["read"] /\ "read" \in Kinds
      BY <2>1, <2>3 DEF Ops, OpsOf, Kinds
    <3>2. KindOf(held[c]) = "read"
      BY <3>1, KindOfOp
    <3> QED BY <2>3, <3>2 DEF opView
  <2> QED BY <2>2, <2>3
<1> QED BY <1>1, <1>2, <1>3, <1>4, CloseView

LEMMA StepRefines == IInv /\ ReplyInv /\ [Next]_vars => [Abstract!Next]_(Abstract!ioVars)
<1> SUFFICES ASSUME IInv, ReplyInv, [Next]_vars
             PROVE  Abstract!Next \/ UNCHANGED Abstract!ioVars
  OBVIOUS
<1>1. IInv'
  BY IInvStep
<1>2. ASSUME NEW c \in Clients, NEW k \in Kinds, Issue(c, k) PROVE Abstract!Next
  <2>1. Abstract!Refuse(c) \/ Abstract!Submit(c, k)
    BY <1>1, <1>2, IssueRefines
  <2>2. k \in Abstract!Kinds
    BY DEF Kinds, Abstract!Kinds
  <2> QED BY <2>1, <2>2 DEF Abstract!Next
<1>3. ASSUME NEW c \in Clients, Await(c) PROVE Abstract!Next \/ UNCHANGED Abstract!ioVars
  BY <1>1, <1>3, AwaitRefines, StutterView DEF Abstract!Next
<1>4. CASE NotifyCompletion
  BY <1>1, <1>4, NotifyRefines, StutterView DEF Abstract!Next
<1>5. CASE ~stopped /\ WritesDrained /\ Dispose
  BY <1>1, <1>5, DisposeRefines DEF Abstract!Next
<1>6. CASE PostCompletion \/ UNCHANGED vars
  <2>1. UNCHANGED <<stopped, lock, runningOperation, nextOperation, held, result, canceled, got>>
    BY <1>6 DEF PostCompletion, vars, engineVars, opVars, ioVars, clientVars
  <2>2. UNCHANGED views
    BY <2>1 DEF views, opView, firstView, secondView, answerView, FirstPending, SecondPending, Pending
  <2> QED BY <2>2, StutterView
<1> QED BY <1>2, <1>3, <1>4, <1>5, <1>6 DEF Next

(* The engine implements RequestIO, for any number of callers: operations    *)
(* are answered in the order in which they were issued, one in progress and  *)
(* one waiting, and "aborted" only when a read was in the way or the engine  *)
(* is disposed, however NotifyCompletion, Dispose and awaiters interleave.   *)
THEOREM Refinement == Spec => ImplementsRequestIO
<1>1. Init => ReplyInv
  BY DEF Init, ReplyInv
<1>2. IInv /\ ReplyInv /\ [Next]_vars => ReplyInv'
  BY ReplyStep
<1>3. IInv /\ ReplyInv /\ [Next]_vars => [Abstract!Next]_(Abstract!ioVars)
  BY StepRefines
<1> QED BY <1>1, <1>2, <1>3, InitRefines, Inductive, PTL DEF Spec, ImplementsRequestIO, Abstract!Spec

=============================================================================
