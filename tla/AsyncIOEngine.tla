---------------------------- MODULE AsyncIOEngine ----------------------------
(***************************************************************************)
(* The per-request I/O engine of the managed in-process server             *)
(* (Server/IO/AsyncIOEngine*.cs, AsyncIOOperation.cs,                      *)
(* AsyncWriteOperationBase.cs).                                            *)
(*                                                                         *)
(* IIS accepts one asynchronous operation at a time on a request, so the   *)
(* engine keeps one running operation and one queued one, cancels a        *)
(* running read when something is queued behind it, and pools one          *)
(* operation object per kind.  The engine's fields are protected by        *)
(* lock(this); the operation objects are not: an awaiter reads and resets  *)
(* them while the completion thread is still inside the lock.              *)
(*                                                                         *)
(* A client is an asynchronous method that awaits one operation at a time  *)
(* (ReadBody, WriteBody, ProduceStart).  IIS itself is external: it may    *)
(* finish a call at once or post a completion later, and a cancelled call  *)
(* completes either as aborted or as if nothing had been cancelled.        *)
(***************************************************************************)
EXTENDS Integers, FiniteSets

CONSTANTS
  Clients,    (* the asynchronous methods that use the engine              *)
  ReadOps,    (* AsyncReadOperation objects                                *)
  WriteOps,   (* AsyncWriteOperation objects                               *)
  FlushOps,   (* AsyncFlushOperation objects                               *)
  NoOp,       (* the null operation reference                              *)
  Null,       (* _continuation = null                                      *)
  Called,     (* _continuation = CallbackCompleted                         *)
  MaxBytes    (* the most bytes one read returns                           *)

Ops   == ReadOps \union WriteOps \union FlushOps
Kinds == {"read", "write", "flush"}

OpsOf == [read |-> ReadOps, write |-> WriteOps, flush |-> FlushOps]

ASSUME OpsAssumption ==
  /\ ReadOps \intersect WriteOps = {}
  /\ ReadOps \intersect FlushOps = {}
  /\ WriteOps \intersect FlushOps = {}
  /\ NoOp \notin Ops

ASSUME ContinuationAssumption ==
  /\ Null \notin Clients
  /\ Called \notin Clients
  /\ Null # Called

ASSUME BytesAssumption == MaxBytes \in Nat

(* An operation is not one of those who await it.                          *)
ASSUME NobodyAssumption == NoOp \notin Clients

(* What an operation ends with: a byte count, -1 for a cancelled one       *)
(* (ERROR_OPERATION_ABORTED), an IOException, or nothing yet.              *)
Aborted == -1
Failed  == -2
Unset   == -3
Outcome == Unset..MaxBytes

VARIABLES
  stopped,           (* _stopped                                           *)
  runningOperation,  (* _runningOperation                                  *)
  nextOperation,     (* _nextOperation                                     *)
  cached,            (* _cachedAsync{Read,Write,Flush}Operation            *)
  continuation,      (* per operation: Null, Called or the awaiting client *)
  result,            (* per operation: _result and _exception              *)
  handle,            (* per operation: "null", "clear" or "pinned" buffers *)
  leaked,            (* pinned handles were overwritten without Dispose    *)
  fault,             (* a NullReferenceException left NotifyCompletion     *)
  lock,              (* "free", or where NotifyCompletion is inside it     *)
  freeing,           (* the operation NotifyCompletion completes second    *)
  wake,              (* continuations it has taken and not yet queued      *)
  pool,              (* continuations queued to the thread pool            *)
  ioOp,              (* IIS: the call in progress on the request           *)
  ioDone,            (* IIS: its posted completion, or Unset               *)
  canceled,          (* IIS: CancelIo hit the call in progress             *)
  pc,                (* per client: where it is in its await               *)
  held,              (* per client: the operation it awaits                *)
  got                (* per client: the outcome of its last operation      *)

engineVars == <<stopped, runningOperation, nextOperation, lock, freeing>>
opVars     == <<cached, continuation, result, handle, leaked>>
ioVars     == <<ioOp, ioDone, canceled>>
clientVars == <<pc, held, got>>
vars == <<engineVars, opVars, fault, wake, pool, ioVars, clientVars>>

Init ==
  /\ stopped = FALSE
  /\ runningOperation = NoOp
  /\ nextOperation = NoOp
  /\ cached = [k \in Kinds |-> NoOp]
  /\ continuation = [o \in Ops |-> Null]
  /\ result = [o \in Ops |-> Unset]
  /\ handle = [o \in Ops |-> "clear"]
  /\ leaked = FALSE
  /\ fault = FALSE
  /\ lock = "free"
  /\ freeing = NoOp
  /\ wake = {}
  /\ pool = {}
  /\ ioOp = NoOp
  /\ ioDone = Unset
  /\ canceled = FALSE
  /\ pc = [c \in Clients |-> "idle"]
  /\ held = [c \in Clients |-> NoOp]
  /\ got = [c \in Clients |-> Unset]

-----------------------------------------------------------------------------
(* Operation objects.                                                      *)

(* An object nobody refers to: constructing one picks such an object.      *)
FreshOps(k) ==
  OpsOf[k] \ ({held[c] : c \in Clients} \union {cached[j] : j \in Kinds}
              \union {runningOperation, nextOperation, freeing, ioOp})

(* Get{Read,Write,Flush}Operation: Interlocked.Exchange of the cached      *)
(* object, or a new one.                                                   *)
GetOperation(k) == IF cached[k] # NoOp THEN {cached[k]} ELSE FreshOps(k)

(* A new write object has no handle array yet; the others start unpinned.  *)
HandleBeforeRun(o, k) ==
  IF cached[k] = NoOp /\ k = "write" THEN "null" ELSE handle[o]

(* The handles of an operation once InvokeOperation has called IIS.        *)
InvokedHandle(o) == IF o \in FlushOps THEN "clear" ELSE "pinned"

(* What IIS may report of a call: reads return bytes, any call may fail.   *)
Outcomes(o) == {Failed} \union IF o \in ReadOps THEN 0..MaxBytes ELSE {0}

(* Complete: CompareExchange(ref _continuation, CallbackCompleted, null)   *)
(* together with the continuation it takes.                                *)
CompletedContinuation(o) ==
  IF continuation[o] = Null THEN Called ELSE continuation[o]
TakenContinuation(o) == {continuation[o]} \intersect Clients

(* HttpTryCancelIO: CancelIo marks the call in progress, if there is one.  *)
TryCancelIO == canceled' = (canceled \/ (ioOp # NoOp /\ ioDone = Unset))

(* The cache slot an overload of ReturnOperation writes.                   *)
KindOf(o) == CHOOSE k \in Kinds : o \in OpsOf[k]

-----------------------------------------------------------------------------
(* ReadAsync, WriteAsync, FlushAsync: get an operation, Initialize, Run.   *)
(* Run holds the lock throughout, so each outcome of it is one step.       *)

Begin(c, k, o) ==
  /\ pc[c] = "idle"
  /\ lock = "free"
  /\ o \in GetOperation(k)

Busy == runningOperation # NoOp

(* Run throws: the operation object it was given is dropped.               *)
RunThrows(c, k, o) ==
  /\ Begin(c, k, o)
  /\ \/ stopped
     \/ Busy /\ nextOperation # NoOp
  /\ cached' = [cached EXCEPT ![k] = NoOp]
  /\ got' = [got EXCEPT ![c] = Failed]
  /\ UNCHANGED <<engineVars, continuation, result, handle, leaked, fault,
                 wake, pool, ioVars, pc, held>>

HoldSharesCached(c, k, o) ==
  /\ held' = [held EXCEPT ![c] = o]
  /\ pc' = [pc EXCEPT ![c] = "issued"]
  /\ got' = [got EXCEPT ![c] = Unset]
  /\ UNCHANGED cached
Hold(c, k, o) ==
  /\ cached' = [cached EXCEPT ![k] = NoOp]
  /\ held' = [held EXCEPT ![c] = o]
  /\ pc' = [pc EXCEPT ![c] = "issued"]
  /\ got' = [got EXCEPT ![c] = Unset]

CancelAlways == TryCancelIO
CancelRead == IF runningOperation \in ReadOps THEN TryCancelIO ELSE UNCHANGED canceled

(* Run queues the operation, and cancels a read that is in its way.        *)
RunQueues(c, k, o) ==
  /\ Begin(c, k, o)
  /\ ~stopped
  /\ Busy
  /\ nextOperation = NoOp
  /\ nextOperation' = o
  /\ CancelRead
  /\ handle' = [handle EXCEPT ![o] = HandleBeforeRun(o, k)]
  /\ Hold(c, k, o)
  /\ UNCHANGED <<stopped, runningOperation, lock, freeing, continuation,
                 result, leaked, fault, wake, pool, ioOp, ioDone>>

(* Run invokes the operation and IIS finishes it before returning.         *)
RunCompletes(c, k, o) ==
  /\ Begin(c, k, o)
  /\ ~stopped
  /\ ~Busy
  /\ \E oc \in Outcomes(o) : result' = [result EXCEPT ![o] = oc]
  /\ continuation' = [continuation EXCEPT ![o] = CompletedContinuation(o)]
  /\ handle' = [handle EXCEPT ![o] = "clear"]
  /\ Hold(c, k, o)
  /\ UNCHANGED <<engineVars, leaked, fault, wake, pool, ioVars>>

(* Run invokes the operation and IIS will post its completion.             *)
RunPends(c, k, o) ==
  /\ Begin(c, k, o)
  /\ ~stopped
  /\ ~Busy
  /\ runningOperation' = o
  /\ ioOp' = o
  /\ handle' = [handle EXCEPT ![o] = InvokedHandle(o)]
  /\ Hold(c, k, o)
  /\ UNCHANGED <<stopped, nextOperation, lock, freeing, continuation, result,
                 leaked, fault, wake, pool, ioDone, canceled>>

Issue(c, k) ==
  \E o \in OpsOf[k] : \/ RunThrows(c, k, o)
                      \/ RunQueues(c, k, o)
                      \/ RunCompletes(c, k, o)
                      \/ RunPends(c, k, o)

-----------------------------------------------------------------------------
(* The await of the returned ValueTask, in the steps the C# compiler emits *)
(* for it: GetStatus, OnCompleted if it is pending, GetResult when the     *)
(* operation is completed or the continuation runs on the thread pool.     *)

(* GetResult and ResetOperation: a read disposes its handle, a write only  *)
(* clears the array, and the object goes back to the cache.                *)
GetResult(c) ==
  LET o == held[c]
  IN  /\ got' = [got EXCEPT ![c] = result[o]]
      /\ result' = [result EXCEPT ![o] = Unset]
      /\ continuation' = [continuation EXCEPT ![o] = Null]
      /\ handle' = [handle EXCEPT ![o] = IF @ = "null" THEN @ ELSE "clear"]
      /\ leaked' = (leaked \/ (o \in WriteOps /\ handle[o] = "pinned"))
      /\ cached' = [cached EXCEPT ![KindOf(o)] = o]
      /\ held' = [held EXCEPT ![c] = NoOp]
      /\ pc' = [pc EXCEPT ![c] = "idle"]

AwaitCompleted(c) ==
  /\ pc[c] = "issued"
  /\ continuation[held[c]] # Null
  /\ GetResult(c)
  /\ UNCHANGED <<engineVars, fault, wake, pool, ioVars>>

AwaitPending(c) ==
  /\ pc[c] = "issued"
  /\ continuation[held[c]] = Null
  /\ pc' = [pc EXCEPT ![c] = "registering"]
  /\ UNCHANGED <<engineVars, opVars, fault, wake, pool, ioVars, held, got>>

(* OnCompleted: CompareExchange(ref _continuation, continuation, null); if *)
(* the operation completed meanwhile the continuation is queued at once.   *)
AlwaysRegisters(o) == TRUE
Registers(o) == continuation[o] = Null

OnCompleted(c) ==
  /\ pc[c] = "registering"
  /\ pc' = [pc EXCEPT ![c] = "waiting"]
  /\ IF Registers(held[c])
     THEN /\ continuation' = [continuation EXCEPT ![held[c]] = c]
          /\ UNCHANGED pool
     ELSE /\ pool' = pool \union {c}
          /\ UNCHANGED continuation
  /\ UNCHANGED <<engineVars, cached, result, handle, leaked, fault, wake,
                 ioVars, held, got>>

RunContinuation(c) ==
  /\ c \in pool
  /\ pool' = pool \ {c}
  /\ GetResult(c)
  /\ UNCHANGED <<engineVars, fault, wake, ioVars>>

-----------------------------------------------------------------------------
(* NotifyCompletion.  It holds the lock from NotifyRunning to the step     *)
(* that sets lock to "free"; the steps are cut where the awaiting thread,  *)
(* which takes no lock, can come in between: after the CompareExchange and *)
(* before FreeOperationResources.                                          *)

(* Complete on the running operation, up to its CompareExchange.           *)
NotifyRunning ==
  /\ lock = "free"
  /\ ioDone # Unset
  /\ runningOperation # NoOp
  /\ result' = [result EXCEPT ![runningOperation] = ioDone]
  /\ continuation' = [continuation EXCEPT
                        ![runningOperation] = CompletedContinuation(runningOperation)]
  /\ wake' = TakenContinuation(runningOperation)
  /\ lock' = "running"
  /\ ioOp' = NoOp
  /\ ioDone' = Unset
  /\ canceled' = FALSE
  /\ UNCHANGED <<stopped, runningOperation, nextOperation, freeing, cached,
                 handle, leaked, fault, pool, clientVars>>

(* FreeOperationResources of the running operation.                        *)
FreesNothing(o) == handle[o]
FreedHandle(o) == IF handle[o] = "pinned" THEN "clear" ELSE handle[o]

(* Leaving the lock queues the continuations taken inside it.              *)
Release == /\ lock' = "free"
           /\ pool' = pool \union wake
           /\ wake' = {}

NotifyNoNext ==
  /\ lock = "running"
  /\ nextOperation = NoOp
  /\ runningOperation' = NoOp
  /\ handle' = [handle EXCEPT ![runningOperation] = FreedHandle(runningOperation)]
  /\ Release
  /\ UNCHANGED <<stopped, nextOperation, freeing, cached, continuation, result,
                 leaked, fault, ioVars, clientVars>>

(* _nextOperation = null                                                   *)
TakeNext == nextOperation' = NoOp

(* next.Invoke() when IIS will post the completion.                        *)
NotifyNextPends ==
  /\ lock = "running"
  /\ nextOperation # NoOp
  /\ ~stopped
  /\ handle' = [handle EXCEPT ![runningOperation] = FreedHandle(runningOperation),
                              ![nextOperation] = InvokedHandle(nextOperation)]
  /\ runningOperation' = nextOperation
  /\ TakeNext
  /\ ioOp' = nextOperation
  /\ Release
  /\ UNCHANGED <<stopped, freeing, cached, continuation, result, leaked, fault,
                 ioDone, canceled, clientVars>>

(* Complete on the next operation, up to its CompareExchange: IIS finished *)
(* it at once, or the engine is stopped and it is aborted uninvoked.       *)
NotifyNextCompletes ==
  /\ lock = "running"
  /\ nextOperation # NoOp
  /\ \E oc \in IF stopped THEN {Aborted} ELSE Outcomes(nextOperation) :
       result' = [result EXCEPT ![nextOperation] = oc]
  /\ handle' = [handle EXCEPT
                  ![runningOperation] = FreedHandle(runningOperation),
                  ![nextOperation] = IF stopped THEN @ ELSE InvokedHandle(nextOperation)]
  /\ continuation' = [continuation EXCEPT
                        ![nextOperation] = CompletedContinuation(nextOperation)]
  /\ wake' = wake \union TakenContinuation(nextOperation)
  /\ lock' = "next"
  /\ freeing' = nextOperation
  /\ TakeNext
  /\ runningOperation' = NoOp
  /\ UNCHANGED <<stopped, cached, leaked, fault, pool, ioVars, clientVars>>

(* FreeOperationResources of the next operation.  Enumerating the handles  *)
(* of a write that was never invoked throws out of the lock, and the       *)
(* continuations are never queued.                                         *)
NotifyFreeNext ==
  /\ lock = "next"
  /\ freeing' = NoOp
  /\ IF handle[freeing] = "null"
     THEN /\ fault' = TRUE
          /\ lock' = "free"
          /\ wake' = {}
          /\ UNCHANGED <<pool, handle>>
     ELSE /\ handle' = [handle EXCEPT ![freeing] = FreedHandle(freeing)]
          /\ Release
          /\ UNCHANGED fault
  /\ UNCHANGED <<stopped, runningOperation, nextOperation, cached, continuation,
                 result, leaked, ioVars, clientVars>>

NotifyCompletion ==
  \/ NotifyRunning
  \/ NotifyNoNext
  \/ NotifyNextPends
  \/ NotifyNextCompletes
  \/ NotifyFreeNext

(* Dispose: stop accepting operations and cancel the one in progress.      *)
DisposeCancelsNothing ==
  /\ lock = "free"
  /\ stopped' = TRUE
  /\ UNCHANGED <<runningOperation, nextOperation, lock, freeing, opVars, fault,
                 wake, pool, ioVars, clientVars>>
Dispose ==
  /\ lock = "free"
  /\ stopped' = TRUE
  /\ TryCancelIO
  /\ UNCHANGED <<runningOperation, nextOperation, lock, freeing, opVars, fault,
                 wake, pool, ioOp, ioDone, clientVars>>

-----------------------------------------------------------------------------
(* IIS (external) finishes the call in progress and posts its completion.  *)
PostCompletion ==
  /\ ioOp # NoOp
  /\ ioDone = Unset
  /\ ioDone' \in Outcomes(ioOp) \union (IF canceled THEN {Aborted} ELSE {})
  /\ UNCHANGED <<engineVars, opVars, fault, wake, pool, ioOp, canceled, clientVars>>

Await(c) == AwaitCompleted(c) \/ AwaitPending(c) \/ OnCompleted(c) \/ RunContinuation(c)

(* ProcessRequestAsync lets the response writer drain before it disposes   *)
(* the engine: only reads may be outstanding by then.                      *)
WritesDrained == \A c \in Clients : held[c] \notin WriteOps \union FlushOps

Next ==
  \/ \E c \in Clients, k \in Kinds : Issue(c, k)
  \/ \E c \in Clients : Await(c)
  \/ NotifyCompletion
  \/ ~stopped /\ WritesDrained /\ Dispose
  \/ PostCompletion

(* Threads that can run do run, IIS delivers what it posted, and it ends   *)
(* a write, a flush or a cancelled call; a read may wait for ever for a    *)
(* client that sends nothing.                                              *)
Fairness ==
  /\ \A c \in Clients : WF_vars(Await(c))
  /\ WF_vars(NotifyCompletion)
  /\ WF_vars(PostCompletion /\ (canceled \/ ioOp \notin ReadOps))

Spec == Init /\ [][Next]_vars /\ Fairness

-----------------------------------------------------------------------------
TypeOK ==
  /\ stopped \in BOOLEAN
  /\ runningOperation \in Ops \union {NoOp}
  /\ nextOperation \in Ops \union {NoOp}
  /\ cached \in [Kinds -> Ops \union {NoOp}]
  /\ \A k \in Kinds : cached[k] \in OpsOf[k] \union {NoOp}
  /\ continuation \in [Ops -> Clients \union {Null, Called}]
  /\ result \in [Ops -> Outcome]
  /\ handle \in [Ops -> {"null", "clear", "pinned"}]
  /\ leaked \in BOOLEAN
  /\ fault \in BOOLEAN
  /\ lock \in {"free", "running", "next"}
  /\ freeing \in Ops \union {NoOp}
  /\ wake \subseteq Clients
  /\ pool \subseteq Clients
  /\ ioOp \in Ops \union {NoOp}
  /\ ioDone \in Outcome
  /\ canceled \in BOOLEAN
  /\ pc \in [Clients -> {"idle", "issued", "registering", "waiting"}]
  /\ held \in [Clients -> Ops \union {NoOp}]
  /\ got \in [Clients -> Outcome]

(* IIS works for exactly the operation the engine thinks is running, so    *)
(* every posted completion finds a running operation (the Debug.Assert of  *)
(* NotifyCompletion) and goes to the caller it belongs to.                 *)
OneCallAtATime ==
  /\ ioOp # NoOp => runningOperation = ioOp
  /\ ioDone # Unset => runningOperation # NoOp
  /\ lock = "free" /\ runningOperation # NoOp => ioOp = runningOperation

(* A call is made to IIS only when the previous one has been completed:    *)
(* whatever is issued meanwhile waits in _nextOperation.                   *)
NoOverlappingCalls == [][ioOp # NoOp /\ ioOp' # NoOp => ioOp' = ioOp]_vars

(* While IIS reads from or writes into an operation's buffers, those       *)
(* buffers are pinned.                                                     *)
PinnedDuringIO ==
  ioOp \in ReadOps \union WriteOps => handle[ioOp] = "pinned"

(* An object in the cache is referenced by nobody else and carries nothing *)
(* over from its last use.                                                 *)
CacheIsolation ==
  \A k \in Kinds : cached[k] # NoOp =>
    /\ cached[k] \notin {nextOperation, ioOp} \union {held[c] : c \in Clients}
    /\ cached[k] = runningOperation => lock = "running"
    /\ continuation[cached[k]] = Null
    /\ result[cached[k]] = Unset

(* Every client that has suspended itself can still be woken, and is woken *)
(* by exactly one party.                                                   *)
Wakeable(c) ==
  LET o == held[c]
  IN  \/ continuation[o] = c /\ o \in {runningOperation, nextOperation}
         /\ c \notin wake \union pool /\ ~(lock = "running" /\ o = runningOperation)
      \/ c \in wake /\ c \notin pool /\ lock # "free"
      \/ c \in pool /\ c \notin wake
NoLostWakeup ==
  /\ \A c \in Clients : pc[c] = "waiting" => Wakeable(c)
  /\ \A c \in wake \union pool : pc[c] = "waiting"

(* NotifyCompletion never fails inside the lock: a write that is aborted   *)
(* before it was invoked has no handle array to free.                      *)
NoFault == ~fault

(* What the engine may never do, however NotifyCompletion, Dispose and the *)
(* awaiting threads interleave: start a second call, unpin a buffer in     *)
(* use, share a pooled operation, or fault inside the lock.                *)
EngineSafe ==
  TypeOK /\ OneCallAtATime /\ PinnedDuringIO /\ CacheIsolation /\ NoFault

(* The pins of a write are lost, without FreeOperationResources ("Free the *)
(* handles"), in one case only: the awaiting thread runs GetResult between *)
(* the CompareExchange of Complete and the call that frees them.           *)
OnlyOvertakenPinsLeak ==
  [][leaked' # leaked =>
       \E c \in Clients :
         /\ held'[c] # held[c]
         /\ \/ lock = "running" /\ held[c] = runningOperation
            \/ lock = "next" /\ held[c] = freeing]_vars

(* With one reader and one writer the engine never refuses an operation    *)
(* with "Only one queued operation is allowed".                            *)
NeverRefused ==
  [][\A c \in Clients, k \in Kinds, o \in Ops :
       ~stopped => ~RunThrows(c, k, o)]_vars

(* A write or flush that is issued is answered even if the client of the   *)
(* request sends nothing: the read in front of it is cancelled.            *)
WritesAnswered ==
  \A c \in Clients :
    (held[c] \in WriteOps \union FlushOps) ~> (held[c] = NoOp)

(* Once the engine is disposed every outstanding operation is answered.    *)
DisposeReleases ==
  \A c \in Clients : (stopped /\ held[c] # NoOp) ~> (held[c] = NoOp)

(* What the callers of ReadAsync, WriteAsync and FlushAsync get: no call   *)
(* is refused while the engine is up, a write is answered behind a read    *)
(* that is not, and Dispose answers everybody.                             *)
ClientsAreServed == NeverRefused /\ WritesAnswered /\ DisposeReleases

-----------------------------------------------------------------------------
(* The inductive strengthening of the safety invariants.                   *)

(* Which of the two slots is filled, where NotifyCompletion is, and what   *)
(* IIS is doing determine each other.                                      *)
LockInv ==
  /\ lock = "free" => ioOp = runningOperation /\ wake = {}
  /\ lock # "free" => ioOp = NoOp
  /\ lock = "running" => runningOperation # NoOp
  /\ lock = "next" => runningOperation = NoOp
  /\ freeing # NoOp <=> lock = "next"
  /\ ioOp = NoOp => ioDone = Unset /\ ~canceled
  /\ nextOperation # NoOp => runningOperation \notin {NoOp, nextOperation}

(* An operation whose completion is still to come.                         *)
Pending(o) ==
  o # NoOp /\ (o = nextOperation \/ (o = runningOperation /\ lock = "free"))

(* A caller holds an operation from its issue until its result is taken,   *)
(* nobody else holds it, and every pending operation is held; an operation *)
(* that is not held carries nothing over from its last use.                *)
HolderInv ==
  /\ \A c \in Clients : held[c] = NoOp <=> pc[c] = "idle"
  /\ \A c, d \in Clients : held[c] = held[d] /\ held[c] # NoOp => c = d
  /\ \A o \in Ops : Pending(o) => \E c \in Clients : held[c] = o
  /\ \A k \in Kinds, c \in Clients : cached[k] # NoOp => held[c] # cached[k]
  /\ \A o \in Ops : (\A c \in Clients : held[c] # o) =>
        continuation[o] = Null /\ result[o] = Unset

(* What the continuation of a held operation says about its caller.        *)
CallerInv(c) ==
  LET o == held[c]
  IN  /\ pc[c] \in {"issued", "registering"} =>
           /\ c \notin wake \union pool
           /\ continuation[o] = IF Pending(o) THEN Null ELSE Called
      /\ pc[c] = "waiting" =>
           IF Pending(o)
           THEN continuation[o] = c /\ c \notin wake \union pool
           ELSE continuation[o] # Null /\ (c \in wake <=> c \notin pool)
      /\ pc[c] = "idle" => c \notin wake \union pool

(* The buffers IIS uses are pinned, and the operation that is completed    *)
(* second has a handle array: after Dispose it is not a write.             *)
HandleInv ==
  /\ ioOp \in ReadOps \union WriteOps => handle[ioOp] = "pinned"
  /\ \A o \in ReadOps \union FlushOps : handle[o] # "null"
  /\ stopped => WritesDrained
  /\ freeing # NoOp => handle[freeing] # "null"
  /\ ~fault

IInv ==
  /\ TypeOK
  /\ LockInv
  /\ HolderInv
  /\ \A c \in Clients : CallerInv(c)
  /\ HandleInv

-----------------------------------------------------------------------------
(* The engine implements RequestIO: the operation in progress is the one   *)
(* whose completion is still to come, and an operation is answered as soon *)
(* as its result is published.                                             *)

Holder(o) == CHOOSE c \in Clients : held[c] = o

FirstPending ==
  CASE lock = "free" -> runningOperation [] OTHER -> nextOperation
SecondPending ==
  CASE lock = "free" -> nextOperation [] OTHER -> NoOp

Abstract == INSTANCE RequestIO WITH
  Nobody <- NoOp,
  MayFail <- Kinds,
  op     <- [c \in Clients |-> IF held[c] = NoOp THEN "none" ELSE KindOf(held[c])],
  first  <- IF FirstPending = NoOp THEN NoOp ELSE Holder(FirstPending),
  second <- IF SecondPending = NoOp THEN NoOp ELSE Holder(SecondPending),
  answer <- [c \in Clients |->
               IF held[c] = NoOp \/ Pending(held[c]) THEN Unset ELSE result[held[c]]]

(* Every step of the engine is one of RequestIO's or changes nothing that  *)
(* the engine's users can see.                                             *)
ImplementsRequestIO == Abstract!Spec

=============================================================================
