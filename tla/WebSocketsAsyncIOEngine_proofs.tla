-------------------- MODULE WebSocketsAsyncIOEngine_proofs --------------------
(***************************************************************************)
(* Proofs about WebSocketsAsyncIOEngine, for any number of callback        *)
(* threads.  What keeps the three pooled operations apart without a lock   *)
(* is that every call has one party at a time that may still publish its   *)
(* answer: IIS, then one callback; a callback that only frees has left the *)
(* operation and may be any number of calls behind.                        *)
(***************************************************************************)
EXTENDS WebSocketsAsyncIOEngine, TLAPS

CallbackThreads == 1 .. Threads

Places == {"idle", "notify", "set", "exchange", "free", "freeAndInvoke"}
Answer == {"none", "data", "end", "aborted", "failed"}

TaskPlaces == {"none", "call", "store", "await", "register", "waiting", "result",
               "pipe", "done", "refused", "multiple"}
MainPlaces == {"upgrading", "app", "drain", "disposed", "posted"}

(* TypeOK, with the callbacks and the answers.                             *)
Types ==
  /\ TypeOK
  /\ cb \in [CallbackThreads -> [at : Places, x : Ops, hr : Answer]]
  /\ due \in [Ops -> Answer]
  /\ overtaken \in [Ops -> BOOLEAN]

(* A callback that has still to publish the answer of the call, or to wake *)
(* the one who waits for it.                                               *)
Answering(t, x) ==
  cb[t].x = x /\ cb[t].at \in {"notify", "set", "exchange", "freeAndInvoke"}

(* The call is under way: the operation carries no result yet.             *)
Fresh(x) == op[x].result = "min" /\ ~op[x].failed

Answered(x) == op[x].result # "min" /\ Outcome(op[x]) = due[x]

UnderWay(x) ==
  /\ op[x].cont # "completed"
  /\ task[x] \in {"store", "await", "register", "waiting"}

(* One party answers a call.                                               *)
PartyInv(x) ==
  /\ \A t, u \in CallbackThreads : Answering(t, x) /\ Answering(u, x) => t = u
  /\ iis[x] # "none" =>
       UnderWay(x) /\ Fresh(x) /\ \A t \in CallbackThreads : ~Answering(t, x)
  /\ \A t \in CallbackThreads : Answering(t, x) =>
       /\ UnderWay(x)
       /\ cb[t].at \in {"notify", "set"} =>
            Fresh(x) /\ cb[t].hr = due[x] /\ due[x] \in Answers(x)
       /\ cb[t].at \in {"exchange", "freeAndInvoke"} => Answered(x)
       /\ cb[t].at # "notify" => task[x] # "store"
       /\ cb[t].at = "freeAndInvoke" => task[x] = "waiting"
       /\ cb[t].at = "notify" => x = Flush

(* Where the task is in its await fits the operation it awaits.            *)
AwaitInv(x) ==
  /\ task[x] \in {"none", "call", "pipe", "done"} =>
       op[x].cont = "null" /\ ~op[x].state /\ Fresh(x)
  /\ task[x] = "store" => op[x].cont = "null" /\ ~op[x].state /\ x = Flush
  /\ task[x] \in {"await", "register"} => op[x].cont # "awaiter" /\ ~op[x].state
  /\ task[x] = "waiting" => op[x].cont = "awaiter"
  /\ task[x] = "result" => Answered(x)
  /\ op[x].cont = "completed" => Answered(x)
  /\ task[x] \notin {"refused", "multiple"}

(* Nobody reads or writes before the first flush has initialized the       *)
(* engine, whoever completed it.                                           *)
UpgradeInv ==
  /\ main = "upgrading" <=> task[Flush] # "done"
  /\ main = "upgrading" => task[Read] = "none" /\ task[Write] = "none"
  /\ task[Flush] \in {"call", "store"} => ~flushStored
  /\ task[Flush] \notin {"none", "pipe"}
  /\ (\/ op[Flush].cont = "completed"
      \/ task[Flush] \in {"result", "done"}
      \/ \E t \in CallbackThreads :
           Answering(t, Flush) /\ cb[t].at # "notify") => initialized

(* A callback that frees while the next call is with IIS was overtaken.    *)
PinInv(x) ==
  iis[x] # "none" =>
    /\ op[x].pinned \/ overtaken[x]
    /\ \A t \in CallbackThreads : cb[t].x = x /\ cb[t].at = "free" => overtaken[x]

OpInv(x) == PartyInv(x) /\ AwaitInv(x) /\ PinInv(x)

SocketInv == Types /\ UpgradeInv /\ \A x \in Ops : OpInv(x)

-----------------------------------------------------------------------------
(* The operations on an AsyncIOOperation.                                  *)
Operation == [cont : {"null", "awaiter", "completed"}, state : BOOLEAN,
              result : {"min", "data", "end", "aborted", "failed"},
              failed : BOOLEAN, pinned : BOOLEAN]

LEMMA ResetGives ==
  ASSUME NEW o
  PROVE  LET r == ResetOperation(o) IN
           /\ r \in Operation /\ r.cont = "null" /\ r.state = FALSE
           /\ r.result = "min" /\ r.failed = FALSE /\ r.pinned = FALSE
  BY DEF ResetOperation, Operation

LEMMA PinnedGives ==
  ASSUME NEW o \in Operation
  PROVE  LET r == Pinned(o) IN
           /\ r \in Operation /\ r.pinned = TRUE
           /\ r.cont = o.cont /\ r.state = o.state /\ r.result = o.result /\ r.failed = o.failed
  BY DEF Pinned, Operation

LEMMA FreeGives ==
  ASSUME NEW o \in Operation
  PROVE  LET r == FreeOperationResources(o) IN
           /\ r \in Operation /\ r.pinned = FALSE
           /\ r.cont = o.cont /\ r.state = o.state /\ r.result = o.result /\ r.failed = o.failed
  BY DEF FreeOperationResources, Operation

LEMMA ExchangeGives ==
  ASSUME NEW o \in Operation
  PROVE  LET r == Exchange(o) IN
           /\ r \in Operation /\ r.pinned = o.pinned
           /\ r.cont = (IF o.cont = "null" THEN "completed" ELSE o.cont)
           /\ r.state = o.state /\ r.result = o.result /\ r.failed = o.failed
  BY DEF Exchange, Operation

(* A result that is stored in a fresh operation is the answer.             *)
LEMMA SetResultGives ==
  ASSUME NEW o \in Operation, NEW hr \in {"data", "end", "aborted", "failed"}
  PROVE  LET r == SetResult(o, hr) IN
           /\ r \in Operation /\ r.result = hr /\ (~o.failed => Outcome(r) = hr)
           /\ r.cont = o.cont /\ r.state = o.state /\ r.pinned = o.pinned
  BY DEF SetResult, Operation, Outcome

(* An operation nobody touches keeps its invariant, whatever the callbacks *)
(* of the others do.                                                       *)
LEMMA Untouched ==
  ASSUME NEW x \in Ops, Types, OpInv(x),
         op'[x] = op[x], iis'[x] = iis[x], due'[x] = due[x],
         task'[x] = task[x], overtaken'[x] = overtaken[x],
         \A t \in CallbackThreads : cb'[t].x = x /\ cb'[t].at # "idle" => cb'[t] = cb[t]
  PROVE  OpInv(x)'
<1> USE DEF Answering, Fresh, Answered, UnderWay, Outcome
<1>1. \A t \in CallbackThreads : Answering(t, x)' => Answering(t, x) /\ cb'[t] = cb[t]
  OBVIOUS
<1>2. PartyInv(x)'
  BY <1>1 DEF OpInv, PartyInv
<1>3. AwaitInv(x)'
  BY DEF OpInv, AwaitInv
<1>4. PinInv(x)'
  BY DEF OpInv, PinInv
<1> QED BY <1>2, <1>3, <1>4 DEF OpInv

LEMMA Initially == Init => SocketInv
<1> SUFFICES ASSUME Init PROVE SocketInv
  OBVIOUS
<1> USE DEF Init, Ops, Flush, Read, Write, Idle, Unused, CallbackThreads
<1>1. Types
  BY DEF Types, TypeOK, Places, Answer
<1>2. UpgradeInv
  BY DEF UpgradeInv, Answering
<1>3. ASSUME NEW x \in Ops PROVE OpInv(x)
  BY DEF OpInv, PartyInv, AwaitInv, PinInv, Answering, Fresh, Answered, UnderWay
<1> QED BY <1>1, <1>2, <1>3 DEF SocketInv

-----------------------------------------------------------------------------
(* A call: from then on IIS is the party that answers, unless the call has *)
(* been answered at once.                                                  *)
LEMMA CallKeeps ==
  ASSUME SocketInv, NEW x \in Ops, task[x] = "call",
         InvokePending(x) \/ InvokeCompletes(x),
         NEW next \in {"store", "await"}, task' = [task EXCEPT ![x] = next],
         InvokePending(x) /\ x = Flush => next = "store",
         next = "store" => InvokePending(x) /\ x = Flush,
         UNCHANGED <<cb, main, flushStored>>, initialized' \in BOOLEAN, initialized => initialized',
         InvokeCompletes(x) => initialized'
  PROVE  SocketInv'
<1> USE DEF Ops, Flush, Read, Write
<1>0. Types /\ UpgradeInv /\ OpInv(x) /\ op \in [Ops -> Operation]
  BY DEF SocketInv, Types, TypeOK, Operation
<1>1. /\ op[x].cont = "null" /\ ~op[x].state /\ Fresh(x)
      /\ iis[x] = "none" /\ \A t \in CallbackThreads : ~Answering(t, x)
  BY <1>0 DEF OpInv, AwaitInv, PartyInv, UnderWay
<1>2. Pinned(op[x]) \in Operation
  BY <1>0, PinnedGives
<1>3. ASSUME InvokePending(x)
      PROVE  /\ op' = [op EXCEPT ![x] = Pinned(op[x])]
             /\ op'[x].pinned /\ op'[x].cont = "null" /\ ~op'[x].state /\ Fresh(x)'
  BY <1>0, <1>1, <1>3, PinnedGives DEF InvokePending, Fresh
<1>4. ASSUME InvokeCompletes(x)
      PROVE  \E hr \in Answers(x), r \in Operation :
               /\ op' = [op EXCEPT ![x] = r] /\ due' = [due EXCEPT ![x] = hr]
               /\ r.cont = "completed" /\ ~r.state /\ r.result = hr /\ Outcome(r) = hr
  <2>1. PICK hr \in Answers(x) :
          /\ op' = [op EXCEPT ![x] = FreeOperationResources(Exchange(SetResult(Pinned(@), hr)))]
          /\ due' = [due EXCEPT ![x] = hr]
    BY <1>4 DEF InvokeCompletes
  <2>2. hr \in {"data", "end", "aborted", "failed"}
    BY DEF Answers
  <2> DEFINE o == Pinned(op[x])  p == SetResult(o, hr)  q == Exchange(p)
             r == FreeOperationResources(q)
  <2>3. o \in Operation /\ o.cont = "null" /\ ~o.state /\ ~o.failed
    BY <1>0, <1>1, PinnedGives DEF Fresh
  <2>4. p \in Operation /\ p.result = hr /\ Outcome(p) = hr /\ p.cont = "null" /\ ~p.state
    BY <2>2, <2>3, SetResultGives
  <2>5. /\ q \in Operation /\ q.result = p.result /\ q.failed = p.failed
        /\ q.cont = "completed" /\ ~q.state
    BY <2>4, ExchangeGives
  <2>6. /\ r \in Operation /\ r.result = q.result /\ r.failed = q.failed
        /\ r.cont = "completed" /\ ~r.state
    BY <2>5, FreeGives
  <2>7. Outcome(r) = Outcome(p)
    BY <2>5, <2>6 DEF Outcome
  <2> HIDE DEF r
  <2>8. op' = [op EXCEPT ![x] = r]
    BY <2>1 DEF r
  <2> QED BY <2>1, <2>4, <2>5, <2>6, <2>7, <2>8, ZenonT(40)
<1>5. Types'
  <2>1. op' \in [Ops -> Operation] /\ due' \in [Ops -> Answer]
    BY <1>0, <1>2, <1>3, <1>4 DEF InvokePending, Types, Answers, Answer
  <2>2. \A y \in Ops : op'[y].cont = "completed" => op'[y].result # "min"
    BY <1>0, <1>1, <1>2, <1>3, <1>4 DEF Types, TypeOK, Answers
  <2>3. iis' \in [Ops -> {"none", "pending", "cancelled", "late"}] /\ overtaken' \in [Ops -> BOOLEAN]
    <3>1. Overtakes(x) \in BOOLEAN
      BY DEF Overtakes
    <3>2. iis \in [Ops -> {"none", "pending", "cancelled", "late"}] /\ overtaken \in [Ops -> BOOLEAN]
      BY <1>0 DEF Types, TypeOK
    <3> QED BY <3>1, <3>2 DEF InvokePending, InvokeCompletes
  <2> QED BY <1>0, <2>1, <2>2, <2>3 DEF Types, TypeOK, Operation
<1>6. ASSUME NEW y \in Ops, y # x PROVE OpInv(y)'
  <2>1. op'[y] = op[y] /\ due'[y] = due[y]
    BY <1>0, <1>3, <1>4, <1>6 DEF InvokePending, Types
  <2>2. iis'[y] = iis[y] /\ overtaken'[y] = overtaken[y] /\ task'[y] = task[y]
    BY <1>0, <1>6 DEF InvokePending, InvokeCompletes, Types, TypeOK
  <2> QED BY <1>0, <1>6, <2>1, <2>2, Untouched DEF SocketInv
<1>7. ASSUME InvokePending(x) PROVE OpInv(x)'
  <2>1. iis'[x] # "none" /\ overtaken'[x] = Overtakes(x) /\ due' = due /\ task'[x] = next
    BY <1>0, <1>7 DEF InvokePending, Types, TypeOK
  <2>2. PartyInv(x)'
    BY <1>0, <1>1, <1>3, <1>7, <2>1 DEF PartyInv, UnderWay, Answering
  <2>3. AwaitInv(x)'
    BY <1>1, <1>3, <1>7, <2>1 DEF AwaitInv
  <2>4. PinInv(x)'
    BY <1>3, <1>7, <2>1 DEF PinInv, Overtakes, CallbackThreads
  <2> QED BY <2>2, <2>3, <2>4 DEF OpInv
<1>8. ASSUME InvokeCompletes(x) PROVE OpInv(x)'
  <2>1. iis'[x] = "none" /\ task'[x] = "await"
    BY <1>0, <1>1, <1>8 DEF InvokeCompletes, InvokePending, Types, TypeOK
  <2>2. op'[x].cont = "completed" /\ ~op'[x].state /\ Answered(x)'
    BY <1>0, <1>4, <1>8 DEF Answered, Answers, Types
  <2>3. PartyInv(x)'
    BY <1>1, <2>1 DEF PartyInv, Answering
  <2>4. AwaitInv(x)'
    BY <1>8, <2>1, <2>2 DEF AwaitInv
  <2>5. PinInv(x)'
    BY <2>1 DEF PinInv
  <2> QED BY <2>3, <2>4, <2>5 DEF OpInv
<1>9. UpgradeInv'
  <2>1. op'[Flush].cont = "completed" => op[Flush].cont = "completed" \/ InvokeCompletes(x)
    BY <1>0, <1>1, <1>2, <1>3
  <2>2. task' \in [Ops -> TaskPlaces] /\ initialized \in BOOLEAN
    BY <1>0 DEF Types, TypeOK, TaskPlaces
  <2>3. \A t : Answering(t, Flush)' => Answering(t, Flush)
    BY DEF Answering
  <2>4. task'[x] = next /\ \A y \in Ops \ {x} : task'[y] = task[y]
    BY <1>0 DEF Types, TypeOK
  <2> QED BY <1>0, <2>1, <2>2, <2>3, <2>4 DEF UpgradeInv
<1> QED BY <1>0, <1>5, <1>6, <1>7, <1>8, <1>9 DEF SocketInv


LEMMA FlushCallsKeeps == SocketInv /\ FlushCalls => SocketInv'
<1> SUFFICES ASSUME SocketInv, FlushCalls PROVE SocketInv'
  OBVIOUS
<1>1. CASE InvokePending(Flush) /\ task' = [task EXCEPT ![Flush] = "store"] /\ UNCHANGED initialized
  <2>1. ~InvokeCompletes(Flush)
    <3>1. iis[Flush] = "none" /\ iis \in [Ops -> {"none", "pending", "cancelled", "late"}]
      BY DEF FlushCalls, SocketInv, OpInv, PartyInv, UnderWay, Types, TypeOK, Ops
    <3> QED BY <1>1, <3>1 DEF InvokePending, InvokeCompletes, Ops
  <2> QED BY <1>1, <2>1, CallKeeps DEF FlushCalls, requestVars, Ops, SocketInv, Types, TypeOK
<1>2. CASE /\ InvokeCompletes(Flush) /\ initialized' = TRUE
           /\ task' = [task EXCEPT ![Flush] = "await"]
  <2>1. ~InvokePending(Flush)
    <3>1. iis[Flush] = "none" /\ iis \in [Ops -> {"none", "pending", "cancelled", "late"}]
      BY DEF FlushCalls, SocketInv, OpInv, PartyInv, UnderWay, Types, TypeOK, Ops
    <3> QED BY <1>2, <3>1 DEF InvokePending, InvokeCompletes, Ops
  <2> QED BY <1>2, <2>1, CallKeeps DEF FlushCalls, requestVars, Ops
<1> QED BY <1>1, <1>2 DEF FlushCalls

(* ThrowIfNotInitialized: who calls has been let through by the upgrade.   *)
LEMMA CallsKeeps ==
  ASSUME SocketInv, NEW x \in Ops, Calls(x)
  PROVE  SocketInv'
<1>1. initialized
  BY DEF Calls, SocketInv, UpgradeInv, Ops, Flush, Read, Write
<1> QED BY <1>1, CallKeeps DEF Calls, requestVars, SocketInv, Types, TypeOK

-----------------------------------------------------------------------------
(* A task that moves on: of its operation only the two fields of the await *)
(* may have changed.                                                       *)
LEMMA TaskKeeps ==
  ASSUME SocketInv, NEW x \in Ops,
         NEW next \in {"store", "await", "register", "waiting", "result", "call", "pipe", "done"},
         task' = [task EXCEPT ![x] = next], op' \in [Ops -> Operation],
         \A y \in Ops \ {x} : op'[y] = op[y],
         op'[x].result = op[x].result, op'[x].failed = op[x].failed,
         op[x].pinned => op'[x].pinned,
         op'[x].cont = "completed" => op[x].cont = "completed",
         AwaitInv(x)', iis[x] # "none" \/ (\E t \in CallbackThreads : Answering(t, x)) => UnderWay(x)',
         \A t \in CallbackThreads : Answering(t, x) /\ cb[t].at = "freeAndInvoke" => next = "waiting",
         \A t \in CallbackThreads : Answering(t, x) /\ cb[t].at # "notify" => next # "store",
         UNCHANGED <<initialized, iis, due, cb, overtaken, unexpected>>,
         UpgradeInv', main' \in MainPlaces,
         flushStored' \in BOOLEAN
  PROVE  SocketInv'
<1>0. Types /\ OpInv(x)
  BY DEF SocketInv
<1>1. Types'
  <2>1. \A y \in Ops : op'[y].cont = "completed" => op'[y].result # "min"
    BY <1>0 DEF Types, TypeOK
  <2>2. task' \in [Ops -> TaskPlaces]
    BY <1>0 DEF Types, TypeOK, TaskPlaces
  <2> QED BY <1>0, <2>1, <2>2 DEF Types, TypeOK, Operation, TaskPlaces, MainPlaces
<1>2. ASSUME NEW y \in Ops, y # x PROVE OpInv(y)'
  BY <1>0, <1>2, Untouched DEF SocketInv, Types, TypeOK
<1>3. PartyInv(x)'
  BY <1>0 DEF OpInv, PartyInv, Answering, Fresh, Answered, Outcome, Types, TypeOK
<1>4. PinInv(x)'
  BY <1>0 DEF OpInv, PinInv
<1> QED BY <1>1, <1>2, <1>3, <1>4 DEF SocketInv, OpInv

LEMMA FlushStoresKeeps == SocketInv /\ FlushStores => SocketInv'
<1> SUFFICES ASSUME SocketInv, FlushStores PROVE SocketInv'
  OBVIOUS
<1> USE DEF Ops, Flush, Read, Write
<1>0. Types /\ UpgradeInv /\ OpInv(Flush) /\ op \in [Ops -> Operation]
  BY DEF SocketInv, Types, TypeOK, Operation
<1>1. /\ task[Flush] = "store" /\ task' = [task EXCEPT ![Flush] = "await"]
      /\ UNCHANGED <<initialized, op, iis, due, cb, overtaken, unexpected, main>>
      /\ flushStored' = TRUE /\ task'[Flush] = "await"
      /\ task'[Read] = task[Read] /\ task'[Write] = task[Write]
  BY <1>0 DEF FlushStores, requestVars, Types, TypeOK
<1>2. AwaitInv(Flush)' /\ (UnderWay(Flush) => UnderWay(Flush)')
  BY <1>0, <1>1 DEF OpInv, AwaitInv, UnderWay, Answered, Fresh
<1>3. UpgradeInv'
  BY <1>0, <1>1 DEF UpgradeInv, Answering
<1> QED BY <1>0, <1>1, <1>2, <1>3, TaskKeeps DEF OpInv, PartyInv, Types, TypeOK, MainPlaces

LEMMA GetStatusKeeps ==
  ASSUME SocketInv, NEW x \in Ops, GetStatus(x)
  PROVE  SocketInv'
<1> DEFINE next == IF op[x].cont = "null" THEN "register" ELSE "result"
<1>0. Types /\ UpgradeInv /\ OpInv(x) /\ op \in [Ops -> Operation]
  BY DEF SocketInv, Types, TypeOK, Operation
<1>1. /\ task[x] = "await" /\ task' = [task EXCEPT ![x] = next] /\ task'[x] = next
      /\ UNCHANGED <<initialized, flushStored, op, iis, due, cb, overtaken, unexpected, main>>
      /\ \A y \in Ops \ {x} : task'[y] = task[y]
  BY <1>0 DEF GetStatus, engineVars, requestVars, Types, TypeOK
<1>2. op[x].cont \in {"null", "completed"}
  BY <1>0, <1>1 DEF OpInv, AwaitInv, Operation
<1>3. AwaitInv(x)' /\ (UnderWay(x) => UnderWay(x)')
  BY <1>0, <1>1, <1>2 DEF OpInv, AwaitInv, UnderWay, Answered, Fresh
<1>4. UpgradeInv'
  <2>1. task'[Flush] = "result" => op[Flush].cont = "completed" \/ task[Flush] = "result"
    BY <1>1, <1>2 DEF Ops
  <2> QED BY <1>0, <1>1, <2>1 DEF UpgradeInv, Answering, Ops, Flush, Read, Write
<1>5. \A t \in CallbackThreads : Answering(t, x) => cb[t].at # "freeAndInvoke"
  BY <1>0, <1>1 DEF OpInv, PartyInv
<1> QED BY <1>0, <1>1, <1>3, <1>4, <1>5, TaskKeeps DEF OpInv, PartyInv, Types, TypeOK, MainPlaces

(* Either the callback came first and the awaiter finds its result, or the *)
(* awaiter is registered before the callback looks.                        *)
LEMMA OnCompletedKeeps ==
  ASSUME SocketInv, NEW x \in Ops, OnCompleted(x)
  PROVE  SocketInv'
<1> DEFINE next == IF op[x].cont = "null" THEN "waiting" ELSE "result"
<1>0. Types /\ UpgradeInv /\ OpInv(x) /\ op \in [Ops -> Operation]
  BY DEF SocketInv, Types, TypeOK, Operation
<1>1. task[x] = "register" /\ ~op[x].state /\ op[x].cont \in {"null", "completed"}
  BY <1>0 DEF OnCompleted, OpInv, AwaitInv, Operation
<1>2. /\ op' = [op EXCEPT ![x].state = TRUE, ![x].cont = IF @ = "null" THEN "awaiter" ELSE @]
      /\ task' = [task EXCEPT ![x] = next] /\ task'[x] = next
      /\ UNCHANGED <<initialized, flushStored, iis, due, cb, overtaken, unexpected, main>>
      /\ \A y \in Ops \ {x} : task'[y] = task[y]
  BY <1>0, <1>1 DEF OnCompleted, Registered, requestVars, Types, TypeOK
<1>3. /\ op' \in [Ops -> Operation] /\ \A y \in Ops \ {x} : op'[y] = op[y]
      /\ op'[x].result = op[x].result /\ op'[x].failed = op[x].failed
      /\ op'[x].pinned = op[x].pinned
      /\ op'[x].cont = IF op[x].cont = "null" THEN "awaiter" ELSE op[x].cont
  BY <1>0, <1>2, ZenonT(40) DEF Operation
<1> HIDE DEF next
<1>4. AwaitInv(x)'
  BY <1>0, <1>1, <1>2, <1>3 DEF OpInv, AwaitInv, Answered, Outcome, next
<1>5. op[x].cont = "completed" => iis[x] = "none" /\ \A t \in CallbackThreads : ~Answering(t, x)
  BY <1>0 DEF OpInv, PartyInv, UnderWay
<1>6. op[x].cont = "null" => UnderWay(x)'
  BY <1>2, <1>3 DEF UnderWay, next
<1>7. UpgradeInv'
  <2>1. task'[Flush] = "result" => op[Flush].cont = "completed" \/ task[Flush] = "result"
    BY <1>1, <1>2 DEF Ops, next
  <2>2. op'[Flush].cont = "completed" => op[Flush].cont = "completed"
    BY <1>3 DEF Ops
  <2>3. next \in {"waiting", "result"}
    BY DEF next
  <2> QED BY <1>0, <1>1, <1>2, <2>1, <2>2, <2>3 DEF UpgradeInv, Answering, Ops, Flush, Read, Write
<1>8. \A t \in CallbackThreads : Answering(t, x) => cb[t].at # "freeAndInvoke"
  BY <1>0, <1>1 DEF OpInv, PartyInv
<1>9. next \in {"waiting", "result"} /\ (op'[x].cont = "completed" => op[x].cont = "completed")
  BY <1>3 DEF next
<1>10. /\ iis[x] # "none" \/ (\E t \in CallbackThreads : Answering(t, x)) => UnderWay(x)'
       /\ \A t \in CallbackThreads : Answering(t, x) /\ cb[t].at = "freeAndInvoke" => next = "waiting"
  BY <1>1, <1>5, <1>6, <1>8
<1>11. main' \in MainPlaces /\ flushStored' \in BOOLEAN
  BY <1>0, <1>2 DEF Types, TypeOK, MainPlaces
<1> QED BY <1>2, <1>3, <1>4, <1>7, <1>9, <1>10, <1>11, TaskKeeps

-----------------------------------------------------------------------------
(* An operation between two calls.                                         *)
LEMMA BetweenCalls ==
  ASSUME NEW x \in Ops, op'[x] = ResetOperation(op[x]), iis'[x] = "none",
         \A t \in CallbackThreads : ~Answering(t, x)',
         task'[x] \in {"none", "call", "pipe", "done"}
  PROVE  OpInv(x)'
<1>1. op'[x].cont = "null" /\ ~op'[x].state /\ Fresh(x)'
  BY ResetGives DEF Fresh
<1>2. PartyInv(x)'
  BY DEF PartyInv
<1>3. AwaitInv(x)'
  BY <1>1 DEF AwaitInv
<1>4. PinInv(x)'
  BY DEF PinInv
<1> QED BY <1>2, <1>3, <1>4 DEF OpInv

(* The task that takes the result is alone with the operation.             *)
LEMMA GotGives ==
  ASSUME SocketInv, NEW x \in Ops, Got(x)
  PROVE  /\ task' \in [Ops -> TaskPlaces] /\ main' \in MainPlaces => Types'
         /\ task'[x] \in {"none", "call", "pipe", "done"} => OpInv(x)'
         /\ \A y \in Ops \ {x} : task'[y] = task[y] => OpInv(y)'
         /\ op'[x].cont = "null" /\ \A y \in Ops \ {x} : op'[y] = op[y]
<1>0. Types /\ OpInv(x) /\ op \in [Ops -> Operation]
  BY DEF SocketInv, Types, TypeOK, Operation
<1>1. /\ op'[x] = ResetOperation(op[x]) /\ op' \in [Ops -> Operation]
      /\ \A y \in Ops \ {x} : op'[y] = op[y] /\ due'[y] = due[y]
      /\ due' \in [Ops -> Answer]
  BY <1>0, ResetGives DEF Got, Types, Answer
<1>2. UNCHANGED <<initialized, flushStored, iis, cb, overtaken, unexpected>>
  BY DEF Got
<1>3. iis[x] = "none" /\ \A t \in CallbackThreads : ~Answering(t, x)
  BY <1>0 DEF Got, OpInv, PartyInv, UnderWay
<1>4. op'[x].cont = "null"
  BY <1>1, ResetGives
<1>5. \A y \in Ops : op'[y].cont = "completed" => op'[y].result # "min"
  BY <1>0, <1>1, <1>4 DEF Types, TypeOK
<1>6. task'[x] \in {"none", "call", "pipe", "done"} => OpInv(x)'
  BY <1>1, <1>2, <1>3, BetweenCalls DEF Answering
<1>7. ASSUME NEW y \in Ops \ {x}, task'[y] = task[y] PROVE OpInv(y)'
  BY <1>0, <1>1, <1>2, <1>7, Untouched DEF SocketInv
<1>8. ASSUME task' \in [Ops -> TaskPlaces], main' \in MainPlaces
      PROVE  Types'
  BY <1>0, <1>1, <1>2, <1>5, <1>8 DEF Types, TypeOK, Operation, TaskPlaces, MainPlaces
<1> QED BY <1>1, <1>4, <1>6, <1>7, <1>8

-----------------------------------------------------------------------------
(* The tasks of the request.                                               *)

LEMMA UpgradedKeeps == SocketInv /\ Upgraded => SocketInv'
<1> SUFFICES ASSUME SocketInv, Upgraded PROVE SocketInv'
  OBVIOUS
<1> USE DEF Ops, Flush, Read, Write
<1>0. Types /\ UpgradeInv /\ task \in [Ops -> TaskPlaces]
  BY DEF SocketInv, Types, TypeOK, TaskPlaces
<1>1. Got(Flush) /\ task[Flush] = "result" /\ main' = "app"
  BY DEF Upgraded, Got
<1> DEFINE next == IF Outcome(op[Flush]) = "failed" THEN "none" ELSE "pipe"
<1>2. /\ task' = [task EXCEPT ![Flush] = "done", ![Write] = next] /\ task'[Flush] = "done"
      /\ task'[Write] = next /\ task'[Read] = task[Read] /\ next \in {"none", "pipe"}
      /\ task' \in [Ops -> TaskPlaces]
  BY <1>0 DEF Upgraded, TaskPlaces
<1> HIDE DEF next
<1>3. main = "upgrading" /\ task[Write] = "none"
  BY <1>0, <1>1 DEF UpgradeInv
<1>4. Types' /\ OpInv(Flush)' /\ OpInv(Read)'
  BY <1>1, <1>2, GotGives DEF MainPlaces
<1>5. OpInv(Write)'
  <2>1. OpInv(Write) /\ op'[Write] = op[Write] /\ UNCHANGED <<iis, cb, overtaken>> /\ due'[Write] = due[Write]
    BY <1>0, <1>1, GotGives DEF SocketInv, Got, Types
  <2>2. iis[Write] = "none" /\ \A t \in CallbackThreads : ~Answering(t, Write)
    BY <1>3, <2>1 DEF OpInv, PartyInv, UnderWay
  <2>3. op[Write].cont = "null" /\ ~op[Write].state /\ Fresh(Write)
    BY <1>3, <2>1 DEF OpInv, AwaitInv
  <2>4. PartyInv(Write)'
    BY <2>1, <2>2 DEF PartyInv, Answering
  <2>5. AwaitInv(Write)'
    BY <1>2, <2>1, <2>3 DEF AwaitInv, Fresh
  <2>6. PinInv(Write)'
    BY <2>1, <2>2 DEF PinInv
  <2> QED BY <2>4, <2>5, <2>6 DEF OpInv
<1>6. UpgradeInv'
  BY <1>0, <1>1, <1>2, <1>3 DEF UpgradeInv, Got
<1> QED BY <1>4, <1>5, <1>6 DEF SocketInv

(* What the upgrade promises does not depend on reads and writes.          *)
LEMMA UpgradeUntouched ==
  ASSUME UpgradeInv, task'[Flush] = task[Flush],
         op'[Flush].cont = "completed" => op[Flush].cont = "completed",
         main = "upgrading" => task' = task,
         main' = "upgrading" <=> main = "upgrading", UNCHANGED <<initialized, flushStored>>,
         \A t \in CallbackThreads : Answering(t, Flush)' => Answering(t, Flush) /\ cb'[t] = cb[t]
  PROVE  UpgradeInv'
  BY DEF UpgradeInv

LEMMA ReadBodyGetsKeeps == SocketInv /\ ReadBodyGets => SocketInv'
<1> SUFFICES ASSUME SocketInv, ReadBodyGets PROVE SocketInv'
  OBVIOUS
<1> USE DEF Ops, Flush, Read, Write
<1>0. Types /\ UpgradeInv /\ task \in [Ops -> TaskPlaces] /\ main \in MainPlaces
  BY DEF SocketInv, Types, TypeOK, TaskPlaces, MainPlaces
<1> DEFINE next == IF Outcome(op[Read]) \in {"end", "failed"} THEN "done" ELSE "pipe"
<1>1. /\ Got(Read) /\ task' = [task EXCEPT ![Read] = next] /\ UNCHANGED main
      /\ next \in {"done", "pipe"} /\ task[Read] = "result"
  BY DEF ReadBodyGets, requestVars, Got
<1> HIDE DEF next
<1>2. /\ task' \in [Ops -> TaskPlaces] /\ task'[Read] = next
      /\ task'[Flush] = task[Flush] /\ task'[Write] = task[Write]
  BY <1>0, <1>1 DEF TaskPlaces
<1>3. Types' /\ OpInv(Read)' /\ OpInv(Flush)' /\ OpInv(Write)' /\ op'[Flush] = op[Flush]
  BY <1>0, <1>1, <1>2, GotGives
<1>4. UpgradeInv'
  BY <1>0, <1>1, <1>2, <1>3 DEF UpgradeInv, Got, Answering
<1> QED BY <1>3, <1>4 DEF SocketInv

LEMMA WriteBodyGetsKeeps == SocketInv /\ WriteBodyGets => SocketInv'
<1> SUFFICES ASSUME SocketInv, WriteBodyGets PROVE SocketInv'
  OBVIOUS
<1> USE DEF Ops, Flush, Read, Write
<1>0. Types /\ UpgradeInv /\ task \in [Ops -> TaskPlaces] /\ main \in MainPlaces
  BY DEF SocketInv, Types, TypeOK, TaskPlaces, MainPlaces
<1> DEFINE next == IF Outcome(op[Write]) = "failed" THEN "done" ELSE "pipe"
<1>1. /\ Got(Write) /\ task' = [task EXCEPT ![Write] = next] /\ UNCHANGED main
      /\ next \in {"done", "pipe"} /\ task[Write] = "result"
  BY DEF WriteBodyGets, requestVars, Got
<1> HIDE DEF next
<1>2. /\ task' \in [Ops -> TaskPlaces] /\ task'[Write] = next
      /\ task'[Flush] = task[Flush] /\ task'[Read] = task[Read]
  BY <1>0, <1>1 DEF TaskPlaces
<1>3. Types' /\ OpInv(Read)' /\ OpInv(Flush)' /\ OpInv(Write)' /\ op'[Flush] = op[Flush]
  BY <1>0, <1>1, <1>2, GotGives
<1>4. UpgradeInv'
  BY <1>0, <1>1, <1>2, <1>3 DEF UpgradeInv, Got, Answering
<1> QED BY <1>3, <1>4 DEF SocketInv

(* A task between two calls goes on to the pipe, to the next call, or out. *)
LEMMA BetweenKeeps ==
  ASSUME SocketInv, NEW x \in Ops \ {Flush}, task[x] \in {"none", "pipe"}, main # "upgrading",
         NEW next \in {"call", "pipe", "done"}, task' = [task EXCEPT ![x] = next],
         UNCHANGED engineVars, UNCHANGED main
  PROVE  SocketInv'
<1>0. Types /\ UpgradeInv /\ OpInv(x) /\ task \in [Ops -> TaskPlaces] /\ op \in [Ops -> Operation]
  BY DEF SocketInv, Types, TypeOK, TaskPlaces, Operation
<1>1. /\ UNCHANGED <<initialized, flushStored, op, iis, due, cb, overtaken, unexpected>>
      /\ task'[x] = next /\ task'[Flush] = task[Flush]
  BY <1>0 DEF engineVars, Ops
<1>2. iis[x] = "none" /\ \A t \in CallbackThreads : ~Answering(t, x)
  BY <1>0 DEF OpInv, PartyInv, UnderWay
<1>3. AwaitInv(x)'
  BY <1>0, <1>1 DEF OpInv, AwaitInv, Fresh, Answered
<1>4. UpgradeInv'
  BY <1>0, <1>1, UpgradeUntouched DEF Answering
<1> QED BY <1>0, <1>1, <1>2, <1>3, <1>4, TaskKeeps DEF Types, TypeOK, MainPlaces

LEMMA PumpsKeep ==
  SocketInv /\ (AppReads \/ ReadBodyFlushes \/ WriteBodyReads) => SocketInv'
<1> SUFFICES ASSUME SocketInv, AppReads \/ ReadBodyFlushes \/ WriteBodyReads PROVE SocketInv'
  OBVIOUS
<1>0. UpgradeInv /\ Read \in Ops \ {Flush} /\ Write \in Ops \ {Flush}
  BY DEF SocketInv, Ops, Flush, Read, Write
<1>1. CASE AppReads
  BY <1>0, <1>1, BetweenKeeps DEF AppReads, requestVars
<1>2. CASE ReadBodyFlushes
  BY <1>0, <1>2, BetweenKeeps DEF ReadBodyFlushes, requestVars, UpgradeInv
<1>3. CASE WriteBodyReads
  BY <1>0, <1>3, BetweenKeeps DEF WriteBodyReads, UpgradeInv
<1> QED BY <1>1, <1>2, <1>3

(* Steps that leave the engine, or all of it but what IIS has to cancel,   *)
(* alone.                                                                  *)
LEMMA MainKeeps ==
  ASSUME SocketInv, main' \in MainPlaces \ {"upgrading"}, main # "upgrading",
         UNCHANGED <<initialized, flushStored, op, due, cb, overtaken, unexpected, task>>,
         \/ iis' = iis
         \/ CancelIO
  PROVE  SocketInv'
<1>0. Types /\ UpgradeInv
  BY DEF SocketInv
<1>1. /\ iis' \in [Ops -> {"none", "pending", "cancelled", "late"}]
      /\ \A x \in Ops : iis'[x] = "none" <=> iis[x] = "none"
  BY <1>0 DEF CancelIO, Types, TypeOK
<1>2. Types'
  BY <1>0, <1>1 DEF Types, TypeOK, MainPlaces
<1>3. UpgradeInv'
  BY <1>0, UpgradeUntouched DEF Answering
<1>4. ASSUME NEW x \in Ops PROVE OpInv(x)'
  <2>0. OpInv(x)
    BY DEF SocketInv
  <2>1. PartyInv(x)'
    BY <1>1, <2>0 DEF OpInv, PartyInv, Answering, UnderWay, Fresh, Answered
  <2>2. AwaitInv(x)'
    BY <2>0 DEF OpInv, AwaitInv, Fresh, Answered
  <2>3. PinInv(x)'
    BY <1>1, <2>0 DEF OpInv, PinInv
  <2> QED BY <2>1, <2>2, <2>3 DEF OpInv
<1> QED BY <1>2, <1>3, <1>4 DEF SocketInv

LEMMA EndKeeps ==
  SocketInv /\ (AppWrites \/ CompletePipes \/ Dispose \/ CompleteRequest) => SocketInv'
  BY MainKeeps DEF AppWrites, CompletePipes, Dispose, CompleteRequest, engineVars, MainPlaces

-----------------------------------------------------------------------------
(* The callbacks.                                                          *)

(* What a step of callback t does to the callbacks.                        *)
Moved(t, at) ==
  /\ cb' \in [CallbackThreads -> [at : Places, x : Ops, hr : Answer]]
  /\ \A u \in CallbackThreads \ {t} : cb'[u] = cb[u]
  /\ cb'[t].at = at /\ (at # "idle" => cb'[t].x = cb[t].x)

LEMMA GotoGives ==
  ASSUME Types, NEW t \in CallbackThreads, NEW at \in Places, Goto(t, at)
  PROVE  Moved(t, at) /\ cb'[t].hr = cb[t].hr /\ cb'[t].x = cb[t].x
  BY DEF Types, Goto, Moved

LEMMA ReturnsGives ==
  ASSUME Types, NEW t \in CallbackThreads, Returns(t)
  PROVE  Moved(t, "idle")
  BY DEF Types, Returns, Moved, Idle, Places, Answer, Ops

(* A callback works on its own operation only.                             *)
LEMMA CallbackLeaves ==
  ASSUME SocketInv, NEW t \in CallbackThreads, NEW at \in Places, Moved(t, at),
         NEW y \in Ops, y # cb[t].x, op'[y] = op[y], task'[y] = task[y],
         UNCHANGED <<iis, due, overtaken>>
  PROVE  OpInv(y)'
<1>1. \A u \in CallbackThreads : cb'[u].x = y /\ cb'[u].at # "idle" => cb'[u] = cb[u]
  BY DEF Moved
<1> QED BY <1>1, Untouched DEF SocketInv

LEMMA NotifyCompletionKeeps ==
  ASSUME SocketInv, NEW t \in CallbackThreads, NotifyCompletion(t)
  PROVE  SocketInv'
<1> DEFINE at == IF flushStored THEN "set" ELSE "idle"
<1>0. Types /\ UpgradeInv /\ OpInv(Flush) /\ Flush \in Ops /\ cb[t].x \in Ops
  BY DEF SocketInv, Ops, Types
<1>1. /\ cb[t].at = "notify" /\ initialized' = TRUE
      /\ UNCHANGED <<flushStored, op, iis, due, overtaken, main, task>>
  BY DEF NotifyCompletion, SetInitialized, requestVars
<1>2. cb[t].x = Flush
  BY <1>0, <1>1 DEF SocketInv, OpInv, PartyInv, Answering
<1>3. Moved(t, at) /\ (flushStored => cb'[t].hr = cb[t].hr)
  BY <1>0, GotoGives, ReturnsGives DEF NotifyCompletion, Places
<1>4. at \in Places
  BY DEF Places
<1> HIDE DEF at
<1>5. Types'
  BY <1>0, <1>1, <1>3 DEF Types, TypeOK, Moved
<1>6. ASSUME NEW y \in Ops, y # Flush PROVE OpInv(y)'
  BY <1>1, <1>2, <1>3, <1>4, <1>6, CallbackLeaves
<1>7. OpInv(Flush)'
  <2>1. flushStored => task[Flush] # "store"
    BY <1>0 DEF UpgradeInv
  <2>2. \A u \in CallbackThreads : Answering(u, Flush)' => Answering(u, Flush)
    BY <1>1, <1>2, <1>3, <1>4 DEF Answering, Moved, at
  <2>3. PartyInv(Flush)'
    <3>1. \A u, v \in CallbackThreads : Answering(u, Flush)' /\ Answering(v, Flush)' => u = v
      BY <1>0, <2>2 DEF OpInv, PartyInv
    <3>2. iis'[Flush] = "none" /\ UnderWay(Flush)' /\ Fresh(Flush)' /\ cb[t].hr = due[Flush]
          /\ due[Flush] \in Answers(Flush)
      BY <1>0, <1>1, <1>2 DEF OpInv, PartyInv, Answering, UnderWay, Fresh
    <3>3. ASSUME NEW u \in CallbackThreads, Answering(u, Flush)'
          PROVE  u = t /\ flushStored /\ cb'[t].at = "set"
      BY <1>0, <1>1, <1>2, <1>3, <2>2, <3>3 DEF OpInv, PartyInv, Answering, Moved, at
    <3> QED BY <1>1, <1>3, <2>1, <3>1, <3>2, <3>3 DEF PartyInv
  <2>4. AwaitInv(Flush)'
    BY <1>0, <1>1 DEF OpInv, AwaitInv, Fresh, Answered
  <2>5. PinInv(Flush)'
    BY <1>0, <1>1, <1>2 DEF OpInv, PinInv, PartyInv, Answering
  <2> QED BY <2>3, <2>4, <2>5 DEF OpInv
<1>8. UpgradeInv'
  BY <1>0, <1>1 DEF UpgradeInv
<1> QED BY <1>5, <1>6, <1>7, <1>8 DEF SocketInv

(* AsyncIOOperation.Complete: the result is stored before the exchange, so *)
(* whoever finds the operation completed finds the answer in it.           *)
LEMMA SetsKeeps ==
  ASSUME SocketInv, NEW t \in CallbackThreads, cb[t].at = "set", Sets(t), Goto(t, "exchange"),
         NEW x \in Ops, x = cb[t].x, NEW hr, hr = cb[t].hr,
         UNCHANGED <<initialized, flushStored, iis, due, overtaken, unexpected, requestVars, task>>
  PROVE  SocketInv'
<1>0. Types /\ UpgradeInv /\ x \in Ops /\ op \in [Ops -> Operation]
  BY DEF SocketInv, Types, TypeOK, Operation
<1>1. /\ OpInv(x) /\ Answering(t, x) /\ UnderWay(x) /\ Fresh(x) /\ iis[x] = "none"
      /\ hr = due[x] /\ hr \in Answers(x) /\ task[x] # "store"
      /\ \A u \in CallbackThreads : Answering(u, x) => u = t
  BY <1>0 DEF SocketInv, OpInv, PartyInv, Answering
<1>2. Moved(t, "exchange") /\ "exchange" \in Places
  BY <1>0, GotoGives DEF Places
<1>3. op' = [op EXCEPT ![x] = SetResult(op[x], hr)]
  BY DEF Sets
<1>4. /\ SetResult(op[x], hr) \in Operation /\ op'[x] = SetResult(op[x], hr)
      /\ op'[x].result = hr /\ hr # "min" /\ Outcome(op'[x]) = hr /\ op'[x].cont = op[x].cont
      /\ op'[x].state = op[x].state /\ op'[x].pinned = op[x].pinned
  <2>1. hr \in {"data", "end", "aborted", "failed"} /\ op[x] \in Operation
    BY <1>0, <1>1 DEF Answers
  <2> QED BY <1>0, <1>1, <1>3, <2>1, SetResultGives, ZenonT(40) DEF Fresh
<1>5. op' \in [Ops -> Operation] /\ \A y \in Ops \ {x} : op'[y] = op[y]
  BY <1>0, <1>3, <1>4
<1>6. Types'
  BY <1>0, <1>2, <1>4, <1>5 DEF Types, TypeOK, Moved, Operation, requestVars
<1>7. ASSUME NEW y \in Ops, y # x PROVE OpInv(y)'
  BY <1>2, <1>5, <1>7, CallbackLeaves
<1>8. OpInv(x)'
  <2>1. Answered(x)' /\ UnderWay(x)'
    BY <1>1, <1>4 DEF Answered, UnderWay
  <2>2. \A u \in CallbackThreads : Answering(u, x)' => u = t
    BY <1>1, <1>2 DEF Answering, Moved
  <2>3. PartyInv(x)'
    BY <1>1, <1>2, <2>1, <2>2 DEF PartyInv, Moved
  <2>4. AwaitInv(x)'
    <3>1. task[x] \in {"await", "register", "waiting"} /\ op[x].cont # "completed"
      BY <1>1 DEF UnderWay
    <3> QED BY <1>1, <1>4, <3>1 DEF OpInv, AwaitInv
  <2>5. PinInv(x)'
    BY <1>1 DEF PinInv
  <2> QED BY <2>3, <2>4, <2>5 DEF OpInv
<1>9. UpgradeInv'
  <2>1. op'[Flush].cont = op[Flush].cont /\ cb[t].at = "set"
    BY <1>4, <1>5 DEF Ops
  <2>2. \A u \in CallbackThreads : Answering(u, Flush)' => 
          Answering(u, Flush) /\ (cb'[u].at # "notify" => cb[u].at # "notify")
    BY <1>2 DEF Answering, Moved
  <2> QED BY <1>0, <2>1, <2>2 DEF UpgradeInv, requestVars
<1> QED BY <1>6, <1>7, <1>8, <1>9 DEF SocketInv

(* The exchange decides who goes on: the awaiter that is registered, or    *)
(* the one that is still to come and finds the operation completed.        *)
LEMMA ExchangesKeeps ==
  ASSUME SocketInv, NEW t \in CallbackThreads, cb[t].at = "exchange", Exchanges(t),
         NEW x \in Ops, x = cb[t].x,
         UNCHANGED <<initialized, flushStored, iis, due, overtaken, unexpected, requestVars, task>>
  PROVE  SocketInv'
<1> DEFINE at == IF op[x].cont = "awaiter" THEN "freeAndInvoke" ELSE "free"
<1>0. Types /\ UpgradeInv /\ x \in Ops /\ op \in [Ops -> Operation]
  BY DEF SocketInv, Types, TypeOK, Operation
<1>1. /\ OpInv(x) /\ Answering(t, x) /\ UnderWay(x) /\ Answered(x) /\ iis[x] = "none"
      /\ task[x] # "store" /\ \A u \in CallbackThreads : Answering(u, x) => u = t
  BY <1>0 DEF SocketInv, OpInv, PartyInv, Answering
<1>2. Moved(t, at) /\ at \in Places
  BY <1>0, ZenonT(40) DEF Exchanges, Types, Moved, Places, Answer
<1>3. op' = [op EXCEPT ![x] = Exchange(op[x])]
  BY DEF Exchanges
<1>4. /\ op'[x] = Exchange(op[x]) /\ op' \in [Ops -> Operation]
      /\ \A y \in Ops \ {x} : op'[y] = op[y]
      /\ op'[x].cont = (IF op[x].cont = "null" THEN "completed" ELSE op[x].cont)
      /\ op'[x].result = op[x].result /\ op'[x].failed = op[x].failed
      /\ op'[x].state = op[x].state /\ op'[x].pinned = op[x].pinned
  BY <1>0, <1>3, ExchangeGives
<1>5. Answered(x)'
  BY <1>1, <1>4 DEF Answered, Outcome
<1>6. Types'
  BY <1>0, <1>2, <1>4, <1>5 DEF Types, TypeOK, Moved, Operation, requestVars, Answered
<1>7. ASSUME NEW y \in Ops, y # x PROVE OpInv(y)'
  BY <1>2, <1>4, <1>7, CallbackLeaves
<1>8. OpInv(x)'
  <2>1. op[x].cont \in {"null", "awaiter"} /\ task[x] \in {"await", "register", "waiting"}
    BY <1>0, <1>1 DEF UnderWay, Operation
  <2>2. \A u \in CallbackThreads : Answering(u, x)' => u = t /\ op[x].cont = "awaiter"
    BY <1>1, <1>2 DEF Answering, Moved
  <2>3. op[x].cont = "awaiter" => task[x] = "waiting" /\ UnderWay(x)'
    BY <1>1, <1>4, <2>1 DEF OpInv, AwaitInv, UnderWay
  <2>4. PartyInv(x)'
    BY <1>1, <1>2, <1>5, <2>2, <2>3 DEF PartyInv, Moved
  <2>5. AwaitInv(x)'
    BY <1>1, <1>4, <1>5, <2>1 DEF OpInv, AwaitInv
  <2>6. PinInv(x)'
    BY <1>1 DEF PinInv
  <2> QED BY <2>4, <2>5, <2>6 DEF OpInv
<1>9. UpgradeInv'
  <2>1. \A u \in CallbackThreads : Answering(u, Flush)' =>
          Answering(u, Flush) /\ (cb'[u].at # "notify" => cb[u].at # "notify")
    BY <1>2 DEF Answering, Moved
  <2>2. op'[Flush].cont = "completed" => op[Flush].cont = "completed" \/ x = Flush
    BY <1>4 DEF Ops
  <2>3. x = Flush => initialized
    BY <1>0, <1>1 DEF UpgradeInv
  <2> QED BY <1>0, <2>1, <2>2, <2>3 DEF UpgradeInv, requestVars
<1> QED BY <1>6, <1>7, <1>8, <1>9 DEF SocketInv

LEMMA CompleteKeeps ==
  ASSUME SocketInv, NEW t \in CallbackThreads, Complete(t)
  PROVE  SocketInv'
<1>1. cb[t].x \in Ops
  BY DEF SocketInv, Types
<1> QED BY <1>1, SetsKeeps, ExchangesKeeps DEF Complete

(* FreeOperationResources comes after the operation was handed on: it may  *)
(* unpin the buffer of the next call, and only a call that was overtaken.  *)
LEMMA FreesKeeps ==
  ASSUME SocketInv, NEW t \in CallbackThreads, Frees(t)
  PROVE  SocketInv'
<1>0. PICK x \in Ops : x = cb[t].x
  BY DEF SocketInv, Types
<1>1. Types /\ UpgradeInv /\ OpInv(x) /\ op \in [Ops -> Operation]
  BY DEF SocketInv, Types, TypeOK, Operation
<1>2. /\ cb[t].at \in {"free", "freeAndInvoke"}
      /\ op' = [op EXCEPT ![x] = FreeOperationResources(op[x])]
      /\ flushStored' = (flushStored /\ x # Flush)
      /\ task' = IF cb[t].at = "freeAndInvoke" THEN [task EXCEPT ![x] = "result"] ELSE task
      /\ UNCHANGED <<initialized, iis, due, overtaken, unexpected, main>>
  BY <1>0 DEF Frees, requestVars
<1>3. Moved(t, "idle") /\ "idle" \in Places
  BY <1>1, ReturnsGives DEF Frees, Places
<1>4. /\ op' \in [Ops -> Operation] /\ \A y \in Ops \ {x} : op'[y] = op[y]
      /\ op'[x].cont = op[x].cont /\ op'[x].result = op[x].result
      /\ op'[x].failed = op[x].failed /\ op'[x].state = op[x].state
  BY <1>1, <1>2, FreeGives
<1>5. /\ task' \in [Ops -> TaskPlaces] /\ \A y \in Ops \ {x} : task'[y] = task[y]
      /\ task'[x] = IF cb[t].at = "freeAndInvoke" THEN "result" ELSE task[x]
  BY <1>1, <1>2 DEF Types, TypeOK, TaskPlaces
<1>6. Types'
  BY <1>1, <1>2, <1>3, <1>4, <1>5 DEF Types, TypeOK, Moved, Operation, TaskPlaces
<1>7. ASSUME NEW y \in Ops, y # x PROVE OpInv(y)'
  BY <1>0, <1>2, <1>3, <1>4, <1>5, <1>7, CallbackLeaves
<1>8. cb[t].at = "freeAndInvoke" =>
        /\ Answering(t, x) /\ Answered(x) /\ task[x] = "waiting" /\ iis[x] = "none"
        /\ op[x].cont # "completed" /\ \A u \in CallbackThreads : Answering(u, x) => u = t
  BY <1>0, <1>1 DEF OpInv, PartyInv, Answering, UnderWay
<1>9. \A u \in CallbackThreads : Answering(u, x)' => u # t /\ Answering(u, x) /\ cb'[u] = cb[u]
  BY <1>3 DEF Answering, Moved
<1>10. OpInv(x)'
  <2>1. CASE cb[t].at = "freeAndInvoke"
    <3>1. PartyInv(x)'
      BY <1>2, <1>8, <1>9, <2>1 DEF PartyInv
    <3>2. Answered(x)'
      BY <1>2, <1>4, <1>8, <2>1 DEF Answered, Outcome
    <3>3. AwaitInv(x)'
      BY <1>4, <1>5, <1>8, <2>1, <3>2 DEF AwaitInv
    <3>4. PinInv(x)'
      BY <1>2, <1>8, <2>1 DEF PinInv
    <3> QED BY <3>1, <3>3, <3>4 DEF OpInv
  <2>2. CASE cb[t].at = "free"
    <3>1. task'[x] = task[x]
      BY <1>5, <2>2
    <3>2. PartyInv(x)'
      <4>1. /\ UnderWay(x) => UnderWay(x)'
            /\ Fresh(x) => Fresh(x)'
            /\ Answered(x) => Answered(x)'
        BY <1>2, <1>4, <3>1 DEF UnderWay, Fresh, Answered, Outcome
      <4> QED BY <1>1, <1>2, <1>9, <3>1, <4>1 DEF OpInv, PartyInv
    <3>3. AwaitInv(x)'
      BY <1>1, <1>2, <1>4, <3>1 DEF OpInv, AwaitInv, Fresh, Answered, Outcome
    <3>4. iis[x] # "none" => overtaken[x]
      BY <1>0, <1>1, <2>2 DEF OpInv, PinInv
    <3>5. PinInv(x)'
      BY <1>2, <3>4 DEF PinInv
    <3> QED BY <3>2, <3>3, <3>5 DEF OpInv
  <2> QED BY <1>2, <2>1, <2>2
<1>11. UpgradeInv'
  <2>1. \A u \in CallbackThreads : Answering(u, Flush)' =>
          Answering(u, Flush) /\ (cb'[u].at # "notify" => cb[u].at # "notify")
    BY <1>3 DEF Answering, Moved
  <2>2. op'[Flush].cont = op[Flush].cont
    BY <1>4 DEF Ops
  <2>3. task'[Flush] # task[Flush] =>
          task'[Flush] = "result" /\ task[Flush] = "waiting" /\ initialized
    <3>1. ASSUME task'[Flush] # task[Flush]
          PROVE  x = Flush /\ cb[t].at = "freeAndInvoke"
      BY <1>5, <3>1 DEF Ops
    <3> QED BY <1>1, <1>5, <1>8, <3>1 DEF UpgradeInv
  <2>4. main = "upgrading" => task'[Read] = task[Read] /\ task'[Write] = task[Write]
    <3>1. ASSUME main = "upgrading", cb[t].at = "freeAndInvoke"
          PROVE  x = Flush
      BY <1>1, <1>8, <3>1 DEF UpgradeInv, Ops
    <3> QED BY <1>5, <3>1 DEF Ops, Flush, Read, Write
  <2> QED BY <1>1, <1>2, <2>1, <2>2, <2>3, <2>4 DEF UpgradeInv
<1> QED BY <1>6, <1>7, <1>10, <1>11 DEF SocketInv

(* IIS hands its answer to a callback of its own.                          *)
LEMMA IISAnswersKeeps ==
  ASSUME SocketInv, NEW x \in Ops, IISAnswers(x)
  PROVE  SocketInv'
<1>0. Types /\ UpgradeInv /\ OpInv(x)
  BY DEF SocketInv
<1>1. PICK hr \in Answers(x), t \in CallbackThreads :
        /\ due' = [due EXCEPT ![x] = hr] /\ cb[t] = Idle
        /\ cb' = [cb EXCEPT ![t] = [at |-> IF x = Flush THEN "notify" ELSE "set",
                                    x |-> x, hr |-> hr]]
  BY DEF IISAnswers, Answers, CallbackThreads
<1>2. /\ iis[x] # "none" /\ iis' = [iis EXCEPT ![x] = "none"]
      /\ overtaken' = [overtaken EXCEPT ![x] = FALSE]
      /\ UNCHANGED <<initialized, flushStored, op, unexpected, main, task>>
  BY DEF IISAnswers, requestVars
<1>3. hr \in Answer /\ hr # "none"
  BY DEF Answers, Answer
<1>4. /\ cb' \in [CallbackThreads -> [at : Places, x : Ops, hr : Answer]]
      /\ cb'[t].at = (IF x = Flush THEN "notify" ELSE "set") /\ cb'[t].x = x /\ cb'[t].hr = hr
      /\ \A u \in CallbackThreads \ {t} : cb'[u] = cb[u]
  BY <1>0, <1>1, <1>3 DEF Types, Places
<1>5. Types'
  BY <1>0, <1>1, <1>2, <1>3, <1>4 DEF Types, TypeOK
<1>6. /\ iis'[x] = "none" /\ due'[x] = hr
      /\ \A y \in Ops \ {x} : iis'[y] = iis[y] /\ due'[y] = due[y] /\ overtaken'[y] = overtaken[y]
  BY <1>0, <1>1, <1>2 DEF Types, TypeOK
<1>7. ASSUME NEW y \in Ops, y # x PROVE OpInv(y)'
  <2>1. \A u \in CallbackThreads : cb'[u].x = y /\ cb'[u].at # "idle" => cb'[u] = cb[u]
    BY <1>4, <1>7
  <2> QED BY <1>0, <1>2, <1>6, <1>7, <2>1, Untouched DEF SocketInv
<1>8. UnderWay(x) /\ Fresh(x) /\ \A u \in CallbackThreads : ~Answering(u, x)
  BY <1>0, <1>2 DEF OpInv, PartyInv
<1>9. \A u \in CallbackThreads : Answering(u, x)' => u = t
  BY <1>4, <1>8 DEF Answering
<1>10. OpInv(x)'
  <2>1. x # Flush => task[x] # "store"
    BY <1>0 DEF OpInv, AwaitInv
  <2>2. PartyInv(x)'
    BY <1>2, <1>4, <1>6, <1>8, <1>9, <2>1 DEF PartyInv, UnderWay, Fresh
  <2>3. AwaitInv(x)'
    BY <1>0, <1>2, <1>8 DEF OpInv, AwaitInv, Fresh, UnderWay
  <2>4. PinInv(x)'
    BY <1>6 DEF PinInv
  <2> QED BY <2>2, <2>3, <2>4 DEF OpInv
<1>11. UpgradeInv'
  <2>1. \A u \in CallbackThreads : Answering(u, Flush)' /\ cb'[u].at # "notify" =>
          Answering(u, Flush) /\ cb[u].at # "notify"
    BY <1>4 DEF Answering
  <2> QED BY <1>0, <1>2, <2>1 DEF UpgradeInv
<1> QED BY <1>5, <1>7, <1>10, <1>11 DEF SocketInv

-----------------------------------------------------------------------------
(* Every step of IIS, of its threads, of the tasks of the request and of   *)
(* the application keeps the inductive invariant: one party at a time      *)
(* answers a call, and an operation that is marked completed carries the   *)
(* answer of the call that is under way.                                   *)
THEOREM SocketInvHolds == Spec => []SocketInv
<1>1. SocketInv /\ [Next]_vars => SocketInv'
  <2> SUFFICES ASSUME SocketInv, [Next]_vars PROVE SocketInv'
    OBVIOUS
  <2>1. ASSUME NEW x \in Ops, TaskNext(x) PROVE SocketInv'
    BY <2>1, GetStatusKeeps, OnCompletedKeeps, CallsKeeps DEF TaskNext
  <2>2. CASE PumpNext
    BY <2>2, ReadBodyGetsKeeps, WriteBodyGetsKeeps, PumpsKeep DEF PumpNext
  <2>3. CASE UpgradeNext
    BY <2>3, FlushCallsKeeps, FlushStoresKeeps, UpgradedKeeps DEF UpgradeNext
  <2>4. CASE AppReads
    BY <2>4, PumpsKeep
  <2>5. CASE AppWrites \/ CompletePipes \/ EndNext
    BY <2>5, EndKeeps DEF EndNext
  <2>6. ASSUME NEW t \in 1 .. Threads, CallbackNext(t) PROVE SocketInv'
    BY <2>6, NotifyCompletionKeeps, CompleteKeeps, FreesKeeps DEF CallbackNext, CallbackThreads
  <2>7. ASSUME NEW x \in Ops, IISAnswers(x) PROVE SocketInv'
    BY <2>7, IISAnswersKeeps
  <2>8. CASE UNCHANGED vars
    <3>1. UNCHANGED <<initialized, flushStored, op, iis, due, cb, overtaken, unexpected, main, task>>
      BY <2>8 DEF vars, engineVars, requestVars
    <3>2. Types' /\ UpgradeInv'
      BY <3>1 DEF SocketInv, Types, TypeOK, UpgradeInv, Answering
    <3>3. ASSUME NEW x \in Ops PROVE OpInv(x)'
      BY <3>1, Untouched DEF SocketInv
    <3> QED BY <3>2, <3>3 DEF SocketInv
  <2> QED BY <2>1, <2>2, <2>3, <2>4, <2>5, <2>6, <2>7, <2>8 DEF Next
<1> QED BY <1>1, Initially, PTL DEF Spec

(* GetResult never returns the result of another call, or one that has not *)
(* been stored yet; no operation is awaited twice and none is refused as   *)
(* not initialized, whichever thread completed the first flush.            *)
THEOREM OperationsSafeHolds == Spec => []OperationsSafe
<1>1. SocketInv => OperationsSafe
  BY DEF SocketInv, Types, OpInv, AwaitInv, OperationsSafe, NeverThrows, OwnResult, Answered
<1> QED BY <1>1, SocketInvHolds, PTL

(* IIS never reads into or writes from a buffer that is not pinned, except *)
(* in a call that overtook the callback of the one before it, which        *)
(* FreeOperationResources then unpins.                                     *)
THEOREM PinnedHolds == Spec => []PinnedWhilePending
<1>1. SocketInv => PinnedWhilePending
  BY DEF SocketInv, OpInv, PinInv, PinnedWhilePending, Ops
<1> QED BY <1>1, SocketInvHolds, PTL

=============================================================================
