----------------------- MODULE WebSocketsAsyncIOEngine -----------------------
(***************************************************************************)
(* The I/O of an upgraded request: WebSocketsAsyncIOEngine with its three  *)
(* pooled operations (AsyncIOOperation), and the tasks of IISHttpContext   *)
(* that await them, from UpgradeAsync to the completion of the request.    *)
(* Unlike AsyncIOEngine this engine has no lock and no queue: IIS calls    *)
(* back each operation on a thread of its own, so that a callback, the     *)
(* thread that made the call and the thread that awaits it meet in the     *)
(* operation.  Reads and writes run at the same time; there is one of each *)
(* because ReadBody and WriteBody await every call.                        *)
(***************************************************************************)
EXTENDS Integers

CONSTANTS
  Threads       \* the number of threads on which IIS calls back

ASSUME ThreadsAssumption == Threads \in Nat \ {0}

Flush == "flush"
Read  == "read"
Write == "write"
Ops   == {Flush, Read, Write}

Idle == [at |-> "idle", x |-> Flush, hr |-> "none"]

VARIABLES
  initialized,  \* _isInitialized
  flushStored,  \* _initializationFlush is set
  op,           \* the AsyncIOOperation objects
  iis,          \* the native call of each operation: none, pending, cancelled, or
                \* late when it was made after Dispose
  due,          \* what IIS has answered to a call whose result is not taken yet
  cb,           \* the callbacks: where they are, for which operation, with which hr
  task,         \* the await of UpgradeAsync, ReadBody and WriteBody
  main,         \* the application and ProcessRequestAsync
  closed,       \* the application's ends of both pipes are completed
  output,       \* there is data in the output pipe
  overtaken,    \* a call was made while a callback still freed the one before
  unexpected    \* NotifyCompletion has thrown "Unexpected completion"

engineVars == <<initialized, flushStored, op, iis, due, cb, overtaken, unexpected>>
requestVars == <<main, closed, output>>
vars == <<engineVars, requestVars, task>>

\* ResetOperation of AsyncIOOperation.  ReadOperation drops its pin here too,
\* the handles of a write are cleared.

ResetOperation(o) ==
  [cont |-> "null", state |-> FALSE, result |-> "min", failed |-> FALSE, pinned |-> FALSE]

Unused == [cont |-> "null", state |-> FALSE, result |-> "min", failed |-> FALSE, pinned |-> FALSE]

Init ==
  /\ initialized = FALSE /\ flushStored = FALSE
  /\ op = [x \in Ops |-> Unused]
  /\ iis = [x \in Ops |-> "none"]
  /\ due = [x \in Ops |-> "none"]
  /\ cb = [t \in 1 .. Threads |-> Idle]
  /\ task = [x \in Ops |-> IF x = Flush THEN "call" ELSE "none"]
  /\ main = "upgrading" /\ closed = FALSE /\ output = FALSE
  /\ overtaken = [x \in Ops |-> FALSE]
  /\ unexpected = FALSE

-----------------------------------------------------------------------------
\* AsyncIOOperation.

\* What IIS may answer; a read of 0 bytes is the end of the connection.
Answers(x) == {"data", "aborted", "failed"} \cup (IF x = Read THEN {"end"} ELSE {})

\* Complete up to the exchange: the result, or -1 for a call that was aborted.
SetResult(o, hr) ==
  IF hr = "aborted"
  THEN [o EXCEPT !.result = "aborted", !.failed = FALSE]
  ELSE [o EXCEPT !.result = hr, !.failed = @ \/ hr = "failed"]

\* Interlocked.CompareExchange(ref _continuation, CallbackCompleted, null).
Exchange(o) == [o EXCEPT !.cont = IF @ = "null" THEN "completed" ELSE @]

FreeOperationResources(o) == [o EXCEPT !.pinned = FALSE]

\* GetResult throws the exception, or returns the result.
Outcome(o) == IF o.failed THEN "failed" ELSE o.result

-----------------------------------------------------------------------------
\* Invoke: a call that IIS answers at once is completed by the caller.

\* Mutant: the buffer is unpinned as soon as the call has been made.
PinsForTheCall(o) == o
Pinned(o) == [o EXCEPT !.pinned = TRUE]

Overtakes(x) == \E t \in 1 .. Threads : cb[t].x = x /\ cb[t].at = "free"

InvokePending(x) ==
  /\ op' = [op EXCEPT ![x] = Pinned(@)]
  /\ iis' = [iis EXCEPT ![x] = IF main = "disposed" THEN "late" ELSE "pending"]
  /\ overtaken' = [overtaken EXCEPT ![x] = Overtakes(x)]
  /\ UNCHANGED due

InvokeCompletes(x) ==
  \E hr \in Answers(x) :
    /\ op' = [op EXCEPT ![x] = FreeOperationResources(Exchange(SetResult(Pinned(@), hr)))]
    /\ due' = [due EXCEPT ![x] = hr]
    /\ UNCHANGED <<iis, overtaken>>

\* FlushAsync of the first flush, in two steps when IIS answers later: the
\* operation is stored for NotifyCompletion after the call was made.
FlushCalls ==
  /\ task[Flush] = "call"
  /\ \/ /\ InvokePending(Flush)
        /\ task' = [task EXCEPT ![Flush] = "store"]
        /\ UNCHANGED initialized
     \/ /\ InvokeCompletes(Flush)
        /\ initialized' = TRUE
        /\ task' = [task EXCEPT ![Flush] = "await"]
  /\ UNCHANGED <<flushStored, cb, unexpected, requestVars>>

FlushStores ==
  /\ task[Flush] = "store"
  /\ flushStored' = TRUE
  /\ task' = [task EXCEPT ![Flush] = "await"]
  /\ UNCHANGED <<initialized, op, iis, due, cb, overtaken, unexpected, requestVars>>

\* ReadAsync and WriteAsync, after ThrowIfNotInitialized.
Calls(x) ==
  /\ task[x] = "call" /\ x # Flush
  /\ IF ~initialized
     THEN task' = [task EXCEPT ![x] = "refused"] /\ UNCHANGED <<op, iis, due, overtaken>>
     ELSE /\ InvokePending(x) \/ InvokeCompletes(x)
          /\ task' = [task EXCEPT ![x] = "await"]
  /\ UNCHANGED <<initialized, flushStored, cb, unexpected, requestVars>>

-----------------------------------------------------------------------------
\* The await: GetStatus, OnCompleted, GetResult.

GetStatus(x) ==
  /\ task[x] = "await"
  /\ task' = [task EXCEPT ![x] = IF op[x].cont = "null" THEN "register" ELSE "result"]
  /\ UNCHANGED <<engineVars, requestVars>>

\* Mutant: a callback that came first is not noticed.
RegistersBlindly(o) == "waiting"
Registered(o) == IF o.cont = "null" THEN "waiting" ELSE "result"

OnCompleted(x) ==
  /\ task[x] = "register"
  /\ IF op[x].state
     THEN task' = [task EXCEPT ![x] = "multiple"] /\ UNCHANGED op
     ELSE /\ op' = [op EXCEPT ![x].state = TRUE,
                              ![x].cont = IF @ = "null" THEN "awaiter" ELSE @]
          /\ task' = [task EXCEPT ![x] = Registered(op[x])]
  /\ UNCHANGED <<initialized, flushStored, iis, due, cb, overtaken, unexpected, requestVars>>

\* GetResult gives the operation back to the cache before the result is used.
Got(x) ==
  /\ task[x] = "result"
  /\ op' = [op EXCEPT ![x] = ResetOperation(@)]
  /\ due' = [due EXCEPT ![x] = "none"]
  /\ UNCHANGED <<initialized, flushStored, iis, cb, overtaken, unexpected>>

-----------------------------------------------------------------------------
\* The callbacks, on interchangeable threads: NotifyCompletion for the flush, ReadCallback, WriteCallback.

IISAnswers(x) ==
  /\ iis[x] # "none"
  /\ iis' = [iis EXCEPT ![x] = "none"]
  /\ \E hr \in IF iis[x] = "cancelled" THEN {"aborted"} ELSE Answers(x) :
       /\ due' = [due EXCEPT ![x] = hr]
       /\ \E t \in 1 .. Threads :
            /\ cb[t] = Idle /\ \A u \in 1 .. t - 1 : cb[u] # Idle
            /\ cb' = [cb EXCEPT ![t] = [at |-> IF x = Flush THEN "notify" ELSE "set",
                                        x |-> x, hr |-> hr]]
  /\ overtaken' = [overtaken EXCEPT ![x] = FALSE]
  /\ UNCHANGED <<initialized, flushStored, op, unexpected, requestVars, task>>

Goto(t, at) == cb' = [cb EXCEPT ![t].at = at]
Returns(t) == cb' = [cb EXCEPT ![t] = Idle]

SetInitialized == initialized' = TRUE

NotifyCompletion(t) ==
  /\ cb[t].at = "notify"
  /\ SetInitialized
  /\ IF flushStored THEN Goto(t, "set") /\ UNCHANGED unexpected
                    ELSE Returns(t) /\ unexpected' = TRUE
  /\ UNCHANGED <<flushStored, op, iis, due, overtaken, requestVars, task>>

Sets(t) == op' = [op EXCEPT ![cb[t].x] = SetResult(@, cb[t].hr)]

\* The callback has a continuation to invoke when the awaiter came first.
Exchanges(t) ==
  LET x == cb[t].x IN
  /\ op' = [op EXCEPT ![x] = Exchange(@)]
  /\ cb' = [cb EXCEPT ![t].at = IF op[x].cont = "awaiter" THEN "freeAndInvoke" ELSE "free",
                       ![t].hr = "none"]

\* Mutant: the operation is marked completed before it has its result.
ExchangesFirst(t) ==
  /\ \/ cb[t].at = "set" /\ op' = [op EXCEPT ![cb[t].x] = Exchange(@)] /\ Goto(t, "exchange")
     \/ cb[t].at = "exchange" /\ Sets(t)
        /\ Goto(t, IF op[cb[t].x].cont = "awaiter" THEN "freeAndInvoke" ELSE "free")
  /\ UNCHANGED <<initialized, flushStored, iis, due, overtaken, unexpected, requestVars, task>>

Complete(t) ==
  /\ \/ cb[t].at = "set" /\ Sets(t) /\ Goto(t, "exchange")
     \/ cb[t].at = "exchange" /\ Exchanges(t)
  /\ UNCHANGED <<initialized, flushStored, iis, due, overtaken, unexpected, requestVars, task>>

\* FreeOperationResources, then the continuation is queued.  Between the
\* exchange and this step an awaiter may have taken the result, and the
\* operation may be in use again.
Frees(t) ==
  LET x == cb[t].x IN
  /\ cb[t].at \in {"free", "freeAndInvoke"}
  /\ op' = [op EXCEPT ![x] = FreeOperationResources(@)]
  /\ flushStored' = (flushStored /\ x # Flush)
  /\ task' = IF cb[t].at = "freeAndInvoke" THEN [task EXCEPT ![x] = "result"] ELSE task
  /\ Returns(t)
  /\ UNCHANGED <<initialized, iis, due, overtaken, unexpected, requestVars>>

-----------------------------------------------------------------------------
\* The tasks of the request.

\* InitializeResponse starts WriteBody when the flush has succeeded; otherwise
\* UpgradeAsync throws.
Upgraded ==
  /\ Got(Flush)
  /\ task' = [task EXCEPT ![Flush] = "done",
                          ![Write] = IF Outcome(op[Flush]) = "failed" THEN "none" ELSE "pipe"]
  /\ main' = "app"
  /\ UNCHANGED <<closed, output>>

\* The first ReadAsync of the application starts ReadBody.
AppReads ==
  /\ main = "app" /\ task[Read] = "none"
  /\ task' = [task EXCEPT ![Read] = "call"]
  /\ UNCHANGED <<engineVars, requestVars>>

AppWrites ==
  /\ main = "app" /\ ~output
  /\ output' = TRUE
  /\ UNCHANGED <<engineVars, main, closed, task>>

\* A read of -1 counts as a turn without data.
ReadBodyGets ==
  /\ Got(Read)
  /\ task' = [task EXCEPT ![Read] = IF Outcome(op[Read]) \in {"end", "failed"} THEN "done"
                                                                             ELSE "pipe"]
  /\ UNCHANGED requestVars

\* FlushAsync of the input pipe ends the loop once its reader is completed; it
\* may have to wait for the application, and only then.
ReadBodyFlushes ==
  /\ task[Read] = "pipe"
  /\ task' = [task EXCEPT ![Read] = IF closed THEN "done" ELSE "call"]
  /\ UNCHANGED <<engineVars, requestVars>>

WriteBodyReads ==
  /\ task[Write] = "pipe"
  /\ output \/ closed
  /\ output' = FALSE
  /\ task' = [task EXCEPT ![Write] = IF output THEN "call" ELSE "done"]
  /\ UNCHANGED <<engineVars, main, closed>>

\* FlushAsync does nothing any more.
WriteBodyGets ==
  /\ Got(Write)
  /\ task' = [task EXCEPT ![Write] = IF Outcome(op[Write]) = "failed" THEN "done" ELSE "pipe"]
  /\ UNCHANGED requestVars

\* ProcessRequestAsync: the pipes are completed, the writes drain, the engine is
\* disposed, the read is awaited, the request is completed.
CompletePipes ==
  /\ main = "app"
  /\ main' = "drain"
  /\ closed' = TRUE
  /\ UNCHANGED <<engineVars, output, task>>

\* HttpTryCancelIO: whatever IIS has pending is aborted.
CancelIO == iis' = [x \in Ops |-> IF iis[x] = "pending" THEN "cancelled" ELSE iis[x]]

Dispose ==
  /\ main = "drain" /\ task[Write] \in {"none", "done"}
  /\ CancelIO
  /\ main' = "disposed"
  /\ UNCHANGED <<initialized, flushStored, op, due, cb, overtaken, unexpected, closed, output, task>>

CompleteRequest ==
  /\ main = "disposed" /\ task[Read] \in {"none", "done"}
  /\ main' = "posted"
  /\ UNCHANGED <<engineVars, closed, output, task>>

-----------------------------------------------------------------------------
TaskNext(x) == GetStatus(x) \/ OnCompleted(x) \/ Calls(x)
PumpNext == ReadBodyGets \/ ReadBodyFlushes \/ WriteBodyReads \/ WriteBodyGets
UpgradeNext == FlushCalls \/ FlushStores \/ Upgraded
CallbackNext(t) == NotifyCompletion(t) \/ Complete(t) \/ Frees(t)
EndNext == Dispose \/ CompleteRequest

Next ==
  \/ \E x \in Ops : TaskNext(x)
  \/ PumpNext
  \/ UpgradeNext
  \/ AppReads \/ AppWrites
  \/ CompletePipes
  \/ EndNext
  \/ \E t \in 1 .. Threads : CallbackNext(t)
  \/ \E x \in Ops : IISAnswers(x)

\* Threads and tasks run.  IIS answers every flush, write and cancelled read; a
\* read that nobody cancels may wait for the client for ever, and the
\* application need not end.
Fairness ==
  /\ \A x \in Ops : WF_vars(TaskNext(x))
  /\ WF_vars(ReadBodyGets \/ ReadBodyFlushes) /\ WF_vars(WriteBodyReads \/ WriteBodyGets)
  /\ WF_vars(UpgradeNext) /\ WF_vars(EndNext)
  /\ \A t \in 1 .. Threads : WF_vars(CallbackNext(t))
  /\ WF_vars(IISAnswers(Flush)) /\ WF_vars(IISAnswers(Write))
  /\ WF_vars(iis[Read] = "cancelled" /\ IISAnswers(Read))

Spec == Init /\ [][Next]_vars /\ Fairness

-----------------------------------------------------------------------------
\* Types of the engine's and the request's state; an operation that is marked
\* completed has its result (AsyncIOOperation.Complete).
TypeOK ==
  /\ initialized \in BOOLEAN /\ flushStored \in BOOLEAN
  /\ op \in [Ops -> [cont : {"null", "awaiter", "completed"}, state : BOOLEAN,
                     result : {"min", "data", "end", "aborted", "failed"},
                     failed : BOOLEAN, pinned : BOOLEAN]]
  /\ \A x \in Ops : op[x].cont = "completed" => op[x].result # "min"
  /\ iis \in [Ops -> {"none", "pending", "cancelled", "late"}]
  /\ task \in [Ops -> {"none", "call", "store", "await", "register", "waiting", "result",
                       "pipe", "done", "refused", "multiple"}]
  /\ main \in {"upgrading", "app", "drain", "disposed", "posted"}

\* ThrowMultipleContinuations ("Multiple awaiters are not allowed") and
\* ThrowIfNotInitialized ("Socket IO not initialized yet") are never reached,
\* although the pooled operations are reused without a lock and _isInitialized is
\* set by whichever thread completes the first flush.
NeverThrows == \A x \in Ops : task[x] \notin {"refused", "multiple"}

\* Whoever is about to take a result takes that of its own call: what IIS
\* answered to it, not what a callback has still to store and not what an
\* earlier use of the pooled operation left behind (Complete, GetResult).
OwnResult == \A x \in Ops : task[x] = "result" => Outcome(op[x]) = due[x]

\* The pooled operations keep their calls apart: each await gets the answer of its own
\* call, once, and no call is refused.
OperationsSafe == TypeOK /\ NeverThrows /\ OwnResult

\* As long as IIS reads into or writes from a buffer, the buffer is pinned,
\* unless the call was made while the callback of the one before had still to
\* free its own: FreeOperationResources runs after the operation was handed on.
PinnedWhilePending ==
  \A x \in {Read, Write} : iis[x] # "none" => op[x].pinned \/ overtaken[x]

\* UpgradeAsync comes to an end, with one exception that is for ever: IIS has
\* answered the flush before FlushAsync stored it, NotifyCompletion has thrown,
\* and nobody completes the operation that is awaited.
FlushIsLost == unexpected /\ main = "upgrading" /\ op[Flush].cont # "completed"

UpgradeEnds == ((main = "upgrading") ~> (main = "app")) \/ <>[]FlushIsLost

\* Once the application has ended the request is completed, whatever is read or
\* written at that moment, with one exception that is for ever: "Cancell all
\* remaining IO" has come and gone before a read, which this engine does not
\* refuse, and its client is silent.
ReadIsLate == main = "disposed" /\ iis[Read] = "late"

UpgradedRequestEnds == ((main = "drain") ~> (main = "posted")) \/ <>[]ReadIsLate

\* Whoever waits for an operation that IIS answers is resumed: the upgrade and
\* the end of the request come, but for those two.
AllEnd == UpgradeEnds /\ UpgradedRequestEnds

=============================================================================
