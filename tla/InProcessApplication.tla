------------------------- MODULE InProcessApplication -------------------------
(***************************************************************************)
(* The life cycle of an application hosted in the IIS worker process: the  *)
(* native IN_PROCESS_APPLICATION (inprocessapplication.cpp/.h, and the     *)
(* exports of managedexports.cxx) and the managed IISHttpServer, from the  *)
(* first request that loads .NET to the shutdown.                          *)
(*                                                                         *)
(* Threads: one per request, the thread that runs the managed Main         *)
(* (m_hThread), the threads on which IIS or a configuration change calls   *)
(* ShutDown, and the file watcher, which calls Recycle.  m_srwLock         *)
(* protects loading, shutdown and recycling from each other; the flags are *)
(* volatile and read without it.  The application and the web host are     *)
(* external: Main may fail to start, throw later, or stop by itself or     *)
(* when asked.                                                             *)
(***************************************************************************)
EXTENDS Integers, FiniteSets

CONSTANTS
  Requests,     (* requests for the application                            *)
  Shutdowns,    (* callers of ShutDown                                     *)
  Limits        (* the time limits that may expire: "startup" (loading),   *)
                (* "stop" (the host's StopAsync), "shutdown" (ShutDown)    *)

Free    == "free"
Watcher == "watcher"
Main    == "main"

ASSUME ActorsAssumption ==
  /\ Requests \intersect Shutdowns = {}
  /\ {Free, Watcher, Main} \intersect (Requests \union Shutdowns) = {}

ASSUME FiniteRequests == IsFiniteSet(Requests)

VARIABLES
  status,         (* m_status                                              *)
  registered,     (* m_RequestHandler is set                               *)
  initEvent,      (* m_pInitalizeEvent: "none", "clear" or "set"           *)
  initialized,    (* m_fInitialized                                        *)
  blockCallbacks, (* m_fBlockCallbacksIntoManaged                          *)
  byNative,       (* m_fShutdownCalledFromNative                           *)
  byManaged,      (* m_fShutdownCalledFromManaged                          *)
  recycleCalled,  (* m_fRecycleCalled, which no constructor sets           *)
  lock,           (* who holds m_srwLock                                   *)
  instance,       (* s_Application is not NULL                             *)
  main,           (* the thread that runs the managed Main                 *)
  req,            (* per request: where it is                              *)
  shut,           (* per caller of ShutDown: where it is                   *)
  recycler,       (* Recycle, per thread that may call it                  *)
  stopping,       (* IISHttpServer._stopping                               *)
  outstanding,    (* IISHttpServer._outstandingRequests                    *)
  signal,         (* IISHttpServer._shutdownSignal is completed            *)
  server,         (* IISHttpServer._httpServerHandle: none, alloc or freed *)
  stopAsked,      (* IApplicationLifetime.StopApplication was called       *)
  process,        (* the worker process: up, exited or crashed             *)
  loads,          (* how often .NET was loaded                             *)
  recycles,       (* how often RecycleProcess was called                   *)
  closes          (* how often ShutDownInternal closed m_hThread           *)

nativeVars  == <<status, registered, initEvent, initialized, blockCallbacks, byNative,
                 byManaged, recycleCalled, lock, instance>>
managedVars == <<stopping, outstanding, signal, server, stopAsked>>
countVars   == <<loads, recycles, closes>>
vars == <<nativeVars, managedVars, countVars, main, req, shut, recycler, process>>

(* m_fRecycleCalled starts as whatever the memory holds.                   *)
Init ==
  /\ status = "STARTING"
  /\ registered = FALSE
  /\ initEvent = "none"
  /\ initialized = FALSE
  /\ blockCallbacks = FALSE
  /\ byNative = FALSE
  /\ byManaged = FALSE
  /\ recycleCalled \in BOOLEAN
  /\ lock = Free
  /\ instance = FALSE
  /\ main = "none"
  /\ req = [r \in Requests |-> "new"]
  /\ shut = [s \in Shutdowns |-> "idle"]
  /\ recycler = [x \in {Main, Watcher} |-> "idle"]
  /\ stopping = FALSE
  /\ outstanding = 0
  /\ signal = FALSE
  /\ server = "none"
  /\ stopAsked = FALSE
  /\ process = "up"
  /\ loads = 0 /\ recycles = 0 /\ closes = 0

Up == process = "up"

(* The thread exists and has not ended.                                    *)
MainActive == main \notin {"none", "exited", "terminated"}

(* Calling through a freed handle or a null s_Application.                 *)
Crash == process' = "crashed"

-----------------------------------------------------------------------------
(* LoadManagedApplication, called by every request.                        *)

(* What a status other than STARTING means for a request.                  *)
AfterLoad == IF status = "RUNNING" THEN "execute" ELSE "loadFails"

LoadChecks(r) ==
  /\ Up /\ req[r] = "new"
  /\ req' = [req EXCEPT ![r] = IF status = "STARTING" THEN "lock" ELSE AfterLoad]
  /\ UNCHANGED <<nativeVars, managedVars, countVars, main, shut, recycler, process>>

(* The second check, under the lock.                                       *)
AlwaysLoads == TRUE
MustLoad == status = "STARTING"

LoadSkipped(r) ==
  /\ Up /\ req[r] = "lock" /\ lock = Free
  /\ ~MustLoad
  /\ req' = [req EXCEPT ![r] = AfterLoad]
  /\ UNCHANGED <<nativeVars, managedVars, countVars, main, shut, recycler, process>>

LoadCreatesThread(r) ==
  /\ Up /\ req[r] = "lock" /\ lock = Free
  /\ MustLoad
  /\ lock' = r
  /\ main' = "loading"
  /\ loads' = loads + 1
  /\ req' = [req EXCEPT ![r] = "createEvent"]
  /\ UNCHANGED <<status, registered, initEvent, initialized, blockCallbacks, byNative,
                 byManaged, recycleCalled, instance, managedVars, recycles, closes,
                 shut, recycler, process>>

(* The event is created when the thread already runs.                      *)
LoadCreatesEvent(r) ==
  /\ Up /\ req[r] = "createEvent"
  /\ initEvent' = "clear"
  /\ req' = [req EXCEPT ![r] = "wait"]
  /\ UNCHANGED <<status, registered, initialized, blockCallbacks, byNative, byManaged,
                 recycleCalled, lock, instance, managedVars, countVars, main, shut,
                 recycler, process>>

LoadSucceeds(r) ==
  /\ Up /\ req[r] = "wait"
  /\ MainActive /\ initEvent = "set"
  /\ status' = "RUNNING"
  /\ lock' = Free
  /\ req' = [req EXCEPT ![r] = "execute"]
  /\ UNCHANGED <<registered, initEvent, initialized, blockCallbacks, byNative, byManaged,
                 recycleCalled, instance, managedVars, countVars, main, shut, recycler,
                 process>>

(* goto Finished leaves the scope of the lock wrapper.                     *)
ReleaseLock == lock' = Free

(* The thread has ended, or it is killed when the time limit expires.      *)
LoadGivesUp(r) ==
  /\ Up /\ req[r] = "wait"
  /\ \/ ~MainActive /\ UNCHANGED main
     \/ MainActive /\ initEvent # "set" /\ "startup" \in Limits /\ main' = "terminated"
  /\ ReleaseLock
  /\ req' = [req EXCEPT ![r] = "loadFails"]
  /\ UNCHANGED <<status, registered, initEvent, initialized, blockCallbacks, byNative,
                 byManaged, recycleCalled, instance, managedVars, countVars, shut,
                 recycler, process>>

(* The status is set after the lock was released; the answer is 500.       *)
LoadFails(r) ==
  /\ Up /\ req[r] = "loadFails"
  /\ status' = "FAIL"
  /\ req' = [req EXCEPT ![r] = "answered"]
  /\ UNCHANGED <<registered, initEvent, initialized, blockCallbacks, byNative, byManaged,
                 recycleCalled, lock, instance, managedVars, countVars, main, shut,
                 recycler, process>>

-----------------------------------------------------------------------------
(* OnExecuteRequest, and the request in the managed server.                *)

Accepting == registered /\ status = "RUNNING" /\ ~blockCallbacks

(* Otherwise the answer is 500 or 503.                                     *)
OnExecuteRequest(r) ==
  /\ Up /\ req[r] = "execute"
  /\ req' = [req EXCEPT ![r] = IF Accepting THEN "calling" ELSE "answered"]
  /\ UNCHANGED <<nativeVars, managedVars, countVars, main, shut, recycler, process>>

(* IISHttpServer.HandleRequest unwraps the handle and counts the request.  *)
Counted == outstanding + 1

HandleRequest(r) ==
  /\ Up /\ req[r] = "calling"
  /\ IF server = "freed"
     THEN Crash /\ UNCHANGED <<req, outstanding>>
     ELSE /\ outstanding' = Counted
          /\ req' = [req EXCEPT ![r] = "managed"]
          /\ UNCHANGED process
  /\ UNCHANGED <<nativeVars, stopping, signal, server, stopAsked, countVars, main, shut,
                 recycler>>

(* OnAsyncCompletion of an I/O call of the request once callbacks are      *)
(* blocked: the request ends with 503, and managed code is never told.     *)
OnAsyncCompletionBlocked(r) ==
  /\ Up /\ req[r] = "managed" /\ blockCallbacks
  /\ req' = [req EXCEPT ![r] = "cut"]
  /\ UNCHANGED <<nativeVars, managedVars, countVars, main, shut, recycler, process>>

(* CompleteRequest: PostCompletion, the decrement, and then a look at      *)
(* Stopping: the last request of a server that stops releases StopAsync,   *)
(* which may declare that it stops and count between any two of these.     *)
ComparesBeforeDecrement == outstanding = 0
IsLast == outstanding - 1 = 0

PostCompletion(r) ==
  /\ Up /\ req[r] = "managed"
  /\ req' = [req EXCEPT ![r] = "posted"]
  /\ UNCHANGED <<nativeVars, managedVars, countVars, main, shut, recycler, process>>

CompleteRequest(r) ==
  /\ Up /\ req[r] = "posted"
  /\ outstanding' = outstanding - 1
  /\ req' = [req EXCEPT ![r] = IF IsLast THEN "decremented" ELSE "answered"]
  /\ UNCHANGED <<nativeVars, stopping, signal, server, stopAsked, countVars, main, shut,
                 recycler, process>>

LooksAtStopping(r) ==
  /\ Up /\ req[r] = "decremented"
  /\ req' = [req EXCEPT ![r] = IF stopping THEN "last" ELSE "answered"]
  /\ UNCHANGED <<nativeVars, managedVars, countVars, main, shut, recycler, process>>

(* HttpStopCallsIntoManaged and _shutdownSignal.TrySetResult.              *)
StopCalls ==
  IF instance
  THEN /\ blockCallbacks' = TRUE /\ signal' = TRUE /\ UNCHANGED process
  ELSE Crash /\ UNCHANGED <<blockCallbacks, signal>>

LastRequestStopsCalls(r) ==
  /\ Up /\ req[r] = "last"
  /\ StopCalls
  /\ req' = [req EXCEPT ![r] = "answered"]
  /\ UNCHANGED <<status, registered, initEvent, initialized, byNative, byManaged,
                 recycleCalled, lock, instance, stopping, outstanding, server, stopAsked,
                 countVars, main, shut, recycler>>

-----------------------------------------------------------------------------
(* The thread that runs Main: ExecuteApplication, IISHttpServer.StartAsync,*)
(* StopAsync and Dispose.                                                  *)

(* hostfxr cannot be loaded, or Main ends or throws before StartAsync, or  *)
(* throws while it serves.                                                 *)
MainFails ==
  /\ Up /\ main \in {"loading", "hosting", "serving"}
  /\ main' = "returned"
  /\ UNCHANGED <<nativeVars, managedVars, countVars, req, shut, recycler, process>>

MainRuns ==
  /\ Up /\ main = "loading"
  /\ instance' = TRUE
  /\ main' = "hosting"
  /\ UNCHANGED <<status, registered, initEvent, initialized, blockCallbacks, byNative,
                 byManaged, recycleCalled, lock, managedVars, countVars, req, shut,
                 recycler, process>>

(* StartAsync and SetCallbackHandles.                                      *)
StartAsync ==
  /\ Up /\ main = "hosting"
  /\ server' = "alloc"
  /\ registered' = TRUE
  /\ initEvent' = IF initEvent = "none" THEN "none" ELSE "set"
  /\ initialized' = TRUE
  /\ main' = "serving"
  /\ UNCHANGED <<status, blockCallbacks, byNative, byManaged, recycleCalled, lock,
                 instance, stopping, outstanding, signal, stopAsked, countVars, req, shut,
                 recycler, process>>

(* The host stops: it was asked to, or the application decided to.  The    *)
(* flag first, then the native side is told, then the counter is read.     *)
StopsUndeclared ==
  /\ Up /\ main = "serving"
  /\ main' = "stopIncoming"
  /\ UNCHANGED <<nativeVars, managedVars, countVars, req, shut, recycler, process>>

StopAsync ==
  /\ Up /\ main = "serving"
  /\ stopping' = TRUE
  /\ main' = "stopIncoming"
  /\ UNCHANGED <<nativeVars, outstanding, signal, server, stopAsked, countVars, req, shut,
                 recycler, process>>

StopIncomingRequests ==
  /\ Up /\ main = "stopIncoming"
  /\ IF instance
     THEN byManaged' = TRUE /\ main' = "drainCheck" /\ UNCHANGED process
     ELSE Crash /\ UNCHANGED <<byManaged, main>>
  /\ UNCHANGED <<status, registered, initEvent, initialized, blockCallbacks, byNative,
                 recycleCalled, lock, instance, managedVars, countVars, req, shut,
                 recycler>>

NothingOutstanding == outstanding = 0

DrainCheck ==
  /\ Up /\ main = "drainCheck"
  /\ main' = IF NothingOutstanding THEN "drained" ELSE "draining"
  /\ UNCHANGED <<nativeVars, managedVars, countVars, req, shut, recycler, process>>

(* Nothing is outstanding, or the host's cancellation token fires.         *)
StopsCalls ==
  /\ Up
  /\ StopCalls
  /\ main' = "stopped"
  /\ UNCHANGED <<status, registered, initEvent, initialized, byNative, byManaged,
                 recycleCalled, lock, instance, stopping, outstanding, server, stopAsked,
                 countVars, req, shut, recycler>>

StopAsyncStopsCalls == main = "drained" /\ StopsCalls
StopAsyncExpires == main = "draining" /\ "stop" \in Limits /\ StopsCalls

Disposes ==
  /\ Up /\ main \in {"draining", "stopped"} /\ signal
  /\ StopCalls
  /\ main' = "disposing"
  /\ stopping' = TRUE
  /\ UNCHANGED <<status, registered, initEvent, initialized, byNative, byManaged,
                 recycleCalled, lock, instance, outstanding, server, stopAsked, countVars,
                 req, shut, recycler>>

FreesHandle ==
  /\ Up /\ main = "disposing"
  /\ server' = "freed"
  /\ main' = "returned"
  /\ UNCHANGED <<nativeVars, stopping, outstanding, signal, stopAsked, countVars, req, shut,
                 recycler, process>>

(* ExecuteApplication after Main: two writes without the lock.             *)
MainReturned ==
  /\ Up /\ main = "returned"
  /\ status' = "SHUTDOWN"
  /\ main' = "marking"
  /\ UNCHANGED <<registered, initEvent, initialized, blockCallbacks, byNative, byManaged,
                 recycleCalled, lock, instance, managedVars, countVars, req, shut,
                 recycler, process>>

MainMarks ==
  /\ Up /\ main = "marking"
  /\ byManaged' = TRUE
  /\ main' = "exiting"
  /\ UNCHANGED <<status, registered, initEvent, initialized, blockCallbacks, byNative,
                 recycleCalled, lock, instance, managedVars, countVars, req, shut,
                 recycler, process>>

MainExits ==
  /\ Up /\ main = "exiting"
  /\ IF ~byNative /\ initialized
     THEN recycler' = [recycler EXCEPT ![Main] = "checking"] /\ main' = "recycling"
     ELSE main' = "exited" /\ UNCHANGED recycler
  /\ UNCHANGED <<nativeVars, managedVars, countVars, req, shut, process>>

MainRecycled ==
  /\ Up /\ main = "recycling" /\ recycler[Main] = "done"
  /\ main' = "exited"
  /\ UNCHANGED <<nativeVars, managedVars, countVars, req, shut, recycler, process>>

-----------------------------------------------------------------------------
(* Recycle: RecycleProcess must be called once only.                       *)

WatcherRecycles ==
  /\ Up /\ recycler[Watcher] = "idle" /\ loads > 0
  /\ recycler' = [recycler EXCEPT ![Watcher] = "checking"]
  /\ UNCHANGED <<nativeVars, managedVars, countVars, main, req, shut, process>>

RecycleChecks(x) ==
  /\ Up /\ recycler[x] = "checking"
  /\ recycler' = [recycler EXCEPT ![x] = IF recycleCalled THEN "done" ELSE "lock"]
  /\ UNCHANGED <<nativeVars, managedVars, countVars, main, req, shut, process>>

(* m_fRecycleCalled again, under the lock.                                 *)
RecyclesAgain == FALSE
AlreadyRecycled == recycleCalled

RecycleLocks(x) ==
  /\ Up /\ recycler[x] = "lock" /\ lock = Free
  /\ recycler' = [recycler EXCEPT ![x] = IF AlreadyRecycled THEN "done" ELSE "recycle"]
  /\ recycleCalled' = TRUE
  /\ UNCHANGED <<status, registered, initEvent, initialized, blockCallbacks, byNative,
                 byManaged, lock, instance, managedVars, countVars, main, req, shut,
                 process>>

RecycleProcess(x) ==
  /\ Up /\ recycler[x] = "recycle"
  /\ recycles' = recycles + 1
  /\ recycler' = [recycler EXCEPT ![x] = "done"]
  /\ UNCHANGED <<nativeVars, managedVars, loads, closes, main, req, shut, process>>

Recycle(x) ==
  /\ x = Main => main = "recycling"
  /\ \/ RecycleChecks(x)
     \/ RecycleLocks(x)
     \/ RecycleProcess(x)

-----------------------------------------------------------------------------
(* ShutDown and ShutDownInternal.                                          *)

Redundant == byNative \/ status \in {"STARTING", "FAIL"}

ShutDown(s) ==
  /\ Up /\ shut[s] = "idle"
  /\ shut' = [shut EXCEPT ![s] = IF Redundant THEN "done" ELSE "lock"]
  /\ UNCHANGED <<nativeVars, managedVars, countVars, main, req, recycler, process>>

ShutDownLocks(s) ==
  /\ Up /\ shut[s] = "lock" /\ lock = Free
  /\ IF Redundant
     THEN /\ shut' = [shut EXCEPT ![s] = "done"]
          /\ UNCHANGED <<status, byNative, lock>>
     ELSE /\ byNative' = TRUE
          /\ status' = "SHUTDOWN"
          /\ IF byManaged
             THEN shut' = [shut EXCEPT ![s] = "unlocked"] /\ UNCHANGED lock
             ELSE shut' = [shut EXCEPT ![s] = "calling"] /\ lock' = s
  /\ UNCHANGED <<registered, initEvent, initialized, blockCallbacks, byManaged,
                 recycleCalled, instance, managedVars, countVars, main, req, recycler,
                 process>>

(* HandleShutdown asks the host to stop.                                   *)
AskNothing == UNCHANGED stopAsked
AskToStop == stopAsked' = TRUE

CallShutdownHandler(s) ==
  /\ Up /\ shut[s] = "calling"
  /\ IF server # "alloc"
     THEN Crash /\ UNCHANGED <<stopAsked, lock, shut>>
     ELSE /\ AskToStop
          /\ lock' = Free
          /\ shut' = [shut EXCEPT ![s] = "unlocked"]
          /\ UNCHANGED process
  /\ UNCHANGED <<status, registered, initEvent, initialized, blockCallbacks, byNative,
                 byManaged, recycleCalled, instance, stopping, outstanding, signal, server,
                 countVars, main, req, recycler>>

ShutDownDecides(s) ==
  /\ Up /\ shut[s] = "unlocked"
  /\ shut' = [shut EXCEPT ![s] = IF byManaged THEN "close" ELSE "wait"]
  /\ UNCHANGED <<nativeVars, managedVars, countVars, main, req, recycler, process>>

(* The thread ends, or is killed when the time limit expires.              *)
ShutDownWaits(s) ==
  /\ Up /\ shut[s] = "wait" /\ ~MainActive
  /\ shut' = [shut EXCEPT ![s] = "close"]
  /\ UNCHANGED <<nativeVars, managedVars, countVars, main, req, recycler, process>>

ShutDownKills(s) ==
  /\ Up /\ shut[s] = "wait" /\ MainActive
  /\ "shutdown" \in Limits
  /\ main' = "terminated"
  /\ shut' = [shut EXCEPT ![s] = "close"]
  /\ UNCHANGED <<nativeVars, managedVars, countVars, req, recycler, process>>

ShutDownCloses(s) ==
  /\ Up /\ shut[s] = "close"
  /\ instance' = FALSE
  /\ closes' = closes + 1
  /\ shut' = [shut EXCEPT ![s] = "done"]
  /\ UNCHANGED <<status, registered, initEvent, initialized, blockCallbacks, byNative,
                 byManaged, recycleCalled, lock, managedVars, loads, recycles, main, req,
                 recycler, process>>

(* The outer time limit of ShutDown ends the process.                      *)
ShutDownExpires(s) ==
  /\ Up /\ shut[s] \in {"lock", "calling", "unlocked", "wait"}
  /\ "shutdown" \in Limits /\ MainActive
  /\ process' = "exited"
  /\ UNCHANGED <<nativeVars, managedVars, countVars, main, req, shut, recycler>>

-----------------------------------------------------------------------------
RequestNext(r) ==
  \/ LoadSkipped(r) \/ LoadCreatesThread(r) \/ LoadCreatesEvent(r)
  \/ LoadSucceeds(r) \/ LoadGivesUp(r) \/ LoadFails(r)
  \/ OnExecuteRequest(r) \/ HandleRequest(r) \/ OnAsyncCompletionBlocked(r)
  \/ PostCompletion(r) \/ CompleteRequest(r) \/ LooksAtStopping(r) \/ LastRequestStopsCalls(r)

(* What Main does once it has been asked to stop, or is on its way out.    *)
MainNext ==
  \/ StopIncomingRequests \/ DrainCheck \/ StopAsyncStopsCalls \/ Disposes \/ FreesHandle
  \/ MainReturned \/ MainMarks \/ MainExits \/ MainRecycled

ShutDownNext(s) ==
  \/ ShutDownLocks(s) \/ CallShutdownHandler(s) \/ ShutDownDecides(s)
  \/ ShutDownWaits(s) \/ ShutDownCloses(s)

(* The time limits of StopAsync and ShutDown.                              *)
Expires ==
  \/ StopAsyncExpires
  \/ \E s \in Shutdowns : ShutDownKills(s) \/ ShutDownExpires(s)

Next ==
  \/ \E r \in Requests : LoadChecks(r) \/ RequestNext(r)
  \/ MainFails \/ MainRuns \/ StartAsync \/ StopAsync \/ MainNext
  \/ WatcherRecycles \/ \E x \in {Main, Watcher} : Recycle(x)
  \/ \E s \in Shutdowns : ShutDown(s) \/ ShutDownNext(s)
  \/ Expires

(* Threads that can run do run, a request that managed code handles ends,  *)
(* Main starts or fails, and a host that was asked to stop stops.  IIS     *)
(* need not send a request or shut down, and the host need not stop.  Only *)
(* loading counts on its time limit: the others may expire, and what must  *)
(* happen happens without them.                                            *)
Fairness ==
  /\ \A r \in Requests : WF_vars(RequestNext(r))
  /\ WF_vars(MainRuns \/ StartAsync)
  /\ WF_vars(MainNext)
  /\ WF_vars(stopAsked /\ StopAsync)
  /\ \A x \in {Main, Watcher} : WF_vars(Recycle(x))
  /\ \A s \in Shutdowns : WF_vars(ShutDownNext(s))

Spec == Init /\ [][Next]_vars /\ Fairness

-----------------------------------------------------------------------------
TypeOK ==
  /\ status \in {"STARTING", "RUNNING", "FAIL", "SHUTDOWN"}
  /\ initEvent \in {"none", "clear", "set"}
  /\ \A flag \in {registered, initialized, blockCallbacks, byNative, byManaged,
                  recycleCalled, instance, stopping, signal, stopAsked} : flag \in BOOLEAN
  /\ lock \in {Free} \union Requests \union Shutdowns
  /\ main \in {"none", "loading", "hosting", "serving", "stopIncoming", "drainCheck",
               "drained", "draining", "stopped", "disposing", "returned", "marking",
               "exiting", "recycling", "exited", "terminated"}
  /\ req \in [Requests -> {"new", "lock", "createEvent", "wait", "loadFails", "execute",
                            "calling", "managed", "cut", "posted", "decremented", "last", "answered"}]
  /\ shut \in [Shutdowns -> {"idle", "lock", "calling", "unlocked", "wait", "close", "done"}]
  /\ recycler \in [{Main, Watcher} -> {"idle", "checking", "lock", "recycle", "done"}]
  /\ server \in {"none", "alloc", "freed"}
  /\ process \in {"up", "exited", "crashed"}
  /\ outstanding \in 0..Cardinality(Requests)
  /\ loads \in Nat /\ recycles \in Nat /\ closes \in Nat

(* A request whose loading timed out has terminated the thread of Main and *)
(* released the lock, and has not yet written the status FAIL.             *)
UnmarkedTimeout == main = "terminated" /\ \E r \in Requests : req[r] = "loadFails"

(* "Cannot load more than once even there was a failure" holds but for one *)
(* gap: between the release of the lock after a time-out and the status    *)
(* FAIL another request still reads STARTING and loads .NET again.  Behind *)
(* every other failure, and once FAIL is written, nobody does; so two      *)
(* Mains never run at once.                                                *)
OneMain == [][loads' > loads => loads = 0 \/ UnmarkedTimeout]_vars

(* RecycleProcess is called once, although Main and the file watcher may   *)
(* both decide to ("calling pHttpServer->RecycleProcess multiple times can *)
(* lead to AVs").                                                          *)
RecycledOnce == recycles <= 1

(* Of all the callers of ShutDown one shuts the application down: the      *)
(* thread handle is closed once.                                           *)
ClosedOnce == closes <= 1

(* StopAsync never waits for nothing: while it waits, a request is left    *)
(* that will still decrement or look, although the last one may decrement  *)
(* before StopAsync declares that it stops and look after it, or end       *)
(* between that declaration and the count.  A request that was cut off     *)
(* never decrements, and does not count here.                              *)
DrainHasAnEnd ==
  Up /\ main = "draining" /\ ~signal =>
    \E r \in Requests : req[r] \in {"managed", "posted", "decremented", "last"}

(* The flags of both sides have their types, the counter of requests stays *)
(* in its range, and the drain of StopAsync has an end.                    *)
DrainSafe == TypeOK /\ DrainHasAnEnd

(* A request that reached the application is answered, unless the process  *)
(* goes away first: no request is left waiting for m_srwLock, for .NET to  *)
(* load or for a server that stops.                                        *)
RequestsAnswered ==
  \A r \in Requests :
    (req[r] = "lock") ~> (req[r] \in {"cut", "answered"} \/ ~Up)

(* Every call of ShutDown returns, although Main may be waiting for        *)
(* requests, recycling, or stopping on its own at the same time.           *)
ShutDownReturns ==
  \A s \in Shutdowns : (shut[s] # "idle") ~> (shut[s] = "done" \/ ~Up)

(* Once StopAsync has been called Main ends.                               *)
StopCompletes == (main = "stopIncoming") ~> (main \in {"exited", "terminated"} \/ ~Up)

(* Nobody waits for ever: not a request, not a caller of ShutDown, not the *)
(* server that stops, although they wait for each other's threads.         *)
NobodyWaits == RequestsAnswered /\ ShutDownReturns /\ StopCompletes

=============================================================================
