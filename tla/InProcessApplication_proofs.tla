---------------------- MODULE InProcessApplication_proofs ----------------------
(***************************************************************************)
(* Proofs, for any number of requests and of callers of ShutDown, that no  *)
(* two Mains run at once, that the worker process is recycled once and the *)
(* application shut down once, and that the counter a drain waits for is   *)
(* exact.                                                                  *)
(***************************************************************************)
EXTENDS InProcessApplication, FiniteSetTheorems, TLAPS

-----------------------------------------------------------------------------
(* Recycling: m_fRecycleCalled is set for good before anybody recycles,    *)
(* and at most one thread has found it clear under the lock.               *)
RecycleInv ==
  /\ recycler \in [{Main, Watcher} -> {"idle", "checking", "lock", "recycle", "done"}]
  /\ recycles \in Nat
  /\ ~(recycler[Main] = "recycle" /\ recycler[Watcher] = "recycle")
  /\ (\E x \in {Main, Watcher} : recycler[x] = "recycle") => recycles = 0 /\ recycleCalled
  /\ recycles <= 1
  /\ recycles = 1 => recycleCalled

recycleVars == <<recycler, recycles, recycleCalled>>

(* What nobody touches stays as it was.                                    *)
LEMMA RecycleUntouched == RecycleInv /\ UNCHANGED recycleVars => RecycleInv'
  BY DEF RecycleInv, recycleVars

(* Only MainExits, WatcherRecycles and Recycle work on those variables.    *)
LEMMA RecycleFrame ==
  ASSUME Next
  PROVE  \/ MainExits \/ WatcherRecycles
         \/ \E x \in {Main, Watcher} : Recycle(x)
         \/ UNCHANGED recycleVars
<1>1. ASSUME NEW r \in Requests, LoadChecks(r) \/ RequestNext(r) PROVE UNCHANGED recycleVars
  BY <1>1 DEF LoadChecks, RequestNext, LoadSkipped, LoadCreatesThread, LoadCreatesEvent,
     LoadSucceeds, LoadGivesUp, LoadFails, OnExecuteRequest, HandleRequest,
     OnAsyncCompletionBlocked, PostCompletion, CompleteRequest, LooksAtStopping, LastRequestStopsCalls,
     nativeVars, countVars, recycleVars
<1>2. CASE MainFails \/ MainRuns \/ StartAsync \/ StopAsync
  BY <1>2 DEF MainFails, MainRuns, StartAsync, StopAsync, nativeVars, countVars, recycleVars
<1>3. CASE MainNext
  BY <1>3 DEF MainNext, StopIncomingRequests, DrainCheck, StopAsyncStopsCalls, StopsCalls, Disposes,
     FreesHandle, MainReturned, MainMarks, MainRecycled, nativeVars, countVars, recycleVars
<1>4. ASSUME NEW s \in Shutdowns, ShutDown(s) \/ ShutDownNext(s) PROVE UNCHANGED recycleVars
  BY <1>4 DEF ShutDown, ShutDownNext, ShutDownLocks, CallShutdownHandler, ShutDownDecides,
     ShutDownWaits, ShutDownCloses, nativeVars, countVars, recycleVars
<1>5. CASE Expires
  BY <1>5 DEF Expires, StopAsyncExpires, StopsCalls, ShutDownKills, ShutDownExpires, nativeVars,
     countVars, recycleVars
<1> QED BY <1>1, <1>2, <1>3, <1>4, <1>5 DEF Next

LEMMA RecycleStep == RecycleInv /\ [Next]_vars => RecycleInv'
<1> SUFFICES ASSUME RecycleInv, [Next]_vars PROVE RecycleInv'
  OBVIOUS
<1>1. CASE MainExits
  <2>1. UNCHANGED <<recycles, recycleCalled>>
    BY <1>1 DEF MainExits, nativeVars, countVars
  <2>2. recycler' \in {recycler, [recycler EXCEPT ![Main] = "checking"]}
    BY <1>1 DEF MainExits
  <2> QED BY <2>1, <2>2 DEF RecycleInv, Main, Watcher
<1>2. CASE WatcherRecycles
  <2>1. UNCHANGED <<recycles, recycleCalled>>
    BY <1>2 DEF WatcherRecycles, nativeVars, countVars
  <2>2. recycler' = [recycler EXCEPT ![Watcher] = "checking"]
    BY <1>2 DEF WatcherRecycles
  <2> QED BY <2>1, <2>2 DEF RecycleInv, Main, Watcher
<1>3. ASSUME NEW x \in {Main, Watcher}, Recycle(x) PROVE RecycleInv'
  <2>1. CASE RecycleChecks(x)
    <3>1. UNCHANGED <<recycles, recycleCalled>>
      BY <2>1 DEF RecycleChecks, nativeVars, countVars
    <3>2. recycler' = [recycler EXCEPT ![x] = "done"] \/ recycler' = [recycler EXCEPT ![x] = "lock"]
      BY <2>1 DEF RecycleChecks
    <3> QED BY <3>1, <3>2 DEF RecycleInv, Main, Watcher
  <2>2. CASE RecycleLocks(x)
    <3>1. recycles' = recycles /\ recycleCalled'
      BY <2>2 DEF RecycleLocks, countVars
    <3>2. CASE recycleCalled
      BY <2>2, <3>1, <3>2 DEF RecycleLocks, AlreadyRecycled, RecycleInv, Main, Watcher
    <3>3. CASE ~recycleCalled
      BY <2>2, <3>1, <3>3 DEF RecycleLocks, AlreadyRecycled, RecycleInv, Main, Watcher
    <3> QED BY <3>2, <3>3
  <2>3. CASE RecycleProcess(x)
    <3>1. /\ recycler[x] = "recycle"
          /\ recycles' = recycles + 1
          /\ recycler' = [recycler EXCEPT ![x] = "done"]
          /\ recycleCalled' = recycleCalled
      BY <2>3 DEF RecycleProcess, nativeVars
    <3> QED BY <3>1 DEF RecycleInv, Main, Watcher
  <2> QED BY <1>3, <2>1, <2>2, <2>3 DEF Recycle
<1>4. CASE UNCHANGED vars
  BY <1>4, RecycleUntouched DEF vars, nativeVars, countVars, recycleVars
<1> QED BY <1>1, <1>2, <1>3, <1>4, RecycleFrame, RecycleUntouched

(* IIS is asked to recycle the worker process at most once, whichever of   *)
(* Main and the file watcher decides to (IN_PROCESS_APPLICATION::Recycle). *)
THEOREM RecycleOnce == Spec => []RecycledOnce
<1>1. Init => RecycleInv
  BY DEF Init, RecycleInv, Main, Watcher
<1>2. RecycleInv => RecycledOnce
  BY DEF RecycleInv, RecycledOnce
<1> QED BY <1>1, <1>2, RecycleStep, PTL DEF Spec

-----------------------------------------------------------------------------
(* Shutdown: m_fShutdownCalledFromNative, which is never cleared, lets one *)
(* caller past the second check.                                           *)
Past(s) == shut[s] \in {"calling", "unlocked", "wait", "close"}

CloseInv ==
  /\ shut \in [Shutdowns -> {"idle", "lock", "calling", "unlocked", "wait", "close", "done"}]
  /\ closes \in Nat
  /\ byNative \in BOOLEAN
  /\ \A s, t \in Shutdowns : Past(s) /\ Past(t) => s = t
  /\ \A s \in Shutdowns : Past(s) => closes = 0 /\ byNative
  /\ closes <= 1
  /\ closes = 1 => byNative

closeVars == <<shut, closes, byNative>>

(* What nobody touches stays as it was.                                    *)
LEMMA CloseUntouched == CloseInv /\ UNCHANGED closeVars => CloseInv'
  BY DEF CloseInv, closeVars, Past

(* Only the callers of ShutDown and their time limits work on those        *)
(* variables.                                                              *)
LEMMA CloseFrame ==
  ASSUME Next
  PROVE  \/ \E s \in Shutdowns : ShutDown(s) \/ ShutDownNext(s) \/ ShutDownKills(s)
         \/ UNCHANGED closeVars
<1>1. ASSUME NEW r \in Requests, LoadChecks(r) \/ RequestNext(r) PROVE UNCHANGED closeVars
  BY <1>1 DEF LoadChecks, RequestNext, LoadSkipped, LoadCreatesThread, LoadCreatesEvent,
     LoadSucceeds, LoadGivesUp, LoadFails, OnExecuteRequest, HandleRequest,
     OnAsyncCompletionBlocked, PostCompletion, CompleteRequest, LooksAtStopping, LastRequestStopsCalls,
     nativeVars, countVars, closeVars
<1>2. CASE MainFails \/ MainRuns \/ StartAsync \/ StopAsync
  BY <1>2 DEF MainFails, MainRuns, StartAsync, StopAsync, nativeVars, countVars, closeVars
<1>3. CASE MainNext
  BY <1>3 DEF MainNext, StopIncomingRequests, DrainCheck, StopAsyncStopsCalls, StopsCalls, Disposes,
     FreesHandle, MainReturned, MainMarks, MainExits, MainRecycled, nativeVars, countVars,
     closeVars
<1>4. CASE WatcherRecycles \/ \E x \in {Main, Watcher} : Recycle(x)
  BY <1>4 DEF WatcherRecycles, Recycle, RecycleChecks, RecycleLocks, RecycleProcess,
     nativeVars, countVars, closeVars
<1>5. CASE Expires
  BY <1>5 DEF Expires, StopAsyncExpires, StopsCalls, ShutDownExpires, nativeVars, countVars,
     closeVars
<1> QED BY <1>1, <1>2, <1>3, <1>4, <1>5 DEF Next

LEMMA CloseStep == CloseInv /\ [Next]_vars => CloseInv'
<1> SUFFICES ASSUME CloseInv, [Next]_vars PROVE CloseInv'
  OBVIOUS
<1>1. ASSUME NEW s \in Shutdowns, ShutDown(s) \/ ShutDownNext(s) \/ ShutDownKills(s)
      PROVE  CloseInv'
  <2>1. CASE ShutDown(s)
    BY <2>1 DEF ShutDown, nativeVars, countVars, CloseInv, Past
  <2>2. CASE ShutDownLocks(s)
    <3>1. closes' = closes
      BY <2>2 DEF ShutDownLocks, countVars
    <3>2. CASE Redundant
      BY <2>2, <3>1, <3>2 DEF ShutDownLocks, CloseInv, Past
    <3>3. CASE ~Redundant
      <4>1. ~byNative /\ byNative'
        BY <2>2, <3>3 DEF ShutDownLocks, Redundant
      <4>2. closes = 0 /\ \A t \in Shutdowns : ~Past(t)
        BY <4>1 DEF CloseInv
      <4>3. \/ shut' = [shut EXCEPT ![s] = "unlocked"]
            \/ shut' = [shut EXCEPT ![s] = "calling"]
        BY <2>2, <3>3 DEF ShutDownLocks
      <4> QED BY <3>1, <4>1, <4>2, <4>3 DEF CloseInv, Past
    <3> QED BY <3>2, <3>3
  <2>3. CASE CallShutdownHandler(s)
    BY <2>3 DEF CallShutdownHandler, countVars, CloseInv, Past
  <2>4. CASE ShutDownDecides(s)
    BY <2>4 DEF ShutDownDecides, nativeVars, countVars, CloseInv, Past
  <2>5. CASE ShutDownWaits(s)
    BY <2>5 DEF ShutDownWaits, nativeVars, countVars, CloseInv, Past
  <2>6. CASE ShutDownCloses(s)
    BY <2>6 DEF ShutDownCloses, CloseInv, Past
  <2>7. CASE ShutDownKills(s)
    BY <2>7 DEF ShutDownKills, nativeVars, countVars, CloseInv, Past
  <2> QED BY <1>1, <2>1, <2>2, <2>3, <2>4, <2>5, <2>6, <2>7 DEF ShutDownNext
<1>2. CASE UNCHANGED vars
  BY <1>2, CloseUntouched DEF vars, nativeVars, countVars, closeVars
<1> QED BY <1>1, <1>2, CloseFrame, CloseUntouched

(* However many callers ShutDown has, one of them closes the thread of     *)
(* Main (IN_PROCESS_APPLICATION::ShutDownInternal).                        *)
THEOREM CloseOnce == Spec => []ClosedOnce
<1>1. ASSUME Init PROVE CloseInv
  <2>1. byNative = FALSE /\ closes = 0 /\ shut = [s \in Shutdowns |-> "idle"]
    BY <1>1 DEF Init
  <2>2. \A s \in Shutdowns : ~Past(s)
    BY <2>1 DEF Past
  <2>3. shut \in [Shutdowns -> {"idle", "lock", "calling", "unlocked", "wait", "close", "done"}]
    BY <2>1
  <2>4. closes \in Nat /\ closes <= 1 /\ closes # 1
    BY <2>1
  <2>5. byNative \in BOOLEAN
    BY <2>1
  <2> QED BY <2>2, <2>3, <2>4, <2>5, Zenon DEF CloseInv
<1>2. CloseInv => ClosedOnce
  BY DEF CloseInv, ClosedOnce
<1> QED BY <1>1, <1>2, CloseStep, PTL DEF Spec

-----------------------------------------------------------------------------
(* Loading: as long as the status is STARTING either there is no Main, or  *)
(* the request that loads it still has the lock.                           *)
Loads(r) == req[r] \in {"createEvent", "wait"}

LoadInv ==
  /\ loads \in Nat
  /\ main = "none" => loads = 0
  /\ req \in [Requests -> {"new", "lock", "createEvent", "wait", "loadFails", "execute",
                            "calling", "managed", "cut", "posted", "decremented", "last", "answered"}]
  /\ \A r \in Requests : Loads(r) => lock = r
  /\ \A s \in Shutdowns : shut[s] = "calling" => lock = s
  /\ shut \in [Shutdowns -> {"idle", "lock", "calling", "unlocked", "wait", "close", "done"}]
  /\ status = "STARTING" =>
       /\ main \notin {"marking", "exiting", "recycling", "exited"}
       /\ \/ main = "none"
          \/ UnmarkedTimeout
          \/ \E r \in Requests : Loads(r)

loadVars == <<loads, main, req, lock, shut, status>>

(* What nobody touches stays as it was.                                    *)
LEMMA LoadUntouched == LoadInv /\ UNCHANGED loadVars => LoadInv'
  BY DEF LoadInv, loadVars, Loads, UnmarkedTimeout

(* The steps of Main never take the lock, and leave STARTING behind when   *)
(* Main has returned.                                                      *)
LEMMA LoadMainStep ==
  ASSUME LoadInv, MainFails \/ MainRuns \/ StartAsync \/ StopAsync \/ MainNext
  PROVE  LoadInv'
<1>1. UNCHANGED <<loads, req, lock, shut>>
  BY DEF MainFails, MainRuns, StartAsync, StopAsync, MainNext, StopIncomingRequests, DrainCheck,
     StopAsyncStopsCalls, StopsCalls, Disposes, FreesHandle, MainReturned, MainMarks, MainExits,
     MainRecycled, nativeVars, countVars
<1>2. main' # "none" /\ main \notin {"none", "terminated"}
  BY DEF LoadInv, MainFails, MainRuns, StartAsync, StopAsync, MainNext, StopIncomingRequests,
     DrainCheck, StopAsyncStopsCalls, StopsCalls, Disposes, FreesHandle, MainReturned, MainMarks,
     MainExits, MainRecycled
<1>3. \/ status' = "SHUTDOWN"
      \/ status' = status /\ (main' \in {"exiting", "recycling", "exited"} =>
                               main \in {"marking", "exiting", "recycling"})
                          /\ main' # "marking"
  BY DEF MainFails, MainRuns, StartAsync, StopAsync, MainNext, StopIncomingRequests,
     DrainCheck, StopAsyncStopsCalls, StopsCalls, Disposes, FreesHandle, MainReturned, MainMarks,
     MainExits, MainRecycled, nativeVars
<1> QED BY <1>1, <1>2, <1>3 DEF LoadInv, Loads, UnmarkedTimeout

LEMMA LoadRequestStep ==
  ASSUME LoadInv, NEW r \in Requests, LoadChecks(r) \/ RequestNext(r)
  PROVE  LoadInv'
<1>1. CASE LoadCreatesThread(r)
  <2>1. /\ lock = Free /\ lock' = r /\ req' = [req EXCEPT ![r] = "createEvent"]
        /\ loads' = loads + 1 /\ main' = "loading" /\ UNCHANGED <<shut, status>>
    BY <1>1 DEF LoadCreatesThread
  <2>2. \A q \in Requests : Loads(q) => FALSE
    BY <2>1, ActorsAssumption DEF LoadInv
  <2>3. \A s \in Shutdowns : shut[s] # "calling"
    BY <2>1, ActorsAssumption DEF LoadInv
  <2>4. (\A q \in Requests : Loads(q) => lock = q)'
    BY <2>1, <2>2 DEF Loads, LoadInv
  <2> QED BY <2>1, <2>3, <2>4 DEF LoadInv, Loads, UnmarkedTimeout
<1>2. CASE LoadCreatesEvent(r)
  BY <1>2 DEF LoadCreatesEvent, countVars, LoadInv, Loads, UnmarkedTimeout
<1>3. CASE LoadSucceeds(r)
  <2>1. /\ status' = "RUNNING" /\ lock' = Free /\ req' = [req EXCEPT ![r] = "execute"]
        /\ UNCHANGED <<loads, main, shut>> /\ Loads(r)
    BY <1>3 DEF LoadSucceeds, countVars, Loads
  <2> QED BY <2>1, ActorsAssumption DEF LoadInv, Loads, UnmarkedTimeout
<1>4. CASE LoadGivesUp(r)
  <2>1. /\ main' \in {main, "terminated"} /\ lock' = Free
        /\ req' = [req EXCEPT ![r] = "loadFails"]
        /\ UNCHANGED <<loads, shut, status>> /\ Loads(r)
        /\ main' \in {"none", "exited", "terminated"}
        /\ main' = "terminated" \/ main' = main
    BY <1>4 DEF LoadGivesUp, countVars, Loads, MainActive, ReleaseLock
  <2> QED BY <2>1, ActorsAssumption DEF LoadInv, Loads, UnmarkedTimeout
<1>5. CASE LoadFails(r)
  BY <1>5 DEF LoadFails, countVars, LoadInv, Loads, UnmarkedTimeout
<1>6. CASE \/ LoadChecks(r) \/ LoadSkipped(r) \/ OnExecuteRequest(r) \/ HandleRequest(r)
           \/ OnAsyncCompletionBlocked(r) \/ PostCompletion(r) \/ CompleteRequest(r)
           \/ LooksAtStopping(r) \/ LastRequestStopsCalls(r)
  <2>1. UNCHANGED <<loads, main, lock, shut, status>>
    BY <1>6 DEF LoadChecks, LoadSkipped, OnExecuteRequest, HandleRequest,
       OnAsyncCompletionBlocked, PostCompletion, CompleteRequest, LooksAtStopping, LastRequestStopsCalls,
       nativeVars, countVars
  <2>2. req[r] \notin {"createEvent", "wait", "loadFails"} /\ \E pc \in {"lock", "execute", "loadFails",
          "calling", "answered", "managed", "cut", "posted", "decremented", "last", "new"} :
             req' = [req EXCEPT ![r] = pc]
    <3>1. \A pc : req[r] = pc => (req' = req => req' = [req EXCEPT ![r] = pc])
      BY DEF LoadInv
    <3> QED BY <1>6, <3>1 DEF LoadChecks, LoadSkipped, OnExecuteRequest, HandleRequest,
       OnAsyncCompletionBlocked, PostCompletion, CompleteRequest, LooksAtStopping, LastRequestStopsCalls,
       AfterLoad
  <2> QED BY <2>1, <2>2 DEF LoadInv, Loads, UnmarkedTimeout
<1> QED BY <1>1, <1>2, <1>3, <1>4, <1>5, <1>6 DEF RequestNext

LEMMA LoadShutDownStep ==
  ASSUME LoadInv, NEW s \in Shutdowns,
         ShutDown(s) \/ ShutDownNext(s) \/ ShutDownKills(s) \/ ShutDownExpires(s)
  PROVE  LoadInv'
<1>1. CASE ShutDownLocks(s)
  <2>1. UNCHANGED <<loads, main, req>> /\ lock = Free
    BY <1>1 DEF ShutDownLocks, countVars
  <2>2. /\ \A r \in Requests : ~Loads(r)
        /\ \A t \in Shutdowns : shut[t] # "calling"
    BY <2>1, ActorsAssumption DEF LoadInv
  <2>3. \/ shut' = [shut EXCEPT ![s] = "done"] /\ UNCHANGED <<status, lock>>
        \/ shut' = [shut EXCEPT ![s] = "unlocked"] /\ status' = "SHUTDOWN" /\ UNCHANGED lock
        \/ shut' = [shut EXCEPT ![s] = "calling"] /\ status' = "SHUTDOWN" /\ lock' = s
    BY <1>1 DEF ShutDownLocks
  <2> QED BY <2>1, <2>2, <2>3 DEF LoadInv, Loads, UnmarkedTimeout
<1>2. CASE CallShutdownHandler(s)
  <2>1. UNCHANGED <<loads, main, req, status>> /\ lock = s
    BY <1>2 DEF CallShutdownHandler, countVars, LoadInv
  <2>2. \A r \in Requests : ~Loads(r)
    BY <2>1, ActorsAssumption DEF LoadInv
  <2>3. \A t \in Shutdowns : t # s => shut[t] # "calling"
    BY <2>1 DEF LoadInv
  <2>4. \/ UNCHANGED <<lock, shut>>
        \/ lock' = Free /\ shut' = [shut EXCEPT ![s] = "unlocked"]
    BY <1>2 DEF CallShutdownHandler
  <2> QED BY <2>1, <2>2, <2>3, <2>4 DEF LoadInv, Loads, UnmarkedTimeout
<1>3. CASE ShutDown(s) \/ ShutDownDecides(s) \/ ShutDownWaits(s) \/ ShutDownCloses(s)
           \/ ShutDownExpires(s)
  <2>1. UNCHANGED <<loads, main, req, lock, status>>
    BY <1>3 DEF ShutDown, ShutDownDecides, ShutDownWaits, ShutDownCloses, ShutDownExpires,
       nativeVars, countVars
  <2>2. shut' = shut \/ \E pc \in {"lock", "wait", "close", "done"} :
                           shut' = [shut EXCEPT ![s] = pc]
    BY <1>3 DEF ShutDown, ShutDownDecides, ShutDownWaits, ShutDownCloses, ShutDownExpires
  <2> QED BY <2>1, <2>2 DEF LoadInv, Loads, UnmarkedTimeout
<1>4. CASE ShutDownKills(s)
  <2>1. /\ UNCHANGED <<loads, req, lock, status>> /\ main' = "terminated"
        /\ main \notin {"none", "exited", "terminated"}
        /\ shut' = [shut EXCEPT ![s] = "close"]
    BY <1>4 DEF ShutDownKills, nativeVars, countVars, MainActive
  <2>2. ~UnmarkedTimeout
    BY <2>1 DEF UnmarkedTimeout
  <2> QED BY <2>1, <2>2 DEF LoadInv, Loads, UnmarkedTimeout
<1> QED BY <1>1, <1>2, <1>3, <1>4 DEF ShutDownNext

LEMMA LoadStep == LoadInv /\ [Next]_vars => LoadInv'
<1> SUFFICES ASSUME LoadInv, [Next]_vars PROVE LoadInv'
  OBVIOUS
<1>1. CASE WatcherRecycles \/ \E x \in {Main, Watcher} : Recycle(x)
  BY <1>1, LoadUntouched DEF WatcherRecycles, Recycle, RecycleChecks, RecycleLocks,
     RecycleProcess, nativeVars, countVars, loadVars
<1>2. CASE StopAsyncExpires
  BY <1>2 DEF StopAsyncExpires, StopsCalls, countVars, LoadInv, Loads, UnmarkedTimeout
<1>3. CASE UNCHANGED vars
  BY <1>3, LoadUntouched DEF vars, nativeVars, countVars, loadVars
<1> QED BY <1>1, <1>2, <1>3, LoadMainStep, LoadRequestStep, LoadShutDownStep DEF Next, Expires

(* LoadManagedApplication creates a thread first, or in the gap that a     *)
(* time-out leaves between the release of the lock and the status FAIL,    *)
(* whichever requests come and whatever fails; and the thread of Main from *)
(* before has been terminated then.                                        *)
THEOREM OneMainAtATime == Spec => OneMain
<1>1. Init => LoadInv
  BY DEF Init, LoadInv, Loads
<1>2. LoadInv /\ [Next]_vars => (loads' > loads => loads = 0 \/ UnmarkedTimeout)
  <2> SUFFICES ASSUME LoadInv, [Next]_vars, loads' > loads
               PROVE  loads = 0 \/ UnmarkedTimeout
    OBVIOUS
  <2>1. PICK r \in Requests : LoadCreatesThread(r)
    <3>1. loads \in Nat /\ loads' # loads
      BY DEF LoadInv
    <3> QED BY <3>1 DEF Next, vars, nativeVars, countVars, LoadChecks, RequestNext, LoadSkipped,
         LoadCreatesEvent, LoadSucceeds, LoadGivesUp, LoadFails, OnExecuteRequest, HandleRequest,
         OnAsyncCompletionBlocked, PostCompletion, CompleteRequest, LooksAtStopping, LastRequestStopsCalls,
         MainFails, MainRuns, StartAsync, StopAsync, MainNext, StopIncomingRequests, DrainCheck,
         StopAsyncStopsCalls, StopsCalls, Disposes, FreesHandle, MainReturned, MainMarks,
         MainExits, MainRecycled, WatcherRecycles, Recycle, RecycleChecks, RecycleLocks,
         RecycleProcess, ShutDown, ShutDownNext, ShutDownLocks, CallShutdownHandler,
         ShutDownDecides, ShutDownWaits, ShutDownCloses, Expires, StopAsyncExpires,
         ShutDownKills, ShutDownExpires
  <2>2. lock = Free /\ status = "STARTING"
    BY <2>1 DEF LoadCreatesThread, MustLoad
  <2>3. \A q \in Requests : ~Loads(q)
    BY <2>2, ActorsAssumption DEF LoadInv
  <2> QED BY <2>2, <2>3 DEF LoadInv
<1> QED BY <1>1, <1>2, LoadStep, PTL DEF Spec, OneMain

-----------------------------------------------------------------------------
(* Draining: outstanding counts the requests that managed code has taken   *)
(* and not given back, and StopAsync declares that it stops before it      *)
(* looks at the counter.                                                   *)
Taken == {r \in Requests : req[r] \in {"managed", "cut", "posted"}}

Flags ==
  /\ registered \in BOOLEAN /\ initialized \in BOOLEAN /\ blockCallbacks \in BOOLEAN
  /\ byNative \in BOOLEAN /\ byManaged \in BOOLEAN /\ recycleCalled \in BOOLEAN
  /\ instance \in BOOLEAN /\ stopping \in BOOLEAN /\ signal \in BOOLEAN
  /\ stopAsked \in BOOLEAN

Mains == {"none", "loading", "hosting", "serving", "stopIncoming", "drainCheck", "drained",
          "draining", "stopped", "disposing", "returned", "marking", "exiting", "recycling",
          "exited", "terminated"}

Places == {"new", "lock", "createEvent", "wait", "loadFails", "execute", "calling", "managed",
           "cut", "posted", "decremented", "last", "answered"}

(* TypeOK without the range of outstanding.                                *)
Typing ==
  /\ status \in {"STARTING", "RUNNING", "FAIL", "SHUTDOWN"}
  /\ initEvent \in {"none", "clear", "set"}
  /\ Flags
  /\ lock \in {Free} \union Requests \union Shutdowns
  /\ main \in Mains
  /\ req \in [Requests -> Places]
  /\ shut \in [Shutdowns -> {"idle", "lock", "calling", "unlocked", "wait", "close", "done"}]
  /\ recycler \in [{Main, Watcher} -> {"idle", "checking", "lock", "recycle", "done"}]
  /\ server \in {"none", "alloc", "freed"}
  /\ process \in {"up", "exited", "crashed"}
  /\ loads \in Nat /\ recycles \in Nat /\ closes \in Nat

CountInv == outstanding = Cardinality(Taken)

StopInv == main \in {"stopIncoming", "drainCheck", "drained", "draining"} => stopping

(* A request is cut off only behind http_stop_calls_into_managed, whose    *)
(* callers complete _shutdownSignal.                                       *)
CutInv ==
  /\ blockCallbacks => signal
  /\ \A r \in Requests : req[r] = "cut" => blockCallbacks

DrainInv == Typing /\ CountInv /\ StopInv /\ CutInv /\ DrainHasAnEnd

LEMMA StopCallsTyping ==
  ASSUME Typing, StopCalls
  PROVE  /\ blockCallbacks' \in BOOLEAN /\ signal' \in BOOLEAN
         /\ process' \in {"up", "exited", "crashed"}
<1>1. CASE instance
  BY <1>1, Zenon DEF StopCalls, Typing, Flags
<1>2. CASE ~instance
  BY <1>2, Zenon DEF StopCalls, Crash, Typing, Flags
<1> QED BY <1>1, <1>2

LEMMA TypingRequestStep ==
  ASSUME Typing, NEW r \in Requests, LoadChecks(r) \/ RequestNext(r)
  PROVE  Typing'
<1>1. CASE LoadChecks(r) \/ LoadSkipped(r)
  BY <1>1 DEF LoadChecks, LoadSkipped, AfterLoad, nativeVars, managedVars, countVars, Typing,
     Flags, Mains, Places
<1>2. CASE LoadCreatesThread(r)
  BY <1>2 DEF LoadCreatesThread, managedVars, Typing, Flags, Mains, Places
<1>3. CASE LoadCreatesEvent(r)
  BY <1>3 DEF LoadCreatesEvent, managedVars, countVars, Typing, Flags, Mains, Places
<1>4. CASE LoadSucceeds(r)
  BY <1>4 DEF LoadSucceeds, managedVars, countVars, Typing, Flags, Mains, Places
<1>5. CASE LoadGivesUp(r)
  BY <1>5 DEF LoadGivesUp, ReleaseLock, managedVars, countVars, Typing, Flags, Mains, Places
<1>6. CASE LoadFails(r)
  BY <1>6 DEF LoadFails, managedVars, countVars, Typing, Flags, Mains, Places
<1>7. CASE OnExecuteRequest(r) \/ OnAsyncCompletionBlocked(r) \/ PostCompletion(r)
           \/ LooksAtStopping(r)
  BY <1>7 DEF OnExecuteRequest, OnAsyncCompletionBlocked, PostCompletion, LooksAtStopping,
     nativeVars, managedVars, countVars, Typing, Flags, Mains, Places
<1>8. CASE HandleRequest(r)
  BY <1>8 DEF HandleRequest, Crash, nativeVars, countVars, Typing, Flags, Mains, Places
<1>9. CASE CompleteRequest(r)
  BY <1>9 DEF CompleteRequest, nativeVars, countVars, Typing, Flags, Mains, Places
<1>10. CASE LastRequestStopsCalls(r)
  <2>1. /\ blockCallbacks' \in BOOLEAN /\ signal' \in BOOLEAN
        /\ process' \in {"up", "exited", "crashed"}
    BY <1>10, StopCallsTyping DEF LastRequestStopsCalls
  <2>2. /\ UNCHANGED <<status, registered, initEvent, initialized, byNative, byManaged,
                       recycleCalled, lock, instance, stopping, server, stopAsked, main, shut,
                       recycler, loads, recycles, closes>>
        /\ req' = [req EXCEPT ![r] = "answered"]
    BY <1>10 DEF LastRequestStopsCalls, countVars
  <2> QED BY <2>1, <2>2 DEF Typing, Flags, Places
<1> QED BY <1>1, <1>2, <1>3, <1>4, <1>5, <1>6, <1>7, <1>8, <1>9, <1>10 DEF RequestNext

LEMMA TypingMainStep ==
  ASSUME Typing, MainFails \/ MainRuns \/ StartAsync \/ StopAsync \/ MainNext \/ StopAsyncExpires
  PROVE  Typing'
<1>1. CASE MainFails \/ DrainCheck \/ MainRecycled
  BY <1>1 DEF MainFails, DrainCheck, MainRecycled, nativeVars, managedVars, countVars, Typing,
     Flags, Mains
<1>2. CASE MainRuns
  BY <1>2 DEF MainRuns, managedVars, countVars, Typing, Flags, Mains
<1>3. CASE StartAsync
  BY <1>3 DEF StartAsync, countVars, Typing, Flags, Mains
<1>4. CASE StopAsync
  BY <1>4 DEF StopAsync, nativeVars, countVars, Typing, Flags, Mains
<1>5. CASE StopIncomingRequests
  <2>1. /\ UNCHANGED <<status, registered, initEvent, initialized, blockCallbacks, byNative,
                       recycleCalled, lock, instance, managedVars, countVars, req, shut, recycler>>
    BY <1>5 DEF StopIncomingRequests
  <2>2. \/ byManaged' = TRUE /\ main' = "drainCheck" /\ process' = process
        \/ byManaged' = byManaged /\ main' = main /\ process' = "crashed"
    BY <1>5, Zenon DEF StopIncomingRequests, Crash
  <2>3. byManaged' \in BOOLEAN
    BY <2>2, Zenon DEF Typing, Flags
  <2>4. main' \in Mains /\ process' \in {"up", "exited", "crashed"}
    BY <2>2 DEF Typing, Mains
  <2> QED BY <2>1, <2>3, <2>4 DEF managedVars, countVars, Typing, Flags
<1>6. CASE StopAsyncStopsCalls \/ StopAsyncExpires
  <2>1. StopsCalls
    BY <1>6 DEF StopAsyncStopsCalls, StopAsyncExpires
  <2>2. /\ blockCallbacks' \in BOOLEAN /\ signal' \in BOOLEAN
        /\ process' \in {"up", "exited", "crashed"}
    BY <2>1, StopCallsTyping DEF StopsCalls
  <2>3. /\ UNCHANGED <<status, registered, initEvent, initialized, byNative, byManaged,
                       recycleCalled, lock, instance, stopping, server, stopAsked, req, shut,
                       recycler, loads, recycles, closes>>
        /\ main' = "stopped"
    BY <2>1 DEF StopsCalls, countVars
  <2> QED BY <2>2, <2>3 DEF Typing, Flags, Mains
<1>7. CASE Disposes
  <2>1. /\ blockCallbacks' \in BOOLEAN /\ signal' \in BOOLEAN
        /\ process' \in {"up", "exited", "crashed"}
    BY <1>7, StopCallsTyping DEF Disposes
  <2>2. /\ UNCHANGED <<status, registered, initEvent, initialized, byNative, byManaged,
                       recycleCalled, lock, instance, server, stopAsked, req, shut, recycler,
                       loads, recycles, closes>>
        /\ main' = "disposing" /\ stopping' = TRUE
    BY <1>7 DEF Disposes, countVars
  <2> QED BY <2>1, <2>2 DEF Typing, Flags, Mains
<1>8. CASE FreesHandle
  BY <1>8 DEF FreesHandle, nativeVars, countVars, Typing, Flags, Mains
<1>9. CASE MainReturned
  BY <1>9 DEF MainReturned, managedVars, countVars, Typing, Flags, Mains
<1>11. CASE MainMarks
  BY <1>11 DEF MainMarks, managedVars, countVars, Typing, Flags, Mains
<1>10. CASE MainExits
  BY <1>10 DEF MainExits, nativeVars, managedVars, countVars, Typing, Flags, Mains
<1> QED BY <1>1, <1>2, <1>3, <1>4, <1>5, <1>6, <1>7, <1>8, <1>9, <1>10, <1>11 DEF MainNext

LEMMA TypingRecycleStep ==
  ASSUME Typing, WatcherRecycles \/ \E x \in {Main, Watcher} : Recycle(x)
  PROVE  Typing'
<1>1. CASE WatcherRecycles
  BY <1>1 DEF WatcherRecycles, nativeVars, managedVars, countVars, Typing, Flags
<1>2. ASSUME NEW x \in {Main, Watcher}, RecycleChecks(x) PROVE Typing'
  BY <1>2 DEF RecycleChecks, nativeVars, managedVars, countVars, Typing, Flags
<1>3. ASSUME NEW x \in {Main, Watcher}, RecycleLocks(x) PROVE Typing'
  BY <1>3 DEF RecycleLocks, managedVars, countVars, Typing, Flags
<1>4. ASSUME NEW x \in {Main, Watcher}, RecycleProcess(x) PROVE Typing'
  BY <1>4 DEF RecycleProcess, nativeVars, managedVars, Typing, Flags
<1> QED BY <1>1, <1>2, <1>3, <1>4 DEF Recycle

LEMMA TypingShutDownStep ==
  ASSUME Typing, NEW s \in Shutdowns,
         ShutDown(s) \/ ShutDownNext(s) \/ ShutDownKills(s) \/ ShutDownExpires(s)
  PROVE  Typing'
<1>1. CASE ShutDown(s) \/ ShutDownDecides(s) \/ ShutDownWaits(s)
  BY <1>1 DEF ShutDown, ShutDownDecides, ShutDownWaits, nativeVars, managedVars, countVars,
     Typing, Flags
<1>2. CASE ShutDownLocks(s)
  <2>1. CASE Redundant
    BY <1>2, <2>1 DEF ShutDownLocks, managedVars, countVars, Typing, Flags
  <2>2. CASE ~Redundant
    BY <1>2, <2>2 DEF ShutDownLocks, managedVars, countVars, Typing, Flags
  <2> QED BY <2>1, <2>2
<1>3. CASE CallShutdownHandler(s)
  <2>1. UNCHANGED <<status, registered, initEvent, initialized, blockCallbacks, byNative,
                   byManaged, recycleCalled, instance, stopping, signal, server, main, req,
                   recycler, loads, recycles, closes>>
    BY <1>3 DEF CallShutdownHandler, countVars
  <2>2. \/ process' = "crashed" /\ UNCHANGED <<stopAsked, lock, shut>>
        \/ /\ stopAsked' = TRUE /\ lock' = Free /\ process' = process
           /\ shut' = [shut EXCEPT ![s] = "unlocked"]
    BY <1>3, Zenon DEF CallShutdownHandler, Crash, AskToStop
  <2>3. stopAsked' \in BOOLEAN
    BY <2>2, Zenon DEF Typing, Flags
  <2>4. /\ lock' \in {Free} \union Requests \union Shutdowns
        /\ process' \in {"up", "exited", "crashed"}
        /\ shut' \in [Shutdowns -> {"idle", "lock", "calling", "unlocked", "wait", "close", "done"}]
    BY <2>2 DEF Typing
  <2> QED BY <2>1, <2>3, <2>4 DEF Typing, Flags
<1>4. CASE ShutDownCloses(s)
  <2>1. /\ UNCHANGED <<status, registered, initEvent, initialized, blockCallbacks, byNative,
                       byManaged, recycleCalled, lock, managedVars, loads, recycles, main, req,
                       recycler, process>>
        /\ instance' = FALSE /\ closes' = closes + 1
        /\ shut' = [shut EXCEPT ![s] = "done"]
    BY <1>4 DEF ShutDownCloses
  <2>2. /\ closes' \in Nat
        /\ shut' \in [Shutdowns -> {"idle", "lock", "calling", "unlocked", "wait", "close", "done"}]
    BY <2>1 DEF Typing
  <2>3. Flags'
    BY <2>1, Zenon DEF managedVars, Typing, Flags
  <2> QED BY <2>1, <2>2, <2>3 DEF managedVars, Typing
<1>5. CASE ShutDownKills(s) \/ ShutDownExpires(s)
  BY <1>5 DEF ShutDownKills, ShutDownExpires, nativeVars, managedVars, countVars, Typing, Flags,
     Mains
<1> QED BY <1>1, <1>2, <1>3, <1>4, <1>5 DEF ShutDownNext

LEMMA TypingStep == Typing /\ [Next]_vars => Typing'
<1>1. Typing /\ UNCHANGED vars => Typing'
  BY DEF vars, nativeVars, managedVars, countVars, Typing, Flags
<1> QED BY <1>1, TypingRequestStep, TypingMainStep, TypingRecycleStep, TypingShutDownStep
        DEF Next, Expires

(* The counter follows the requests: HandleRequest takes one,              *)
(* CompleteRequest gives one back, and one that was cut off stays taken.   *)
LEMMA TakenFinite == IsFiniteSet(Taken) /\ Cardinality(Taken) \in 0..Cardinality(Requests)
<1>1. Taken \subseteq Requests
  BY DEF Taken
<1>2. IsFiniteSet(Taken) /\ Cardinality(Taken) <= Cardinality(Requests)
  BY <1>1, FiniteRequests, FS_Subset
<1> QED BY <1>2, FiniteRequests, FS_CardinalityType

LEMMA CountRequestStep ==
  ASSUME Typing, CountInv, NEW r \in Requests, LoadChecks(r) \/ RequestNext(r)
  PROVE  CountInv'
<1>1. CASE HandleRequest(r)
  <2>1. CASE server = "freed"
    BY <1>1, <2>1 DEF HandleRequest, CountInv, Taken
  <2>2. CASE server # "freed"
    <3>1. outstanding' = outstanding + 1 /\ req' = [req EXCEPT ![r] = "managed"]
      BY <1>1, <2>2 DEF HandleRequest, Counted
    <3>2. Taken' = Taken \union {r} /\ r \notin Taken
      BY <1>1, <3>1 DEF HandleRequest, Taken, Typing
    <3> QED BY <3>1, <3>2, TakenFinite, FS_AddElement DEF CountInv
  <2> QED BY <2>1, <2>2
<1>2. CASE CompleteRequest(r)
  <2>1. /\ outstanding' = outstanding - 1
        /\ req' = [req EXCEPT ![r] = "decremented"] \/ req' = [req EXCEPT ![r] = "answered"]
    BY <1>2 DEF CompleteRequest
  <2>2. Taken' = Taken \ {r} /\ r \in Taken
    BY <1>2, <2>1 DEF CompleteRequest, Taken, Typing
  <2> QED BY <2>1, <2>2, TakenFinite, FS_RemoveElement DEF CountInv
<1>3. CASE OnAsyncCompletionBlocked(r) \/ PostCompletion(r)
  <2>1. /\ outstanding' = outstanding
        /\ req[r] = "managed"
        /\ req' = [req EXCEPT ![r] = "cut"] \/ req' = [req EXCEPT ![r] = "posted"]
    BY <1>3 DEF OnAsyncCompletionBlocked, PostCompletion, managedVars
  <2>2. Taken' = Taken
    BY <2>1 DEF Taken, Typing
  <2> QED BY <2>1, <2>2 DEF CountInv
<1>4. CASE \/ LoadChecks(r) \/ LoadSkipped(r) \/ LoadCreatesThread(r) \/ LoadCreatesEvent(r)
           \/ LoadSucceeds(r) \/ LoadGivesUp(r) \/ LoadFails(r) \/ OnExecuteRequest(r)
           \/ LooksAtStopping(r) \/ LastRequestStopsCalls(r)
  <2>1. outstanding' = outstanding
    BY <1>4 DEF LoadChecks, LoadSkipped, LoadCreatesThread, LoadCreatesEvent, LoadSucceeds,
       LoadGivesUp, LoadFails, OnExecuteRequest, LooksAtStopping, LastRequestStopsCalls,
       managedVars
  <2>2. /\ req[r] \in {"new", "lock", "createEvent", "wait", "loadFails", "execute",
                       "decremented", "last"}
        /\ \E pc \in {"lock", "createEvent", "wait", "loadFails", "execute", "calling", "last",
                      "answered"} : req' = [req EXCEPT ![r] = pc]
    BY <1>4 DEF LoadChecks, LoadSkipped, LoadCreatesThread, LoadCreatesEvent, LoadSucceeds,
       LoadGivesUp, LoadFails, OnExecuteRequest, LooksAtStopping, LastRequestStopsCalls, AfterLoad
  <2>3. Taken' = Taken
    BY <2>2 DEF Taken, Typing
  <2> QED BY <2>1, <2>3 DEF CountInv
<1> QED BY <1>1, <1>2, <1>3, <1>4 DEF RequestNext

(* Nobody else touches the requests or the counter.                        *)
LEMMA RequestFrame ==
  ASSUME [Next]_vars
  PROVE  \/ \E r \in Requests : LoadChecks(r) \/ RequestNext(r)
         \/ UNCHANGED <<req, outstanding>>
<1>1. CASE MainFails \/ MainRuns \/ StartAsync \/ StopAsync
  BY <1>1 DEF MainFails, MainRuns, StartAsync, StopAsync, managedVars
<1>2. CASE MainNext
  BY <1>2 DEF MainNext, StopIncomingRequests, DrainCheck, StopAsyncStopsCalls, StopsCalls,
     Disposes, FreesHandle, MainReturned, MainMarks, MainExits, MainRecycled, managedVars
<1>3. CASE WatcherRecycles \/ \E x \in {Main, Watcher} : Recycle(x)
  BY <1>3 DEF WatcherRecycles, Recycle, RecycleChecks, RecycleLocks, RecycleProcess, managedVars
<1>4. ASSUME NEW s \in Shutdowns, ShutDown(s) \/ ShutDownNext(s)
      PROVE  UNCHANGED <<req, outstanding>>
  BY <1>4 DEF ShutDown, ShutDownNext, ShutDownLocks, CallShutdownHandler, ShutDownDecides,
     ShutDownWaits, ShutDownCloses, managedVars
<1>5. CASE Expires
  BY <1>5 DEF Expires, StopAsyncExpires, StopsCalls, ShutDownKills, ShutDownExpires, managedVars
<1>6. CASE UNCHANGED vars
  BY <1>6 DEF vars, managedVars
<1> QED BY <1>1, <1>2, <1>3, <1>4, <1>5, <1>6 DEF Next

LEMMA CountStep == Typing /\ CountInv /\ [Next]_vars => CountInv'
<1>1. CountInv /\ UNCHANGED <<req, outstanding>> => CountInv'
  BY DEF CountInv, Taken
<1> QED BY <1>1, CountRequestStep, RequestFrame

(* Main reaches the drain through StopAsync, and nobody takes _stopping    *)
(* back.                                                                   *)
LEMMA StopStep == Typing /\ StopInv /\ [Next]_vars => StopInv'
<1> SUFFICES ASSUME Typing, StopInv, [Next]_vars PROVE StopInv'
  OBVIOUS
<1>1. CASE StopAsync
  BY <1>1 DEF StopAsync, StopInv
<1>2. CASE Disposes
  BY <1>2 DEF Disposes, StopInv
<1>3. CASE StopIncomingRequests
  BY <1>3 DEF StopIncomingRequests, managedVars, StopInv
<1>4. CASE DrainCheck
  BY <1>4 DEF DrainCheck, managedVars, StopInv
<1>5. ASSUME ~StopAsync, ~Disposes, ~StopIncomingRequests, ~DrainCheck
      PROVE  /\ stopping' = stopping
             /\ main' = main \/ main' \notin {"stopIncoming", "drainCheck", "drained", "draining"}
  <2>1. ASSUME NEW r \in Requests, LoadChecks(r) \/ RequestNext(r)
        PROVE  stopping' = stopping /\ main' \in {main, "loading", "terminated"}
    BY <2>1 DEF LoadChecks, RequestNext, LoadSkipped, LoadCreatesThread, LoadCreatesEvent,
       LoadSucceeds, LoadGivesUp, LoadFails, OnExecuteRequest, HandleRequest,
       OnAsyncCompletionBlocked, PostCompletion, CompleteRequest, LooksAtStopping, LastRequestStopsCalls,
       managedVars
  <2>2. CASE MainFails \/ MainRuns \/ StartAsync \/ MainNext
    BY <1>5, <2>2 DEF MainFails, MainRuns, StartAsync, MainNext, StopAsyncStopsCalls, StopsCalls,
       FreesHandle, MainReturned, MainMarks, MainExits, MainRecycled, managedVars
  <2>3. CASE WatcherRecycles \/ \E x \in {Main, Watcher} : Recycle(x)
    BY <2>3 DEF WatcherRecycles, Recycle, RecycleChecks, RecycleLocks, RecycleProcess, managedVars
  <2>4. ASSUME NEW s \in Shutdowns, ShutDown(s) \/ ShutDownNext(s)
        PROVE  stopping' = stopping /\ main' = main
    BY <2>4 DEF ShutDown, ShutDownNext, ShutDownLocks, CallShutdownHandler, ShutDownDecides,
       ShutDownWaits, ShutDownCloses, managedVars
  <2>5. CASE Expires
    BY <2>5 DEF Expires, StopAsyncExpires, StopsCalls, ShutDownKills, ShutDownExpires, managedVars
  <2>6. CASE UNCHANGED vars
    BY <2>6 DEF vars, managedVars
  <2> QED BY <1>5, <2>1, <2>2, <2>3, <2>4, <2>5, <2>6 DEF Next
<1> QED BY <1>1, <1>2, <1>3, <1>4, <1>5 DEF StopInv

(* A drain that has begun keeps somebody to end it: a request that is      *)
(* taken, or the last one, on its way to complete the signal.              *)
LEMMA DrainRequestStep ==
  ASSUME Typing, CountInv, StopInv, CutInv, DrainHasAnEnd, NEW r \in Requests,
         LoadChecks(r) \/ RequestNext(r)
  PROVE  DrainHasAnEnd'
<1> SUFFICES ASSUME Up', main' = "draining", ~signal'
             PROVE  \E q \in Requests : req'[q] \in {"managed", "posted", "decremented", "last"}
  BY DEF DrainHasAnEnd
<1>1. Up
  BY DEF LoadChecks, RequestNext, LoadSkipped, LoadCreatesThread, LoadCreatesEvent,
     LoadSucceeds, LoadGivesUp, LoadFails, OnExecuteRequest, HandleRequest,
     OnAsyncCompletionBlocked, PostCompletion, CompleteRequest, LooksAtStopping, LastRequestStopsCalls
<1>2. main = "draining"
  BY DEF LoadChecks, RequestNext, LoadSkipped, LoadCreatesThread, LoadCreatesEvent,
     LoadSucceeds, LoadGivesUp, LoadFails, OnExecuteRequest, HandleRequest,
     OnAsyncCompletionBlocked, PostCompletion, CompleteRequest, LooksAtStopping, LastRequestStopsCalls
<1>3. ~LastRequestStopsCalls(r)
  BY Zenon DEF LastRequestStopsCalls, StopCalls, Crash, Up
<1>4. signal' = signal
  BY <1>3 DEF LoadChecks, RequestNext, LoadSkipped, LoadCreatesThread, LoadCreatesEvent,
     LoadSucceeds, LoadGivesUp, LoadFails, OnExecuteRequest, HandleRequest,
     OnAsyncCompletionBlocked, PostCompletion, CompleteRequest, LooksAtStopping, managedVars
<1>5. PICK q \in Requests : req[q] \in {"managed", "posted", "decremented", "last"}
  BY <1>1, <1>2, <1>4 DEF DrainHasAnEnd
<1>6. CASE CompleteRequest(r)
  <2>1. stopping /\ req[r] = "posted"
    BY <1>2, <1>6 DEF StopInv, CompleteRequest
  <2>2. CASE IsLast
    <3>1. req' = [req EXCEPT ![r] = "decremented"]
      BY <1>6, <2>2 DEF CompleteRequest
    <3> QED BY <3>1 DEF Typing
  <2>3. CASE ~IsLast
    <3>1. req' = [req EXCEPT ![r] = "answered"]
      BY <1>6, <2>3 DEF CompleteRequest
    <3>2. Cardinality(Taken) # 1 /\ r \in Taken
      BY <2>1, <2>3, TakenFinite DEF IsLast, CountInv, Taken
    <3>3. IsFiniteSet(Taken \ {r}) /\ Cardinality(Taken \ {r}) = Cardinality(Taken) - 1
      BY <3>2, TakenFinite, FS_RemoveElement
    <3>4. PICK p \in Taken : p # r
      <4>1. Cardinality(Taken) \in Nat
        BY TakenFinite, FS_CardinalityType
      <4>2. Taken \ {r} # {}
        BY <3>2, <3>3, <4>1, FS_EmptySet
      <4> QED BY <4>2
    <3>5. p \in Requests /\ req'[p] \in {"managed", "posted"}
      <4>1. ~signal
        BY <1>4
      <4>2. req[p] # "cut"
        BY <3>4, <4>1 DEF CutInv, Taken
      <4> QED BY <3>1, <3>4, <4>2 DEF Taken, Typing
    <3> QED BY <3>5
  <2> QED BY <2>2, <2>3
<1>7. CASE HandleRequest(r)
  BY <1>5, <1>7 DEF HandleRequest, Crash, Up, Typing
<1>8. CASE PostCompletion(r)
  BY <1>5, <1>8 DEF PostCompletion, Typing
<1>10. ~OnAsyncCompletionBlocked(r)
  BY <1>4 DEF OnAsyncCompletionBlocked, CutInv
<1>11. CASE LooksAtStopping(r)
  <2>1. stopping
    BY <1>2 DEF StopInv
  <2> QED BY <1>11, <2>1 DEF LooksAtStopping, Typing
<1>9. CASE \/ LoadChecks(r) \/ LoadSkipped(r) \/ LoadCreatesThread(r) \/ LoadCreatesEvent(r)
           \/ LoadSucceeds(r) \/ LoadGivesUp(r) \/ LoadFails(r) \/ OnExecuteRequest(r)
  <2>1. req[r] \in {"new", "lock", "createEvent", "wait", "loadFails", "execute"}
    BY <1>9 DEF LoadChecks, LoadSkipped, LoadCreatesThread, LoadCreatesEvent, LoadSucceeds,
       LoadGivesUp, LoadFails, OnExecuteRequest
  <2>2. \E pc \in Places : req' = [req EXCEPT ![r] = pc]
    BY <1>9 DEF LoadChecks, LoadSkipped, LoadCreatesThread, LoadCreatesEvent, LoadSucceeds,
       LoadGivesUp, LoadFails, OnExecuteRequest, AfterLoad, Places
  <2>3. q # r /\ req'[q] = req[q]
    BY <1>5, <2>1, <2>2 DEF Typing
  <2> QED BY <1>5, <2>3
<1> QED BY <1>3, <1>6, <1>7, <1>8, <1>9, <1>10, <1>11 DEF RequestNext

(* Only StopCalls blocks the callbacks, and nobody takes it back.          *)
LEMMA CutStep == Typing /\ CutInv /\ [Next]_vars => CutInv'
<1> SUFFICES ASSUME Typing, CutInv, [Next]_vars PROVE CutInv'
  OBVIOUS
<1>1. \/ UNCHANGED <<blockCallbacks, signal>>
      \/ blockCallbacks' = TRUE /\ signal' = TRUE
  <2>1. StopCalls => \/ UNCHANGED <<blockCallbacks, signal>>
                     \/ blockCallbacks' = TRUE /\ signal' = TRUE
    BY Zenon DEF StopCalls
  <2>2. CASE \/ \E r \in Requests : LastRequestStopsCalls(r)
             \/ StopAsyncStopsCalls \/ StopAsyncExpires \/ Disposes
    BY <2>1, <2>2, Zenon DEF LastRequestStopsCalls, StopAsyncStopsCalls, StopAsyncExpires, StopsCalls,
       Disposes
  <2>3. ASSUME NEW r \in Requests, LoadChecks(r) \/ RequestNext(r), ~LastRequestStopsCalls(r)
        PROVE  UNCHANGED <<blockCallbacks, signal>>
    BY <2>3 DEF LoadChecks, RequestNext, LoadSkipped, LoadCreatesThread, LoadCreatesEvent,
       LoadSucceeds, LoadGivesUp, LoadFails, OnExecuteRequest, HandleRequest,
       OnAsyncCompletionBlocked, PostCompletion, CompleteRequest, LooksAtStopping, nativeVars,
       managedVars
  <2>4. ASSUME MainFails \/ MainRuns \/ StartAsync \/ StopAsync \/ MainNext,
               ~StopAsyncStopsCalls, ~Disposes
        PROVE  UNCHANGED <<blockCallbacks, signal>>
    BY <2>4 DEF MainFails, MainRuns, StartAsync, StopAsync, MainNext, StopIncomingRequests,
       DrainCheck, FreesHandle, MainReturned, MainMarks, MainExits, MainRecycled, nativeVars,
       managedVars
  <2>5. CASE WatcherRecycles \/ \E x \in {Main, Watcher} : Recycle(x)
    BY <2>5 DEF WatcherRecycles, Recycle, RecycleChecks, RecycleLocks, RecycleProcess, nativeVars,
       managedVars
  <2>6. ASSUME NEW s \in Shutdowns, \/ ShutDown(s) \/ ShutDownNext(s)
                                   \/ ShutDownKills(s) \/ ShutDownExpires(s)
        PROVE  UNCHANGED <<blockCallbacks, signal>>
    BY <2>6 DEF ShutDown, ShutDownNext, ShutDownLocks, CallShutdownHandler, ShutDownDecides,
       ShutDownWaits, ShutDownCloses, ShutDownKills, ShutDownExpires, nativeVars, managedVars
  <2>7. CASE UNCHANGED vars
    BY <2>7 DEF vars, nativeVars, managedVars
  <2> QED BY <2>2, <2>3, <2>4, <2>5, <2>6, <2>7 DEF Next, Expires
<1>2. ASSUME NEW r \in Requests, req'[r] = "cut" PROVE blockCallbacks
  <2>1. CASE req' = req
    BY <1>2, <2>1 DEF CutInv
  <2>2. ASSUME NEW q \in Requests, LoadChecks(q) \/ RequestNext(q) PROVE blockCallbacks
    <3>1. CASE OnAsyncCompletionBlocked(q)
      BY <3>1 DEF OnAsyncCompletionBlocked
    <3>2. CASE ~OnAsyncCompletionBlocked(q)
      <4>1. req' = req \/ \E pc \in Places \ {"cut"} : req' = [req EXCEPT ![q] = pc]
        BY <2>2, <3>2 DEF LoadChecks, RequestNext, LoadSkipped, LoadCreatesThread,
           LoadCreatesEvent, LoadSucceeds, LoadGivesUp, LoadFails, OnExecuteRequest,
           HandleRequest, PostCompletion, CompleteRequest, LooksAtStopping,
           LastRequestStopsCalls, AfterLoad, Places
      <4>2. req[r] = "cut"
        BY <1>2, <4>1 DEF Typing
      <4> QED BY <4>2 DEF CutInv
    <3> QED BY <3>1, <3>2
  <2> QED BY <2>1, <2>2, RequestFrame
<1> QED BY <1>1, <1>2 DEF CutInv

LEMMA DrainStep == DrainInv /\ [Next]_vars => DrainHasAnEnd'
<1> SUFFICES ASSUME DrainInv, [Next]_vars PROVE DrainHasAnEnd'
  OBVIOUS
<1> USE DEF DrainInv
<1>1. CASE DrainCheck
  <2>1. CASE Taken = {}
    <3>1. outstanding = 0
      BY <2>1, FS_EmptySet DEF CountInv
    <3> QED BY <1>1, <3>1 DEF DrainCheck, NothingOutstanding, DrainHasAnEnd
  <2>2. CASE Taken # {}
    <3>1. PICK r \in Requests : req[r] \in {"managed", "cut", "posted"}
      BY <2>2 DEF Taken
    <3>2. req' = req /\ signal' = signal
      BY <1>1 DEF DrainCheck, managedVars
    <3>3. ~signal => req[r] # "cut"
      BY DEF CutInv
    <3> QED BY <3>1, <3>2, <3>3 DEF DrainHasAnEnd
  <2> QED BY <2>1, <2>2
<1>2. ASSUME NEW r \in Requests, LoadChecks(r) \/ RequestNext(r) PROVE DrainHasAnEnd'
  BY <1>2, DrainRequestStep
<1>3. ASSUME ~DrainCheck, UNCHANGED <<req, outstanding>>,
             ~\E r \in Requests : LoadChecks(r) \/ RequestNext(r)
      PROVE  DrainHasAnEnd'
  <2>1. Up' => Up
    <3>1. CASE UNCHANGED vars
      BY <3>1 DEF vars, Up
    <3> QED BY <1>3, <3>1 DEF Next, Up, MainFails, MainRuns, StartAsync, StopAsync, MainNext,
         StopIncomingRequests, StopAsyncStopsCalls, StopsCalls, Disposes, FreesHandle,
         MainReturned, MainMarks, MainExits, MainRecycled, WatcherRecycles, Recycle, RecycleChecks,
         RecycleLocks, RecycleProcess, ShutDown, ShutDownNext, ShutDownLocks,
         CallShutdownHandler, ShutDownDecides, ShutDownWaits, ShutDownCloses, Expires,
         StopAsyncExpires, ShutDownKills, ShutDownExpires
  <2>2. main' = "draining" => main = "draining" /\ signal' = signal
    <3>1. CASE MainFails \/ MainRuns \/ StartAsync \/ StopAsync \/ MainNext
      BY <1>3, <3>1 DEF MainFails, MainRuns, StartAsync, StopAsync, MainNext,
         StopIncomingRequests, StopAsyncStopsCalls, StopsCalls, Disposes, FreesHandle,
         MainReturned, MainMarks, MainExits, MainRecycled, managedVars
    <3>2. CASE WatcherRecycles \/ \E x \in {Main, Watcher} : Recycle(x)
      BY <3>2 DEF WatcherRecycles, Recycle, RecycleChecks, RecycleLocks, RecycleProcess,
         managedVars
    <3>3. ASSUME NEW s \in Shutdowns, ShutDown(s) \/ ShutDownNext(s)
          PROVE  signal' = signal /\ main' = main
      BY <3>3 DEF ShutDown, ShutDownNext, ShutDownLocks, CallShutdownHandler, ShutDownDecides,
         ShutDownWaits, ShutDownCloses, managedVars
    <3>4. CASE Expires
      BY <3>4 DEF Expires, StopAsyncExpires, StopsCalls, ShutDownKills, ShutDownExpires,
         managedVars
    <3>5. CASE UNCHANGED vars
      BY <3>5 DEF vars, managedVars
    <3> QED BY <1>3, <3>1, <3>2, <3>3, <3>4, <3>5 DEF Next
  <2> QED BY <1>3, <2>1, <2>2 DEF DrainHasAnEnd
<1> QED BY <1>1, <1>2, <1>3, RequestFrame

(* The counter, the requests in managed code and the place of StopAsync    *)
(* fit together, however StopAsync and the requests interleave.            *)
THEOREM DrainInvHolds == Spec => []DrainInv
<1>1. ASSUME Init PROVE DrainInv
  <2>1. Flags
    BY <1>1, Zenon DEF Init, Flags
  <2>2. Typing
    BY <1>1, <2>1 DEF Init, Typing, Mains, Places
  <2>3. Taken = {} /\ outstanding = 0
    BY <1>1 DEF Init, Taken
  <2>4. CountInv
    BY <2>3, FS_EmptySet DEF CountInv
  <2> QED BY <1>1, <2>2, <2>4 DEF Init, DrainInv, StopInv, CutInv, DrainHasAnEnd
<1>2. DrainInv /\ [Next]_vars => DrainInv'
  BY TypingStep, CountStep, StopStep, CutStep, DrainStep DEF DrainInv
<1> QED BY <1>1, <1>2, PTL DEF Spec

(* For any number of requests and callers of ShutDown: the flags of both   *)
(* sides have their types, IISHttpServer._outstandingRequests stays within *)
(* the number of requests, and while StopAsync waits for the drain and     *)
(* _shutdownSignal is open a request is left that will decrement, or that  *)
(* has brought the counter to 0 and will look at the flag or has done so.  *)
THEOREM DrainIsSafe == Spec => []DrainSafe
<1>1. ASSUME DrainInv PROVE DrainSafe
  <2>1. outstanding \in 0..Cardinality(Requests)
    BY <1>1, TakenFinite DEF DrainInv, CountInv
  <2>2. \A flag \in {registered, initialized, blockCallbacks, byNative, byManaged,
                     recycleCalled, instance, stopping, signal, stopAsked} : flag \in BOOLEAN
    BY <1>1, Zenon DEF DrainInv, Typing, Flags
  <2> QED BY <1>1, <2>1, <2>2 DEF DrainInv, Typing, Mains, Places, TypeOK, DrainSafe
<1> QED BY <1>1, DrainInvHolds, PTL

(* The counter of IISHttpServer is exactly the number of requests that     *)
(* managed code has taken and not given back, so DrainCheck and the last   *)
(* CompleteRequest decide on the truth however they interleave.            *)
THEOREM CounterIsExact == Spec => [](outstanding = Cardinality(Taken))
<1>1. DrainInv => outstanding = Cardinality(Taken)
  BY DEF DrainInv, CountInv
<1> QED BY <1>1, DrainInvHolds, PTL

=============================================================================
