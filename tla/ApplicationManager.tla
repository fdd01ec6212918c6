------------------------- MODULE ApplicationManager -------------------------
(***************************************************************************)
(* The applications of one IIS worker process: APPLICATION_MANAGER keeps   *)
(* one APPLICATION_INFO per configuration path, an APPLICATION_INFO owns   *)
(* the running IAPPLICATION and a FILE_WATCHER_ENTRY for app_offline.htm.  *)
(* Five kinds of threads meet here: requests (ASPNET_CORE_PROXY_MODULE),   *)
(* the notification of a configuration change, the notification that the   *)
(* process stops listening, the file watcher's thread, and one thread per  *)
(* recycled application.                                                   *)
(*                                                                         *)
(* Objects are reference counted, as in the code: `refs' is m_cRefs.  The  *)
(* destructor of an APPLICATION_INFO is an action of its own because it    *)
(* waits for the lock of the file watcher entry; the thread that dropped   *)
(* the last reference waits for it.  Sections under the manager's lock     *)
(* that touch nothing another thread reads without it are one step.        *)
(***************************************************************************)
EXTENDS Integers, FiniteSets, SequencesExt

CONSTANTS
    Requests,     \* the HTTP requests
    Keys,         \* the configuration paths of the applications
    ChangePaths,  \* the paths a configuration change may name
    MaxInfos,     \* bound: APPLICATION_INFO objects created
    MaxApps,      \* bound: IAPPLICATION objects created
    MaxEvents,    \* bound: app_offline.htm dropped or removed, configuration changes and
                  \* the shutdown, together
    Slash,        \* the separator of configuration paths
    ThreadFails   \* whether CreateThread may fail

ASSUME FiniteRequests == IsFiniteSet(Requests)
ASSUME BoundsAssumption == MaxInfos \in Nat /\ MaxApps \in Nat /\ MaxEvents \in Nat

\* Paths are sequences of segments and separators.
Segments == {Slash} \union UNION {Range(p) : p \in Keys \union ChangePaths}
ASSUME PathsAreSequences == Keys \union ChangePaths \subseteq Seq(Segments)

Infos == 1 .. MaxInfos
Apps == 1 .. MaxApps
None == 0
Models == {"in", "out"}

VARIABLES
    hosting,      \* hosting model configured for each key
    inShutdown,   \* g_fInShutdown
    recycling,    \* g_fRecycleProcessCalled: IIS was asked to recycle the process
    mgrLock,      \* holder of APPLICATION_MANAGER::m_srwLock in exclusive mode
    table,        \* the records of m_pApplicationInfoHash
    hashUp,       \* FALSE once the hash table has been deleted
    hostingModel, \* m_hostingModel
    watcher,      \* whether m_pFileWatcher still exists
    rh,           \* g_fAspnetcoreRHAssemblyLoaded, g_fAspnetcoreRHLoadedError
    info,         \* the APPLICATION_INFO objects
    entry,        \* their FILE_WATCHER_ENTRY objects
    app,          \* the IAPPLICATION objects
    file,         \* per key, whether app_offline.htm is in the directory
    req,          \* the requests
    w,            \* the file watcher's thread
    c,            \* the thread of the configuration change
    s,            \* the thread that shuts everything down
    flips,        \* times app_offline.htm was dropped or removed: the version of its page
    events        \* bounded by MaxEvents

mvars == <<mgrLock, table, hashUp, hostingModel>>
bounds == <<flips, events>>
vars == <<hosting, inShutdown, recycling, mgrLock, table, hashUp, hostingModel, watcher,
          rh, info, entry, app, file, req, w, c, s, flips, events>>

\* The constructor leaves m_pApplication as it finds it: CreateInfo has the other values.
NoInfo == [st |-> "unused", key |-> <<>>, model |-> "out", refs |-> 0, offline |-> FALSE,
           page |-> 0, app |-> None, lock |-> FALSE]
NoEntry == [refs |-> 0, valid |-> FALSE, stop |-> FALSE, dir |-> FALSE, io |-> FALSE,
            dirty |-> FALSE, lock |-> FALSE]
NoApplication == [st |-> "unused", model |-> "out", refs |-> 0, threads |-> 0, stops |-> 0]

Init ==
    /\ hosting \in [Keys -> Models]
    /\ inShutdown = FALSE /\ recycling = FALSE
    /\ mgrLock = "free" /\ table = {} /\ hashUp = TRUE /\ hostingModel = "unknown"
    /\ watcher = TRUE /\ rh = "none"
    /\ info = [i \in Infos |-> NoInfo]
    /\ entry = [i \in Infos |-> NoEntry]
    /\ app = [a \in Apps |-> NoApplication]
    /\ file = [k \in Keys |-> FALSE]
    /\ req = [r \in Requests |-> [pc |-> "idle", key |-> <<>>, inf |-> None, ap |-> None]]
    /\ w = [pc |-> "wait", e |-> None]
    /\ c = [pc |-> "idle", path |-> <<>>, todo |-> {}, copy |-> {}, keep |-> FALSE]
    /\ s = [pc |-> "idle", todo |-> {}]
    /\ flips = 0 /\ events = 0

(***************************************************************************)
(* Reference counts.                                                       *)
(***************************************************************************)

\* DereferenceApplicationInfo on each record of S: the last reference starts the
\* destructor, which first marks the watcher entry invalid and stopped.
Drop(f, S) ==
    [i \in Infos |-> IF i \in S
                     THEN [f[i] EXCEPT !.refs = @ - 1,
                                       !.st = IF f[i].refs = 1 THEN "dying" ELSE @]
                     ELSE f[i]]
Marked(e, f, S) ==
    [i \in Infos |-> IF i \in S /\ f[i].refs = 1
                     THEN [e[i] EXCEPT !.valid = FALSE, !.stop = TRUE]
                     ELSE e[i]]
Take(f, S) == [i \in Infos |-> IF i \in S THEN [f[i] EXCEPT !.refs = @ + 1] ELSE f[i]]

\* DereferenceApplication: the destructor of an out-of-process application stops it.
AppDrop(f, a) ==
    [f EXCEPT ![a].refs = @ - 1, ![a].st = IF f[a].refs = 1 THEN "freed" ELSE @]

\* ShutDown or Recycle of an out-of-process application.
Stop(f, a) == [f EXCEPT ![a].st = "stopped", ![a].stops = @ + 1]

\* HASH_TABLE::FindKey.
Find(k) == {i \in table : info[i].key = k}

(***************************************************************************)
(* APPLICATION_MANAGER::GetOrCreateApplicationInfo, called by a request.   *)
(***************************************************************************)

Goto(r, pc) == req' = [req EXCEPT ![r].pc = pc]

\* OnExecuteRequestHandler: nothing is started once the process shuts down.
OnExecuteRequestHandler(r) ==
    /\ req[r].pc = "idle"
    /\ \E k \in Keys : req' = [req EXCEPT ![r].key = k,
                                          ![r].pc = IF inShutdown THEN "done" ELSE "find"]
    /\ UNCHANGED <<hosting, inShutdown, recycling, mvars, watcher, rh, info, entry, app,
                   file, w, c, s, bounds>>

\* The search under the shared lock references the record it finds.
FindInfo(r) ==
    /\ req[r].pc = "find" /\ mgrLock = "free"
    /\ IF inShutdown
       THEN Goto(r, "done") /\ UNCHANGED info
       ELSE LET found == Find(req[r].key) IN
            /\ info' = Take(info, found)
            /\ req' = [req EXCEPT
                 ![r].inf = IF found = {} THEN None ELSE CHOOSE i \in found : TRUE,
                 ![r].pc = IF found # {} THEN "offline"
                           ELSE IF hosting[req[r].key] = "in" THEN "count" ELSE "create"]
    /\ UNCHANGED <<hosting, inShutdown, recycling, mvars, watcher, rh, entry, app, file,
                   w, c, s, bounds>>

\* "Only one inprocess app is allowed": Count() is read without the lock.  The shutdown
\* may have deleted the table: Count() of freed memory returns anything, of the NULL that
\* replaces the pointer nothing, and the process ends.
CountInfos(r) ==
    /\ req[r].pc = "count"
    /\ \/ (hashUp => table # {}) /\ Goto(r, "done")
       \/ (hashUp => table = {}) /\ Goto(r, "create")
       \/ ~hashUp /\ Goto(r, "faulted")
    /\ UNCHANGED <<hosting, inShutdown, recycling, mvars, watcher, rh, info, entry, app,
                   file, w, c, s, bounds>>

ChecksOnce(k) == {}
CreatedMeanwhile(k) == Find(k)

AllowMixed(k) == FALSE
Mixed(k) == hostingModel # "unknown" /\ hostingModel # hosting[k]

\* Under the exclusive lock: somebody else may have created the record meanwhile.  A new
\* record whose m_pApplication happens not to be NULL ends the process when a request or
\* the destructor uses it; the model does not follow it until then.
CreateInfo(r) ==
    /\ req[r].pc = "create" /\ mgrLock = "free"
    /\ LET found == CreatedMeanwhile(req[r].key) IN
       IF inShutdown
       THEN Goto(r, "done") /\ UNCHANGED <<info, mgrLock>>
       ELSE IF found # {}
       THEN /\ info' = Take(info, found)
            /\ req' = [req EXCEPT ![r].inf = CHOOSE i \in found : TRUE, ![r].pc = "offline"]
            /\ UNCHANGED mgrLock
       ELSE IF Mixed(req[r].key)
       THEN Goto(r, "done") /\ UNCHANGED <<info, mgrLock>>
       ELSE \/ Goto(r, "faulted") /\ UNCHANGED <<info, mgrLock>>
            \/ \E i \in Infos :
                 /\ \A j \in Infos : info[j].st = "unused" <=> j >= i
                 /\ info' = [info EXCEPT ![i] = [NoInfo EXCEPT !.st = "live", !.refs = 1,
                                 !.key = req[r].key, !.model = hosting[req[r].key]]]
                 /\ req' = [req EXCEPT ![r].inf = i, ![r].pc = "init"]
                 /\ mgrLock' = "request"
    /\ UNCHANGED <<hosting, inShutdown, recycling, table, hashUp, hostingModel, watcher, rh,
                   entry, app, file, w, c, s, bounds>>

\* Initialize looks for app_offline.htm, InsertRecord references the record, and
\* StartMonitoringAppOffline opens the directory before the lock is released.  The
\* entry cannot monitor anything when the file watcher is gone; the error is ignored.
InitializeInfo(r) ==
    LET i == req[r].inf
        k == req[r].key
    IN
    /\ req[r].pc = "init"
    /\ info' = [info EXCEPT ![i].refs = @ + 1, ![i].offline = file[k],
                            ![i].page = IF file[k] THEN flips ELSE 0]
    /\ entry' = [entry EXCEPT ![i] = [NoEntry EXCEPT !.refs = IF watcher THEN 2 ELSE 1,
                     !.valid = TRUE, !.dir = TRUE, !.io = watcher]]
    /\ table' = table \union {i}
    /\ hostingModel' = IF hostingModel = "unknown" THEN hosting[k] ELSE hostingModel
    /\ mgrLock' = "free"
    /\ Goto(r, "offline")
    /\ UNCHANGED <<hosting, inShutdown, recycling, hashUp, watcher, rh, app, file, w, c, s, bounds>>

(***************************************************************************)
(* The rest of OnExecuteRequestHandler.                                    *)
(***************************************************************************)

\* app_offline.htm is served by reference.
AppOfflineFound(r) ==
    /\ req[r].pc = "offline"
    /\ Goto(r, IF info[req[r].inf].offline THEN "serve" ELSE "ensure")
    /\ UNCHANGED <<hosting, inShutdown, recycling, mvars, watcher, rh, info, entry, app,
                   file, w, c, s, bounds>>

ServeOffline(r) ==
    /\ req[r].pc = "serve"
    /\ Goto(r, "pending")
    /\ UNCHANGED <<hosting, inShutdown, recycling, mvars, watcher, rh, info, entry, app,
                   file, w, c, s, bounds>>

\* EnsureApplicationCreated looks at m_pApplication without the lock first.
EnsureUnlocked(r) ==
    /\ req[r].pc = "ensure"
    /\ Goto(r, IF info[req[r].inf].app # None THEN "extract" ELSE "lock")
    /\ UNCHANGED <<hosting, inShutdown, recycling, mvars, watcher, rh, info, entry, app,
                   file, w, c, s, bounds>>

\* FindRequestHandlerAssembly: loaded once per process, and a failure is remembered.
Loads(outcome) ==
    /\ outcome \in (IF rh = "none" THEN {"loaded", "error"} ELSE {rh})
    /\ rh' = outcome

CreatesUnlocked(i) == info
CreatesLocked(i) == [info EXCEPT ![i].lock = TRUE]

\* With the lock: created meanwhile, or offline now, or the request handler is looked up.
EnsureLocked(r) ==
    LET i == req[r].inf IN
    /\ req[r].pc = "lock" /\ ~info[i].lock
    /\ \/ /\ info[i].app # None \/ info[i].offline
          /\ Goto(r, "extract") /\ UNCHANGED <<rh, info>>
       \/ /\ info[i].app = None /\ ~info[i].offline
          /\ \/ Loads("error") /\ Goto(r, "pending") /\ UNCHANGED info
             \/ Loads("loaded") /\ Goto(r, "make") /\ info' = CreatesLocked(i)
    /\ UNCHANGED <<hosting, inShutdown, recycling, mvars, watcher, entry, app, file,
                   w, c, s, bounds>>

\* CreateApplication, still under the lock, and the end of EnsureApplicationCreated.
CreateApplication(r) ==
    LET i == req[r].inf IN
    /\ req[r].pc = "make"
    /\ \/ \E a \in Apps :
            /\ \A b \in Apps : app[b].st = "unused" <=> b >= a
            /\ app' = [app EXCEPT ![a] = [NoApplication EXCEPT !.st = "running", !.refs = 1,
                                                              !.model = info[i].model]]
            /\ info' = [info EXCEPT ![i].app = a, ![i].lock = FALSE]
            /\ Goto(r, "extract")
       \/ /\ info' = [info EXCEPT ![i].lock = FALSE]
          /\ Goto(r, "pending") /\ UNCHANGED app
    /\ UNCHANGED <<hosting, inShutdown, recycling, mvars, watcher, rh, entry, file,
                   w, c, s, bounds>>

ExtractReferences(f, a) == IF a = None THEN f ELSE [f EXCEPT ![a].refs = @ + 1]

\* ExtractApplication references the application under the shared lock.
ExtractApplication(r) ==
    LET a == info[req[r].inf].app IN
    /\ req[r].pc = "extract" /\ ~info[req[r].inf].lock
    /\ app' = ExtractReferences(app, a)
    /\ req' = [req EXCEPT ![r].ap = a, ![r].pc = "handler"]
    /\ UNCHANGED <<hosting, inShutdown, recycling, mvars, watcher, rh, info, entry, file,
                   w, c, s, bounds>>

\* CreateHandler and the handler's OnExecuteRequestHandler.  Only a pointer that is not
\* NULL is asked for its status; a NULL pointer is called all the same and ends the
\* process: nothing more of this request happens.
RunHandler(r) ==
    /\ req[r].pc = "handler"
    /\ Goto(r, IF req[r].ap = None THEN "crashed" ELSE "executed")
    /\ UNCHANGED <<hosting, inShutdown, recycling, mvars, watcher, rh, info, entry, app,
                   file, w, c, s, bounds>>

\* The reference of ExtractApplication is given back; the request may go on pending.
ReleaseApplication(r) ==
    /\ req[r].pc = "executed"
    /\ app' = AppDrop(app, req[r].ap)
    /\ req' = [req EXCEPT ![r].ap = None, ![r].pc = "pending"]
    /\ UNCHANGED <<hosting, inShutdown, recycling, mvars, watcher, rh, info, entry, file,
                   w, c, s, bounds>>

\* The request ends and the module's destructor releases the APPLICATION_INFO.
EndRequest(r) ==
    LET i == {req[r].inf} IN
    /\ req[r].pc = "pending"
    /\ info' = Drop(info, i) /\ entry' = Marked(entry, info, i)
    /\ req' = [req EXCEPT ![r].inf = None, ![r].pc = "done"]
    /\ UNCHANGED <<hosting, inShutdown, recycling, mvars, watcher, rh, app, file, w, c, s, bounds>>

(***************************************************************************)
(* APPLICATION_INFO::RecycleApplication.                                   *)
(***************************************************************************)

\* An out-of-process application is detached, so that new requests start another one;
\* its reference passes to the thread.  An in-process one stays until the shutdown.
Detached(i) == IF info[i].model = "out" THEN None ELSE info[i].app

\* Needs the lock only if there is an application.  Without a thread the whole process
\* is recycled instead, once.
RecycleApplication(i) ==
    LET a == info[i].app
        referenced == IF info[i].model = "out" THEN app ELSE [app EXCEPT ![a].refs = @ + 1]
    IN
    IF a = None THEN UNCHANGED <<info, app, recycling>>
    ELSE /\ ~info[i].lock
         /\ info' = [info EXCEPT ![i].app = Detached(i)]
         /\ \/ app' = [referenced EXCEPT ![a].threads = @ + 1] /\ UNCHANGED recycling
            \/ ThreadFails /\ app' = referenced /\ recycling' = TRUE

\* DoRecycleApplication on its own thread.  Recycle of an in-process application asks
\* IIS to recycle the process.
DoRecycleApplication(a) ==
    /\ app[a].threads > 0
    /\ LET over == [app EXCEPT ![a].threads = @ - 1] IN
       IF app[a].model = "out"
       THEN app' = AppDrop(Stop(over, a), a) /\ UNCHANGED recycling
       ELSE app' = AppDrop(over, a) /\ recycling' = TRUE
    /\ UNCHANGED <<hosting, inShutdown, mvars, watcher, rh, info, entry, file, req,
                   w, c, s, bounds>>

(***************************************************************************)
(* The destructor of an APPLICATION_INFO.                                  *)
(***************************************************************************)

\* StopMonitor closes the directory under the lock of the entry and drops a reference,
\* the owner drops its own.  A read that is still pending completes for the closed
\* directory.  Then the application is shut down and released.
Destroy(i) ==
    LET a == info[i].app IN
    /\ info[i].st = "dying"
    /\ entry[i].dir => ~entry[i].lock
    /\ entry' = [entry EXCEPT ![i].dir = FALSE, ![i].refs = @ - (IF entry[i].dir THEN 2 ELSE 1)]
    /\ info' = [info EXCEPT ![i].st = "dead", ![i].app = None]
    /\ app' = IF a = None THEN app ELSE AppDrop(Stop(app, a), a)
    /\ UNCHANGED <<hosting, inShutdown, recycling, mvars, watcher, rh, file, req,
                   w, c, s, bounds>>

(***************************************************************************)
(* FILE_WATCHER: app_offline.htm is dropped into a directory or removed,   *)
(* the pending read of the directory completes, the thread handles it.     *)
(***************************************************************************)

Flip(k) ==
    /\ events < MaxEvents /\ events' = events + 1 /\ flips' = flips + 1
    /\ file' = [file EXCEPT ![k] = ~@]
    /\ entry' = [i \in Infos |-> IF info[i].key = k /\ entry[i].dir
                                 THEN [entry[i] EXCEPT !.dirty = TRUE] ELSE entry[i]]
    /\ UNCHANGED <<hosting, inShutdown, recycling, mvars, watcher, rh, info, app, req,
                   w, c, s>>

\* GetQueuedCompletionStatus returns a completed read: of a changed file, or, with no
\* bytes, of a closed directory.
Dequeue(i) ==
    /\ w.pc = "wait" /\ entry[i].io /\ (entry[i].dirty \/ ~entry[i].dir)
    /\ w' = [pc |-> "handle", e |-> i]
    /\ entry' = [entry EXCEPT ![i].io = FALSE, ![i].dirty = FALSE]
    /\ UNCHANGED <<hosting, inShutdown, recycling, mvars, watcher, rh, info, app, file,
                   req, c, s, bounds>>

\* HandleChangeCompletion keeps the lock of the entry while the application is updated.
HandleChangeCompletion ==
    LET i == w.e IN
    /\ w.pc = "handle" /\ ~entry[i].lock
    /\ IF entry[i].valid /\ ~entry[i].stop
       THEN w' = [w EXCEPT !.pc = "update"] /\ entry' = [entry EXCEPT ![i].lock = TRUE]
       ELSE w' = [w EXCEPT !.pc = "again"] /\ UNCHANGED entry
    /\ UNCHANGED <<hosting, inShutdown, recycling, mvars, watcher, rh, info, app, file,
                   req, c, s, bounds>>

PageBeforeFlag(i) == [info EXCEPT ![i].refs = @ + 1, ![i].page = flips, ![i].offline = TRUE]

\* UpdateAppOfflineFileHandle: the page is loaded before the flag is set, and it stays
\* when the file is removed.  The application is looked at without the lock.
UpdateAppOfflineFileHandle ==
    LET i == w.e IN
    /\ w.pc = "update"
    /\ IF file[info[i].key]
       THEN /\ info' = PageBeforeFlag(i)
            /\ w' = [w EXCEPT !.pc = IF info[i].app # None THEN "recycle" ELSE "release"]
       ELSE /\ info' = [info EXCEPT ![i].refs = @ + 1, ![i].offline = FALSE]
            /\ w' = [w EXCEPT !.pc = "release"]
    /\ UNCHANGED <<hosting, inShutdown, recycling, mvars, watcher, rh, entry, app, file,
                   req, c, s, bounds>>

WatcherRecycles ==
    /\ w.pc = "recycle"
    /\ RecycleApplication(w.e)
    /\ w' = [w EXCEPT !.pc = "release"]
    /\ UNCHANGED <<hosting, inShutdown, mvars, watcher, rh, entry, file, req, c, s, bounds>>

\* The reference taken for the update may be the last one: the destructor then waits
\* for the lock of the entry that this very thread holds.
WatcherReleases ==
    LET i == w.e
        last == info[i].refs = 1
    IN
    /\ w.pc = "release"
    /\ info' = Drop(info, {i})
    /\ entry' = [Marked(entry, info, {i}) EXCEPT ![i].lock = last]
    /\ w' = [w EXCEPT !.pc = IF last THEN "stuck" ELSE "again"]
    /\ UNCHANGED <<hosting, inShutdown, recycling, mvars, watcher, rh, app, file, req,
                   c, s, bounds>>

\* FileWatcherCompletionRoutine: Monitor takes a reference for the next read, the one of
\* this read is dropped.
MonitorAgain ==
    LET i == w.e IN
    /\ w.pc = "again" /\ ~entry[i].lock
    /\ entry' = [entry EXCEPT ![i].io = entry[i].valid /\ entry[i].dir,
                              ![i].refs = IF entry[i].valid /\ entry[i].dir THEN @ ELSE @ - 1]
    /\ w' = [w EXCEPT !.pc = "wait"]
    /\ UNCHANGED <<hosting, inShutdown, recycling, mvars, watcher, rh, info, app, file,
                   req, c, s, bounds>>

(***************************************************************************)
(* A configuration change.                                                 *)
(***************************************************************************)

PrefixSuffices(path, k) == IsPrefix(path, k)
\* FindConfigChangedApplication: the path that changed is a prefix of the configuration
\* path, and there the configuration path ends or continues with a separator.
FindConfigChangedApplication(path, k) ==
    /\ IsPrefix(path, k)
    /\ Len(k) = Len(path) \/ k[Len(path) + 1] = Slash

OnGlobalConfigurationChange ==
    /\ c.pc = "idle" /\ events < MaxEvents /\ events' = events + 1
    /\ \E p \in ChangePaths :
         c' = IF inShutdown THEN c ELSE [c EXCEPT !.pc = "table", !.path = p]
    /\ UNCHANGED <<hosting, inShutdown, recycling, mvars, watcher, rh, info, entry, app,
                   file, req, w, s, flips>>

CopyIsBorrowed(changed) == Drop(info, changed)
CopyIsReferenced(changed) == Drop(Take(info, table), changed)

\* RecycleApplicationFromManager under the lock: a copy of the table references every
\* record, the changed ones leave the table; an in-process manager keeps the copy.
TakeChanged ==
    /\ c.pc = "table" /\ mgrLock = "free"
    /\ LET changed == {i \in table : FindConfigChangedApplication(c.path, info[i].key)}
           keep == changed # {} /\ hostingModel = "in"
           after == IF keep THEN table ELSE table \ changed
       IN
       IF inShutdown
       THEN c' = [c EXCEPT !.pc = "idle"] /\ UNCHANGED <<info, entry, table, hostingModel>>
       ELSE /\ info' = CopyIsReferenced(changed)
            /\ entry' = Marked(entry, Take(info, table), changed)
            /\ table' = after
            /\ hostingModel' = IF after = {} THEN "unknown" ELSE hostingModel
            /\ c' = [c EXCEPT !.pc = "paths", !.todo = changed, !.copy = table, !.keep = keep]
    /\ UNCHANGED <<hosting, inShutdown, recycling, mgrLock, hashUp, watcher, rh, app,
                   file, req, w, s, bounds>>

\* One changed application after the other is looked up in the copy and recycled, without
\* the manager's lock.  A kept copy is the manager's table, which ShutDown clears and
\* deletes: then FindKey finds nothing, DBG_ASSERT(pRecord != NULL) fails and the NULL is
\* used, and this thread does nothing more.
RecycleChanged ==
    /\ c.pc = "paths"
    /\ \E i \in c.todo :
         IF c.keep => i \in table
         THEN RecycleApplication(i) /\ c' = [c EXCEPT !.todo = @ \ {i}]
         ELSE /\ c' = [c EXCEPT !.pc = "faulted", !.todo = {}, !.copy = {}, !.keep = FALSE]
              /\ UNCHANGED <<info, app, recycling>>
    /\ UNCHANGED <<hosting, inShutdown, mvars, watcher, rh, entry, file, req, w, s, bounds>>

\* table->Clear() unless the copy has become the table.
DropCopy ==
    /\ c.pc = "paths" /\ c.todo = {}
    /\ LET S == IF c.keep THEN {} ELSE c.copy IN
         info' = Drop(info, S) /\ entry' = Marked(entry, info, S)
    /\ c' = [pc |-> "idle", path |-> <<>>, todo |-> {}, copy |-> {}, keep |-> FALSE]
    /\ UNCHANGED <<hosting, inShutdown, recycling, mvars, watcher, rh, app, file, req,
                   w, s, bounds>>

(***************************************************************************)
(* The process stops listening: APPLICATION_MANAGER::ShutDown.             *)
(***************************************************************************)

OnGlobalStopListening ==
    /\ s.pc = "idle" /\ ~inShutdown
    /\ events < MaxEvents /\ events' = events + 1
    /\ inShutdown' = TRUE
    /\ s' = [s EXCEPT !.pc = "watcher"]
    /\ UNCHANGED <<hosting, recycling, mvars, watcher, rh, info, entry, app, file, req,
                   w, c, flips>>

\* ~FILE_WATCHER: an idle thread exits; one that is still busy after a second is
\* terminated wherever it is, with the locks it holds.
DeleteWatcher ==
    /\ s.pc = "watcher"
    /\ watcher' = FALSE
    /\ w' = [w EXCEPT !.pc = IF w.pc = "wait" THEN "exited" ELSE "terminated"]
    /\ s' = [s EXCEPT !.pc = "lock"]
    /\ UNCHANGED <<hosting, inShutdown, recycling, mvars, rh, info, entry, app, file, req,
                   c, bounds>>

LockManager ==
    /\ s.pc = "lock" /\ mgrLock = "free"
    /\ mgrLock' = "shutdown"
    /\ s' = [pc |-> "apps", todo |-> table]
    /\ UNCHANGED <<hosting, inShutdown, recycling, table, hashUp, hostingModel, watcher, rh,
                   info, entry, app, file, req, w, c, bounds>>

\* ShutDownApplication detaches, shuts down and releases the application under its lock.
ShutDownApplication ==
    /\ s.pc = "apps"
    /\ \E i \in s.todo :
         /\ s' = [s EXCEPT !.todo = @ \ {i}]
         /\ IF info[i].app = None THEN UNCHANGED <<info, app>>
            ELSE /\ ~info[i].lock
                 /\ info' = [info EXCEPT ![i].app = None]
                 /\ app' = AppDrop(Stop(app, info[i].app), info[i].app)
    /\ UNCHANGED <<hosting, inShutdown, recycling, mvars, watcher, rh, entry, file, req,
                   w, c, bounds>>

\* Clear drops the references of the table; destructors run here, under the lock.
ClearTable ==
    /\ s.pc = "apps" /\ s.todo = {}
    /\ info' = Drop(info, table) /\ entry' = Marked(entry, info, table)
    /\ s' = [pc |-> "clear", todo |-> {i \in table : info[i].refs = 1}]
    /\ table' = {}
    /\ UNCHANGED <<hosting, inShutdown, recycling, mgrLock, hashUp, hostingModel, watcher, rh,
                   app, file, req, w, c, bounds>>

DeleteTable ==
    /\ s.pc = "clear" /\ \A i \in s.todo : info[i].st = "dead"
    /\ hashUp' = FALSE /\ mgrLock' = "free"
    /\ s' = [pc |-> "done", todo |-> {}]
    /\ UNCHANGED <<hosting, inShutdown, recycling, table, hostingModel, watcher, rh, info,
                   entry, app, file, req, w, c, bounds>>

RequestStep(r) ==
    \/ OnExecuteRequestHandler(r) \/ FindInfo(r) \/ CountInfos(r) \/ CreateInfo(r)
    \/ InitializeInfo(r) \/ AppOfflineFound(r) \/ ServeOffline(r) \/ EnsureUnlocked(r)
    \/ EnsureLocked(r) \/ CreateApplication(r) \/ ExtractApplication(r) \/ RunHandler(r)
    \/ ReleaseApplication(r) \/ EndRequest(r)

WatcherStep ==
    \/ \E i \in Infos : Dequeue(i)
    \/ HandleChangeCompletion \/ UpdateAppOfflineFileHandle \/ WatcherRecycles
    \/ WatcherReleases \/ MonitorAgain

ShutdownStep ==
    DeleteWatcher \/ LockManager \/ ShutDownApplication \/ ClearTable \/ DeleteTable

Next ==
    \/ \E r \in Requests : RequestStep(r)
    \/ \E a \in Apps : DoRecycleApplication(a)
    \/ \E i \in Infos : Destroy(i)
    \/ \E k \in Keys : Flip(k)
    \/ WatcherStep
    \/ OnGlobalConfigurationChange \/ TakeChanged \/ RecycleChanged \/ DropCopy
    \/ OnGlobalStopListening \/ ShutdownStep

Spec == Init /\ [][Next]_vars

(***************************************************************************)
(* Properties.                                                             *)
(***************************************************************************)

\* Types, and the counters never fall below what their holders can drop.
TypeOK ==
    /\ hosting \in [Keys -> Models] /\ inShutdown \in BOOLEAN /\ recycling \in BOOLEAN
    /\ mgrLock \in {"free", "request", "shutdown"} /\ table \subseteq Infos
    /\ hashUp \in BOOLEAN /\ hostingModel \in Models \union {"unknown"}
    /\ rh \in {"none", "loaded", "error"}
    /\ \A i \in Infos : info[i].refs \in Nat /\ info[i].app \in {None} \union Apps
    /\ \A a \in Apps : app[a].refs \in Nat /\ app[a].threads \in Nat
    /\ \A r \in Requests : req[r].inf \in {None} \union Infos /\ req[r].ap \in {None} \union Apps

\* The copy a configuration change keeps is the manager's table: ShutDown clears it and
\* deletes it although RecycleApplicationFromManager still walks it (README, section 5).
KeptCopyIsCleared == c.keep /\ s.pc \in {"clear", "done"}

\* A request's APPLICATION_INFO, every record of the table, and every record of the copy a
\* configuration change works on until ShutDown clears it, has not been destroyed: their
\* references are in the count whatever the order in which the table, the copy and the
\* requests drop theirs.
InfosInUseAreAlive ==
    /\ \A r \in Requests : req[r].inf # None => info[req[r].inf].st = "live"
    /\ \A i \in table : info[i].st = "live"
    /\ ~KeptCopyIsCleared => \A i \in c.copy : info[i].st = "live"

\* An application that a request executes with, that a recycling thread works on or that
\* an APPLICATION_INFO points to has not been freed.
ApplicationsInUseAreAlive ==
    /\ \A r \in Requests : req[r].ap # None => app[req[r].ap].st \in {"running", "stopped"}
    /\ \A a \in Apps : app[a].threads > 0 => app[a].st \in {"running", "stopped"}
    /\ \A i \in Infos : info[i].app # None => app[info[i].app].st \in {"running", "stopped"}

\* No request, no table or copy of it that has not been cleared, and no recycling thread
\* uses a freed object.
InUseAreAlive == InfosInUseAreAlive /\ ApplicationsInUseAreAlive

\* "We do not allow mixed scenario": all applications of the process have the hosting
\* model the manager has decided on, also after changes removed some of them.
OneHostingModel ==
    \A i \in table : info[i].model = hostingModel

\* "someone else created the application": requests that missed the record of a path at
\* the same time leave one record of it.
OneRecordPerPath == \A i, j \in table : info[i].key = info[j].key => i = j

\* An application that runs is never lost: an APPLICATION_INFO owns it, or a thread is
\* about to recycle it, or the whole process is being recycled because no thread could
\* be created.  Otherwise its dotnet process would run until the worker process ends.
NoApplicationIsLost ==
    \A a \in Apps : app[a].st = "running" =>
        \/ \E i \in Infos : info[i].app = a /\ info[i].st \in {"live", "dying"}
        \/ app[a].threads > 0
        \/ recycling

\* app_offline.htm, a configuration change, the shutdown and the destructor of the
\* APPLICATION_INFO all stop the application, but an out-of-process one is stopped once.
StoppedOnce == \A a \in Apps : app[a].model = "out" => app[a].stops <= 1

\* DBG_ASSERT(pAppOfflineHtm): whoever sees the flag finds a page, also when the file has
\* been removed since.
OfflinePageIsLoaded == \A r \in Requests : req[r].pc = "serve" => info[req[r].inf].page > 0

\* What the threads may not do to the applications of the process: mix hosting models,
\* create the record of a path twice, stop a process twice, or serve a page that was not
\* loaded.
ManagerSafe ==
    TypeOK /\ OneHostingModel /\ OneRecordPerPath /\ StoppedOnce /\ OfflinePageIsLoaded

\* The path and the separator-terminated path of a configuration path's ancestors.
IsAncestor(path, k) == path = k \/ IsPrefix(Append(path, Slash), k)

\* A configuration change recycles the applications at and below its path and no other:
\* not the site whose name continues with other letters.
OnlyChangedLeave ==
    [][\A i \in table \ table' : s.pc = "apps" \/ IsAncestor(c.path, info[i].key)]_vars

\* The comment "make sure assmebly is loaded and application is created" ahead of the
\* call of ExtractApplication (proxymodule.cxx:145): the handler finds an application.
HandlerFindsApplication == \A r \in Requests : req[r].pc # "crashed"
=============================================================================
