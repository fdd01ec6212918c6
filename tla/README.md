# IISIntegration: a TLA+ verification project

IISIntegration hosts ASP.NET Core applications behind IIS.  Its native part, the ASP.NET Core
module (ANCM), is loaded by IIS into its worker process; its managed part,
`Microsoft.AspNetCore.Server.IISIntegration`, is the in-process server and the middleware.  An
application either runs inside the worker process (in-process hosting) or in processes of its
own to which the module forwards requests (out-of-process hosting).

The specifications follow a request from the moment the module sees it:

    ApplicationManager          which application, is it alive, app_offline, recycling
    Activation                  its configuration, hostfxr, the request handler's DLL
      HostFxr                   lookup of dotnet and hostfxr.dll, order of versions
    in-process                                      out-of-process
    InProcessApplication        .NET, Main, drain   ProcessManager      processes, ports, crashes
      IISHttpContext            one request         ForwardingHandler   one forwarded request
        RequestIO               engine's promise      WebSocketHandler  one upgraded request
          AsyncIOEngine         keeps it
      WebSocketsAsyncIOEngine   upgraded request
    HashTable                   the concurrent table all of the native part is built on
      RecordMap                 its promise

`IISHttpContext` extends `RequestIO`, and that `AsyncIOEngine` implements `RequestIO` is checked and proved;
`ForwardingHandler` extends `WebSocketHandler`; `Activation` extends `HostFxr`; that `HashTable`
implements `RecordMap` is checked and proved.  `ApplicationManager` sees `Activation` as two steps and the
two kinds of applications as something that runs and is stopped; it takes its table as the map
that `RecordMap` promises.  `InProcessApplication` sees a request only as outstanding or not.

Paths below are relative to `src/src/`; *Server* stands for
`Microsoft.AspNetCore.Server.IISIntegration/Server`, *ancm* for `AspNetCoreModuleV2`, *native* for
`ancm/RequestHandler/inprocess`, *outproc* for `ancm/RequestHandler/outofprocess`.

## 1. Inventory

### The in-process path

**AsyncIOEngine** (Server/IO/AsyncIOEngine\*.cs, AsyncIOOperation.cs,
AsyncWriteOperationBase.cs).
State: the running and the queued operation, one pooled object per kind, the `_stopped` flag;
per operation a continuation, a result and pinned buffers.  Operations: `ReadAsync`,
`WriteAsync`, `FlushAsync` (all through `Run`), `NotifyCompletion`, `Dispose`; the awaiter's
`GetStatus`, `OnCompleted`, `GetResult`.  Called by the pumps of one request, called back on an
IIS thread.  Hard: IIS takes one call at a time; operation objects are shared without a lock
between the awaiter and the completing thread and go back to a pool; a read may last for ever.
Correct when: calls never overlap, no continuation is lost or run twice, buffers are pinned
while IIS uses them, pooled objects are not shared, a write is never stuck behind a read, and
disposal releases everybody.

**IISHttpContext** (Server/IISHttpContext\*.cs, IISHttpContextOfT.cs) and **OutputProducer**
(Server/OutputProducer.cs).
State: two pipes, the tasks `ReadBody` and `WriteBody`, `_hasResponseStarted`,
`_hasRequestReadingStarted`, the callbacks and the recorded exception.  Operations: the
application's reads, writes and flushes, the two pumps, `InitializeResponse`, `ProduceStart`,
`ProduceEnd`, `ProcessRequestAsync`.  Hard: full-duplex use, backpressure in both directions,
failures at every call, the order of the teardown.  Correct when: the request is completed once
and only after everything of it is quiet, the response is complete, the body never ends early,
nobody waits for ever.

**IISHttpServer** (Server/IISHttpServer.cs) and **IN_PROCESS_APPLICATION**,
**IN_PROCESS_HANDLER** (native/inprocessapplication.cpp/.h, inprocesshandler.cpp).
State: `m_status`, the flags that say who stops whom, `m_srwLock`, the thread that runs Main, the
event for its initialisation, `s_Application`; on the managed side the count of outstanding
requests, `_stopping`, `_shutdownSignal` and the GCHandle.  Operations: `LoadManagedApplication`,
`OnExecuteRequest`, `OnAsyncCompletion`, `ExecuteApplication`, `ShutDown`, `Recycle`; `StartAsync`,
`StopAsync`, `Dispose`, `HandleRequest`, `HandleShutdown`, `CompleteRequest`.  Both sides call each
other: through the callbacks registered by `StartAsync` and through the exports of
managedexports.cxx.  Hard: request threads, the thread of Main, the file watcher and shutdown
callers share flags of which only some are under the lock; three time limits; Main may end at any
moment.  Correct when: .NET is loaded once, the process is recycled once, the application is shut
down once, requests are answered, and stopping and shutting down come to an end.

**managedexports** (ancm/RequestHandler/managedexports.cxx).  Wrappers of IIS calls; the ones that
change state of the components above are part of them.

**WebSocketsAsyncIOEngine** (Server/IO/WebSocketsAsyncIOEngine\*.cs).  State: `_isInitialized`,
`_initializationFlush` and three pooled operations.  Operations: `FlushAsync`, `ReadAsync`,
`WriteAsync`, `NotifyCompletion`, the callbacks, `Dispose`.  Hard: there is no lock; IIS calls back on
threads of its own while the operation is awaited, reset and reused.  Correct when: every await gets the
answer of its own call, buffers stay pinned, the upgrade and the upgraded request come to an end.

**Feature collection, streams, header classes**: accessors and adapters.

### The module

**APPLICATION_INFO, APPLICATION_MANAGER** (ancm/AspNetCore/src).  State: one reference-counted record
per configuration path, the hosting model of the process, the application of each record, the page of
`app_offline.htm`.  Operations: `OnExecuteRequestHandler`, `GetOrCreateApplicationInfo`,
`EnsureApplicationCreated`, `ExtractApplication`, `RecycleApplication`,
`RecycleApplicationFromManager`, `ShutDown`.  Hard: requests use an application while a configuration
change, the file watcher, or the shutdown detaches and stops it.  Correct when: nothing in use is freed,
no application is lost or stopped twice, hosting models never mix, a change recycles what it names.

**FILE_WATCHER** (ancm/AspNetCore/src/filewatcher.cxx).  State: a completion port, a thread, and an entry
per application with its own count and lock.  Operations: `Monitor`, `StopMonitor`,
`HandleChangeCompletion`.  Hard: its thread runs code of the application whose destructor waits for it.

**Configuration and CommonLib** (ancm/CommonLib, applicationinfo.cpp).  State: the configuration in the
module context of each application; the flags and the entry point of the request handler, global for
the process.  Operations: `GetConfig`, `Populate`, `HOSTFXR_UTILITY::GetHostFxrParameters`,
`FindRequestHandlerAssembly`.  Hard: requests race through two double-checked sections, and any step
may fail.  Correct when: all requests of an application use one configuration, it names the newest
runtime, the handler is loaded once and used only when it is there, no failure leaves a lock behind.

**PROCESS_MANAGER, SERVER_PROCESS** (outproc).  State: a list of slots, the rapid-fail count, and per
process its reference count, ports, waits and the flag `m_lStopping`.  Operations: `GetProcess`,
`StartProcess`, `HandleProcessExit`, `ShutdownProcess`, `SendSignal`, `Shutdown`.  Hard: exits are
reported on another thread than starts; a process may start a child that listens in its place; starts
take long and hold the lock.  Correct when: references cover their holders, no process is left
running with nobody to stop it, starts are limited, a crash leads to a replacement, nobody waits forever.

**FORWARDING_HANDLER, WEBSOCKET_HANDLER** (outproc).  State: the status of the request, the WinHTTP
operation and the IIS operation under way, references, handles; for a web socket the count of
outstanding operations and the reason for its end.  Operations: `OnExecuteRequestHandler`,
`OnWinHttpCompletionInternal`, `OnAsyncCompletion`, `TerminateRequest`; the callbacks of a web socket,
`Cleanup`, `DecrementOutstandingIo`, `IndicateCompletionToIIS`.  Hard: WinHTTP, IIS and the
notification of a disconnect reach a request on different threads; it ends only after two handles are closed.
Correct when: one party at a time has the request, IIS gets it back once and with nothing under way,
success is reported only for a complete response, nothing is left behind.

**HASH_TABLE** (ancm/IISLib/hashtable.h).  State: buckets of sorted nodes, the number of items, references of
the records.  Operations: `FindKey`, `InsertRecord`, `DeleteKey`, `DeleteIf`, `Clear`, `Apply`,
`RehashTableIfNeeded`.  Hard: insertions hold the lock shared and settle races by an interlocked exchange.
Correct when: it behaves as a map whose operations take effect at one moment, and counts are exact.

**IISMiddleware, authentication**; the rest of **IISLib** (strings, buffers, allocation cache, timers);
**AspNetCoreModuleV1**, the predecessor from which the V2 sources were taken.

PROJECT.json lists each component with its status and the reason for it, and the hazards worth a
property at their lines.

## 2. Plan

The order in which the modules were written is that of the risk: the shared I/O engine and a request's
pumps, the life cycle of the in-process application, the applications of the process with their
reference counts, the processes of an out-of-process application, the forwarding of a request, the lock-free
engine of upgraded requests, activation, and the hash table they share.  Abstract specifications:
`RequestIO` for the engine and `RecordMap` for the hash table.

Left for later, in this order:

1. `IISMiddleware`'s shutdown request and `HostingStartup`, as callers of `InProcessApplication`.
2. The recycling of an IIS Express process.

Modules are kept free of `RECURSIVE` operators so that theorems can be stated about them.

## 3. Modules

### AsyncIOEngine

A *client* is an asynchronous method that awaits one operation at a time.  The variables are the
fields of the engine and of its operation objects; `ioOp`, `ioDone` and `canceled` are what IIS knows
of the call in progress.

| actions | code |
|---|---|
| `RunThrows`, `RunQueues`, `RunCompletes`, `RunPends` | `ReadAsync`/`WriteAsync`/`FlushAsync` and the outcomes of `Run`, which holds the lock throughout |
| `AwaitCompleted`, `AwaitPending`, `OnCompleted`, `RunContinuation` | the compiled `await` of the `ValueTask`, cut between `GetStatus`, `OnCompleted` and `GetResult` |
| `NotifyRunning`, `NotifyNoNext`, `NotifyNextPends`, `NotifyNextCompletes`, `NotifyFreeNext` | `NotifyCompletion`; it holds the lock, but the awaiter takes none, so it is cut after each `CompareExchange` that publishes a result |
| `Dispose` | `Dispose`, called once writes have drained (`ProcessRequestAsync`) |
| `PostCompletion` | IIS (external) posts a completion; a cancelled call may still complete normally |

Abstracted: a result is a byte count, `Aborted`, or `Failed`; an object returned to the cache may be
picked up again, and a fresh one is any object nobody refers to.

### RequestIO

What the engine's clients may rely on: one operation in progress and one behind it, answers in
order, `Aborted` for a read only when something waited behind it.  `MayFail` says which kinds of call
may fail; the engine implements it with all of them.

### IISHttpContext

One request with `RequestIO` as its engine.  The application is external: it reads with one thread
and writes with another, awaits each call, and an exception it gets ends the request.  The pipes are
external too: a byte count, both sides' completion, a pending cancellation of the reader, a pause
threshold.

| actions | code |
|---|---|
| `AppReads`, `AppReadsCreates`, `AppReadReturns` | `ReadAsync`, `InitializeRequestIO`, `EnsureIOInitialized` |
| `ReadBody*` | the loop of `ReadBody` and its `catch`/`finally` |
| `AppWrites`, `AppStarts`, `AppSetsHeaders`, `AppWriteCreates`, `AppIssues`, `AppHeadersFlushed`, `AppHasRoom` | `WriteAsync`/`FlushAsync`, `InitializeResponse`, `ProduceStart`, `OutputProducer` |
| `WriteBody*` | the loop of `WriteBody` and its `catch`/`finally` |
| `AppReturns`, `RunCallbacks`, `ProduceEnd`, `ProduceEndAwaited`, `CompletePipes`, `DisposeIO`, `CompleteRequest` | `ProcessRequestAsync` from the return of the application to the posted completion |
| `FindsNone`, `CreateEngine`, `IISFinishesLost` | `EnsureIOInitialized`, whose check and assignment are two steps, and the completion of a call whose engine has been replaced |

Abstracted: pause and resume thresholds are one number; a write is one byte.  A write is never refused
by the engine here, because the reader and the writer are its only clients (`NeverRefused` of
`AsyncIOEngine`); were it refused, `WriteBody` would be stuck and `RequestEnds` would fail.
`main = "crashed"` is an exception that leaves `ProcessRequestAsync`; `main = "astray"` is a completion
that has gone to another engine than its own, after which the request is not followed.

### InProcessApplication

The native application and the managed server together, because each of the flags belongs to one and
is used by the other.  Requests run on their own threads (`req`), Main on its own (`main`), callers of
`ShutDown` (`shut`) and the two threads that may call `Recycle` (`recycler`).

| actions | code |
|---|---|
| `LoadChecks` ... `LoadFails` | `LoadManagedApplication`: unlocked check, locked check, thread, event, wait, and the status set after the lock is gone |
| `OnExecuteRequest`, `HandleRequest` | the checks, and then the managed callback, which unwraps the GCHandle and counts |
| `OnAsyncCompletionBlocked` | an I/O completion when callbacks are blocked: the request ends, managed code is never told ("cut") |
| `PostCompletion`, `CompleteRequest`, `LooksAtStopping`, `LastRequestStopsCalls` | `CompleteRequest` of IISHttpServer: the completion, the decrement, the look at `Stopping`, and what the last one does |
| `MainRuns`, `StartAsync`, `MainFails` | `ExecuteApplication` up to `SetCallbackHandles`, and its ways to fail |
| `StopAsync`, `StopIncomingRequests`, `DrainCheck`, `StopAsyncStopsCalls`, `Disposes`, `FreesHandle` | `StopAsync` and `Dispose`, cut at each call into native code |
| `MainReturned`, `MainMarks`, `MainExits`, `MainRecycled` | the rest of `ExecuteApplication` |
| `RecycleChecks`, `RecycleLocks`, `RecycleProcess` | `Recycle` |
| `ShutDown` ... `ShutDownExpires` | `ShutDown` and `ShutDownInternal` |

`Limits` says which time limits may expire.  `process = "crashed"` is a call through a freed GCHandle or
a null `s_Application`.  Left out: redirection of stdout and stderr, the recycling of an IIS Express
process, and the failure of `CreateThread`.  `m_fRecycleCalled`, which no constructor sets, starts with
either value.

### ApplicationManager

Requests, the thread of the file watcher, a configuration change, the shutdown and the threads that
recycle a single application, over one table of `APPLICATION_INFO`s.  References are counted as in the
code; freed objects stay in the state with `st = "freed"`, so that a use of one is seen.

| actions | code |
|---|---|
| `OnExecuteRequestHandler`, `FindInfo`, `CountInfos`, `CreateInfo`, `InitializeInfo` | the module's entry and `GetOrCreateApplicationInfo`, whose lock decides the hosting model |
| `AppOfflineFound`, `ServeOffline` | the check for `app_offline.htm` and the answer with its page |
| `EnsureUnlocked`, `EnsureLocked`, `CreateApplication` | `EnsureApplicationCreated` and its double check |
| `ExtractApplication`, `RunHandler`, `ReleaseApplication`, `EndRequest` | the request's own reference, the handler, and its release |
| `DoRecycleApplication`, `Destroy` | the detached thread of `RecycleApplication`, the destructor of the record |
| `Flip` | somebody creates or removes `app_offline.htm` (external) |
| `Dequeue`, `HandleChangeCompletion`, `UpdateAppOfflineFileHandle`, `WatcherRecycles`, `WatcherReleases`, `MonitorAgain` | the completion thread of `FILE_WATCHER`, cut where it takes or drops a lock |
| `OnGlobalConfigurationChange`, `TakeChanged`, `RecycleChanged`, `DropCopy` | `RecycleApplication` of the manager: copy under the lock, recycle outside, drop the copy |
| `OnGlobalStopListening`, `DeleteWatcher`, `LockManager`, `ShutDownApplication`, `ClearTable`, `DeleteTable` | the module's shutdown |

Abstracted: the table is a set of records with different keys, which is what `HashTable` shows of it;
an application is running, stopped or freed; the loading of the request handler is a step that
succeeds or fails (`Activation` has its inside).  A thread is `"faulted"` when it has gone through a NULL
table or called through a pointer that was never set (section 5); it is not followed further.

### Activation and HostFxr

The way of a request from its module context to a created application.  `HostFxr` holds the pure part:
from what is on the disk and in the web.config to the path of `hostfxr.dll` and the arguments.

| actions | code |
|---|---|
| `GetModuleContext`, `Populate`, `SetModuleContext`, `CopyApplicationPath` | `ASPNETCORE_CONFIG::GetConfig`, which stores the configuration before it has finished with it, and gives way to another request that was faster |
| `EnsureUnlocked`, `EnsureLocked` | the double check of `EnsureApplicationCreated`, per application |
| `FindUnlocked`, `FindLocked`, `LoadHandler`, `GetProcAddress`, `FlagLoaded`, `TakeEntry`, `FindFails` | `FindRequestHandlerAssembly`, whose lock and flags are global; storing the pointer (310) and setting the flag that is read without the lock (317) are two steps |
| `CreateApplication` | the call of the entry point |
| `GetHostFxrParameters`, `GetAbsolutePathToHostFxr`, `FindHighestDotNetVersion`, `compare`, ... (`HostFxr`) | hostfxr_utility.cpp, utility.cxx, fx_ver.cxx |

A version is three numbers, a prerelease label and a build label; a folder that is no version does not
parse.  The names of the operators of `HostFxr` are those of the functions.

### ProcessManager

`PROCESS_MANAGER` with the `SERVER_PROCESS` objects.  Every request may start one process, which is
named after it.

| actions | code |
|---|---|
| `GetProcess`, `AllocateList`, `LookShared`, `LookUnlocked`, `ReadAgain`, `LockForStart`, `Recheck`, `CheckRapidFails`, `StoreProcess`, `UnlockUnready`, `DeleteProcess` | `GetProcess`: a look under the shared lock, one without, and the start under the exclusive one |
| `Launch`, `LaunchFails`, `PortComesUp`, `AwaitFails`, `WatchProcess`, `MatchChild`, `FinalCheck`, `Connect`, `ConnectFails`, `CleanUpAndRetry` | `StartProcess` and `PostStartCheck`: the launcher or a child of it may be the one that listens |
| `ProcessHandleCallback`, `HandleProcessExit`, `ShutdownProcess`, `WaitThreadDereferences` | the exit callbacks, on one wait thread |
| `ShutDown`, `SendSignal`, `ProcessEnded`, `ShutdownTimesOut`, `Terminate`, `ReleaseProcess`, `UnlockShutDown`, `ForgetManager` | `Shutdown` of the manager and `SERVER_PROCESS::SendSignal` |
| `SignalStarts`, `SendShutDownSignal`, `SignalEnds` | the thread that posts the shutdown message |
| `StartsListening`, `ProcessEnds` | the operating system (external): a process or its child listens, a process ends at any moment |

A signal thread that finds the object freed is `"late"`, and not followed further (section 5).
Abstracted: the minute of the rapid-fail limit may have passed at any check, the route is one slot number, and
a port is free or has a listener.

### WebSocketHandler and ForwardingHandler

`ForwardingHandler` is one forwarded request; it extends `WebSocketHandler`, to which the request is
handed by an upgrade.  WinHTTP and IIS are external: a set of operations under way (`pending`), and for
each kind of callback how many run at the same time (`Threads` at most).

| actions | code |
|---|---|
| `Execute` | `OnExecuteRequestHandler`, cut where another thread can see the request |
| `OnWinHttpCompletion`, `HandleClosing` | `OnWinHttpCompletionInternal` under the request's lock, and the closing notifications |
| `UnroutedError`, `UnroutedSend`, `UnroutedRead` | callbacks of a web socket that come when the status is already DONE: the switch takes them for callbacks of the request |
| `CallbackEnds` | the end of `OnWinHttpCompletionInternal` for a callback of the web socket |
| `OnAsyncCompletion` | the completions of IIS, with the final one |
| `NotificationOfDisconnected`, `NotifyDisconnect`, `Disconnect` | the disconnect context and `TerminateRequest` |
| `WebSocket`, `OnWinHttpSendComplete`, `OnWinHttpReceiveComplete`, `OnIisSendComplete`, `OnIisReceiveComplete`, ... | `ProcessRequest` of the web socket and its callbacks |
| `Cleanup`, `DecrementOutstandingIo`, `IndicateCompletionToIIS` | the end of a session: cancel, count off, close the handle, give the request back |
| `IisCompletes`, `WinHttpCompletes` | what IIS and WinHTTP owe |
| `UnsetMemory` | a use of a field that the constructor has left unset (section 5) |

Abstracted: a body is a number of chunks; what is in headers is reduced to what decides the control
flow (content length, chunked, upgrade).  An upgrade that is not answered with 101 is off, and the
response is an ordinary one.  `ends` also keeps, for the properties only, what went wrong: Cleanup's
shutdown was counted off (`counted`), a message of the web socket was flushed as a chunk (`strayed`), the first
read could not start (`unread`), the back-end was not told (`untold`).

### WebSocketsAsyncIOEngine

The upgraded request: three pooled operations, their tasks, IIS, and the threads on which IIS calls
back.  There is no lock, so a callback is cut into completing, queueing the continuation and freeing.

| actions | code |
|---|---|
| `TaskNext` (`Calls`, `GetStatus`, `OnCompleted`, ...) | one call of the engine and its `await` |
| `FlushCalls`, `FlushStores`, `Upgraded` | `FlushAsync` during `UpgradeAsync`: the call to IIS comes before the field is stored |
| `ReadBodyGets`, `ReadBodyFlushes`, `WriteBodyReads`, `WriteBodyGets` | the pumps of the request |
| `AppReads`, `AppWrites`, `CompletePipes` | the application (external) and the end of it |
| `Dispose`, `CompleteRequest` | the rest of `ProcessRequestAsync` |
| `NotifyCompletion`, `Complete`, `Frees` | `NotifyCompletion`, the read and write callbacks, `AsyncIOOperation.Complete` |
| `IISAnswers` | IIS (external) |

### HashTable and RecordMap

| actions | code |
|---|---|
| `InsertRecord`, `Link`, `Retry`, `OwnReference`, `CountItem` | `InsertRecord`: walk, exchange of the previous node's link, the table's reference, the count, all under the shared lock |
| `FindKey`, `FindNodeInternal`, `TakeReference` | `FindKey` |
| `DeleteKey`, `Clear` | under the exclusive lock, one step each |
| `DeleteIf`, `DeleteIfNext` | `DeleteIf`, node by node under the exclusive lock |
| `Apply`, `ApplyNext` | `Apply`, node by node under the shared lock |
| `CheckLoad`, `Rehash`, `MoveNode`, `Grow` | `RehashTableIfNeeded`: the test without the lock, the one with it, the nodes one by one, the exchange of the tables |
| `Return` | the caller lets go of its record (external) |

`RecordMap` is a map whose `FindKey` and `InsertRecord` are called, take effect in one step, and return.
The size, the keys, their hashes and the records are constants; a table starts with `Size` buckets and
grows to the primes of the code.  `buckets` is the table and `grown` the larger one while a rehash fills it;
a node is its record, and a link is named by the node that has it.

## 4. Runs

Each takes between a second and two minutes.

| run | shows |
|---|---|
| engine | Two callers race completions, cancellation, disposal and the pool.  `EngineSafe` (types, one call of IIS at a time, buffers pinned, pooled objects clean, no fault under the lock), `NoLostWakeup`, pins leak only from an overtaken write; `ClientsAreServed` (nobody is refused, writes and flushes are answered, `Dispose` releases everybody); `RequestIO` is implemented |
| context | Every call of IIS, the headers and the callbacks may fail.  `ContextSafe` (nothing outlives the completion, no completion goes astray but after the race for the engine), `ResponseComplete`, `EndIsTheEnd`, `RequestEnds`, `OutputFlows` (writers get room, a flush reaches IIS) |
| inprocess | Requests, Main, the file watcher and a caller of `ShutDown`; every time limit may expire.  `DrainSafe` (a drain has a request that will end it), `RecycledOnce`, `OneMain` (.NET is loaded once, but for one gap), `NobodyWaits` (requests are answered, `ShutDown` returns, a server that stops ends) |
| applications | Requests, watcher, configuration change, shutdown, a thread that cannot be created.  `ManagerSafe` (one hosting model, one record for a path, stopped once, page loaded), `InUseAreAlive`, `NoApplicationIsLost`, `OnlyChangedLeave` |
| applications_handler (violation) | finding 1 |
| processes | Launchers with children, exits, callbacks, shutdown.  `ReferencesHold` (nobody with a reference finds the object freed, but for a deleted start), `NoOrphan`, `StartsAreGuarded` |
| processes_liveness | `CrashIsReplaced`, `NobodyWaitsForever` |
| processes_unresponsive (violation) | finding 2 |
| forwarding | Any body, a web socket, failures of every call, a disconnect at any point.  `TurnsAndReferences`, `QuietWhenReleased`, `SuccessIsComplete`, `WebSocketCounts`, `AllEnd` |
| sockets | An upgraded request without a lock.  `OperationsSafe`, `PinnedWhilePending`, `AllEnd` (the upgrade and the request end, but for two states that are for ever) |
| activation | Two requests on nearly two hundred kinds of disks and configurations.  `ConfigIsShared`, `HostFxrIsRight`, `LoadingSafe`, `FailureIsFinal`, `RequestsEnd` |
| hashtable | Two threads on a table that collides and grows.  `TableSafe`, `RecordsAreAlive`, `SharingEnds`, `ImplementsMap` |

A property whose exact form the code breaks is stated with the exception by name: `overtaken`, `raced` and
`lost`, `UnmarkedTimeout`, `KeptCopyIsCleared`, `DeletedUnderCallback`, `counted` and `strayed`, `Forgotten`,
`FlushIsLost`, `ReadIsLate`, `"dangling"`, and the ends `"crashed"`, `"astray"` and `"faulted"`.  Each is an entry
of section 5 and covers the states that the entry describes and no others; where what must happen never does,
the exception is a state that stays for ever (`<>[]`).

**Bounds.**  *Engine*: the engine has two slots and one pooled object per kind, so two callers fill it; two
objects of a kind let one be pooled or in use while the other is.  Byte counts are not told apart
(`MaxBytes = 0`), and a third caller, who is refused, is covered by the proofs, which hold for any
set.  *Context*: two calls per direction give a first one, which starts the pump, and a second; with
`InPause` 1, `OutPause` 2 and two bytes the pipes are empty, in use and full.  The
first read and the first write may come on two threads at once.
*Inprocess*: two requests are the one that loads and one that races it, and the last and the last but
one of a drain; the file watcher and a caller of `ShutDown` act at once, further callers are the subject
of `CloseOnce`.  *Applications*: two requests, two records, two applications, two changes of
`app_offline.htm`; the keys are two siblings of which one's path begins with the other's, the case that
`OnlyChangedLeave` is about.  *Processes*: two requests,
one slot, one configured port: a second request waits, races or restarts.  The safety run has
launchers and no tolerated crash (`RapidFails` 0), the liveness run no launchers and one crash.
*Forwarding*: three callbacks at a time are one more than close the two handles; two chunks are one that
fits and one more.  *Sockets*: two callback threads, so one may still free what it completed while the
other answers the next call.  *Activation*: every subset of six folder names around the newest version,
every place where dotnet is looked for, an executable with or without its DLL, a path with or without a
space.  *Hashtable*: one bucket, five records, four keys of which two share a hash and two records a
key; the fourth item makes it grow.

**Deadlock** is checked where a system goes on for ever (the engine, a request, whose end is a step of its
own, the hash table).  The other systems come to an end; their configurations switch the check off,
and the liveness properties say that nobody is stuck.

**Fairness.**  Everywhere: a thread or a task that can run does (weak fairness for each).  Nobody
promises that requests, changes or shutdowns come, that the application makes another call or returns,
or that a lock is handed to a particular thread.

- *Engine*, *context*, *sockets*: IIS answers flushes, writes and cancelled calls; a read may last for ever,
  because the client need not send.
- *Inprocess*: a request in managed code ends, which is `RequestEnds` of `IISHttpContext` but for the
  application itself; a host that was asked to stop calls `StopAsync`.  The limits of `StopAsync` and
  `ShutDown` may expire and need not; that of loading must, since Main may hang.
- *Processes*: nothing is promised of a process: it may listen, die, or ignore the signal; the
  time limits of starting and stopping do the rest.
- *Forwarding*: WinHTTP completes what it was given, at the latest by its own time limit; IIS ends a read
  when the client has gone or the read was cancelled; a read of a web socket may last for ever.
- *Activation*, *hashtable*: threads only.
- *Applications*: none.  The one wait worth a property there, of a destructor for the watcher, does not end
  (section 5), so nothing live is stated.

Every property comes with a mutant in PROJECT.json: a slip in the code that TLC finds with it.

## 5. Findings

Two runs expect a violation of what the code says of itself.

1. **applications_handler**.  `proxymodule.cxx:165` calls `CreateHandler` on what `ExtractApplication`
   returned, although it may be NULL: `EnsureApplicationCreated` creates nothing when `app_offline.htm`
   appeared after the check at line 115, and an out-of-process application may be recycled between
   lines 146 and 152.  The comment at line 145 promises an application.
2. **processes_unresponsive**.  "If the process cannot shutdown within given time, terminate it"
   (`serverprocess.cxx:1249`): `TerminateBackendProcess` (2128) does nothing when the exit of a child has
   set `m_lStopping`; the launcher runs on.

### Where the code departs from what one would state

These are in the models, as exceptions of properties or as states, and have no run of their own.

*Engine.*  `Complete` publishes the result before it frees the handles (AsyncIOOperation.cs:114).  An
awaiter that is faster resets a write, which clears the array, and the pins stay for ever
(`OnlyOvertakenPinsLeak` shows that nothing else leaks).

*One request.*  `EnsureIOInitialized` is not synchronised: a first read and a first write on two threads
may both find `AsyncIO` null and make an engine each.  The call of the one that is replaced is lost: its
completion goes to the other engine (`main = "astray"`), whose assertion `_runningOperation != null`
(AsyncIOEngine.cs:104) need not hold, and its caller waits for ever.  `CompletionsReachTheirEngine` says that
nothing but this race does it, that at most one call is lost and that its caller never takes another's
answer; `RequestEnds` and `OutputFlows` except a request that has lost a call.  An exception of `ProduceEnd`
leaves `ProcessRequestAsync` before the request is completed (`main = "crashed"`).  `OnFlushCompleted` clears
`_flushTask` without the lock that guards it (OutputProducer.cs:133); one writer at a time, as modelled, is
not harmed.

*In-process application.*  "Cannot load more than once even there was a failure"
(inprocessapplication.cpp:637), but after a time-out of loading the lock is released before `m_status` becomes
`FAIL` (715-736), and a waiting request loads .NET again; `OneMain` shows that this gap (`UnmarkedTimeout`) is
the only one.  `OnExecuteRequest` checks, then calls: the server may be disposed in between
(`process = "crashed"`).  The loading thread writes `RUNNING` over the `SHUTDOWN` of a Main that has ended.
Requests keep arriving after `StopIncomingRequests`, which only sets `m_fShutdownCalledFromManaged`;
`ShutDownInternal` skips the wait for Main when that flag is set, also when managed code set it because of
this shutdown; `m_fRecycleCalled` is initialised by no constructor, and if it is not zero there is no recycle.

*Applications.*  A configuration change that keeps its copy works on the manager's table
itself, with no lock.  `ShutDown` clears and deletes that table meanwhile (applicationmanager.cxx:434-437), so that
`DBG_ASSERT(pRecord != NULL)` (370) fails and the NULL record is used; `InfosInUseAreAlive` says that the copy
is sound until then (`KeptCopyIsCleared`).  A request that looks at the size of the table after line 437 goes
through a NULL pointer (62).  `m_pApplication` is not set by the constructor of `APPLICATION_INFO`
(applicationinfo.h:61-66); where the memory is not zero, its first use calls through it.  `StopMonitor` gives up
a reference that the pending read needs, so the entry is deleted before the completion for its closed
directory arrives (filewatcher.cxx:389).  The reference `UpdateAppOfflineFileHandle` takes may be the last
one; the destructor then waits for a lock that its own thread holds (applicationinfo.cpp:176,
`w.pc = "stuck"`).

*Processes.*  `GetProcess` returns a `SERVER_PROCESS` without a reference (processmanager.cxx:153): an exit
callback may free it while the request forwards to it.  When a start fails, `GetProcess` deletes the object
whatever its count says (processmanager.cxx:269), but the exit callback of its process may be running:
`UnregisterWait` (serverprocess.cxx:1725, 1733) does not wait for it (`DeletedUnderCallback`).  The
thread of `SendShutDownSignalInternal` takes its reference when it runs (2075); `SendSignal` does not hold
one for it, and has released its own when the process ended at once (`sig = "late"`).

*Forwarding.*

- The shutdown `Cleanup` sends is not counted, but its callback takes one from `_dwOutstandingIo`
  (`ends.counted`).  From then on the count is one short, and `IndicateCompletionToIIS` closes the handle while
  an operation is pending, although "Make sure no pending IO [...] any unexpected callback will lead to AV"
  (websockethandler.cxx:219-221).  `WebSocketCounts` says that the count is exact before and one less
  afterwards, and that no handle is closed early otherwise.
- A message of the web socket that arrives when the status is DONE is taken for a part of the response and
  flushed (forwardinghandler.cpp:1425); the completion of that flush is one more than "Never post completion
  again after that" (1586) allows for, and may find the handler deleted (`ends.strayed`).
- "This ensures no request leaks" (1367), but three kinds of web socket sessions are never ended
  (`Forgotten`): the first read could not start, so no callback closes the handle; the count passed
  zero, one short, before it was looked at; `Cleanup` could not tell the back-end, which stays silent.
  `SessionEnds` says that a session comes to its end or is in one of these states for ever.
- A session that ends on a thread of WinHTTP finds `m_fWebSocketHandleInClose` clear at the end of the callback,
  and `TerminateRequest` (1617-1621) calls `Cleanup`.  If the session was closed in an orderly way it has not
  run before, and the client's connection is reset.
- The constructor (20-54) leaves `m_pDisconnect`, `m_cEntityBuffers` and `m_pEntityBuffer` unset, and the object
  comes from a plain `new` (outprocessapplication.cpp:92): where the memory is not zero, the first use of
  one of them faults (`UnsetMemory`, `returned = "faulted"`).  What is shown of a request is shown up to there.

*Sockets.*  IIS may answer the first flush before `_initializationFlush` is stored; `NotifyCompletion` throws,
and the upgrade waits for ever (WebSocketsAsyncIOEngine.cs:62, `FlushIsLost`).  A late `FreeOperationResources`
unpins the buffer of the next read (AsyncIOOperation.cs:120).  `Dispose` cancels "all remaining IO"
(IISHttpContextOfT.cs:93), but a read issued after it is neither refused nor cancelled, and the request
waits for a client that may be silent for ever (`ReadIsLate`).  `AllEnd` excepts these two states only where they
last for ever.

*Activation.*  `ERROR_BAD_ENVIRONMENT` is returned as a positive `HRESULT`, which is no failure
(hostfxr_utility.cpp:462): a configuration without a hostfxr.dll is stored.  The comment on
`ParseHostfxrArguments` says "argv[1] = L"exec", argv[2] = absolute path to dll" (258-264); no code inserts
`exec`, and the DLL is `argv[1]`.  The path of an application's DLL is not quoted, so a space splits it (117).
`FirstArgumentIsTheDll` therefore speaks of the element behind the executable's path, and only of paths
without a space.  When
copying the path fails, `GetConfig` deletes a configuration that is already in the module context
(aspnetcoreconfig.cxx:143); later requests use it.

## 6. Proofs

One module `M_proofs` for each of seven components, and `SharedState_proofs` for two more.  Every safety
property that holds in a run is a theorem there, for every value of the constants that the named assumptions
allow; so are the two refinements.  The invariants about steps were checked with TLC on the instance of their
run before they were proved; `ForwardInv` also with four threads and with longer bodies.  None of the
properties is inductive by itself.  The proofs have one lemma per action, or one for a few actions that differ
in little.

**AsyncIOEngine_proofs**, for any sets of clients and operation objects and any `MaxBytes`.  Assumed: the
kinds of objects are disjoint, `NoOp` is none of them and no client, `Null` and `Called` are two values that
are no clients.  The inductive invariant `IInv` is

- `TypeOK`;
- `LockInv`: what the engine, the lock owner and IIS have in hand is one operation each, and they fit;
- `HolderInv`: a pooled object is held by nobody, a held one belongs to one client, every pending one is
  held, and one that is not held carries nothing over;
- `CallerInv`: where a client is in its `await` fits the continuation of its operation and the set that
  has its wake-up;
- `HandleInv`: buffers in use are pinned, and after `Dispose` no write is completed without having been
  invoked.

That a pooled object is clean depends on who holds what, and that a wake-up is not lost on where the
completing thread is.  `Inductive` proves `[]IInv`; `Typing`, `OneCall`, `Pinned`, `Isolation`, `NoneLost`,
`Faultless`, `NoOverlap` and their conjunction `Safe` follow.  `PinsLeakOnlyOvertaken` adds `PinInv`: a pinned
write is the call of IIS or the one whose completion is being published.  `Refinement` is the step
simulation of `RequestIO`: the initial states map to initial ones and each of the engine's steps to one of
`RequestIO` or to none.  It needs `ReplyInv` besides: IIS reports what the kind of its call allows, and an
operation a client holds that is not pending has its result.

**IISHttpContext_proofs**, for any numbers of calls and bytes, any pipe sizes and any kinds of calls that may
fail.  Assumed: the engine's clients are the reader and the writer.  `ContextInv` says which call the engine has
from where the tasks are (`CallerInv`), who starts the response (`StartInv`), and counts bytes:
received = consumed + in the pipe, sent + in the pipe = produced, with what `WriteBody` has sent and not yet
advanced past in between.  It counts engines too: each thread makes at most one (`CreatedInv`), and the second
comes from the race only (`RaceInv`).  `Quiet` (nothing outlives the completion), `ContextSafeHolds`,
`ResponseCompleteHolds` and `EndIsTheEndHolds` follow, without a hypothesis on how the application starts.

**InProcessApplication_proofs**, for any finite set of requests, any callers of `ShutDown` and any limits.
`RecycleOnce`: of the two threads at most one finds `m_fRecycleCalled` clear under the lock, and then it
is set for good (`RecycleInv`).  `CloseOnce`: `m_fShutdownCalledFromNative` is never cleared, so one
caller passes the check under the lock (`CloseInv`); no run checks it, one caller being all a run has.
`OneMainAtATime`: whoever loads holds the lock, and `STARTING` with no loader means that nothing was loaded, or
that a time-out of loading is still to be marked (`LoadInv`).  `CounterIsExact` and `DrainIsSafe`:
`_outstandingRequests` is the number of requests managed code has taken and not given back, and a drain
that waits has a request left that will decrement, or look at `Stopping`, or that has looked (`DrainInv`).  This
needs that `StopAsync` sets its flag before it looks at the counter (`StopInv`), and that a request is cut
off, and never decrements, only behind `http_stop_calls_into_managed`, whose callers complete the signal
(`CutInv`).

**ApplicationManager_proofs**, for any finite set of requests, any keys and paths and any bounds.  Assumed:
paths are sequences of segments.  `ManagerInv` counts the holders of each object: the table, the copy of a
configuration change, the requests and the watcher for an `APPLICATION_INFO` (`InfoCounted`); its
owner, the recycling threads and the requests for an application (`AppCounted`).  A reference count is not
equal to the number of holders but at least that: an in-process manager that keeps its copy, a
terminated watcher and a thread that could not be created leave references behind.  The rest says that
whoever creates, initializes or loads does so alone under the lock that guards it (`Making`, `Initializing`),
that one `APPLICATION_INFO` owns an application (`OneOwner`), and that an out-of-process application's stops,
the threads about to stop it and its owner make one together (`StopsOnce`).  `InUseAreAliveHolds`
and `NoApplicationIsLostHolds` follow, and with `PathsInv`, that whoever initializes a record still holds the lock
under which it found no other, `ManagerSafeHolds`.  `OnlyChangedLeaveHolds` is an action property: only
`TakeChanged` and the shutdown shrink the table, and `ChangedAreBelow` is the lemma on what
`FindConfigChangedApplication` finds.

**ProcessManager_proofs**, for any finite set of requests, any slots and ports.  `GuardedStarts`: whoever is
between the check and the release holds `m_srwLock`, its slot is free and the count was below the limit, and
nobody else writes the list meanwhile (`GuardInv`).  `NoUseAfterFree` and `NoneLeftRunning`: `RefInv` bounds
the count of each `SERVER_PROCESS` from below by its holders and from above by the waits two tries can
register, and says who answers for a process that runs: the list, the thread that starts it, or an exit that
was taken up.  An object is freed by a count that reached zero, and then nobody has a reference, or by a start
that failed, and then at most the exit callback has one.

**ForwardingHandler_proofs**, for any sizes of bodies and responses (at least one chunk) and any number of
callback threads.  `ForwardInv` is a disjunction of phases: nothing sent, forwarding with the turn at one
party, a web socket session, closing.  In all of them the references have holders, and the count of a web
socket is what is pending or running, or one less once the shutdown of `Cleanup` was counted off.
`ForwardInvHolds` says so of a request whose process is alive; a use of unset memory ends it, and `Stopped`
carries what was shown up to that step (`Promises`) past it.
`TurnsAndReferencesHolds`, `QuietWhenReleasedHolds`, `SuccessIsCompleteHolds`, `WebSocketCountsHolds`.

**WebSocketsAsyncIOEngine_proofs**, for any number of callback threads.  `SocketInv`: every call has one party
at a time that may still publish its answer, IIS or one callback; a callback that only frees may be any
number of calls behind, and then the call is marked `overtaken`.  `OperationsSafeHolds` (whoever takes a result takes that of its
own call, and no call is refused; that the awaits are resumed is left to the run), `PinnedHolds`.

**SharedState_proofs**, of `Activation`, for any requests, applications and situations.  `HandlerInv` relates
the flags read without the lock to the module and the pointer behind them: `LoadedAtMostOnce`,
`EntryAlwaysPublished`, `FailureStays`.  `ConfigInv` says who owns and who uses a configuration:
`OneConfigPerApplication`. `LocksInv` says who holds which lock where: `LoadingIsSafe`.  `HostFxrInv` says of
every request's configuration, stored or not, where its hostfxr.dll comes from: `HostFxrIsRightHolds`, for any
contents of the disk, any folder names and any versions (assumed is only that the situations have the types of
`Disks` and `Section`).  The loop of `FindHighestDotNetVersion` is a recursive function; that it is defined
for folders of any number, and that no version it has seen is newer than the one it holds, is each shown by a
least counterexample, which the well-foundedness of the numbers provides (`HighestExists`, `HighestIsNewest`).
`VersionsCompared` ties the comparison as texts of numbers in `compare` to the order `Newer` of the property.
Among prereleases of one version `Newer` is the order of the labels as texts, which fx_ver.h:8 announces ("This
is not SemVer"): `preview10` is before `preview9`, and the newest in this order need not be the one that was
released last.

**SharedState_proofs**, of `HashTable`, for any finite sets of threads and records, any keys and hashes, and
any positive number of buckets.  `ChainsAreOrdered` is not inductive: that `Link` keeps it depends on what the
thread has seen on its walk, before others changed the bucket.  `TableInv` adds, for each place of a thread
(`Stance`),

- of a walk: it stands on a node of the bucket of its key, and every node up to there has another key and a
  hash that is not greater (`WalkedPast`); an insertion behind another thread keeps this, because it goes in
  front of a greater hash;
- of an insertion about to exchange: the node it saw next has a greater hash, so that with `Fits` the new
  node belongs exactly there and its key is not in the bucket;
- of `Apply`: the records it still owes its callback are ahead of it (`DueIsAhead`);

and besides, that the lock's owner is alone (`OwnerIsAlone`), that a record is inserted by the one thread that
made it (`OneInserts`), and that its references are its holders and the table's (`Referenced`).  Deleting
threads are alone and the ones that share only insert, so a thread that walks stays on nodes of
the table.  `TableInvHolds` has one lemma per action, over lemmas on what `InsertAt`, `RemoveAt` and `Tail` do
to a chain; `TableSafeHolds` and `RecordsAreAliveHolds` follow.  `TableRefinement` is the step simulation of
`RecordMap`: an insertion takes effect with its exchange, a search or a refused insertion where its walk ends
(at the key, or before a greater hash, where with `WalkedPast` the key is not in the table), deletions where
they unlink, and all of the rehash is invisible, since its nodes are in one of the two tables all the time.

Model-checked only, and why:

- everything live: `ClientsAreServed`, `RequestEnds`, `OutputFlows`, `NobodyWaits`, `CrashIsReplaced`,
  `NobodyWaitsForever`, `AllEnd`, `RequestsEnd`, `SharingEnds`; fairness and ENABLED are beyond the prover;
- the two violations of section 5.

## 7. Not modelled

The models stand for about a third of the lines of the V2 module and of the managed server
without IISLib; IISLib and V1, which make up two thirds of the repository and of which
IISLib is there twice, account for most of the rest.

- **Feature collection, streams, header classes**: accessors and adapters without a protocol of their own.
- **IISMiddleware, authentication**: stateless filters apart from the shutdown request, a single call.
- **IISLib** apart from the hash table: strings, buffers, allocation cache, timers; their behaviour
  is computation on bytes, without interleavings.
- **AspNetCoreModuleV1**: the previous generation of the out-of-process module; the V2 files were taken from
  it and the models describe those.
- Of the components that are modelled: redirection of stdout and stderr and the log files with their timer;
  the recycling of an IIS Express process; a `CreateThread` that fails while loading; `OutputProducer`
  with several unawaited flushes (the shared `_flushTcs`) and its `Abort`, which nothing calls; header text,
  reverse rewriting, error pages and response buffering of `ForwardingHandler`; tokens and environment
  blocks, and systems without `GetExtendedTcpTable`; single configuration settings and event-log texts; an
  allocation that fails before anything is shared.
- A SetEvent that comes before the event is created is lost; loading then ends by its time limit, as
  modelled.
