--------------------------- MODULE ProcessManager ---------------------------
(***************************************************************************)
(* Out-of-process hosting: PROCESS_MANAGER keeps a list of back-end        *)
(* processes for one application, and SERVER_PROCESS starts, watches and   *)
(* stops one of them.  Four kinds of threads meet in it:                   *)
(*   - requests in PROCESS_MANAGER::GetProcess, which pick a process round *)
(*     robin or start one while they hold the manager's lock;              *)
(*   - the wait thread of the thread pool, which runs HandleProcessExit    *)
(*     when a process it watches has ended.  The waits are registered with *)
(*     WT_EXECUTEINWAITTHREAD: callbacks run one after the other;          *)
(*   - the thread in OUT_OF_PROCESS_APPLICATION::ShutDown, and             *)
(*   - the threads SendSignal creates to ask a process to shut down.       *)
(* The back-end processes themselves may end, or fail to start, whenever   *)
(* they run.  A request starts at most one SERVER_PROCESS, which is named  *)
(* after the request.  Left out: log files and their timer, tokens, the    *)
(* environment block, and hosts without GetExtendedTcpTable.               *)
(***************************************************************************)
EXTENDS Integers, FiniteSets

CONSTANTS
  Requests,        \* requests that need a back-end process, each once
  NSlots,          \* QueryProcessesPerApplication
  Ports,           \* the ports GetRandomPort picks from
  PortIsFixed,     \* BOOLEAN: the configuration sets ASPNETCORE_PORT
  Launchers,       \* BOOLEAN: the process may start a child that listens
  RapidFails,      \* QueryRapidFailsPerMinute
  Null             \* a model value, the NULL pointer

ASSUME ManagerAssumption ==
  /\ NSlots \in Nat \ {0}
  /\ RapidFails \in Nat
  /\ PortIsFixed \in BOOLEAN /\ Launchers \in BOOLEAN
  /\ Null \notin Requests
  /\ "shutdown" \notin Requests \cup {Null}

\* Every run of the worker process serves finitely many requests.
ASSUME FiniteRequests == IsFiniteSet(Requests)

Slots == 0 .. NSlots - 1

VARIABLES
  manager,         \* BOOLEAN: m_pProcessManager of the application is set
  lock,            \* the thread that holds m_srwLock exclusively, or Null
  listReady,       \* m_fServerProcessListReady
  list,            \* m_ppServerProcessList
  route,           \* m_dwRouteToProcessIndex modulo the number of processes
  fails,           \* m_cRapidFailCount
  proc,            \* the SERVER_PROCESS objects, by the request that creates them
  req,             \* the requests in GetProcess
  wt,              \* the wait thread: its place and its context
  sd,              \* the thread in ShutDown
  sig              \* the SendShutDownSignal thread of each SERVER_PROCESS

vars == <<manager, lock, listReady, list, route, fails, proc, req, wt, sd, sig>>

(***************************************************************************)
(* SERVER_PROCESS.  main is the process that was created, child one that   *)
(* it started; listener says which of them listens on the port.            *)
(***************************************************************************)
NoProcess ==
  [life |-> "none", refs |-> 0, ready |-> FALSE, stopping |-> FALSE,
   port |-> Null, main |-> "none", child |-> "none", listener |-> "none",
   waitMain |-> "none", waitChild |-> "none"]

Init ==
  /\ manager = TRUE /\ lock = Null /\ listReady = FALSE
  /\ list = [s \in Slots |-> Null]
  /\ route = 0 /\ fails = 0
  /\ proc = [o \in Requests |-> NoProcess]
  /\ req = [r \in Requests |-> [pc |-> "idle", slot |-> 0, tries |-> 0, got |-> Null]]
  /\ wt = [pc |-> "idle", obj |-> Null]
  /\ sd = [pc |-> "idle", slot |-> 0]
  /\ sig = [o \in Requests |-> "none"]

Ended(p) == IF p = "running" THEN "dead" ELSE p

\* TerminateProcess on the process and on the child whose handle is known.
Killed(x) == [x EXCEPT !.main = Ended(@), !.child = Ended(@)]

Listens(x) == \/ x.listener = "main" /\ x.main = "running"
              \/ x.listener = "child" /\ x.child = "running"

\* CheckIfServerIsUp: some process listens on the port.
PortIsUp(p) == \E o \in Requests : proc[o].port = p /\ Listens(proc[o])

\* Mutant: the process is marked and forgotten.
StopsNothing(x) == [x EXCEPT !.ready = FALSE]

StopProcess(x) == [Killed(x) EXCEPT !.ready = FALSE]

\* CleanUp unregisters the waits without giving back their references, and
\* terminates the processes: nothing is known of them any more.
CleanUp(x) == [x EXCEPT !.waitMain = "none", !.waitChild = "none",
                        !.main = "none", !.child = "none", !.listener = "none"]

\* The destructor runs CleanUp.  What is done to a freed object has no effect,
\* and its port can still be read.
Freed(x) == [CleanUp(NoProcess) EXCEPT !.life = "freed", !.port = x.port]

DereferenceServerProcess(x) ==
  IF x.refs <= 1
  THEN Freed(x)
  ELSE [x EXCEPT !.refs = @ - 1]

ReferenceServerProcess(x) == [x EXCEPT !.refs = @ + 1]

\* TerminateBackendProcess: the first to set m_lStopping takes over the
\* reference of the wait for the process, and kills it, but not its child.
TerminateBackendProcess(x) ==
  IF x.stopping THEN x
  ELSE LET y == [x EXCEPT !.stopping = TRUE, !.main = Ended(@)] IN
       IF y.waitMain = "none" THEN y
       ELSE DereferenceServerProcess([y EXCEPT !.waitMain = "none"])

(***************************************************************************)
(* ShutdownProcessNoLock: every process of the list that has the port.     *)
(***************************************************************************)
SamePort(x) == {s \in Slots : list[s] # Null /\ proc[list[s]].port = x.port}

ShutdownProcessNoLock(x) ==
  LET gone == {list[s] : s \in SamePort(x)} IN
  /\ proc' = [o \in Requests |->
                IF o \in gone THEN DereferenceServerProcess(StopProcess(proc[o])) ELSE proc[o]]
  /\ list' = [s \in Slots |-> IF s \in SamePort(x) THEN Null ELSE list[s]]
  /\ fails' = fails + Cardinality(SamePort(x))

(***************************************************************************)
(* GetProcess.                                                             *)
(***************************************************************************)
Goto(r, pc) == req' = [req EXCEPT ![r].pc = pc]
Returns(r, o) == req' = [req EXCEPT ![r].pc = "got", ![r].got = o]

\* The application passes the call on through m_pProcessManager.
GetProcess(r) ==
  /\ req[r].pc = "idle"
  /\ Goto(r, IF manager THEN "list" ELSE "crashed")
  /\ UNCHANGED <<manager, lock, listReady, list, route, fails, proc, wt, sd, sig>>

\* The list is allocated by the first request, under the lock.
AllocateList(r) ==
  /\ req[r].pc = "list"
  /\ ~listReady => lock = Null
  /\ listReady' = TRUE
  /\ Goto(r, "shared")
  /\ UNCHANGED <<manager, lock, list, route, fails, proc, wt, sd, sig>>

IsReady(s) == list[s] # Null /\ proc[list[s]].ready

\* The section under the shared lock: round robin, and a process that is ready.
LookShared(r) ==
  LET s == (route + 1) % NSlots IN
  /\ req[r].pc = "shared" /\ lock = Null
  /\ route' = s
  /\ req' = IF IsReady(s) THEN [req EXCEPT ![r].pc = "got", ![r].got = list[s], ![r].slot = s]
                          ELSE [req EXCEPT ![r].pc = "look", ![r].slot = s]
  /\ UNCHANGED <<manager, lock, listReady, list, fails, proc, wt, sd, sig>>

\* The same look without a lock; when another request has meanwhile started
\* the process, it is read from the list a second time.
LookUnlocked(r) ==
  /\ req[r].pc = "look"
  /\ Goto(r, IF IsReady(req[r].slot) THEN "again" ELSE "exclusive")
  /\ UNCHANGED <<manager, lock, listReady, list, route, fails, proc, wt, sd, sig>>

ReadAgain(r) ==
  /\ req[r].pc = "again"
  /\ Returns(r, list[req[r].slot])
  /\ UNCHANGED <<manager, lock, listReady, list, route, fails, proc, wt, sd, sig>>

LockForStart(r) ==
  /\ req[r].pc = "exclusive" /\ lock = Null
  /\ lock' = r
  /\ Goto(r, "recheck")
  /\ UNCHANGED <<manager, listReady, list, route, fails, proc, wt, sd, sig>>

\* The look is repeated under the exclusive lock.
FoundUnderLock(r) == IsReady(req[r].slot)

\* A process that has become ready is returned; one that is not is stopped.
Recheck(r) ==
  /\ req[r].pc = "recheck"
  /\ IF FoundUnderLock(r)
     THEN /\ Returns(r, list[req[r].slot])
          /\ lock' = Null
          /\ UNCHANGED <<list, fails, proc>>
     ELSE /\ Goto(r, "limit")
          /\ IF list[req[r].slot] = Null THEN UNCHANGED <<list, fails, proc>>
             ELSE ShutdownProcessNoLock(proc[list[req[r].slot]])
          /\ UNCHANGED lock
  /\ UNCHANGED <<manager, listReady, route, wt, sd, sig>>

\* RapidFailsPerMinuteExceeded starts a new count once a minute; minute says
\* whether one has passed.
\* Mutant: one crash more than the limit.
ExceededLate(count) == count > RapidFails + 1

Exceeded(count) == count > RapidFails

CheckRapidFails(r) ==
  /\ req[r].pc = "limit"
  /\ \E minute \in BOOLEAN :
       LET count == IF minute THEN 0 ELSE fails IN
       /\ fails' = count
       /\ IF Exceeded(count)
          THEN /\ Goto(r, "failed") /\ lock' = Null
               /\ UNCHANGED proc
          ELSE /\ req' = [req EXCEPT ![r].pc = "launch", ![r].tries = 2]
               /\ proc' = [proc EXCEPT ![r] = [NoProcess EXCEPT !.life = "alive", !.refs = 1]]
               /\ UNCHANGED lock
  /\ UNCHANGED <<manager, listReady, list, route, wt, sd, sig>>

(***************************************************************************)
(* StartProcess, run by a request that holds the lock.                     *)
(***************************************************************************)
\* SetupListenPort: the configured port, or a random one nobody listens on.
SetupListenPort == IF PortIsFixed THEN Ports ELSE {p \in Ports : ~PortIsUp(p)}

Launch(r) ==
  /\ req[r].pc = "launch"
  /\ \E p \in SetupListenPort :
       proc' = [proc EXCEPT ![r].port = p, ![r].main = "running",
                            ![r].child = "none", ![r].listener = "none"]
  /\ req' = [req EXCEPT ![r].pc = "await", ![r].tries = @ - 1]
  /\ UNCHANGED <<manager, lock, listReady, list, route, fails, wt, sd, sig>>

\* Anything before the process runs has failed; a configured port that is out
\* of range is a critical error, after which there is no second try.
LaunchFails(r) ==
  /\ req[r].pc = "launch"
  /\ \E critical \in BOOLEAN :
       /\ critical => PortIsFixed
       /\ req' = [req EXCEPT ![r].pc = "cleanup", ![r].tries = IF critical THEN 0 ELSE @ - 1]
  /\ proc' = [proc EXCEPT ![r].port = Null]
  /\ UNCHANGED <<manager, lock, listReady, list, route, fails, wt, sd, sig>>

\* The loop of PostStartCheck sees the port up.  RegisterProcessWait follows,
\* and what was seen of the owner of the port decides how to go on.
\* Mutants: the wait has no reference of its own; the wait is not registered.
WaitsUnreferenced(x) == [x EXCEPT !.waitMain = "armed"]
WaitsForNothing(x) == ReferenceServerProcess(x)

RegisterProcessWait(x) == [ReferenceServerProcess(x) EXCEPT !.waitMain = "armed"]

PortComesUp(r) ==
  /\ req[r].pc = "await"
  /\ proc[r].main = "running" /\ PortIsUp(proc[r].port)
  /\ Goto(r, CASE proc[r].listener = "main"  -> "watch_main"
               [] proc[r].listener = "child" -> "watch_child"
               [] OTHER                      -> "watch_other")
  /\ UNCHANGED <<manager, lock, listReady, list, route, fails, proc, wt, sd, sig>>

\* The process has ended, the time is up, or it could not be put in its job.
AwaitFails(r) ==
  /\ req[r].pc = "await"
  /\ Goto(r, "cleanup")
  /\ UNCHANGED <<manager, lock, listReady, list, route, fails, proc, wt, sd, sig>>

WatchProcess(r) ==
  /\ req[r].pc \in {"watch_main", "watch_child", "watch_other"}
  /\ proc' = [proc EXCEPT ![r] = RegisterProcessWait(@)]
  /\ Goto(r, CASE req[r].pc = "watch_main"  -> "connect"
               [] req[r].pc = "watch_child" -> "match"
               [] OTHER                     -> "cleanup")
  /\ UNCHANGED <<manager, lock, listReady, list, route, fails, wt, sd, sig>>

\* The child is looked up in the job; without its handle there is no wait.
MatchChild(r) ==
  /\ req[r].pc = "match"
  /\ IF proc[r].child # "running" THEN Goto(r, "cleanup") /\ UNCHANGED proc
     ELSE \E opened \in BOOLEAN :
            /\ proc' = IF opened THEN [proc EXCEPT ![r].refs = @ + 1, ![r].waitChild = "armed"]
                                 ELSE proc
            /\ Goto(r, IF opened THEN "final" ELSE "connect")
  /\ UNCHANGED <<manager, lock, listReady, list, route, fails, wt, sd, sig>>

\* The last check leaves hr at S_OK when nobody listens any more: the start
\* counts as a success, and GetProcess finds a process that is not ready.
FinalCheck(r) ==
  /\ req[r].pc = "final"
  /\ Goto(r, IF PortIsUp(proc[r].port) THEN "connect" ELSE "unready")
  /\ UNCHANGED <<manager, lock, listReady, list, route, fails, proc, wt, sd, sig>>

\* The FORWARDER_CONNECTION is made, and the process marked ready.
Connect(r) ==
  /\ req[r].pc = "connect"
  /\ proc' = [proc EXCEPT ![r].ready = TRUE]
  /\ Goto(r, "store")
  /\ UNCHANGED <<manager, lock, listReady, list, route, fails, wt, sd, sig>>

ConnectFails(r) ==
  /\ req[r].pc = "connect"
  /\ Goto(r, "cleanup")
  /\ UNCHANGED <<manager, lock, listReady, list, route, fails, proc, wt, sd, sig>>

TriesAgain(r) == req[r].tries > 0

\* The label Failure of StartProcess: clean up, and a second try.
CleanUpAndRetry(r) ==
  /\ req[r].pc = "cleanup"
  /\ proc' = [proc EXCEPT ![r] = CleanUp(@)]
  /\ Goto(r, IF TriesAgain(r) THEN "launch" ELSE "unready")
  /\ UNCHANGED <<manager, lock, listReady, list, route, fails, wt, sd, sig>>

StoreProcess(r) ==
  /\ req[r].pc = "store"
  /\ list' = [list EXCEPT ![req[r].slot] = r]
  /\ lock' = Null
  /\ Returns(r, r)
  /\ UNCHANGED <<manager, listReady, route, fails, proc, wt, sd, sig>>

\* The label Finished of GetProcess: the lock is released, and the process
\* that did not start is deleted, whatever references there are.
UnlockUnready(r) ==
  /\ req[r].pc = "unready"
  /\ lock' = Null
  /\ Goto(r, "delete")
  /\ UNCHANGED <<manager, listReady, list, route, fails, proc, wt, sd, sig>>

DeleteProcess(r) ==
  /\ req[r].pc = "delete"
  /\ proc' = [proc EXCEPT ![r] = Freed(@)]
  /\ Goto(r, "failed")
  /\ UNCHANGED <<manager, lock, listReady, list, route, fails, wt, sd, sig>>

(***************************************************************************)
(* The wait thread.                                                        *)
(***************************************************************************)
Waits == {<<"waitMain", "main">>, <<"waitChild", "child">>}

\* A process that is waited for has ended.  Only the first to set m_lStopping
\* goes on; any other returns, and keeps the reference of its wait.
ProcessHandleCallback(o) ==
  /\ wt.pc = "idle"
  /\ \E w \in Waits :
       /\ proc[o][w[1]] = "armed" /\ proc[o][w[2]] = "dead"
       /\ proc' = [proc EXCEPT ![o][w[1]] = "fired", ![o].stopping = TRUE]
  /\ wt' = IF proc[o].stopping THEN wt ELSE [pc |-> "check", obj |-> o]
  /\ UNCHANGED <<manager, lock, listReady, list, route, fails, req, sd, sig>>

HandleProcessExit ==
  /\ wt.pc = "check"
  /\ wt' = [wt EXCEPT !.pc = IF PortIsUp(proc[wt.obj].port) THEN "dereference" ELSE "shutdown"]
  /\ UNCHANGED <<manager, lock, listReady, list, route, fails, proc, req, sd, sig>>

ShutdownProcess ==
  /\ wt.pc = "shutdown" /\ lock = Null
  /\ ShutdownProcessNoLock(proc[wt.obj])
  /\ wt' = [wt EXCEPT !.pc = "dereference"]
  /\ UNCHANGED <<manager, lock, listReady, route, req, sd, sig>>

WaitThreadDereferences ==
  /\ wt.pc = "dereference"
  /\ proc' = [proc EXCEPT ![wt.obj] = DereferenceServerProcess(@)]
  /\ wt' = [pc |-> "idle", obj |-> Null]
  /\ UNCHANGED <<manager, lock, listReady, list, route, fails, req, sd, sig>>

(***************************************************************************)
(* OUT_OF_PROCESS_APPLICATION::ShutDown, and SendSignal for each process.  *)
(***************************************************************************)
ShutDown ==
  /\ sd.pc = "idle" /\ lock = Null
  /\ lock' = "shutdown"
  /\ sd' = [pc |-> "signal", slot |-> 0]
  /\ UNCHANGED <<manager, listReady, list, route, fails, proc, req, wt, sig>>

Signalled == list[sd.slot]

SendSignal ==
  /\ sd.pc = "signal" /\ sd.slot < NSlots
  /\ IF Signalled = Null
     THEN /\ sd' = [sd EXCEPT !.slot = @ + 1]
          /\ UNCHANGED <<proc, sig>>
     ELSE /\ proc' = [proc EXCEPT ![Signalled] = ReferenceServerProcess(@)]
          /\ \E opened \in BOOLEAN :
               /\ sd' = [sd EXCEPT !.pc = IF opened THEN "await" ELSE "terminate"]
               /\ sig' = IF opened THEN [sig EXCEPT ![Signalled] = "created"] ELSE sig
  /\ UNCHANGED <<manager, lock, listReady, list, route, fails, req, wt>>

ProcessEnded ==
  /\ sd.pc = "await" /\ proc[Signalled].main = "dead"
  /\ sd' = [sd EXCEPT !.pc = "release"]
  /\ UNCHANGED <<manager, lock, listReady, list, route, fails, proc, req, wt, sig>>

\* Mutant: the wait has no limit.
WaitsInfinitely == sd.pc = "debugger" /\ UNCHANGED vars

\* The shutdown limit has passed: the signal thread is terminated wherever it
\* is, then the process.
ShutdownTimesOut ==
  /\ sd.pc = "await"
  /\ sig' = [sig EXCEPT ![Signalled] = IF @ = "ended" THEN @ ELSE "terminated"]
  /\ sd' = [sd EXCEPT !.pc = "terminate"]
  /\ UNCHANGED <<manager, lock, listReady, list, route, fails, proc, req, wt>>

Terminate ==
  /\ sd.pc = "terminate"
  /\ proc' = [proc EXCEPT ![Signalled] = TerminateBackendProcess(@)]
  /\ sd' = [sd EXCEPT !.pc = "release"]
  /\ UNCHANGED <<manager, lock, listReady, list, route, fails, req, wt, sig>>

\* The reference of SendSignal, then the one of the list.
ReleaseProcess ==
  /\ sd.pc = "release"
  /\ proc' = [proc EXCEPT ![Signalled] = DereferenceServerProcess(DereferenceServerProcess(@))]
  /\ list' = [list EXCEPT ![sd.slot] = Null]
  /\ sd' = [pc |-> "signal", slot |-> sd.slot + 1]
  /\ UNCHANGED <<manager, lock, listReady, route, fails, req, wt, sig>>

UnlockShutDown ==
  /\ sd.pc = "signal" /\ sd.slot = NSlots
  /\ lock' = Null
  /\ sd' = [sd EXCEPT !.pc = "forget"]
  /\ UNCHANGED <<manager, listReady, list, route, fails, proc, req, wt, sig>>

ForgetManager ==
  /\ sd.pc = "forget"
  /\ manager' = FALSE
  /\ sd' = [sd EXCEPT !.pc = "done"]
  /\ UNCHANGED <<lock, listReady, list, route, fails, proc, req, wt, sig>>

(***************************************************************************)
(* SendShutDownSignalInternal, on a thread of its own.                     *)
(***************************************************************************)
\* The thread takes its reference only here: when the process has ended at once,
\* SendSignal may be over and the object freed, and what the thread does with it
\* is not followed.
SignalStarts(o) ==
  /\ sig[o] = "created"
  /\ IF proc[o].life = "freed"
     THEN sig' = [sig EXCEPT ![o] = "late"] /\ UNCHANGED proc
     ELSE /\ proc' = [proc EXCEPT ![o] = ReferenceServerProcess(@)]
          /\ sig' = [sig EXCEPT ![o] = "running"]
  /\ UNCHANGED <<manager, lock, listReady, list, route, fails, req, wt, sd>>

\* The message or Ctrl-Break has been sent, and the process may end by itself;
\* or neither could be sent, and it is terminated.
SendShutDownSignal(o) ==
  /\ sig[o] = "running"
  /\ \E sent \in BOOLEAN :
       proc' = IF sent THEN proc ELSE [proc EXCEPT ![o] = TerminateBackendProcess(@)]
  /\ sig' = [sig EXCEPT ![o] = "sent"]
  /\ UNCHANGED <<manager, lock, listReady, list, route, fails, req, wt, sd>>

SignalEnds(o) ==
  /\ sig[o] = "sent"
  /\ proc' = [proc EXCEPT ![o] = DereferenceServerProcess(@)]
  /\ sig' = [sig EXCEPT ![o] = "ended"]
  /\ UNCHANGED <<manager, lock, listReady, list, route, fails, req, wt, sd>>

(***************************************************************************)
(* The back-end processes.                                                 *)
(***************************************************************************)
StartsListening(o) ==
  /\ proc[o].main = "running" /\ proc[o].listener = "none" /\ ~PortIsUp(proc[o].port)
  /\ \/ proc' = [proc EXCEPT ![o].listener = "main"]
     \/ /\ Launchers
        /\ proc' = [proc EXCEPT ![o].listener = "child", ![o].child = "running"]
  /\ UNCHANGED <<manager, lock, listReady, list, route, fails, req, wt, sd, sig>>

ProcessEnds(o) ==
  /\ \E p \in {"main", "child"} :
       proc[o][p] = "running" /\ proc' = [proc EXCEPT ![o][p] = "dead"]
  /\ UNCHANGED <<manager, lock, listReady, list, route, fails, req, wt, sd, sig>>

StartStep(r) ==
  \/ Launch(r) \/ LaunchFails(r) \/ PortComesUp(r) \/ AwaitFails(r) \/ WatchProcess(r)
  \/ MatchChild(r) \/ FinalCheck(r) \/ Connect(r) \/ ConnectFails(r) \/ CleanUpAndRetry(r)

GetProcessStep(r) ==
  \/ AllocateList(r) \/ LookShared(r) \/ LookUnlocked(r) \/ ReadAgain(r) \/ LockForStart(r)
  \/ Recheck(r) \/ CheckRapidFails(r) \/ StoreProcess(r) \/ UnlockUnready(r) \/ DeleteProcess(r)

WaitThreadStep == HandleProcessExit \/ ShutdownProcess \/ WaitThreadDereferences

ShutDownStep ==
  \/ SendSignal \/ ProcessEnded \/ ShutdownTimesOut \/ Terminate
  \/ ReleaseProcess \/ UnlockShutDown \/ ForgetManager

SignalStep(o) == SignalStarts(o) \/ SendShutDownSignal(o) \/ SignalEnds(o)

Next ==
  \/ \E r \in Requests : GetProcess(r)
  \/ \E r \in Requests : GetProcessStep(r)
  \/ \E r \in Requests : StartStep(r)
  \/ \E o \in Requests : ProcessHandleCallback(o)
  \/ WaitThreadStep
  \/ ShutDown
  \/ ShutDownStep
  \/ \E o \in Requests : SignalStep(o)
  \/ \E o \in Requests : StartsListening(o)
  \/ \E o \in Requests : ProcessEnds(o)

\* Threads are scheduled; nobody promises that requests or the shutdown come,
\* that a process listens, or that one ends.
Fairness ==
  /\ \A r \in Requests : WF_vars(GetProcessStep(r)) /\ WF_vars(StartStep(r))
  /\ \A o \in Requests : WF_vars(ProcessHandleCallback(o)) /\ WF_vars(SignalStep(o))
  /\ WF_vars(WaitThreadStep) /\ WF_vars(ShutDownStep)

Spec == Init /\ [][Next]_vars /\ Fairness

(***************************************************************************)
(* Properties.                                                             *)
(***************************************************************************)
Starting(o) == req[o].pc \in {"launch", "await", "watch_main", "watch_child", "watch_other",
                              "match", "final", "connect", "store", "cleanup"}
Listed(o) == \E s \in Slots : list[s] = o
Signals(o) == sd.pc \in {"await", "terminate", "release"} /\ Signalled = o

\* Types of the variables of the manager and of the SERVER_PROCESS objects; a
\* reference count never passes the four kinds of holders there are.
TypeOK ==
  /\ manager \in BOOLEAN /\ listReady \in BOOLEAN
  /\ lock \in Requests \cup {Null, "shutdown"}
  /\ list \in [Slots -> Requests \cup {Null}]
  /\ route \in Slots /\ fails \in 0 .. Cardinality(Requests)
  /\ \A o \in Requests :
       /\ proc[o].refs \in 0 .. 7
       /\ proc[o].port \in Ports \cup {Null}
       /\ req[o].tries \in 0 .. 2
       /\ req[o].got \in Requests \cup {Null}

\* Whoever holds a reference of a SERVER_PROCESS finds it counted: the list, the
\* waits that are armed, the callback, SendSignal and the signal thread.  So
\* neither of them frees it for another (DereferenceServerProcess).
Count(b) == IF b THEN 1 ELSE 0
Holders(o) == Count(Listed(o) \/ Starting(o))
            + Count(proc[o].waitMain = "armed") + Count(proc[o].waitChild = "armed")
            + Count(wt.obj = o) + Count(Signals(o)) + Count(sig[o] \in {"running", "sent"})
ReferencesCover ==
  \A o \in Requests : proc[o].life = "alive" => proc[o].refs >= Holders(o)

\* The label Finished of GetProcess deletes a process that did not start without
\* looking at its count: the exit callback may hold it (README, section 5).
DeletedUnderCallback(o) == proc[o].life = "freed" /\ req[o].pc = "failed"

\* Whoever uses a SERVER_PROCESS with a reference finds it alive, with that one
\* exception.  The signal thread is looked at from the moment it has one: before,
\* the object may be freed under it (SignalStarts).
HeldAreAlive ==
  \A o \in Requests :
    /\ \/ Listed(o) \/ Starting(o) \/ Signals(o)
       \/ proc[o].waitMain = "armed" \/ proc[o].waitChild = "armed"
       \/ sig[o] \in {"running", "sent"}
       => proc[o].life = "alive"
    /\ wt.obj = o => proc[o].life = "alive" \/ DeletedUnderCallback(o)

\* A process in the list has not been freed, is marked ready, and occupies one
\* slot: GetProcess may look at it under the lock.
ListedAreAlive ==
  \A s \in Slots : list[s] # Null =>
    /\ proc[list[s]].life = "alive" /\ proc[list[s]].ready
    /\ \A t \in Slots : list[t] = list[s] => t = s

\* No SERVER_PROCESS is freed while the list, a wait, a callback or a thread holds a
\* reference, but for DeletedUnderCallback.
ReferencesHold == TypeOK /\ ReferencesCover /\ HeldAreAlive /\ ListedAreAlive

InHands(o) == Listed(o) \/ Starting(o) \/ Signals(o) \/ req[o].pc \in {"unready", "delete"}

\* A back-end process that runs is listed, being started by its request, or
\* being shut down: CleanUp, StopProcess and TerminateBackendProcess leave none
\* running with nobody to stop it, unless m_lStopping is taken by an exit
\* (UnresponsiveIsTerminated).
NoOrphan ==
  \A o \in Requests : (proc[o].main = "running" /\ ~proc[o].stopping) =>
    proc[o].life = "alive" /\ InHands(o)

\* No process is started while more processes than the limit have crashed within
\* the minute, and only by the thread that holds the lock, into a free slot.
StartsAreGuarded ==
  \A r \in Requests : Starting(r) =>
    fails <= RapidFails /\ lock = r /\ list[req[r].slot] = Null

\* A crash of a listed process that HandleProcessExit has not seen yet takes it
\* off the list, unless a process of another slot comes to listen on its port.
CrashIsReplaced ==
  \A o \in Requests :
    (Listed(o) /\ ~proc[o].stopping /\ proc[o].main = "dead" /\ proc[o].listener = "main")
      ~> (~Listed(o) \/ PortIsUp(proc[o].port))

\* No call waits forever: not for the lock, not for a process that neither
\* listens nor ends, not for one that ignores the signal.
NobodyWaitsForever ==
  /\ \A r \in Requests : (req[r].pc = "list") ~> (req[r].pc \in {"got", "failed"})
  /\ (sd.pc = "signal") ~> (sd.pc = "done")
  /\ (wt.pc # "idle") ~> (wt.pc = "idle")

\* VIOLATED by the code.  A process that does not shut down in time is
\* terminated (SendSignal): it does not run when nobody has it in hand any more.
\* The exit of its child sets m_lStopping, and TerminateBackendProcess does nothing.
UnresponsiveIsTerminated ==
  \A o \in Requests : proc[o].main = "running" => InHands(o)
=============================================================================
