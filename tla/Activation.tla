----------------------------- MODULE Activation -----------------------------
(***************************************************************************)
(* What the first requests of an application go through before it exists:  *)
(* ASPNETCORE_CONFIG::GetConfig, which makes the configuration and leaves  *)
(* it in the module context of the application, and EnsureApplicationCreated *)
(* of APPLICATION_INFO, which finds and loads the request handler once for *)
(* the whole worker process and creates the application.  Requests of one  *)
(* application race for the module context and for the lock of its         *)
(* APPLICATION_INFO; requests of different ones race for the global lock   *)
(* and for the flags that say how loading went.                            *)
(*                                                                         *)
(* app_offline.htm and the life of APPLICATION_INFO objects are in         *)
(* ApplicationManager, to which all of this is two steps.                  *)
(***************************************************************************)
EXTENDS HostFxr

CONSTANTS
  Requests,
  Apps,          \* the applications of the worker process
  Situations,    \* the configurations and disks to start from: sets of records [site, disk]
  Null

ASSUME NullAssumption == Null \notin Requests \cup Apps

Section == [model : STRING, dotnet : BOOLEAN, arguments : Seq(STRING)]
ASSUME SituationAssumption == Situations \subseteq [site : [Apps -> Section], disk : Disks]

VARIABLES
  site,          \* the section aspNetCore of each application
  disk,          \* what HOSTFXR_UTILITY finds, a record of HostFxr
  stored,        \* the configuration in the module context of each application
  config,        \* the ASPNETCORE_CONFIG objects, named after the request that creates them
  app,           \* whether m_pApplication of the application is set
  appLock,       \* holder of m_srwLock of its APPLICATION_INFO
  entry,         \* whether its m_pfnAspNetCoreCreateApplication is set
  rhLock,        \* holder of g_srwLock
  rhModule,      \* g_hAspnetCoreRH is set
  rhEntry,       \* g_pfnAspNetCoreCreateApplication is set
  rhLoaded,      \* g_fAspnetcoreRHAssemblyLoaded
  rhError,       \* g_fAspnetcoreRHLoadedError
  loads,         \* calls of LoadLibrary for the request handler
  req            \* the requests

configVars == <<stored, config>>
appVars == <<app, appLock, entry>>
rhVars == <<rhLock, rhModule, rhEntry, rhLoaded, rhError, loads>>
vars == <<site, disk, configVars, appVars, rhVars, req>>

NoConfig == [life |-> "none", inProcess |-> FALSE, hostfxr |-> Failure, path |-> FALSE]

Init ==
  /\ \E x \in Situations : site = x.site /\ disk = x.disk
  /\ stored = [a \in Apps |-> Null]
  /\ config = [r \in Requests |-> NoConfig]
  /\ app = [a \in Apps |-> FALSE]
  /\ appLock = [a \in Apps |-> Null]
  /\ entry = [a \in Apps |-> FALSE]
  /\ rhLock = Null /\ rhModule = FALSE /\ rhEntry = FALSE
  /\ rhLoaded = FALSE /\ rhError = FALSE /\ loads = 0
  /\ req \in [Requests -> [pc : {"new"}, app : {Null}, conf : {Null}, invalid : {FALSE}]]

-----------------------------------------------------------------------------
Goto(r, pc) == req' = [req EXCEPT ![r].pc = pc]
Uses(r, c) == req' = [req EXCEPT ![r].pc = "ensure", ![r].conf = c]
Context(r) == stored[req[r].app]

(***************************************************************************)
(* GetConfig.                                                              *)
(***************************************************************************)
\* A configuration in the module context is taken.
GetModuleContext(r, a) ==
  /\ req[r].pc = "new"
  /\ req' = [req EXCEPT ![r] = [pc |-> IF stored[a] # Null THEN "ensure" ELSE "populate",
                                app |-> a, conf |-> stored[a], invalid |-> FALSE]]
  /\ UNCHANGED <<site, disk, configVars, appVars, rhVars>>

\* Populate: an empty hostingModel means out of process, an unknown one is an error.
InProcess(s) == s.model = "inprocess"
Unknown(s) == s.model \notin {"", "outofprocess", "inprocess"}

\* What reading the sections makes of a new configuration.
Populated(s) == [NoConfig EXCEPT !.life = "private", !.inProcess = InProcess(s)]

\* Only an in-process configuration needs a hostfxr.  Reading may fail for other
\* reasons than an unknown model, and so may every copy.
Populate(r) ==
  LET s == site[req[r].app]
      hostfxr == IF InProcess(s) THEN GetHostFxrParameters(disk, s) ELSE Failure
  IN /\ req[r].pc = "populate"
     /\ \/ Goto(r, "failed") /\ UNCHANGED config
        \/ /\ ~Unknown(s) /\ (InProcess(s) => hostfxr.ok)
           /\ config' = [config EXCEPT ![r] = [Populated(s) EXCEPT !.hostfxr = hostfxr]]
           /\ Goto(r, "set")
     /\ UNCHANGED <<site, disk, stored, appVars, rhVars>>

KeepsItsOwn(r) == r
TakesStored(r) == Context(r)

\* ERROR_ALREADY_ASSIGNED: another request was first, its configuration is taken.
SetModuleContext(r) ==
  /\ req[r].pc = "set"
  /\ \/ /\ Context(r) = Null
        /\ stored' = [stored EXCEPT ![req[r].app] = r]
        /\ config' = [config EXCEPT ![r].life = "live"]
        /\ Goto(r, "copy")
     \/ /\ Context(r) # Null
        /\ config' = [config EXCEPT ![r].life = "deleted"]
        /\ Uses(r, TakesStored(r)) /\ UNCHANGED stored
     \/ /\ config' = [config EXCEPT ![r].life = "deleted"]
        /\ Goto(r, "failed") /\ UNCHANGED stored
  /\ UNCHANGED <<site, disk, appVars, rhVars>>

\* The path of the application is set in the configuration others can see already.
\* If that fails the configuration is deleted and stays in the module context.
CopyApplicationPath(r) ==
  /\ req[r].pc = "copy"
  /\ \/ config' = [config EXCEPT ![r].path = TRUE] /\ Uses(r, r)
     \/ config' = [config EXCEPT ![r].life = "dangling"] /\ Goto(r, "failed")
  /\ UNCHANGED <<site, disk, stored, appVars, rhVars>>

(***************************************************************************)
(* EnsureApplicationCreated.                                               *)
(***************************************************************************)
EnsureUnlocked(r) ==
  /\ req[r].pc = "ensure"
  /\ Goto(r, IF app[req[r].app] THEN "done" ELSE "lock")
  /\ UNCHANGED <<site, disk, configVars, appVars, rhVars>>

EnsureLocked(r) ==
  LET a == req[r].app
  IN /\ req[r].pc = "lock" /\ appLock[a] = Null
     /\ IF app[a] THEN Goto(r, "done") /\ UNCHANGED appLock
        ELSE Goto(r, "find") /\ appLock' = [appLock EXCEPT ![a] = r]
     /\ UNCHANGED <<site, disk, configVars, app, entry, rhVars>>

\* FindRequestHandlerAssembly looks at both flags, without the global lock first.
IsLoaded == rhLoaded

FindUnlocked(r) ==
  /\ req[r].pc = "find"
  /\ Goto(r, IF rhError THEN "fails" ELSE IF IsLoaded THEN "take" ELSE "findLock")
  /\ UNCHANGED <<site, disk, configVars, appVars, rhVars>>

RechecksNothing == "load"
ForgetsTheError == IF rhLoaded THEN "take" ELSE "load"
Recheck == IF rhError THEN "fails" ELSE IF rhLoaded THEN "take" ELSE "load"

FindLocked(r) ==
  /\ req[r].pc = "findLock" /\ rhLock = Null
  /\ rhLock' = r
  /\ Goto(r, Recheck)
  /\ UNCHANGED <<site, disk, configVars, appVars, rhModule, rhEntry, rhLoaded, rhError, loads>>

\* FindNativeAssemblyFromHostfxr, which needs a hostfxr.dll that loads and knows a
\* directory with the request handler, or the directory of the module itself.
\* Either may fail, and so may LoadLibrary.
MayLoad(r) == config[req[r].conf].inProcess => config[req[r].conf].hostfxr.at # None

LoadedWithTheModule(r) ==
  /\ req[r].pc = "load"
  /\ \/ /\ MayLoad(r) /\ rhModule' = TRUE /\ loads' = loads + 1 /\ Goto(r, "address")
        /\ rhLoaded' = TRUE
     \/ Goto(r, "fails") /\ UNCHANGED <<rhModule, rhLoaded, loads>>
  /\ UNCHANGED <<site, disk, configVars, appVars, rhLock, rhEntry, rhError>>

LoadHandler(r) ==
  /\ req[r].pc = "load"
  /\ \/ MayLoad(r) /\ rhModule' = TRUE /\ loads' = loads + 1 /\ Goto(r, "address")
     \/ Goto(r, "fails") /\ UNCHANGED <<rhModule, loads>>
  /\ UNCHANGED <<site, disk, configVars, appVars, rhLock, rhEntry, rhLoaded, rhError>>

\* The pointer is stored, or found to be NULL.  Requests that hold no lock run
\* between this and the flag.
GetProcAddress(r) ==
  /\ req[r].pc = "address"
  /\ \/ rhEntry' = TRUE /\ Goto(r, "flag")
     \/ Goto(r, "fails") /\ UNCHANGED rhEntry
  /\ UNCHANGED <<site, disk, configVars, appVars, rhLock, rhModule, rhLoaded, rhError, loads>>

\* g_fAspnetcoreRHAssemblyLoaded = TRUE, which others read without the lock.
FlagLoaded(r) ==
  /\ req[r].pc = "flag"
  /\ rhLoaded' = TRUE
  /\ Goto(r, "take")
  /\ UNCHANGED <<site, disk, configVars, appVars, rhLock, rhModule, rhEntry, rhError, loads>>

Released(lock, r) == IF lock = r THEN Null ELSE lock
ReleaseNothing(r) == UNCHANGED appLock
ReleaseApp(r) == appLock' = [appLock EXCEPT ![req[r].app] = Null]

\* The end of FindRequestHandlerAssembly: the pointer is copied, a failure is remembered.
TakeEntry(r) ==
  /\ req[r].pc = "take"
  /\ entry' = [entry EXCEPT ![req[r].app] = rhEntry]
  /\ rhLock' = Released(rhLock, r)
  /\ Goto(r, "create")
  /\ UNCHANGED <<site, disk, configVars, app, appLock, rhModule, rhEntry, rhLoaded, rhError, loads>>

FindFails(r) ==
  /\ req[r].pc = "fails"
  /\ entry' = [entry EXCEPT ![req[r].app] = rhEntry]
  /\ rhError' = TRUE
  /\ rhLock' = Released(rhLock, r)
  /\ ReleaseApp(r)
  /\ Goto(r, "failed")
  /\ UNCHANGED <<site, disk, configVars, app, rhModule, rhEntry, rhLoaded, loads>>

\* The call through the pointer, which may fail; without one it is an error.
CreateApplication(r) ==
  /\ req[r].pc = "create"
  /\ \/ entry[req[r].app] /\ app' = [app EXCEPT ![req[r].app] = TRUE] /\ Goto(r, "done")
     \/ entry[req[r].app] /\ Goto(r, "failed") /\ UNCHANGED app
     \/ /\ ~entry[req[r].app]
        /\ req' = [req EXCEPT ![r].pc = "failed", ![r].invalid = TRUE] /\ UNCHANGED app
  /\ ReleaseApp(r)
  /\ UNCHANGED <<site, disk, configVars, entry, rhVars>>

-----------------------------------------------------------------------------
Step(r) ==
  \/ Populate(r) \/ SetModuleContext(r) \/ CopyApplicationPath(r)
  \/ EnsureUnlocked(r) \/ EnsureLocked(r) \/ FindUnlocked(r) \/ FindLocked(r)
  \/ LoadHandler(r) \/ GetProcAddress(r) \/ FlagLoaded(r) \/ TakeEntry(r) \/ FindFails(r)
  \/ CreateApplication(r)

Next == \E r \in Requests : (\E a \in Apps : GetModuleContext(r, a)) \/ Step(r)

\* Threads run.
Fairness == \A r \in Requests : WF_vars(Step(r))

Spec == Init /\ [][Next]_vars /\ Fairness

(***************************************************************************)
(* Properties.                                                             *)
(***************************************************************************)
Inside == {"find", "findLock", "load", "address", "flag", "take", "fails", "create"}

\* Types; and a lock is held by a request that is inside its section, on every way
\* out of EnsureApplicationCreated and FindRequestHandlerAssembly.
TypeOK ==
  /\ stored \in [Apps -> Requests \cup {Null}]
  /\ \A r \in Requests :
       /\ config[r].life \in {"none", "private", "live", "dangling", "deleted"}
       /\ req[r].conf \in Requests \cup {Null}
  /\ app \in [Apps -> BOOLEAN] /\ entry \in [Apps -> BOOLEAN]
  /\ \A x \in {rhModule, rhEntry, rhLoaded, rhError} : x \in BOOLEAN
  /\ loads \in Nat
  /\ \A a \in Apps : appLock[a] # Null => req[appLock[a]].pc \in Inside
  /\ rhLock # Null => req[rhLock].pc \in {"load", "address", "flag", "take", "fails"}

\* Whatever the order in which requests make their configurations, all of an
\* application use the one in its module context, and nobody uses one that has
\* been deleted, unless copying the path failed (CopyApplicationPath).
ConfigIsShared ==
  \A r \in Requests : req[r].conf # Null =>
    /\ req[r].conf = Context(r)
    /\ config[req[r].conf].life \in {"live", "dangling"}

\* An in-process configuration that is stored names a hostfxr.dll that exists, and
\* of those beside dotnet the newest in the order fx_ver.h announces: no higher major,
\* minor or patch number, no release of the same number if it is a prerelease itself,
\* and then no prerelease whose label comes later as text ("This is not SemVer": as
\* text beta.2 is above beta.11).  The one exception is a missing directory host\fxr,
\* which GetAbsolutePathToHostFxr does not report: no hostfxr.dll is named then.
Newer(x, y) ==
  \/ x.num[1] > y.num[1]
  \/ x.num[1] = y.num[1] /\ x.num[2] > y.num[2]
  \/ x.num[1] = y.num[1] /\ x.num[2] = y.num[2] /\ x.num[3] > y.num[3]
  \/ x.num = y.num /\ y.pre # <<>> /\ (x.pre = <<>> \/ Before(y.pre, x.pre))

NewestIsStored ==
  \A a \in Apps : (stored[a] # Null /\ config[stored[a]].inProcess) =>
    LET hostfxr == config[stored[a]].hostfxr
    IN CASE hostfxr.at = "beside" -> "hostfxr" \in disk.files
         [] hostfxr.at = "folder" ->
              /\ hostfxr.folder \in disk.complete
              /\ \A i \in DOMAIN disk.folders :
                   Parses(disk.folders[i]) => ~Newer(disk.folders[i], hostfxr.folder)
         [] hostfxr.at = None -> ~disk.directory

\* An application with an executable of its own whose path has no space gets its dll
\* directly behind the path of the executable.  That is the C array's argv[1], and the
\* second element of the sequence here: no "exec" stands between the two, which the
\* comment on ParseHostfxrArguments announces.  A path with a space is cut, as nothing
\* quotes it for CommandLineToArgvW; of such a path nothing is claimed.
FirstArgumentIsTheDll ==
  ~disk.space =>
    \A a \in Apps : (stored[a] # Null /\ config[stored[a]].hostfxr.at = "beside") =>
      config[stored[a]].hostfxr.argv[2] = AppDll

\* The configuration that is stored starts the application with the newest runtime and,
\* where the path of the application has no space, with its dll as the first argument.
HostFxrIsRight == NewestIsStored /\ FirstArgumentIsTheDll

\* "such that only one request finds and loads it": requests of all applications
\* together load the request handler once, also after a failure.
HandlerLoadedOnce == loads <= 1

\* Whoever is told by g_fAspnetcoreRHAssemblyLoaded, without the lock, that the handler
\* is loaded finds the pointer to CreateApplication: it is stored before the flag.
EntryIsPublished == \A r \in Requests : ~req[r].invalid

\* The double-checked loading of the request handler: locks are held only inside, it is
\* loaded once, and the flag that is read without the lock can be trusted.
LoadingSafe == TypeOK /\ HandlerLoadedOnce /\ EntryIsPublished

\* "we remember the load failure so that we will not try again": once loading has
\* failed no application of the process is created any more.
FailureIsFinal == [][rhError => UNCHANGED app]_vars

\* No request is left waiting for a lock, whichever step of another one fails.
RequestsEnd == \A r \in Requests : (req[r].pc # "new") ~> (req[r].pc \in {"done", "failed"})
=============================================================================
