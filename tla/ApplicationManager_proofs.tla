---------------------- MODULE ApplicationManager_proofs ----------------------
(***************************************************************************)
(* Proofs, for any requests, configuration paths and numbers of objects,   *)
(* that nobody uses an APPLICATION_INFO or an IAPPLICATION that has been   *)
(* destroyed, that no running application is lost, that the hosting models *)
(* are not mixed, and that a configuration change recycles nothing but the *)
(* applications at and below its path.                                     *)
(*                                                                         *)
(* The invariant counts who holds each object.  A reference count is not   *)
(* the number of holders: an in-process manager that keeps the copy of its *)
(* table, a terminated watcher thread and a thread that could not be       *)
(* created leave references behind.  It is never below that number.        *)
(***************************************************************************)
EXTENDS ApplicationManager, FiniteSetTheorems, SequenceTheorems, TLAPS

InfoType ==
  [st : {"unused", "live", "dying", "dead"}, key : Keys \cup {<<>>}, model : Models,
   refs : Nat, offline : BOOLEAN, page : Nat, app : Apps \cup {None}, lock : BOOLEAN]
EntryType ==
  [refs : Int, valid : BOOLEAN, stop : BOOLEAN, dir : BOOLEAN, io : BOOLEAN,
   dirty : BOOLEAN, lock : BOOLEAN]
ApplicationType ==
  [st : {"unused", "running", "stopped", "freed"}, model : Models, refs : Nat,
   threads : Nat, stops : Nat]

\* The places of a request that has an APPLICATION_INFO.
InfoPlaces == {"init", "offline", "serve", "ensure", "lock", "make", "extract", "handler",
               "executed", "pending", "crashed"}
Places == InfoPlaces \cup {"idle", "find", "count", "create", "done", "faulted"}
RequestType ==
  [pc : Places, key : Keys \cup {<<>>}, inf : Infos \cup {None}, ap : Apps \cup {None}]

\* The places of the watcher's thread at which it has dequeued an entry.
EntryPlaces == {"handle", "update", "recycle", "release", "again", "stuck"}
WatcherType == [pc : EntryPlaces \cup {"wait", "exited", "terminated"},
                e : Infos \cup {None}]
ChangeType ==
  [pc : {"idle", "table", "paths", "faulted"}, path : ChangePaths \cup {<<>>}, todo : SUBSET Infos,
   copy : SUBSET Infos, keep : BOOLEAN]
ShutdownType ==
  [pc : {"idle", "watcher", "lock", "apps", "clear", "done"}, todo : SUBSET Infos]

Typing ==
  /\ hosting \in [Keys -> Models] /\ inShutdown \in BOOLEAN /\ recycling \in BOOLEAN
  /\ mgrLock \in {"free", "request", "shutdown"} /\ table \in SUBSET Infos
  /\ hashUp \in BOOLEAN /\ watcher \in BOOLEAN /\ hostingModel \in Models \cup {"unknown"}
  /\ rh \in {"none", "loaded", "error"}
  /\ info \in [Infos -> InfoType]
  /\ entry \in [Infos -> EntryType]
  /\ app \in [Apps -> ApplicationType]
  /\ file \in [Keys -> BOOLEAN] /\ flips \in Nat
  /\ req \in [Requests -> RequestType]
  /\ w \in WatcherType /\ c \in ChangeType /\ s \in ShutdownType

-----------------------------------------------------------------------------
(* Who holds an APPLICATION_INFO.                                          *)
One(p) == IF p THEN 1 ELSE 0
Copied == IF c.keep THEN {} ELSE c.copy
RequestsOf(i) == {r \in Requests : req[r].inf = i}
Updates(i) == w.pc \in {"recycle", "release"} /\ w.e = i

Holders(i) == One(i \in table) + One(i \in Copied) + Cardinality(RequestsOf(i))

InfoCounted == \A i \in Infos : Holders(i) + One(Updates(i)) <= info[i].refs

HeldAreLive ==
  /\ \A i \in table \cup Copied : info[i].st = "live"
  /\ \A r \in Requests : req[r].inf # None => info[req[r].inf].st = "live"

\* Objects come to be once, and the watcher knows no object before.
UsedObjects ==
  /\ \A i \in Infos : info[i].st # "unused" => info[i].key \in Keys
  /\ \A i \in Infos : info[i].st = "unused" => ~entry[i].io
  /\ w.pc \in EntryPlaces => w.e \in Infos /\ info[w.e].st # "unused"
  /\ \A i \in Infos : info[i].app # None => info[i].st \in {"live", "dying"}

-----------------------------------------------------------------------------
(* Who holds an IAPPLICATION.                                              *)
Owned(a) == \E i \in Infos : info[i].app = a
UsersOf(a) == {r \in Requests : req[r].ap = a}

AppCounted ==
  \A a \in Apps : One(Owned(a)) + app[a].threads + Cardinality(UsersOf(a)) <= app[a].refs

AppLives == \A a \in Apps : app[a].refs > 0 => app[a].st \in {"running", "stopped"}

OneOwner ==
  /\ \A i, j \in Infos : info[i].app = info[j].app /\ info[i].app # None => i = j
  /\ \A i \in Infos : info[i].app # None => app[info[i].app].model = info[i].model

\* An out-of-process application is stopped by whoever takes it from its owner.
StopsOnce ==
  \A a \in Apps :
    app[a].model = "out" => app[a].stops + app[a].threads + One(Owned(a)) <= 1

RunningIsKnown ==
  \A a \in Apps : app[a].st = "running" => Owned(a) \/ app[a].threads > 0 \/ recycling

-----------------------------------------------------------------------------
(* Where the threads are.                                                  *)
RequestPlaces ==
  \A r \in Requests :
    /\ req[r].pc # "idle" => req[r].key \in Keys
    /\ req[r].pc \in InfoPlaces => req[r].inf \in Infos
    /\ req[r].pc = "executed" => req[r].ap \in Apps

\* One request creates the application of an APPLICATION_INFO, under its lock.
Making ==
  /\ \A r \in Requests :
       req[r].pc = "make" => info[req[r].inf].lock /\ info[req[r].inf].app = None
  /\ \A r, q \in Requests :
       req[r].pc = "make" /\ req[q].pc = "make" /\ req[r].inf = req[q].inf => r = q

\* One request initializes an APPLICATION_INFO, which nobody knows yet, under the lock
\* of the manager.
Initializing ==
  /\ \A r \in Requests : req[r].pc = "init" =>
       /\ mgrLock = "request"
       /\ req[r].inf \notin table
       /\ hostingModel \in {"unknown", hosting[req[r].key]}
       /\ info[req[r].inf].model = hosting[req[r].key]
  /\ \A r, q \in Requests : req[r].pc = "init" /\ req[q].inf = req[r].inf => r = q
  /\ \A r, q \in Requests : req[r].pc = "init" /\ req[q].pc = "init" => r = q

PagesLoaded ==
  /\ \A i \in Infos : info[i].offline => info[i].page > 0
  /\ \A k \in Keys : file[k] => flips > 0
  /\ OfflinePageIsLoaded

Changing ==
  /\ c.pc # "idle" => c.path \in ChangePaths
  /\ c.pc # "paths" => c.copy = {} /\ ~c.keep
  /\ c.keep /\ s.pc \notin {"clear", "done"} => c.copy \subseteq table
  /\ s.pc \in {"apps", "clear"} => mgrLock = "shutdown"

ManagerInv ==
  /\ Typing
  /\ InfoCounted /\ HeldAreLive /\ UsedObjects
  /\ AppCounted /\ AppLives /\ OneOwner /\ StopsOnce /\ RunningIsKnown
  /\ RequestPlaces /\ Making /\ Initializing /\ OneHostingModel /\ PagesLoaded /\ Changing
-----------------------------------------------------------------------------
(* Counting requests.                                                      *)
LEMMA Numbers ==
  ASSUME NEW P, P \subseteq Requests
  PROVE  IsFiniteSet(P) /\ Cardinality(P) \in Nat
  BY FiniteRequests, FS_Subset, FS_CardinalityType

LEMMA Leaves ==
  ASSUME NEW P, P \subseteq Requests, NEW r \in P
  PROVE  Cardinality(P \ {r}) = Cardinality(P) - 1 /\ Cardinality(P) >= 1
<1>1. Cardinality(P \ {r}) = Cardinality(P) - 1
  BY Numbers, FS_RemoveElement
<1>2. Cardinality(P \ {r}) \in Nat /\ Cardinality(P) \in Nat
  BY Numbers
<1> QED BY <1>1, <1>2

(* One of the requests changes what it holds from x to y.                  *)
LEMMA OneChanges ==
  ASSUME NEW r \in Requests, NEW P, P \subseteq Requests, NEW Q, Q \subseteq Requests,
         \A q \in Requests \ {r} : q \in P <=> q \in Q
  PROVE  Cardinality(Q) = Cardinality(P) - One(r \in P) + One(r \in Q)
<1>1. Cardinality(P) \in Nat /\ Cardinality(Q) \in Nat
  BY Numbers
<1>2. CASE (r \in P) = (r \in Q)
  <2>1. P = Q
    BY <1>2
  <2> QED BY <1>1, <1>2, <2>1 DEF One
<1>3. CASE r \in P /\ r \notin Q
  <2>1. Q = P \ {r}
    BY <1>3
  <2> QED BY <1>1, <1>3, <2>1, Leaves DEF One
<1>4. CASE r \notin P /\ r \in Q
  <2>1. P = Q \ {r}
    BY <1>4
  <2> QED BY <1>1, <1>4, <2>1, Leaves DEF One
<1> QED BY <1>2, <1>3, <1>4

\* Only r moves.
Only(r) ==
  /\ req' \in [Requests -> RequestType]
  /\ \A q \in Requests \ {r} : req'[q] = req[q]

InfosRecounted(r) ==
  \A i : /\ Cardinality(RequestsOf(i)') = Cardinality(RequestsOf(i))
                                      - One(req[r].inf = i) + One(req'[r].inf = i)
         /\ Cardinality(RequestsOf(i)) \in Nat /\ Cardinality(RequestsOf(i)') \in Nat
AppsRecounted(r) ==
  \A a : /\ Cardinality(UsersOf(a)') = Cardinality(UsersOf(a))
                                   - One(req[r].ap = a) + One(req'[r].ap = a)
         /\ Cardinality(UsersOf(a)) \in Nat /\ Cardinality(UsersOf(a)') \in Nat

LEMMA Recounted ==
  ASSUME NEW r \in Requests, Only(r)
  PROVE  InfosRecounted(r) /\ AppsRecounted(r)
<1>1. ASSUME NEW i
      PROVE  /\ Cardinality(RequestsOf(i)') = Cardinality(RequestsOf(i))
                                            - One(req[r].inf = i) + One(req'[r].inf = i)
             /\ Cardinality(RequestsOf(i)) \in Nat /\ Cardinality(RequestsOf(i)') \in Nat
  <2> DEFINE P == RequestsOf(i)
             Q == RequestsOf(i)'
  <2>1. P \subseteq Requests /\ Q \subseteq Requests
    BY DEF RequestsOf
  <2>2. \A q \in Requests \ {r} : q \in P <=> q \in Q
    BY DEF Only, RequestsOf
  <2>3. (r \in P <=> req[r].inf = i) /\ (r \in Q <=> req'[r].inf = i)
    BY DEF RequestsOf
  <2>4. Cardinality(P) \in Nat /\ Cardinality(Q) \in Nat
    BY <2>1, Numbers
  <2> HIDE DEF P, Q
  <2>5. Cardinality(Q) = Cardinality(P) - One(r \in P) + One(r \in Q)
    BY <2>1, <2>2, OneChanges
  <2>6. One(r \in P) = One(req[r].inf = i) /\ One(r \in Q) = One(req'[r].inf = i)
    BY <2>3 DEF One
  <2> QED BY <2>4, <2>5, <2>6 DEF P, Q
<1>2. ASSUME NEW a
      PROVE  /\ Cardinality(UsersOf(a)') = Cardinality(UsersOf(a))
                                         - One(req[r].ap = a) + One(req'[r].ap = a)
             /\ Cardinality(UsersOf(a)) \in Nat /\ Cardinality(UsersOf(a)') \in Nat
  <2> DEFINE P == UsersOf(a)
             Q == UsersOf(a)'
  <2>1. P \subseteq Requests /\ Q \subseteq Requests
    BY DEF UsersOf
  <2>2. \A q \in Requests \ {r} : q \in P <=> q \in Q
    BY DEF Only, UsersOf
  <2>3. (r \in P <=> req[r].ap = a) /\ (r \in Q <=> req'[r].ap = a)
    BY DEF UsersOf
  <2>4. Cardinality(P) \in Nat /\ Cardinality(Q) \in Nat
    BY <2>1, Numbers
  <2> HIDE DEF P, Q
  <2>5. Cardinality(Q) = Cardinality(P) - One(r \in P) + One(r \in Q)
    BY <2>1, <2>2, OneChanges
  <2>6. One(r \in P) = One(req[r].ap = a) /\ One(r \in Q) = One(req'[r].ap = a)
    BY <2>3 DEF One
  <2> QED BY <2>4, <2>5, <2>6 DEF P, Q
<1> QED BY <1>1, <1>2 DEF InfosRecounted, AppsRecounted

(* Nobody counts differently when the requests do not move.                *)
LEMMA SameCounts ==
  ASSUME UNCHANGED req
  PROVE  /\ \A i : RequestsOf(i)' = RequestsOf(i) /\ Cardinality(RequestsOf(i)) \in Nat
         /\ \A a : UsersOf(a)' = UsersOf(a) /\ Cardinality(UsersOf(a)) \in Nat
<1>1. \A i : RequestsOf(i)' = RequestsOf(i) /\ RequestsOf(i) \subseteq Requests
  BY DEF RequestsOf
<1>2. \A a : UsersOf(a)' = UsersOf(a) /\ UsersOf(a) \subseteq Requests
  BY DEF UsersOf
<1> QED BY <1>1, <1>2, Numbers

LEMMA NoneIsNothing == None \notin Infos /\ None \notin Apps
  BY BoundsAssumption DEF None, Infos, Apps

-----------------------------------------------------------------------------
(* A request that goes on with what it has.                                *)
Goes(r, pc) ==
  /\ Only(r)
  /\ req'[r].pc = pc /\ req'[r].key = req[r].key
  /\ req'[r].inf = req[r].inf /\ req'[r].ap = req[r].ap

LEMMA GotoGoes ==
  ASSUME Typing, NEW r \in Requests, NEW pc \in Places, Goto(r, pc)
  PROVE  Goes(r, pc)
  BY DEF Typing, RequestType, Goto, Goes, Only

LEMMA GoesOn ==
  ASSUME ManagerInv, NEW r \in Requests, NEW pc \in Places \ {"init", "make"}, Goes(r, pc),
         pc # "idle" => req[r].key \in Keys,
         pc \in InfoPlaces => req[r].inf \in Infos,
         pc = "executed" => req[r].ap \in Apps,
         pc = "serve" => info[req[r].inf].page > 0,
         rh' \in {"none", "loaded", "error"},
         UNCHANGED <<hosting, inShutdown, recycling, mvars, watcher, info, entry, app, file,
                     w, c, s, bounds>>
  PROVE  ManagerInv'
<1> USE DEF mvars, bounds
<1>1. InfosRecounted(r) /\ AppsRecounted(r)
  BY Recounted DEF Goes
<1>2. Typing'
  BY DEF ManagerInv, Typing, Goes, Only
<1>3. InfoCounted'
  <2>1. \A i : Cardinality(RequestsOf(i)') = Cardinality(RequestsOf(i))
    BY <1>1 DEF InfosRecounted, One, Goes
  <2> QED BY <2>1 DEF ManagerInv, InfoCounted, Holders, Copied, Updates
<1>4. AppCounted'
  <2>1. \A a : Cardinality(UsersOf(a)') = Cardinality(UsersOf(a))
    BY <1>1 DEF AppsRecounted, One, Goes
  <2> QED BY <2>1 DEF ManagerInv, AppCounted, Owned
<1>5. HeldAreLive'
  BY DEF ManagerInv, HeldAreLive, Goes, Only, Copied
<1>6. RequestPlaces'
  BY DEF ManagerInv, RequestPlaces, Goes, Only
<1>7. Making'
  BY DEF ManagerInv, Making, Goes, Only
<1>8. Initializing'
  BY DEF ManagerInv, Initializing, Goes, Only
<1>9. PagesLoaded'
  BY DEF ManagerInv, PagesLoaded, OfflinePageIsLoaded, Goes, Only
<1>10. UsedObjects' /\ OneHostingModel' /\ Changing'
  BY DEF ManagerInv, UsedObjects, OneHostingModel, Changing
<1>11. AppLives' /\ OneOwner' /\ StopsOnce' /\ RunningIsKnown'
  BY DEF ManagerInv, AppLives, OneOwner, StopsOnce, RunningIsKnown, Owned
<1> QED BY <1>2, <1>3, <1>4, <1>5, <1>6, <1>7, <1>8, <1>9, <1>10, <1>11
  DEF ManagerInv

-----------------------------------------------------------------------------
(* What the parts of the invariant need to stay.                           *)
SameData ==
  \A i \in Infos :
    /\ info'[i].key = info[i].key /\ info'[i].model = info[i].model
    /\ info'[i].offline = info[i].offline /\ info'[i].page = info[i].page
    /\ info'[i].app = info[i].app /\ info'[i].lock = info[i].lock

AppInv == AppCounted /\ AppLives /\ OneOwner /\ StopsOnce /\ RunningIsKnown

(* Applications stay what they are while owners and users stay.            *)
LEMMA AppsKept ==
  ASSUME ManagerInv, \A i \in Infos : info'[i].app = info[i].app,
         \A i \in Infos : info[i].app # None => info'[i].model = info[i].model,
         \A q \in Requests : req'[q].ap = req[q].ap, app' = app, recycling => recycling'
  PROVE  AppInv'
<1>1. \A a : Owned(a)' = Owned(a)
  BY DEF Owned
<1>2. \A a : UsersOf(a)' = UsersOf(a)
  BY DEF UsersOf
<1>3. AppCounted' /\ AppLives' /\ RunningIsKnown'
  BY <1>1, <1>2 DEF ManagerInv, AppCounted, AppLives, RunningIsKnown
<1>4. OneOwner'
  BY DEF ManagerInv, OneOwner
<1>5. StopsOnce'
  BY <1>1 DEF ManagerInv, StopsOnce
<1> QED BY <1>3, <1>4, <1>5 DEF AppInv

(* So do the places of the requests that do not move.                      *)
LEMMA PlacesKept ==
  ASSUME ManagerInv, UNCHANGED <<req, hosting, file, flips>>,
         \A i \in Infos :
           /\ info'[i].app \in {info[i].app, None} /\ info'[i].lock = info[i].lock
           /\ info'[i].offline = info[i].offline /\ info'[i].page = info[i].page
  PROVE  RequestPlaces' /\ Making' /\ PagesLoaded'
<1>1. RequestPlaces'
  BY DEF ManagerInv, RequestPlaces
<1>2. \A r \in Requests : req[r].pc \in InfoPlaces => req[r].inf \in Infos
  BY DEF ManagerInv, RequestPlaces
<1>3. Making'
  BY <1>2 DEF ManagerInv, Making, InfoPlaces
<1>4. PagesLoaded'
  BY <1>2 DEF ManagerInv, PagesLoaded, OfflinePageIsLoaded, InfoPlaces
<1> QED BY <1>1, <1>3, <1>4

LEMMA InitKept ==
  ASSUME ManagerInv, UNCHANGED <<req, hosting, mgrLock, table, hostingModel>>,
         \A i \in Infos : info'[i].model = info[i].model
  PROVE  Initializing' /\ OneHostingModel'
<1>1. \A r \in Requests : req[r].pc = "init" => req[r].inf \in Infos
  BY DEF ManagerInv, RequestPlaces, InfoPlaces
<1>2. table \subseteq Infos
  BY DEF ManagerInv, Typing
<1> QED BY <1>1, <1>2 DEF ManagerInv, Initializing, OneHostingModel

(* Nobody initializes anything while the manager's lock is somebody else's. *)
LEMMA InitFree ==
  ASSUME ManagerInv, UNCHANGED req, mgrLock # "request"
  PROVE  Initializing'
  BY DEF ManagerInv, Initializing

(* A request that moves on among those with an APPLICATION_INFO, or away.   *)
LEMMA PlacesMove ==
  ASSUME ManagerInv, NEW r \in Requests, Only(r), UNCHANGED <<hosting, file, flips>>,
         req'[r].pc \notin {"init", "make", "serve", "idle", "executed"},
         req'[r].key \in Keys, req'[r].pc \in InfoPlaces => req'[r].inf \in Infos,
         \A i \in Infos :
           /\ info'[i].app = info[i].app /\ info'[i].lock = info[i].lock
           /\ info'[i].offline = info[i].offline /\ info'[i].page = info[i].page
  PROVE  RequestPlaces' /\ Making' /\ PagesLoaded'
<1>1. RequestPlaces'
  BY DEF ManagerInv, RequestPlaces, Only
<1>2. \A q \in Requests : req[q].pc \in InfoPlaces => req[q].inf \in Infos
  BY DEF ManagerInv, RequestPlaces
<1>3. Making'
  BY <1>2 DEF ManagerInv, Making, InfoPlaces, Only
<1>4. PagesLoaded'
  BY <1>2 DEF ManagerInv, PagesLoaded, OfflinePageIsLoaded, InfoPlaces, Only
<1> QED BY <1>1, <1>3, <1>4

LEMMA InitMove ==
  ASSUME ManagerInv, NEW r \in Requests, Only(r), req'[r].pc # "init",
         UNCHANGED <<hosting, mgrLock, table, hostingModel>>,
         req'[r].inf \in table \cup {None, req[r].inf},
         \A i \in Infos : info'[i].model = info[i].model
  PROVE  Initializing' /\ OneHostingModel'
<1>1. \A q \in Requests : req[q].pc = "init" => req[q].inf \in Infos
  BY DEF ManagerInv, RequestPlaces, InfoPlaces
<1>2. table \subseteq Infos
  BY DEF ManagerInv, Typing
<1>3. OneHostingModel'
  BY <1>2 DEF ManagerInv, OneHostingModel
<1>4. \A q \in Requests : req[q].pc = "init" => req'[r].inf # req[q].inf \/ q = r
  BY <1>1, NoneIsNothing DEF ManagerInv, Initializing
<1>5. Initializing'
  BY <1>1, <1>4 DEF ManagerInv, Initializing, Only
<1> QED BY <1>3, <1>5

-----------------------------------------------------------------------------
(* References to an APPLICATION_INFO.                                      *)
LEMMA Takes ==
  ASSUME Typing, NEW S \in SUBSET Infos, info' = Take(info, S)
  PROVE  /\ info' \in [Infos -> InfoType] /\ SameData
         /\ \A i \in Infos : info'[i].refs = info[i].refs + One(i \in S)
                             /\ info'[i].st = info[i].st
<1>1. \A i \in Infos : info[i] \in InfoType
  BY DEF Typing
<1>2. ASSUME NEW i \in Infos
      PROVE  /\ info'[i] \in InfoType
             /\ info'[i].key = info[i].key /\ info'[i].model = info[i].model
             /\ info'[i].offline = info[i].offline /\ info'[i].page = info[i].page
             /\ info'[i].app = info[i].app /\ info'[i].lock = info[i].lock
             /\ info'[i].refs = info[i].refs + One(i \in S) /\ info'[i].st = info[i].st
  <2>1. info'[i] = IF i \in S THEN [info[i] EXCEPT !.refs = @ + 1] ELSE info[i]
    BY DEF Take
  <2> QED BY <1>1, <2>1 DEF InfoType, One
<1>3. info' = [i \in Infos |-> info'[i]]
  BY DEF Take
<1> QED BY <1>2, <1>3 DEF SameData

LEMMA DropsFrom ==
  ASSUME NEW f \in [Infos -> InfoType], NEW S \in SUBSET Infos,
         \A i \in S : f[i].refs >= 1
  PROVE  /\ Drop(f, S) \in [Infos -> InfoType]
         /\ \A i \in Infos :
              /\ Drop(f, S)[i].key = f[i].key /\ Drop(f, S)[i].model = f[i].model
              /\ Drop(f, S)[i].offline = f[i].offline /\ Drop(f, S)[i].page = f[i].page
              /\ Drop(f, S)[i].app = f[i].app /\ Drop(f, S)[i].lock = f[i].lock
              /\ Drop(f, S)[i].refs = f[i].refs - One(i \in S)
              /\ Drop(f, S)[i].st =
                   IF i \in S /\ f[i].refs = 1 THEN "dying" ELSE f[i].st
<1> DEFINE g == Drop(f, S)
<1>1. ASSUME NEW i \in Infos
      PROVE  /\ g[i] \in InfoType
             /\ g[i].key = f[i].key /\ g[i].model = f[i].model
             /\ g[i].offline = f[i].offline /\ g[i].page = f[i].page
             /\ g[i].app = f[i].app /\ g[i].lock = f[i].lock
             /\ g[i].refs = f[i].refs - One(i \in S)
             /\ g[i].st = IF i \in S /\ f[i].refs = 1 THEN "dying" ELSE f[i].st
  <2>1. g[i] = IF i \in S
               THEN [f[i] EXCEPT !.refs = @ - 1,
                                 !.st = IF f[i].refs = 1 THEN "dying" ELSE @]
               ELSE f[i]
    BY DEF Drop
  <2>2. f[i] \in InfoType
    OBVIOUS
  <2>3. CASE i \in S
    <3>1. f[i].refs - 1 \in Nat
      BY <2>2, <2>3 DEF InfoType
    <3> QED BY <2>1, <2>2, <2>3, <3>1 DEF InfoType, One
  <2>4. CASE i \notin S
    BY <2>1, <2>2, <2>4 DEF InfoType, One
  <2> QED BY <2>3, <2>4
<1>2. g = [i \in Infos |-> g[i]]
  BY DEF Drop
<1> HIDE DEF g
<1>3. g \in [Infos -> InfoType]
  BY <1>1, <1>2
<1> QED BY <1>1, <1>3 DEF g

LEMMA Drops ==
  ASSUME Typing, NEW S \in SUBSET Infos, \A i \in S : info[i].refs >= 1,
         info' = Drop(info, S)
  PROVE  /\ info' \in [Infos -> InfoType] /\ SameData
         /\ \A i \in Infos : /\ info'[i].refs = info[i].refs - One(i \in S)
                             /\ info'[i].st = IF i \in S /\ info[i].refs = 1 THEN "dying"
                                              ELSE info[i].st
  BY DropsFrom DEF Typing, SameData

LEMMA Marks ==
  ASSUME Typing, NEW f, NEW S
  PROVE  /\ Marked(entry, f, S) \in [Infos -> EntryType]
         /\ \A i \in Infos : Marked(entry, f, S)[i].io = entry[i].io
<1>1. \A i \in Infos : entry[i] \in EntryType
  BY DEF Typing
<1>2. ASSUME NEW i \in Infos
      PROVE  Marked(entry, f, S)[i] \in EntryType /\ Marked(entry, f, S)[i].io = entry[i].io
  <2>1. Marked(entry, f, S)[i] \in {entry[i], [entry[i] EXCEPT !.valid = FALSE, !.stop = TRUE]}
    BY DEF Marked
  <2> QED BY <1>1, <2>1 DEF EntryType
<1>3. Marked(entry, f, S) = [i \in Infos |-> Marked(entry, f, S)[i]]
  BY DEF Marked
<1> QED BY <1>2, <1>3

-----------------------------------------------------------------------------
(* What is held is alive: the same with the number of holders.             *)
Holds == \A i \in Infos : Holders(i) # 0 => info[i].st = "live"

LEMMA HoldersNumber ==
  \A i : /\ Holders(i) \in Nat
         /\ i \in table \cup Copied => Holders(i) # 0
         /\ \A r \in Requests : req[r].inf = i => Holders(i) # 0
         /\ Holders(i) # 0 => i \in table \cup Copied \/ \E r \in Requests : req[r].inf = i
<1> TAKE i
<1>1. RequestsOf(i) \subseteq Requests
  BY DEF RequestsOf
<1>2. Cardinality(RequestsOf(i)) \in Nat /\ IsFiniteSet(RequestsOf(i))
  BY <1>1, Numbers
<1>3. Cardinality(RequestsOf(i)) = 0 <=> RequestsOf(i) = {}
  BY <1>2, FS_EmptySet
<1>4. RequestsOf(i) = {} <=> ~ \E r \in Requests : req[r].inf = i
  BY DEF RequestsOf
<1>5. /\ Holders(i) = One(i \in table) + One(i \in Copied) + Cardinality(RequestsOf(i))
      /\ One(i \in table) = IF i \in table THEN 1 ELSE 0
      /\ One(i \in Copied) = IF i \in Copied THEN 1 ELSE 0
  BY DEF Holders, One
<1>6. /\ Holders(i) \in Nat
      /\ Holders(i) = 0 <=> /\ i \notin table /\ i \notin Copied
                            /\ Cardinality(RequestsOf(i)) = 0
  BY <1>2, <1>5
<1> QED BY <1>3, <1>4, <1>6

LEMMA HeldHolds == Typing => (HeldAreLive <=> Holds)
<1> SUFFICES ASSUME Typing PROVE HeldAreLive <=> Holds
  OBVIOUS
<1>1. table \subseteq Infos /\ Copied \subseteq Infos
  BY DEF Typing, ChangeType, Copied
<1>2. \A r \in Requests : req[r].inf \in Infos \cup {None}
  BY DEF Typing, RequestType
<1>3. ASSUME HeldAreLive PROVE Holds
  <2> SUFFICES ASSUME NEW i \in Infos, Holders(i) # 0 PROVE info[i].st = "live"
    BY DEF Holds
  <2>1. i \in table \cup Copied \/ \E r \in Requests : req[r].inf = i
    BY HoldersNumber
  <2> QED BY <1>3, <2>1, NoneIsNothing DEF HeldAreLive
<1>4. ASSUME Holds PROVE HeldAreLive
  BY <1>1, <1>2, <1>4, HoldersNumber DEF HeldAreLive, Holds
<1> QED BY <1>3, <1>4

LEMMA HeldHoldsNext == Typing' => (HeldAreLive' <=> Holds')
  BY HeldHolds, PTL

LEMMA RefsNumber ==
  Typing => \A i \in Infos : info[i].refs \in Nat /\ One(Updates(i)) \in Nat
  BY DEF Typing, InfoType, One

LEMMA HoldersNumberNext == \A i : Holders(i)' \in Nat
<1>1. ASSUME NEW i PROVE Holders(i)' \in Nat
  <2>1. Holders(i)' = One(i \in table') + One(i \in Copied') + Cardinality(RequestsOf(i)')
    BY DEF Holders
  <2>2. RequestsOf(i)' \subseteq Requests
    BY DEF RequestsOf
  <2>3. Cardinality(RequestsOf(i)') \in Nat
    BY <2>2, Numbers
  <2> QED BY <2>1, <2>3 DEF One
<1> QED BY <1>1

(* References come with their holders and go with them.                    *)
LEMMA InfoSide ==
  ASSUME ManagerInv, Typing',
         \A i \in Infos :
           Holders(i)' + One(Updates(i)') + info[i].refs
             <= Holders(i) + One(Updates(i)) + info'[i].refs,
         \A i \in Infos :
           \/ info'[i].st = info[i].st
           \/ info'[i].st = "dying" /\ info'[i].refs = 0 /\ info[i].st # "unused"
           \/ info[i].st = "dying" /\ info'[i].st = "dead" /\ info'[i].app = None,
         \A i \in Infos : Holders(i)' # 0 => Holders(i) # 0,
         \A i \in Infos : info'[i].key = info[i].key,
         \A i \in Infos : info'[i].app \in {info[i].app, None} \/ info'[i].st = "live",
         \A i \in Infos : entry'[i].io => entry[i].io,
         w'.pc \in EntryPlaces => w'.e = w.e /\ w.pc \in EntryPlaces
  PROVE  InfoCounted' /\ HeldAreLive' /\ UsedObjects'
<1>1. \A i \in Infos : /\ Holders(i) \in Nat /\ Holders(i)' \in Nat
                       /\ One(Updates(i)) \in Nat /\ One(Updates(i)') \in Nat
                       /\ info[i].refs \in Nat /\ info'[i].refs \in Nat
  BY HoldersNumber, HoldersNumberNext DEF One, Typing, InfoType, ManagerInv
<1>2. \A i \in Infos : Holders(i) + One(Updates(i)) <= info[i].refs
  BY DEF ManagerInv, InfoCounted
<1>3. \A i \in Infos : Holders(i)' + One(Updates(i)') <= info'[i].refs
  BY <1>1, <1>2
<1>4. InfoCounted'
  BY <1>3 DEF InfoCounted
<1>5. Holds
  BY HeldHolds DEF ManagerInv
<1>6. \A i \in Infos : Holders(i)' # 0 => info'[i].st = "live"
  BY <1>1, <1>3, <1>5 DEF Holds
<1>7. HeldAreLive'
  BY <1>6, HeldHoldsNext DEF Holds
<1>8. UsedObjects'
  <2>1. \A i \in Infos : info'[i].st # "unused" => info'[i].key \in Keys
    BY DEF ManagerInv, UsedObjects
  <2>2. \A i \in Infos : info'[i].st = "unused" => ~entry'[i].io
    BY DEF ManagerInv, UsedObjects
  <2>3. w'.pc \in EntryPlaces => w'.e \in Infos /\ info'[w'.e].st # "unused"
    BY DEF ManagerInv, UsedObjects
  <2>4. \A i \in Infos : info'[i].app # None => info'[i].st \in {"live", "dying"}
    BY DEF ManagerInv, UsedObjects
  <2> QED BY <2>1, <2>2, <2>3, <2>4 DEF UsedObjects
<1> QED BY <1>4, <1>7, <1>8

-----------------------------------------------------------------------------
LEMMA EndStep ==
  ASSUME ManagerInv, NEW r \in Requests, EndRequest(r)
  PROVE  ManagerInv'
<1> DEFINE x == req[r].inf
<1>1. /\ req[r].pc = "pending" /\ info' = Drop(info, {x}) /\ entry' = Marked(entry, info, {x})
      /\ req' = [req EXCEPT ![r].inf = None, ![r].pc = "done"]
      /\ UNCHANGED <<hosting, inShutdown, recycling, mvars, watcher, rh, app, file, w, c, s, bounds>>
  BY DEF EndRequest
<1>2. x \in Infos /\ req[r].key \in Keys
  BY <1>1 DEF ManagerInv, RequestPlaces, InfoPlaces
<1>3. /\ Only(r) /\ req'[r].pc = "done" /\ req'[r].inf = None
      /\ req'[r].key = req[r].key /\ req'[r].ap = req[r].ap
  BY <1>1 DEF ManagerInv, Typing, RequestType, Only, Places, InfoPlaces
<1>4. Holders(x) # 0 /\ info[x].st = "live"
  BY <1>2, HoldersNumber, NoneIsNothing DEF ManagerInv, HeldAreLive
<1>5. info[x].refs >= 1
  <2>1. Holders(x) + One(Updates(x)) <= info[x].refs /\ info[x].refs \in Nat
    BY <1>2 DEF ManagerInv, InfoCounted, Typing, InfoType
  <2> QED BY <1>4, <2>1, HoldersNumber DEF One
<1>6. /\ info' \in [Infos -> InfoType] /\ SameData
      /\ \A i \in Infos : /\ info'[i].refs = info[i].refs - One(i \in {x})
                          /\ info'[i].st = IF i \in {x} /\ info[i].refs = 1 THEN "dying"
                                           ELSE info[i].st
  <2> HIDE DEF x
  <2>1. {x} \in SUBSET Infos /\ \A i \in {x} : info[i].refs >= 1
    BY <1>2, <1>5
  <2> QED BY <1>1, <2>1, Drops DEF ManagerInv
<1>7. entry' \in [Infos -> EntryType] /\ \A i \in Infos : entry'[i].io = entry[i].io
  BY <1>1, Marks DEF ManagerInv
<1>8. Typing'
  BY <1>1, <1>3, <1>6, <1>7 DEF ManagerInv, Typing, mvars, bounds, Only
<1>9. \A i \in Infos : Holders(i)' = Holders(i) - One(i \in {x}) /\ Holders(i)' \in Nat
  <2>1. InfosRecounted(r)
    BY <1>3, Recounted
  <2>2. \A i \in Infos : Cardinality(RequestsOf(i)')
                         = Cardinality(RequestsOf(i)) - One(x = i) + One(None = i)
                         /\ Cardinality(RequestsOf(i)) \in Nat
    BY <1>3, <2>1 DEF InfosRecounted
  <2>3. \A i \in Infos : One(None = i) = 0 /\ One(x = i) = One(i \in {x}) /\ One(x = i) \in Nat
    BY NoneIsNothing DEF One
  <2>4. table' = table /\ Copied' = Copied
    BY <1>1 DEF mvars, Copied
  <2> QED BY <2>2, <2>3, <2>4, HoldersNumberNext DEF Holders, One
<1>10. \A i \in Infos : Updates(i)' = Updates(i)
  BY <1>1 DEF Updates
<1>11. InfoCounted' /\ HeldAreLive' /\ UsedObjects'
  <2>1. \A i \in Infos : Holders(i)' + One(Updates(i)') + info[i].refs
                         <= Holders(i) + One(Updates(i)) + info'[i].refs
    <3>1. \A i \in Infos : /\ info[i].refs \in Nat /\ One(Updates(i)) \in Nat
                           /\ Holders(i) \in Nat /\ One(i \in {x}) \in Nat
      BY RefsNumber, HoldersNumber DEF ManagerInv, One
    <3>2. \A i \in Infos : One(Updates(i)') = One(Updates(i))
      BY <1>10
    <3> HIDE DEF x
    <3> QED BY <1>6, <1>9, <3>1, <3>2
  <2>2. \A i \in Infos : \/ info'[i].st = info[i].st
                         \/ /\ info'[i].st = "dying" /\ info'[i].refs = 0
                            /\ info[i].st # "unused"
    BY <1>4, <1>6 DEF One
  <2>3. \A i \in Infos : Holders(i)' # 0 => Holders(i) # 0
    BY <1>9, HoldersNumber DEF One
  <2>4. \A i \in Infos : info'[i].key = info[i].key /\ info'[i].app \in {info[i].app, None}
    BY <1>6 DEF SameData
  <2> QED BY <1>1, <1>7, <1>8, <2>1, <2>2, <2>3, <2>4, InfoSide
<1>12. AppInv'
  BY <1>1, <1>3, <1>6, AppsKept DEF SameData, Only
<1>13. RequestPlaces' /\ Making' /\ PagesLoaded'
  BY <1>1, <1>2, <1>3, <1>6, PlacesMove DEF SameData, InfoPlaces, bounds
<1>14. Initializing' /\ OneHostingModel'
  BY <1>1, <1>3, <1>6, InitMove DEF SameData, mvars
<1>15. Changing'
  BY <1>1 DEF ManagerInv, Changing, mvars
<1> QED BY <1>8, <1>11, <1>12, <1>13, <1>14, <1>15 DEF ManagerInv, AppInv

-----------------------------------------------------------------------------
(* GetOrCreateApplicationInfo: a reference to the record that is found.    *)
LEMMA TakesFound ==
  ASSUME ManagerInv, NEW r \in Requests, NEW S \in SUBSET table, info' = Take(info, S),
         Only(r), req'[r].pc \notin {"init", "make", "serve", "idle", "executed"},
         req'[r].key \in Keys, req'[r].pc \in InfoPlaces => req'[r].inf \in Infos,
         req'[r].inf \in S \cup {None}, req'[r].ap = req[r].ap,
         UNCHANGED <<hosting, inShutdown, recycling, mvars, watcher, rh, entry, app, file,
                     w, c, s, bounds>>
  PROVE  ManagerInv'
<1>1. S \in SUBSET Infos
  BY DEF ManagerInv, Typing
<1>2. /\ info' \in [Infos -> InfoType] /\ SameData
      /\ \A i \in Infos : info'[i].refs = info[i].refs + One(i \in S)
                          /\ info'[i].st = info[i].st
  BY <1>1, Takes DEF ManagerInv
<1>3. Typing'
  BY <1>2 DEF ManagerInv, Typing, mvars, bounds, Only
<1>4. \A i \in Infos : Holders(i)' <= Holders(i) + One(i \in S)
  <2>1. InfosRecounted(r)
    BY Recounted
  <2>2. \A i \in Infos : One(req'[r].inf = i) <= One(i \in S)
    BY NoneIsNothing DEF One
  <2>3. table' = table /\ Copied' = Copied
    BY DEF mvars, Copied
  <2>4. ASSUME NEW i \in Infos PROVE Holders(i)' <= Holders(i) + One(i \in S)
    <3>1. /\ Holders(i)' = One(i \in table) + One(i \in Copied) + Cardinality(RequestsOf(i)')
          /\ Holders(i) = One(i \in table) + One(i \in Copied) + Cardinality(RequestsOf(i))
      BY <2>3 DEF Holders
    <3>2. /\ Cardinality(RequestsOf(i)') = Cardinality(RequestsOf(i))
                                         - One(req[r].inf = i) + One(req'[r].inf = i)
          /\ Cardinality(RequestsOf(i)) \in Nat /\ Cardinality(RequestsOf(i)') \in Nat
      BY <2>1 DEF InfosRecounted
    <3>3. /\ One(i \in table) \in Nat /\ One(i \in Copied) \in Nat /\ One(i \in S) \in Nat
          /\ One(req[r].inf = i) \in Nat /\ One(req'[r].inf = i) \in Nat
      BY DEF One
    <3> QED BY <2>2, <3>1, <3>2, <3>3
  <2> QED BY <2>4
<1>5. InfoCounted' /\ HeldAreLive' /\ UsedObjects'
  <2>1. \A i \in Infos : /\ info[i].refs \in Nat /\ One(Updates(i)) \in Nat
                         /\ Holders(i) \in Nat /\ Holders(i)' \in Nat
                         /\ One(i \in S) \in Nat /\ One(Updates(i)') = One(Updates(i))
    <3>1. \A i \in Infos : Updates(i)' = Updates(i)
      BY DEF Updates
    <3> QED BY <3>1, RefsNumber, HoldersNumber, HoldersNumberNext DEF ManagerInv, One
  <2>2. \A i \in Infos : Holders(i)' + One(Updates(i)') + info[i].refs
                         <= Holders(i) + One(Updates(i)) + info'[i].refs
    BY <1>2, <1>4, <2>1
  <2>3. \A i \in Infos : info'[i].st = info[i].st
    BY <1>2
  <2>4. \A i \in Infos : Holders(i)' # 0 => Holders(i) # 0
    <3>1. \A i \in Infos : i \in S => Holders(i) # 0
      BY HoldersNumber
    <3>2. \A i \in Infos : i \notin S => Holders(i)' <= Holders(i)
      BY <1>4, <2>1 DEF One
    <3> QED BY <2>1, <3>1, <3>2
  <2>5. \A i \in Infos : info'[i].key = info[i].key /\ info'[i].app \in {info[i].app, None}
    BY <1>2 DEF SameData
  <2> QED BY <1>3, <2>2, <2>3, <2>4, <2>5, InfoSide
<1>6. AppInv'
  BY <1>2, AppsKept DEF SameData, Only
<1>7. RequestPlaces' /\ Making' /\ PagesLoaded'
  BY <1>2, PlacesMove DEF SameData, bounds
<1>8. Initializing' /\ OneHostingModel'
  BY <1>2, InitMove DEF SameData, mvars
<1>9. Changing'
  BY DEF ManagerInv, Changing, mvars
<1> QED BY <1>3, <1>5, <1>6, <1>7, <1>8, <1>9 DEF ManagerInv, AppInv

LEMMA TakesNothing ==
  ASSUME Typing, UNCHANGED info
  PROVE  info' = Take(info, {})
  BY DEF Typing, Take

LEMMA FindStep ==
  ASSUME ManagerInv, NEW r \in Requests, FindInfo(r)
  PROVE  ManagerInv'
<1> DEFINE found == Find(req[r].key)
<1>1. /\ req[r].pc = "find" /\ req[r].key \in Keys
      /\ UNCHANGED <<hosting, inShutdown, recycling, mvars, watcher, rh, entry, app, file,
                     w, c, s, bounds>>
  BY DEF FindInfo, ManagerInv, RequestPlaces
<1>2. found \subseteq table /\ table \subseteq Infos
  BY DEF Find, ManagerInv, Typing
<1>3. CASE inShutdown
  <2>1. Goto(r, "done") /\ UNCHANGED info
    BY <1>3 DEF FindInfo
  <2>2. Goes(r, "done")
    BY <2>1, GotoGoes DEF ManagerInv, Places
  <2> QED BY <1>1, <2>1, <2>2, GoesOn DEF ManagerInv, Typing, Places, InfoPlaces
<1>4. CASE ~inShutdown /\ found # {}
  <2> DEFINE i == CHOOSE j \in found : TRUE
  <2>1. i \in found /\ i \in Infos
    BY <1>2, <1>4
  <2>2. /\ info' = Take(info, found)
        /\ req' = [req EXCEPT ![r].inf = i, ![r].pc = "offline"]
    BY <1>4 DEF FindInfo
  <2> HIDE DEF i, found
  <2>3. /\ Only(r) /\ req'[r].pc = "offline" /\ req'[r].inf = i
        /\ req'[r].key = req[r].key /\ req'[r].ap = req[r].ap
    BY <2>1, <2>2, ZenonT(60) DEF ManagerInv, Typing, RequestType, Only, Places, InfoPlaces
  <2> QED BY <1>1, <1>2, <2>1, <2>2, <2>3, TakesFound
<1>5. CASE ~inShutdown /\ found = {}
  <2>1. /\ info' = Take(info, {})
        /\ \E pc \in {"count", "create"} : req' = [req EXCEPT ![r].inf = None, ![r].pc = pc]
    BY <1>5 DEF FindInfo
  <2>2. PICK pc \in {"count", "create"} : req' = [req EXCEPT ![r].inf = None, ![r].pc = pc]
    BY <2>1
  <2>3. /\ Only(r) /\ req'[r].pc = pc /\ req'[r].inf = None
        /\ req'[r].key = req[r].key /\ req'[r].ap = req[r].ap
    BY <2>2 DEF ManagerInv, Typing, RequestType, Only, Places
  <2>4. /\ pc \notin InfoPlaces /\ {} \in SUBSET table /\ None \in {} \cup {None}
        /\ pc \notin {"init", "make", "serve", "idle", "executed"}
    BY DEF InfoPlaces
  <2> QED BY <1>1, <2>1, <2>3, <2>4, TakesFound
<1> QED BY <1>3, <1>4, <1>5

-----------------------------------------------------------------------------
(* A new APPLICATION_INFO, that only its request knows.                    *)
LEMMA NewInfo ==
  ASSUME ManagerInv, NEW r \in Requests, req[r].pc = "create", mgrLock = "free",
         ~Mixed(req[r].key), NEW i \in Infos, info[i].st = "unused",
         info' = [info EXCEPT ![i] = [NoInfo EXCEPT !.st = "live", !.refs = 1,
                      !.key = req[r].key, !.model = hosting[req[r].key]]],
         req' = [req EXCEPT ![r].inf = i, ![r].pc = "init"],
         mgrLock' = "request",
         UNCHANGED <<hosting, inShutdown, recycling, table, hashUp, hostingModel, watcher,
                     rh, entry, app, file, w, c, s, bounds>>
  PROVE  ManagerInv'
<1>1. req[r].key \in Keys
  BY DEF ManagerInv, RequestPlaces
<1>2. /\ Only(r) /\ req'[r].pc = "init" /\ req'[r].inf = i
      /\ req'[r].key = req[r].key /\ req'[r].ap = req[r].ap
  BY DEF ManagerInv, Typing, RequestType, Only, Places, InfoPlaces
<1>3. /\ info'[i].st = "live" /\ info'[i].refs = 1 /\ info'[i].key = req[r].key
      /\ info'[i].model = hosting[req[r].key] /\ info'[i].offline = FALSE
      /\ info'[i].app = None /\ info'[i].lock = FALSE
      /\ \A j \in Infos \ {i} : info'[j] = info[j]
      /\ info' \in [Infos -> InfoType]
  <2>1. hosting[req[r].key] \in Models
    BY <1>1 DEF ManagerInv, Typing
  <2>2. [NoInfo EXCEPT !.st = "live", !.refs = 1, !.key = req[r].key,
                       !.model = hosting[req[r].key]] \in InfoType
    BY <1>1, <2>1 DEF NoInfo, InfoType
  <2> QED BY <2>2 DEF NoInfo, ManagerInv, Typing
<1>4. Typing'
  BY <1>2, <1>3 DEF ManagerInv, Typing, bounds, Only
<1>5. Holders(i) = 0 /\ i \notin table \cup Copied
  BY HeldHolds, HoldersNumber DEF ManagerInv, Holds
<1>6. \A q \in Requests : req[q].inf # i
  BY <1>5, HoldersNumber
<1>7. ~Updates(i) /\ (w.pc \in EntryPlaces => w.e # i)
  BY DEF ManagerInv, UsedObjects, Updates, EntryPlaces
<1>8. info[i].app = None
  BY DEF ManagerInv, UsedObjects
<1>9. InfoCounted'
  <2>1. InfosRecounted(r)
    BY <1>2, Recounted
  <2>2. table' = table /\ Copied' = Copied
    BY DEF Copied
  <2>3. \A j \in Infos : /\ Cardinality(RequestsOf(j)') <= Cardinality(RequestsOf(j)) + One(i = j)
                         /\ Cardinality(RequestsOf(j)) \in Nat
                         /\ Cardinality(RequestsOf(j)') \in Nat
    <3> SUFFICES ASSUME NEW j \in Infos
                 PROVE  /\ Cardinality(RequestsOf(j)') <= Cardinality(RequestsOf(j)) + One(i = j)
                        /\ Cardinality(RequestsOf(j)) \in Nat
                        /\ Cardinality(RequestsOf(j)') \in Nat
      OBVIOUS
    <3>1. One(req[r].inf = j) \in Nat /\ One(i = j) \in Nat
      BY DEF One
    <3>2. /\ Cardinality(RequestsOf(j)') = Cardinality(RequestsOf(j))
                                         - One(req[r].inf = j) + One(i = j)
          /\ Cardinality(RequestsOf(j)) \in Nat /\ Cardinality(RequestsOf(j)') \in Nat
      BY <1>2, <2>1 DEF InfosRecounted
    <3> QED BY <3>1, <3>2
  <2>4. \A j \in Infos : Holders(j)' <= Holders(j) + One(i = j)
    BY <2>2, <2>3 DEF Holders, One
  <2>5. \A j \in Infos : Updates(j)' = Updates(j)
    BY DEF Updates
  <2>6. \A j \in Infos : /\ Holders(j) \in Nat /\ Holders(j)' \in Nat
                         /\ One(Updates(j)) \in Nat /\ info[j].refs \in Nat
                         /\ Holders(j) + One(Updates(j)) <= info[j].refs
    BY HoldersNumber, HoldersNumberNext, RefsNumber DEF ManagerInv, InfoCounted
  <2>7. ASSUME NEW j \in Infos PROVE Holders(j)' + One(Updates(j)') <= info'[j].refs
    <3>1. CASE j = i
      <4>1. One(i = j) = 1 /\ One(Updates(j)') = 0
        BY <1>7, <2>5, <3>1 DEF One
      <4> QED BY <1>3, <1>5, <2>4, <2>6, <3>1, <4>1
    <3>2. CASE j # i
      <4>1. One(i = j) = 0 /\ info'[j].refs = info[j].refs
        BY <1>3, <3>2 DEF One
      <4> QED BY <2>4, <2>5, <2>6, <4>1
    <3> QED BY <3>1, <3>2
  <2> QED BY <2>7 DEF InfoCounted
<1>10. HeldAreLive'
  <2>1. table \cup Copied \subseteq Infos \ {i} /\ Copied' = Copied
    BY <1>5 DEF ManagerInv, Typing, Copied, ChangeType
  <2>2. \A j \in table' \cup Copied' : info'[j].st = "live"
    BY <1>3, <2>1 DEF ManagerInv, HeldAreLive
  <2>3. \A q \in Requests \ {r} : req[q].inf # None => info'[req[q].inf].st = "live"
    BY <1>3, <1>6 DEF ManagerInv, HeldAreLive, Typing, RequestType
  <2> QED BY <1>2, <1>3, <2>2, <2>3 DEF HeldAreLive, Only
<1>11. UsedObjects'
  BY <1>1, <1>3, <1>7 DEF ManagerInv, UsedObjects
<1>12. AppInv'
  BY <1>2, <1>3, <1>8, AppsKept DEF Only
<1>13. RequestPlaces'
  BY <1>1, <1>2 DEF ManagerInv, RequestPlaces, Only, InfoPlaces
<1>14. \A q \in Requests : req[q].pc \in InfoPlaces => req[q].inf \in Infos \ {i}
  BY <1>6 DEF ManagerInv, RequestPlaces
<1>15. Making'
  BY <1>2, <1>3, <1>14 DEF ManagerInv, Making, Only, InfoPlaces
<1>16. PagesLoaded'
  BY <1>2, <1>3, <1>14 DEF ManagerInv, PagesLoaded, OfflinePageIsLoaded, Only, InfoPlaces, bounds
<1>17. Initializing'
  <2>1. \A q \in Requests : req[q].pc # "init"
    BY DEF ManagerInv, Initializing
  <2>2. hostingModel \in {"unknown", hosting[req[r].key]}
    BY DEF Mixed
  <2> QED BY <1>2, <1>3, <1>5, <1>6, <2>1, <2>2 DEF Initializing, Only
<1>18. OneHostingModel'
  BY <1>3, <1>5 DEF ManagerInv, Typing, OneHostingModel
<1>19. Changing'
  BY DEF ManagerInv, Changing
<1> QED BY <1>4, <1>9, <1>10, <1>11, <1>12, <1>13, <1>15, <1>16, <1>17, <1>18, <1>19
  DEF ManagerInv, AppInv

LEMMA CreateInfoStep ==
  ASSUME ManagerInv, NEW r \in Requests, CreateInfo(r)
  PROVE  ManagerInv'
<1> DEFINE found == CreatedMeanwhile(req[r].key)
<1>1. /\ req[r].pc = "create" /\ req[r].key \in Keys /\ mgrLock = "free"
      /\ UNCHANGED <<hosting, inShutdown, recycling, table, hashUp, hostingModel, watcher,
                     rh, entry, app, file, w, c, s, bounds>>
  BY DEF CreateInfo, ManagerInv, RequestPlaces
<1>2. found \subseteq table /\ table \subseteq Infos
  BY DEF CreatedMeanwhile, Find, ManagerInv, Typing
<1>3. ASSUME NEW pc \in {"done", "faulted"}, Goto(r, pc) /\ UNCHANGED <<info, mgrLock>>
      PROVE  ManagerInv'
  <2>1. Goes(r, pc)
    BY <1>3, GotoGoes DEF ManagerInv, Places
  <2> QED BY <1>1, <1>3, <2>1, GoesOn DEF ManagerInv, Typing, Places, InfoPlaces, mvars
<1>4. CASE found # {} /\ ~inShutdown
  <2> DEFINE i == CHOOSE j \in found : TRUE
  <2>1. i \in found /\ i \in Infos
    BY <1>2, <1>4
  <2>2. /\ info' = Take(info, found)
        /\ req' = [req EXCEPT ![r].inf = i, ![r].pc = "offline"]
        /\ UNCHANGED mgrLock
    BY <1>4 DEF CreateInfo
  <2> HIDE DEF i, found
  <2>3. /\ Only(r) /\ req'[r].pc = "offline" /\ req'[r].inf = i
        /\ req'[r].key = req[r].key /\ req'[r].ap = req[r].ap
    BY <2>1, <2>2 DEF ManagerInv, Typing, RequestType, Only, Places, InfoPlaces
  <2> QED BY <1>1, <1>2, <2>1, <2>2, <2>3, TakesFound DEF mvars
<1> DEFINE Creates(i) ==
             /\ \A j \in Infos : info[j].st = "unused" <=> j >= i
             /\ info' = [info EXCEPT ![i] = [NoInfo EXCEPT !.st = "live", !.refs = 1,
                             !.key = req[r].key, !.model = hosting[req[r].key]]]
             /\ req' = [req EXCEPT ![r].inf = i, ![r].pc = "init"]
             /\ mgrLock' = "request"
<1>5. ASSUME ~Mixed(req[r].key), NEW i \in Infos, Creates(i)
      PROVE  ManagerInv'
  <2>1. info[i].st = "unused"
    BY <1>5 DEF Infos
  <2> QED BY <1>1, <1>5, <2>1, NewInfo
<1>6. \/ \E pc \in {"done", "faulted"} : Goto(r, pc) /\ UNCHANGED <<info, mgrLock>>
      \/ found # {} /\ ~inShutdown
      \/ ~Mixed(req[r].key) /\ \E i \in Infos : Creates(i)
  BY DEF CreateInfo
<1> QED BY <1>3, <1>4, <1>5, <1>6

LEMMA NewEntry ==
  ASSUME NEW b \in BOOLEAN
  PROVE  [NoEntry EXCEPT !.refs = IF b THEN 2 ELSE 1, !.valid = TRUE, !.dir = TRUE, !.io = b]
           \in EntryType
<1> DEFINE n == IF b THEN 2 ELSE 1
<1>1. n \in Int
  OBVIOUS
<1> HIDE DEF n
<1>2. NoEntry \in EntryType
  BY DEF NoEntry, EntryType
<1>3. \A x \in EntryType :
        [x EXCEPT !.refs = n, !.valid = TRUE, !.dir = TRUE, !.io = b] \in EntryType
  BY <1>1 DEF EntryType
<1> QED BY <1>2, <1>3 DEF n

LEMMA InitializeStep ==
  ASSUME ManagerInv, NEW r \in Requests, InitializeInfo(r)
  PROVE  ManagerInv'
<1> DEFINE i == req[r].inf
           k == req[r].key
<1>1. /\ req[r].pc = "init"
      /\ info' = [info EXCEPT ![i].refs = @ + 1, ![i].offline = file[k],
                              ![i].page = IF file[k] THEN flips ELSE 0]
      /\ entry' = [entry EXCEPT ![i] = [NoEntry EXCEPT !.refs = IF watcher THEN 2 ELSE 1,
                       !.valid = TRUE, !.dir = TRUE, !.io = watcher]]
      /\ table' = table \cup {i}
      /\ hostingModel' = IF hostingModel = "unknown" THEN hosting[k] ELSE hostingModel
      /\ mgrLock' = "free" /\ Goto(r, "offline")
      /\ UNCHANGED <<hosting, inShutdown, recycling, hashUp, watcher, rh, app, file, w, c, s,
                     bounds>>
  BY DEF InitializeInfo
<1>2. i \in Infos /\ k \in Keys
  BY <1>1 DEF ManagerInv, RequestPlaces, InfoPlaces
<1>3. Goes(r, "offline")
  BY <1>1, GotoGoes DEF ManagerInv, Places, InfoPlaces
<1>4. flips \in Nat /\ file[k] \in BOOLEAN /\ hosting[k] \in Models
  BY <1>2 DEF ManagerInv, Typing
<1> HIDE DEF i, k
<1>5. /\ info' \in [Infos -> InfoType]
      /\ info'[i].refs = info[i].refs + 1 /\ info'[i].offline = file[k]
      /\ info'[i].page = IF file[k] THEN flips ELSE 0
      /\ info'[i].st = info[i].st /\ info'[i].key = info[i].key
      /\ info'[i].model = info[i].model /\ info'[i].app = info[i].app
      /\ info'[i].lock = info[i].lock
      /\ \A j \in Infos \ {i} : info'[j] = info[j]
  <2>1. info \in [Infos -> InfoType] /\ info[i] \in InfoType
    BY <1>2 DEF ManagerInv, Typing
  <2>2. /\ info'[i] = [info[i] EXCEPT !.refs = @ + 1, !.offline = file[k],
                                      !.page = IF file[k] THEN flips ELSE 0]
        /\ \A j \in Infos \ {i} : info'[j] = info[j]
        /\ info' = [j \in Infos |-> info'[j]]
    BY <1>1, <1>2, <2>1
  <2> DEFINE page == IF file[k] THEN flips ELSE 0
         flag == file[k]
  <2>3. page \in Nat /\ flag \in BOOLEAN
    BY <1>4
  <2> HIDE DEF page, flag
  <2>4. info'[i] = [info[i] EXCEPT !.refs = @ + 1, !.offline = flag, !.page = page]
    BY <2>2 DEF page, flag
  <2>5. /\ info'[i] \in InfoType
        /\ info'[i].refs = info[i].refs + 1 /\ info'[i].offline = flag
        /\ info'[i].page = page
        /\ info'[i].st = info[i].st /\ info'[i].key = info[i].key
        /\ info'[i].model = info[i].model /\ info'[i].app = info[i].app
        /\ info'[i].lock = info[i].lock
    <3> DEFINE x == info[i]
               y == info'[i]
    <3>1. x \in InfoType /\ y = [x EXCEPT !.refs = @ + 1, !.offline = flag, !.page = page]
      BY <2>1, <2>4
    <3> HIDE DEF x, y
    <3>2. /\ y \in InfoType /\ y.refs = x.refs + 1 /\ y.offline = flag /\ y.page = page
          /\ y.st = x.st /\ y.key = x.key /\ y.model = x.model /\ y.app = x.app
          /\ y.lock = x.lock
      <4>1. x.refs + 1 \in Nat
        BY <3>1 DEF InfoType
      <4> QED BY <2>3, <3>1, <4>1 DEF InfoType
    <3> QED BY <3>2 DEF x, y
  <2>6. \A j \in Infos : info'[j] \in InfoType
    BY <2>1, <2>2, <2>5
  <2>7. info' \in [Infos -> InfoType]
    BY <2>2, <2>6
  <2> QED BY <2>2, <2>5, <2>7 DEF page, flag
<1>6. Typing'
  <2>1. watcher \in BOOLEAN
    BY DEF ManagerInv, Typing
  <2>2. entry' \in [Infos -> EntryType]
    BY <1>1, <1>2, <2>1, NewEntry DEF ManagerInv, Typing
  <2> QED BY <1>1, <1>2, <1>3, <1>4, <1>5, <2>2 DEF ManagerInv, Typing, bounds, Goes, Only
<1>7. info[i].st = "live" /\ i \notin table
  BY <1>1, <1>2, NoneIsNothing DEF ManagerInv, HeldAreLive, Initializing, i
<1>8. \A q \in Requests : q # r => req[q].inf # i /\ req[q].pc # "init"
  BY <1>1 DEF ManagerInv, Initializing, i
<1>9. InfoCounted'
  <2>1. InfosRecounted(r)
    BY <1>3, Recounted DEF Goes
  <2>2. \A j \in Infos : /\ Cardinality(RequestsOf(j)') = Cardinality(RequestsOf(j))
                         /\ Cardinality(RequestsOf(j)) \in Nat
    BY <1>3, <2>1 DEF InfosRecounted, One, Goes
  <2>3. Copied' = Copied
    BY <1>1 DEF Copied
  <2>4. \A j \in Infos : Holders(j)' <= Holders(j) + One(j = i)
    BY <1>1, <2>2, <2>3 DEF Holders, One
  <2>5. \A j \in Infos : Updates(j)' = Updates(j)
    BY <1>1 DEF Updates
  <2>6. \A j \in Infos : /\ Holders(j) \in Nat /\ Holders(j)' \in Nat
                         /\ One(Updates(j)) \in Nat /\ info[j].refs \in Nat
                         /\ Holders(j) + One(Updates(j)) <= info[j].refs
    BY HoldersNumber, HoldersNumberNext, RefsNumber DEF ManagerInv, InfoCounted
  <2>7. \A j \in Infos : info'[j].refs = info[j].refs + One(j = i) /\ One(j = i) \in Nat
    <3>1. info[i].refs \in Nat /\ \A j \in Infos \ {i} : info'[j].refs = info[j].refs + 0
      BY <1>2, <1>5, <2>6
    <3> QED BY <1>5, <3>1 DEF One
  <2>8. \A j \in Infos : Holders(j)' + One(Updates(j)') <= info'[j].refs
    BY <2>4, <2>5, <2>6, <2>7
  <2> QED BY <2>8 DEF InfoCounted
<1>10. HeldAreLive' /\ UsedObjects'
  <2>1. \A j \in Infos : info'[j].st = info[j].st /\ info'[j].key = info[j].key
                         /\ info'[j].app = info[j].app
    BY <1>5
  <2>2. Copied' = Copied /\ table \cup Copied \subseteq Infos
    BY <1>1 DEF Copied, ManagerInv, Typing, ChangeType
  <2>3. \A q \in Requests : req'[q].inf = req[q].inf /\ req[q].inf \in Infos \cup {None}
    BY <1>3 DEF Goes, Only, ManagerInv, Typing, RequestType
  <2>4. HeldAreLive'
    <3>1. \A j \in table' \cup Copied' : info'[j].st = "live"
      BY <1>1, <1>2, <1>7, <2>1, <2>2 DEF ManagerInv, HeldAreLive
    <3>2. \A q \in Requests : req'[q].inf # None => info'[req'[q].inf].st = "live"
      BY <2>1, <2>3 DEF ManagerInv, HeldAreLive
    <3> QED BY <3>1, <3>2 DEF HeldAreLive
  <2>5. \A j \in Infos \ {i} : entry'[j] = entry[j]
    BY <1>1 DEF ManagerInv, Typing
  <2>6. UsedObjects'
    BY <1>1, <1>2, <1>7, <2>1, <2>5, ZenonT(40) DEF ManagerInv, UsedObjects
  <2> QED BY <2>4, <2>6
<1>11. AppInv'
  <2>1. \A j \in Infos : info'[j].app = info[j].app /\ info'[j].model = info[j].model
    BY <1>5
  <2> QED BY <1>1, <1>3, <2>1, AppsKept DEF Goes, Only
<1>12. RequestPlaces'
  BY <1>2, <1>3 DEF ManagerInv, RequestPlaces, Goes, Only, InfoPlaces, i, k
<1>13. \A q \in Requests : req[q].pc \in InfoPlaces => req[q].inf \in Infos
  BY DEF ManagerInv, RequestPlaces
<1>14. Making'
  <2>1. \A j \in Infos : info'[j].app = info[j].app /\ info'[j].lock = info[j].lock
    BY <1>5
  <2> QED BY <1>3, <1>13, <2>1 DEF ManagerInv, Making, Goes, Only, InfoPlaces
<1>15. PagesLoaded'
  <2>1. PagesLoaded
    BY DEF ManagerInv
  <2>2. UNCHANGED <<file, flips>>
    BY <1>1 DEF bounds
  <2>3. \A j \in Infos : info'[j].offline => info'[j].page > 0
    <3>1. file[k] => flips > 0
      BY <1>2, <2>1 DEF PagesLoaded
    <3>2. info'[i].offline => info'[i].page > 0
      BY <1>4, <1>5, <3>1
    <3> QED BY <1>5, <2>1, <3>2 DEF PagesLoaded
  <2>4. ASSUME NEW q \in Requests, req'[q].pc = "serve"
        PROVE  info'[req'[q].inf].page > 0
    <3>1. q # r /\ req'[q] = req[q]
      BY <1>3, <2>4 DEF Goes, Only
    <3>2. req[q].inf \in Infos \ {i}
      BY <1>8, <1>13, <2>4, <3>1 DEF InfoPlaces
    <3>3. info[req[q].inf].page > 0
      BY <2>1, <2>4, <3>1 DEF PagesLoaded, OfflinePageIsLoaded
    <3>4. info'[req[q].inf] = info[req[q].inf]
      BY <1>5, <3>2
    <3> QED BY <3>1, <3>3, <3>4
  <2> QED BY <2>1, <2>2, <2>3, <2>4 DEF PagesLoaded, OfflinePageIsLoaded
<1>16. Initializing'
  BY <1>3, <1>8 DEF Initializing, Goes, Only
<1>17. OneHostingModel'
  <2>1. info[i].model = hosting[k] /\ hostingModel \in {"unknown", hosting[k]}
    BY <1>1 DEF ManagerInv, Initializing, i, k
  <2>2. \A j \in table : info[j].model = hostingModel /\ info[j].model \in Models /\ j \in Infos
    BY DEF ManagerInv, Typing, InfoType, OneHostingModel
  <2>3. \A j \in Infos : info'[j].model = info[j].model
    BY <1>5
  <2> QED BY <1>1, <1>2, <2>1, <2>2, <2>3 DEF OneHostingModel, Models
<1>18. Changing'
  <2>1. mgrLock = "request"
    BY <1>1 DEF ManagerInv, Initializing
  <2> QED BY <1>1, <2>1 DEF ManagerInv, Changing
<1> QED BY <1>6, <1>9, <1>10, <1>11, <1>12, <1>14, <1>15, <1>16, <1>17, <1>18
  DEF ManagerInv, AppInv

-----------------------------------------------------------------------------
(* Nothing happens to the references to APPLICATION_INFOs.                 *)
LEMMA InfoKept ==
  ASSUME ManagerInv, Typing', UNCHANGED <<table, Copied>>,
         \A q \in Requests : req'[q].inf = req[q].inf,
         \A i \in Infos : info'[i].refs = info[i].refs /\ info'[i].key = info[i].key,
         \A i \in Infos :
           \/ info'[i].st = info[i].st
           \/ info[i].st = "dying" /\ info'[i].st = "dead" /\ info'[i].app = None,
         \A i \in Infos : info'[i].app \in {info[i].app, None} \/ info'[i].st = "live",
         \A i \in Infos : entry'[i].io => entry[i].io,
         w'.pc \in EntryPlaces => w'.e = w.e /\ w.pc \in EntryPlaces,
         \A i \in Infos : Updates(i)' => Updates(i)
  PROVE  InfoCounted' /\ HeldAreLive' /\ UsedObjects'
<1>1. \A i \in Infos : Holders(i)' = Holders(i)
  <2>1. \A i \in Infos : RequestsOf(i)' = RequestsOf(i)
    BY DEF RequestsOf
  <2> QED BY <2>1 DEF Holders
<1>2. \A i \in Infos : One(Updates(i)') <= One(Updates(i))
  BY DEF One
<1>3. \A i \in Infos : /\ Holders(i) \in Nat /\ One(Updates(i)) \in Nat /\ info[i].refs \in Nat
                       /\ One(Updates(i)') \in Nat
  BY HoldersNumber, RefsNumber DEF ManagerInv, One
<1>4. \A i \in Infos : Holders(i)' + One(Updates(i)') + info[i].refs
                       <= Holders(i) + One(Updates(i)) + info'[i].refs
  BY <1>1, <1>2, <1>3
<1>5. \A i \in Infos : Holders(i)' # 0 => Holders(i) # 0
  BY <1>1
<1> QED BY <1>4, <1>5, InfoSide

-----------------------------------------------------------------------------
(* EnsureApplicationCreated.                                               *)
LEMMA LockTaken ==
  ASSUME Typing, NEW i \in Infos, NEW l \in BOOLEAN, info' = [info EXCEPT ![i].lock = l]
  PROVE  /\ info' \in [Infos -> InfoType] /\ info'[i].lock = l
         /\ \A j \in Infos \ {i} : info'[j] = info[j]
         /\ \A j \in Infos : /\ info'[j].refs = info[j].refs /\ info'[j].st = info[j].st
                             /\ info'[j].key = info[j].key /\ info'[j].model = info[j].model
                             /\ info'[j].offline = info[j].offline
                             /\ info'[j].page = info[j].page /\ info'[j].app = info[j].app
<1>1. info \in [Infos -> InfoType] /\ info[i] \in InfoType
  BY DEF Typing
<1>2. info'[i] = [info[i] EXCEPT !.lock = l] /\ \A j \in Infos \ {i} : info'[j] = info[j]
  BY <1>1
<1>3. /\ info'[i] \in InfoType /\ info'[i].lock = l
      /\ info'[i].refs = info[i].refs /\ info'[i].st = info[i].st
      /\ info'[i].key = info[i].key /\ info'[i].model = info[i].model
      /\ info'[i].offline = info[i].offline
      /\ info'[i].page = info[i].page /\ info'[i].app = info[i].app
  BY <1>1, <1>2 DEF InfoType
<1>4. info' \in [Infos -> InfoType]
  BY <1>1, <1>3
<1> QED BY <1>2, <1>3, <1>4

LEMMA LockStep ==
  ASSUME ManagerInv, NEW r \in Requests, req[r].pc \in {"lock", "make"}, NEW i \in Infos,
         i = req[r].inf, NEW l \in BOOLEAN, info' = [info EXCEPT ![i].lock = l],
         NEW pc \in {"make", "pending"}, Goes(r, pc), pc = "make" <=> l,
         pc = "make" => ~info[i].lock /\ info[i].app = None,
         pc = "pending" => req[r].pc = "make",
         rh' \in {"none", "loaded", "error"},
         UNCHANGED <<hosting, inShutdown, recycling, mvars, watcher, entry, app, file,
                     w, c, s, bounds>>
  PROVE  ManagerInv'
<1> USE DEF mvars, bounds
<1>1. /\ info' \in [Infos -> InfoType] /\ info'[i].lock = l
      /\ \A j \in Infos \ {i} : info'[j] = info[j]
      /\ \A j \in Infos : /\ info'[j].refs = info[j].refs /\ info'[j].st = info[j].st
                          /\ info'[j].key = info[j].key /\ info'[j].model = info[j].model
                          /\ info'[j].offline = info[j].offline
                          /\ info'[j].page = info[j].page /\ info'[j].app = info[j].app
  BY LockTaken DEF ManagerInv
<1>2. Typing'
  BY <1>1 DEF ManagerInv, Typing, Goes, Only
<1>3. /\ \A q \in Requests : req'[q].inf = req[q].inf /\ req'[q].ap = req[q].ap
      /\ req[r].key \in Keys
  BY DEF Goes, Only, ManagerInv, RequestPlaces
<1>4. InfoCounted' /\ HeldAreLive' /\ UsedObjects'
  <2>1. \A j \in Infos : Updates(j)' => Updates(j)
    BY DEF Updates
  <2>2. UNCHANGED <<table, Copied>>
    BY DEF Copied
  <2> QED BY <1>1, <1>2, <1>3, <2>1, <2>2, InfoKept
<1>5. AppInv'
  BY <1>1, <1>3, AppsKept
<1>6. RequestPlaces'
  BY <1>3 DEF ManagerInv, RequestPlaces, Goes, Only, InfoPlaces
<1>7. \A q \in Requests : req[q].pc \in InfoPlaces => req[q].inf \in Infos
  BY DEF ManagerInv, RequestPlaces
<1>8. Making'
  <2>1. \A q \in Requests \ {r} : req[q].pc = "make" => req[q].inf \in Infos \ {i}
    <3>1. CASE pc = "make"
      BY <1>7, <3>1 DEF ManagerInv, Making, InfoPlaces
    <3>2. CASE pc = "pending"
      BY <1>7, <3>2 DEF ManagerInv, Making, InfoPlaces
    <3> QED BY <3>1, <3>2
  <2> QED BY <1>1, <2>1 DEF ManagerInv, Making, Goes, Only
<1>9. PagesLoaded'
  BY <1>1, <1>7 DEF ManagerInv, PagesLoaded, OfflinePageIsLoaded, Goes, Only, InfoPlaces
<1>10. Initializing' /\ OneHostingModel'
  BY <1>1, InitMove DEF Goes
<1>11. Changing'
  BY DEF ManagerInv, Changing
<1> QED BY <1>2, <1>4, <1>5, <1>6, <1>8, <1>9, <1>10, <1>11 DEF ManagerInv, AppInv

LEMMA EnsureStep ==
  ASSUME ManagerInv, NEW r \in Requests, EnsureLocked(r)
  PROVE  ManagerInv'
<1> DEFINE i == req[r].inf
<1>1. /\ req[r].pc = "lock" /\ ~info[i].lock
      /\ UNCHANGED <<hosting, inShutdown, recycling, mvars, watcher, entry, app, file,
                     w, c, s, bounds>>
  BY DEF EnsureLocked
<1>2. i \in Infos /\ req[r].key \in Keys
  BY <1>1 DEF ManagerInv, RequestPlaces, InfoPlaces
<1>3. rh \in {"none", "loaded", "error"}
  BY DEF ManagerInv, Typing
<1>4. CASE Goto(r, "extract") /\ UNCHANGED <<rh, info>>
  <2>1. Goes(r, "extract")
    BY <1>4, GotoGoes DEF ManagerInv, Places, InfoPlaces
  <2> QED BY <1>1, <1>2, <1>3, <1>4, <2>1, GoesOn DEF Places, InfoPlaces
<1>5. CASE Loads("error") /\ Goto(r, "pending") /\ UNCHANGED info
  <2>1. Goes(r, "pending") /\ rh' = "error"
    BY <1>5, GotoGoes DEF ManagerInv, Places, InfoPlaces, Loads
  <2> QED BY <1>1, <1>2, <1>5, <2>1, GoesOn DEF Places, InfoPlaces
<1>6. CASE /\ info[i].app = None /\ Loads("loaded") /\ Goto(r, "make")
           /\ info' = CreatesLocked(i)
  <2>1. Goes(r, "make") /\ rh' = "loaded" /\ info' = [info EXCEPT ![i].lock = TRUE]
    BY <1>6, GotoGoes DEF ManagerInv, Places, InfoPlaces, Loads, CreatesLocked
  <2> QED BY <1>1, <1>2, <1>6, <2>1, LockStep
<1> QED BY <1>4, <1>5, <1>6 DEF EnsureLocked

-----------------------------------------------------------------------------
(* References to an IAPPLICATION.                                          *)
LEMMA DropsApp ==
  ASSUME NEW f \in [Apps -> ApplicationType], NEW a \in Apps, f[a].refs >= 1
  PROVE  /\ AppDrop(f, a) \in [Apps -> ApplicationType]
         /\ \A b \in Apps \ {a} : AppDrop(f, a)[b] = f[b]
         /\ AppDrop(f, a)[a].refs = f[a].refs - 1
         /\ AppDrop(f, a)[a].st = IF f[a].refs = 1 THEN "freed" ELSE f[a].st
         /\ AppDrop(f, a)[a].model = f[a].model
         /\ AppDrop(f, a)[a].threads = f[a].threads
         /\ AppDrop(f, a)[a].stops = f[a].stops
<1> DEFINE g == AppDrop(f, a)
<1>1. /\ g \in [Apps -> {g[b] : b \in Apps}]
      /\ g[a] = [f[a] EXCEPT !.refs = @ - 1, !.st = IF f[a].refs = 1 THEN "freed" ELSE @]
      /\ \A b \in Apps \ {a} : g[b] = f[b]
  BY DEF AppDrop
<1>2. f[a] \in ApplicationType /\ f[a].refs - 1 \in Nat
  BY DEF ApplicationType
<1>3. /\ g[a] \in ApplicationType
      /\ g[a].refs = f[a].refs - 1
      /\ g[a].st = IF f[a].refs = 1 THEN "freed" ELSE f[a].st
      /\ g[a].model = f[a].model /\ g[a].threads = f[a].threads /\ g[a].stops = f[a].stops
  BY <1>1, <1>2 DEF ApplicationType
<1> HIDE DEF g
<1>4. g \in [Apps -> ApplicationType]
  BY <1>1, <1>3
<1> QED BY <1>1, <1>3, <1>4 DEF g

LEMMA StopsApp ==
  ASSUME NEW f \in [Apps -> ApplicationType], NEW a \in Apps
  PROVE  /\ Stop(f, a) \in [Apps -> ApplicationType]
         /\ \A b \in Apps \ {a} : Stop(f, a)[b] = f[b]
         /\ Stop(f, a)[a].st = "stopped" /\ Stop(f, a)[a].stops = f[a].stops + 1
         /\ Stop(f, a)[a].refs = f[a].refs /\ Stop(f, a)[a].model = f[a].model
         /\ Stop(f, a)[a].threads = f[a].threads
<1> DEFINE g == Stop(f, a)
<1>1. /\ g \in [Apps -> {g[b] : b \in Apps}]
      /\ g[a] = [f[a] EXCEPT !.st = "stopped", !.stops = @ + 1]
      /\ \A b \in Apps \ {a} : g[b] = f[b]
  BY DEF Stop
<1>2. f[a] \in ApplicationType /\ f[a].stops + 1 \in Nat
  BY DEF ApplicationType
<1>3. /\ g[a] \in ApplicationType
      /\ g[a].st = "stopped" /\ g[a].stops = f[a].stops + 1
      /\ g[a].refs = f[a].refs /\ g[a].model = f[a].model /\ g[a].threads = f[a].threads
  BY <1>1, <1>2 DEF ApplicationType
<1> HIDE DEF g
<1>4. g \in [Apps -> ApplicationType]
  BY <1>1, <1>3
<1> QED BY <1>1, <1>3, <1>4 DEF g

LEMMA AppNumbers ==
  Typing => \A a \in Apps : /\ app[a].refs \in Nat /\ app[a].threads \in Nat
                            /\ app[a].stops \in Nat /\ One(Owned(a)) \in {0, 1}
  BY DEF Typing, ApplicationType, One

LEMMA AppNumbersNext ==
  Typing' => \A a \in Apps : /\ app'[a].refs \in Nat /\ app'[a].threads \in Nat
                             /\ app'[a].stops \in Nat /\ One(Owned(a)') \in {0, 1}
  BY DEF Typing, ApplicationType, One

LEMMA UsersNumber ==
  \A a : /\ Cardinality(UsersOf(a)) \in Nat /\ Cardinality(UsersOf(a)') \in Nat
         /\ \A r \in Requests : req[r].ap = a => Cardinality(UsersOf(a)) >= 1
<1> TAKE a
<1>1. UsersOf(a) \subseteq Requests /\ UsersOf(a)' \subseteq Requests
  BY DEF UsersOf
<1>2. \A r \in Requests : req[r].ap = a => r \in UsersOf(a)
  BY DEF UsersOf
<1> QED BY <1>1, <1>2, Numbers, Leaves

(* Owners, threads and users come with their references and go with them.  *)
LEMMA AppSide ==
  ASSUME ManagerInv, Typing', recycling => recycling',
         \A a \in Apps :
           One(Owned(a)') + app'[a].threads + Cardinality(UsersOf(a)') + app[a].refs
             <= One(Owned(a)) + app[a].threads + Cardinality(UsersOf(a)) + app'[a].refs,
         \A a \in Apps : app'[a].refs > 0 =>
           app[a].refs > 0 /\ app'[a].st \in {app[a].st, "stopped"},
         \A a \in Apps : app'[a].model = app[a].model,
         \A a \in Apps : app[a].model = "out" =>
           app'[a].stops + app'[a].threads + One(Owned(a)')
             <= app[a].stops + app[a].threads + One(Owned(a)),
         \A i \in Infos : /\ info'[i].app \in {info[i].app, None}
                          /\ info[i].app # None => info'[i].model = info[i].model,
         \A a \in Apps : app'[a].st = "running" =>
           /\ app[a].st = "running"
           /\ Owned(a) \/ app[a].threads > 0 =>
                Owned(a)' \/ app'[a].threads > 0 \/ recycling'
  PROVE  AppInv'
<1>1. \A a \in Apps : One(Owned(a)) + app[a].threads + Cardinality(UsersOf(a)) <= app[a].refs
  BY DEF ManagerInv, AppCounted
<1>2. \A a \in Apps :
        /\ app[a].refs \in Nat /\ app[a].threads \in Nat /\ app[a].stops \in Nat
        /\ app'[a].refs \in Nat /\ app'[a].threads \in Nat /\ app'[a].stops \in Nat
        /\ Cardinality(UsersOf(a)) \in Nat /\ Cardinality(UsersOf(a)') \in Nat
        /\ One(Owned(a)) \in Int /\ One(Owned(a)') \in Int
  BY AppNumbers, AppNumbersNext, UsersNumber DEF ManagerInv
<1>3. \A a \in Apps :
        One(Owned(a)') + app'[a].threads + Cardinality(UsersOf(a)') <= app'[a].refs
  BY <1>1, <1>2
<1>4. AppCounted'
  BY <1>3 DEF AppCounted
<1>5. AppLives'
  BY DEF ManagerInv, AppLives
<1>6. OneOwner'
  <2>1. \A i \in Infos : info[i].app # None => info[i].app \in Apps
    BY DEF ManagerInv, Typing, InfoType
  <2> QED BY <2>1 DEF ManagerInv, OneOwner
<1>7. StopsOnce'
  <2>1. \A a \in Apps : app'[a].model = "out" =>
          app'[a].stops + app'[a].threads + One(Owned(a)') <= 1
    BY <1>2 DEF ManagerInv, StopsOnce
  <2> QED BY <2>1 DEF StopsOnce
<1>8. RunningIsKnown'
  BY DEF ManagerInv, RunningIsKnown
<1> QED BY <1>4, <1>5, <1>6, <1>7, <1>8 DEF AppInv

(* Whoever owns, recycles or uses an application finds it alive.           *)
LEMMA HeldApps ==
  ASSUME ManagerInv, NEW a \in Apps,
         Owned(a) \/ app[a].threads > 0 \/ \E r \in Requests : req[r].ap = a
  PROVE  app[a].refs > 0 /\ app[a].st \in {"running", "stopped"}
<1> DEFINE o == One(Owned(a))
           u == Cardinality(UsersOf(a))
<1>1. o + app[a].threads + u <= app[a].refs
  BY DEF ManagerInv, AppCounted
<1>2. /\ o \in {0, 1} /\ u \in Nat /\ app[a].threads \in Nat /\ app[a].refs \in Nat
  BY AppNumbers, UsersNumber DEF ManagerInv
<1>3. o = 1 \/ app[a].threads > 0 \/ u >= 1
  BY UsersNumber DEF One
<1> HIDE DEF o, u
<1>4. app[a].refs > 0
  BY <1>1, <1>2, <1>3
<1> QED BY <1>4 DEF ManagerInv, AppLives

-----------------------------------------------------------------------------
(* A request takes or gives back an application.                           *)
LEMMA AppMoves ==
  ASSUME ManagerInv, NEW r \in Requests, Only(r), req'[r].pc \in {"handler", "pending"},
         req[r].pc # "idle", req[r].pc \in InfoPlaces,
         req'[r].inf = req[r].inf, req'[r].key = req[r].key,
         app' \in [Apps -> ApplicationType], AppInv',
         UNCHANGED <<hosting, inShutdown, recycling, mvars, watcher, rh, info, entry, file,
                     w, c, s, bounds>>
  PROVE  ManagerInv'
<1> USE DEF mvars, bounds
<1>1. Typing'
  BY DEF ManagerInv, Typing, Only
<1>2. InfoCounted' /\ HeldAreLive' /\ UsedObjects'
  <2>1. \A j \in Infos : Updates(j)' => Updates(j)
    BY DEF Updates
  <2>2. UNCHANGED <<table, Copied>>
    BY DEF Copied
  <2>3. \A q \in Requests : req'[q].inf = req[q].inf
    BY DEF Only
  <2> QED BY <1>1, <2>1, <2>2, <2>3, InfoKept
<1>3. req[r].key \in Keys /\ req[r].inf \in Infos
  BY DEF ManagerInv, RequestPlaces
<1>4. RequestPlaces' /\ Making' /\ PagesLoaded'
  BY <1>3, PlacesMove
<1>5. Initializing' /\ OneHostingModel'
  BY InitMove
<1>6. Changing'
  BY DEF ManagerInv, Changing
<1> QED BY <1>1, <1>2, <1>4, <1>5, <1>6 DEF ManagerInv, AppInv

LEMMA ExtractStep ==
  ASSUME ManagerInv, NEW r \in Requests, ExtractApplication(r)
  PROVE  ManagerInv'
<1> DEFINE a == info[req[r].inf].app
<1>1. /\ req[r].pc = "extract" /\ app' = ExtractReferences(app, a)
      /\ req' = [req EXCEPT ![r].ap = a, ![r].pc = "handler"]
      /\ UNCHANGED <<hosting, inShutdown, recycling, mvars, watcher, rh, info, entry, file,
                     w, c, s, bounds>>
  BY DEF ExtractApplication
<1>2. req[r].inf \in Infos /\ req[r].key \in Keys
  BY <1>1 DEF ManagerInv, RequestPlaces, InfoPlaces
<1>3. a \in Apps \cup {None} /\ (a # None => Owned(a))
  BY <1>2 DEF ManagerInv, Typing, InfoType, Owned
<1> HIDE DEF a
<1>4. /\ Only(r) /\ req'[r].pc = "handler" /\ req'[r].ap = a
      /\ req'[r].key = req[r].key /\ req'[r].inf = req[r].inf
  BY <1>1, <1>3 DEF ManagerInv, Typing, RequestType, Only, Places, InfoPlaces
<1>5. /\ app' \in [Apps -> ApplicationType]
      /\ \A b \in Apps : /\ app'[b].refs = app[b].refs + One(b = a)
                         /\ app'[b].st = app[b].st /\ app'[b].model = app[b].model
                         /\ app'[b].threads = app[b].threads /\ app'[b].stops = app[b].stops
  <2>1. app \in [Apps -> ApplicationType]
    BY DEF ManagerInv, Typing
  <2>2. CASE a = None
    <3>1. \A b \in Apps : One(b = a) = 0 /\ app[b].refs \in Nat
      BY <2>1, <2>2, NoneIsNothing DEF One, ApplicationType
    <3> QED BY <1>1, <2>1, <2>2, <3>1 DEF ExtractReferences
  <2>3. CASE a # None
    <3>1. app' = [app EXCEPT ![a].refs = @ + 1] /\ a \in Apps
      BY <1>1, <1>3, <2>3 DEF ExtractReferences
    <3> QED BY <2>1, <3>1 DEF ApplicationType, One
  <2> QED BY <2>2, <2>3
<1>6. Typing'
  BY <1>1, <1>4, <1>5 DEF ManagerInv, Typing, mvars, bounds, Only
<1>7. AppInv'
  <2>1. \A b \in Apps : Cardinality(UsersOf(b)') <= Cardinality(UsersOf(b)) + One(b = a)
    <3> SUFFICES ASSUME NEW b \in Apps
                 PROVE  Cardinality(UsersOf(b)') <= Cardinality(UsersOf(b)) + One(b = a)
      OBVIOUS
    <3>1. /\ Cardinality(UsersOf(b)') = Cardinality(UsersOf(b)) - One(req[r].ap = b) + One(a = b)
          /\ Cardinality(UsersOf(b)) \in Nat
      BY <1>4, Recounted DEF AppsRecounted
    <3>2. One(req[r].ap = b) \in Nat /\ One(a = b) \in Nat /\ One(a = b) = One(b = a)
      BY DEF One
    <3> QED BY <3>1, <3>2
  <2>2. \A b \in Apps : Owned(b)' = Owned(b)
    BY <1>1 DEF Owned
  <2>3. \A b \in Apps :
          One(Owned(b)') + app'[b].threads + Cardinality(UsersOf(b)') + app[b].refs
            <= One(Owned(b)) + app[b].threads + Cardinality(UsersOf(b)) + app'[b].refs
    <3>1. \A b \in Apps : /\ app[b].refs \in Nat /\ app[b].threads \in Nat
                          /\ One(Owned(b)) \in Int /\ One(b = a) \in Nat
      BY AppNumbers DEF ManagerInv, One
    <3> QED BY <1>5, <2>1, <2>2, <3>1, UsersNumber
  <2>4. \A b \in Apps : app'[b].refs > 0 => app[b].refs > 0
    <3>1. \A b \in Apps : Owned(b) => app[b].refs > 0
      BY HeldApps
    <3>2. \A b \in Apps : b = a => Owned(b)
      BY <1>3, NoneIsNothing
    <3>3. \A b \in Apps : b # a => app'[b].refs = app[b].refs
      BY <1>5, AppNumbers DEF ManagerInv, One
    <3> QED BY <3>1, <3>2, <3>3
  <2>5. /\ \A b \in Apps : app[b].model = "out" =>
             app'[b].stops + app'[b].threads + One(Owned(b)')
               <= app[b].stops + app[b].threads + One(Owned(b))
        /\ \A i \in Infos : /\ info'[i].app \in {info[i].app, None}
                            /\ info[i].app # None => info'[i].model = info[i].model
    BY <1>1, <1>5, <2>2, AppNumbers DEF ManagerInv
  <2> QED BY <1>1, <1>5, <1>6, <2>2, <2>3, <2>4, <2>5, AppSide
<1> QED BY <1>1, <1>4, <1>5, <1>7, AppMoves DEF InfoPlaces

LEMMA ReleaseStep ==
  ASSUME ManagerInv, NEW r \in Requests, ReleaseApplication(r)
  PROVE  ManagerInv'
<1> DEFINE a == req[r].ap
<1>1. /\ req[r].pc = "executed" /\ app' = AppDrop(app, a)
      /\ req' = [req EXCEPT ![r].ap = None, ![r].pc = "pending"]
      /\ UNCHANGED <<hosting, inShutdown, recycling, mvars, watcher, rh, info, entry, file,
                     w, c, s, bounds>>
  BY DEF ReleaseApplication
<1>2. a \in Apps
  BY <1>1 DEF ManagerInv, RequestPlaces
<1>3. app[a].refs > 0 /\ app[a].refs >= 1
  <2>1. app[a].refs > 0 /\ app[a].refs \in Nat
    BY <1>2, HeldApps, AppNumbers DEF ManagerInv
  <2> QED BY <2>1
<1>4. /\ Only(r) /\ req'[r].pc = "pending" /\ req'[r].ap = None
      /\ req'[r].key = req[r].key /\ req'[r].inf = req[r].inf
  BY <1>1 DEF ManagerInv, Typing, RequestType, Only, Places, InfoPlaces
<1>5. \A b \in Apps : Cardinality(UsersOf(b)') = Cardinality(UsersOf(b)) - One(b = a)
  <2>1. \A b : Cardinality(UsersOf(b)')
               = Cardinality(UsersOf(b)) - One(req[r].ap = b) + One(None = b)
    BY <1>4, Recounted DEF AppsRecounted
  <2>2. \A b \in Apps : One(None = b) = 0 /\ One(req[r].ap = b) = One(b = a)
                        /\ One(b = a) \in Nat
    BY NoneIsNothing DEF One
  <2> HIDE DEF a
  <2> QED BY <2>1, <2>2, UsersNumber
<1> HIDE DEF a
<1>6. app \in [Apps -> ApplicationType]
  BY DEF ManagerInv, Typing
<1>7. /\ app' \in [Apps -> ApplicationType]
      /\ \A b \in Apps \ {a} : app'[b] = app[b]
      /\ app'[a].refs = app[a].refs - 1
      /\ app'[a].st = IF app[a].refs = 1 THEN "freed" ELSE app[a].st
      /\ app'[a].model = app[a].model /\ app'[a].threads = app[a].threads
      /\ app'[a].stops = app[a].stops
  BY <1>1, <1>2, <1>3, <1>6, DropsApp
<1>8. \A b \in Apps : app'[b].refs = app[b].refs - One(b = a)
  BY <1>7, AppNumbers DEF ManagerInv, One
<1>9. Typing'
  BY <1>1, <1>4, <1>7 DEF ManagerInv, Typing, mvars, bounds, Only
<1>10. AppInv'
  <2>1. \A b \in Apps : Owned(b)' = Owned(b)
    BY <1>1 DEF Owned
  <2>2. \A b \in Apps :
          One(Owned(b)') + app'[b].threads + Cardinality(UsersOf(b)') + app[b].refs
            <= One(Owned(b)) + app[b].threads + Cardinality(UsersOf(b)) + app'[b].refs
    <3>1. \A b \in Apps : /\ app[b].refs \in Nat /\ app[b].threads \in Nat
                          /\ One(Owned(b)) \in Int /\ One(b = a) \in Nat
                          /\ app'[b].threads = app[b].threads
      BY <1>7, AppNumbers DEF ManagerInv, One
    <3> QED BY <1>5, <1>8, <2>1, <3>1, UsersNumber
  <2>3. \A b \in Apps : app'[b].refs > 0 => app[b].refs > 0 /\ app'[b].st \in {app[b].st, "stopped"}
    BY <1>2, <1>3, <1>7
  <2>4. \A b \in Apps : /\ app'[b].model = app[b].model /\ app'[b].stops = app[b].stops
                        /\ app'[b].threads = app[b].threads
                        /\ app'[b].st = "running" => app[b].st = "running"
    BY <1>7
  <2>5. \A b \in Apps : app[b].model = "out" =>
             app'[b].stops + app'[b].threads + One(Owned(b)')
               <= app[b].stops + app[b].threads + One(Owned(b))
    BY <2>1, <2>4, AppNumbers DEF ManagerInv
  <2> QED BY <1>1, <1>9, <2>1, <2>2, <2>3, <2>4, <2>5, AppSide
<1> QED BY <1>1, <1>4, <1>7, <1>10, AppMoves DEF InfoPlaces

-----------------------------------------------------------------------------
(* An application that nobody owned gets an owner.                         *)
LEMMA OwnerIsSet ==
  ASSUME OneOwner, NEW i \in Infos, NEW a \in Apps,
         \A j \in Infos : info[j].app # a,
         \A j \in Infos : info[j].app \in Apps \cup {None},
         \A j \in Infos : info'[j].app = IF j = i THEN a ELSE info[j].app,
         \A j \in Infos : info'[j].model = info[j].model,
         app'[a].model = info[i].model, \A b \in Apps \ {a} : app'[b].model = app[b].model
  PROVE  OneOwner'
<1>1. ASSUME NEW j \in Infos, NEW k \in Infos, info'[j].app = info'[k].app, info'[j].app # None
      PROVE  j = k
  <2>1. CASE j = i \/ k = i
    BY <1>1, <2>1
  <2>2. CASE j # i /\ k # i
    BY <1>1, <2>2 DEF OneOwner
  <2> QED BY <2>1, <2>2
<1>2. ASSUME NEW j \in Infos, info'[j].app # None
      PROVE  app'[info'[j].app].model = info'[j].model
  <2>1. CASE j = i
    BY <2>1
  <2>2. CASE j # i
    <3>1. info'[j].app = info[j].app /\ info[j].app \in Apps \ {a}
      BY <1>2, <2>2
    <3>2. app[info[j].app].model = info[j].model
      BY <1>2, <3>1 DEF OneOwner
    <3> QED BY <3>1, <3>2
  <2> QED BY <2>1, <2>2
<1> QED BY <1>1, <1>2 DEF OneOwner

(* An APPLICATION_INFO gets its application.                               *)
LEMMA CreateStep ==
  ASSUME ManagerInv, NEW r \in Requests, NEW i \in Infos, i = req[r].inf, NEW a \in Apps,
         req[r].pc = "make", app[a].st = "unused",
         app' = [app EXCEPT ![a] = [NoApplication EXCEPT !.st = "running", !.refs = 1,
                                                         !.model = info[i].model]],
         info' = [info EXCEPT ![i].app = a, ![i].lock = FALSE],
         Goto(r, "extract"),
         UNCHANGED <<hosting, inShutdown, recycling, mvars, watcher, rh, entry, file,
                     w, c, s, bounds>>
  PROVE  ManagerInv'
<1> USE DEF mvars, bounds
<1>1. /\ Goes(r, "extract") /\ req[r].key \in Keys
      /\ \A q \in Requests : req'[q].inf = req[q].inf /\ req'[q].ap = req[q].ap
  <2>1. Goes(r, "extract") /\ req[r].key \in Keys
    BY GotoGoes DEF ManagerInv, RequestPlaces, Places, InfoPlaces
  <2> QED BY <2>1 DEF Goes, Only
<1>2. info[i].app = None /\ info[i].st = "live"
  BY NoneIsNothing DEF ManagerInv, Making, HeldAreLive
<1>3. /\ info' \in [Infos -> InfoType] /\ info'[i].app = a
      /\ \A j \in Infos \ {i} : info'[j] = info[j]
      /\ \A j \in Infos : /\ info'[j].refs = info[j].refs /\ info'[j].st = info[j].st
                          /\ info'[j].key = info[j].key /\ info'[j].model = info[j].model
                          /\ info'[j].offline = info[j].offline
                          /\ info'[j].page = info[j].page
  <2>1. info \in [Infos -> InfoType] /\ info[i] \in InfoType
    BY DEF ManagerInv, Typing
  <2>2. /\ info'[i] = [info[i] EXCEPT !.app = a, !.lock = FALSE]
        /\ \A j \in Infos \ {i} : info'[j] = info[j]
    BY <2>1
  <2>3. /\ info'[i] \in InfoType /\ info'[i].app = a
        /\ info'[i].refs = info[i].refs /\ info'[i].st = info[i].st
        /\ info'[i].key = info[i].key /\ info'[i].model = info[i].model
        /\ info'[i].offline = info[i].offline /\ info'[i].page = info[i].page
    BY <2>1, <2>2 DEF InfoType
  <2>4. info' \in [Infos -> InfoType]
    BY <2>1, <2>3
  <2> QED BY <2>2, <2>3, <2>4
<1>4. /\ app' \in [Apps -> ApplicationType]
      /\ app'[a].st = "running" /\ app'[a].refs = 1 /\ app'[a].model = info[i].model
      /\ app'[a].threads = 0 /\ app'[a].stops = 0
      /\ \A b \in Apps \ {a} : app'[b] = app[b]
  <2>1. app \in [Apps -> ApplicationType] /\ info[i].model \in Models
    BY DEF ManagerInv, Typing, InfoType
  <2> QED BY <2>1 DEF NoApplication, ApplicationType
<1>5. Typing'
  BY <1>1, <1>3, <1>4 DEF ManagerInv, Typing, Goes, Only
<1>6. InfoCounted' /\ HeldAreLive' /\ UsedObjects'
  <2>1. \A j \in Infos : Updates(j)' => Updates(j)
    BY DEF Updates
  <2>2. UNCHANGED <<table, Copied>>
    BY DEF Copied
  <2>3. \A j \in Infos : info'[j].app \in {info[j].app, None} \/ info'[j].st = "live"
    BY <1>2, <1>3
  <2> QED BY <1>1, <1>3, <1>5, <2>1, <2>2, <2>3, InfoKept
<1>7. ~Owned(a) /\ app[a].threads = 0 /\ \A q \in Requests : req[q].ap # a
  BY HeldApps, AppNumbers DEF ManagerInv
<1>8. Owned(a)' /\ \A b \in Apps \ {a} : Owned(b)' = Owned(b)
  <2>1. \A b \in Apps : b # None
    BY NoneIsNothing
  <2>2. \A j \in Infos : info'[j].app = IF j = i THEN a ELSE info[j].app
    BY <1>3
  <2>3. Owned(a)'
    BY <2>2 DEF Owned
  <2>4. ASSUME NEW b \in Apps, b # a
        PROVE  Owned(b)' <=> Owned(b)
    <3>1. \A j \in Infos : info'[j].app = b <=> info[j].app = b
      BY <1>2, <2>1, <2>2, <2>4
    <3> QED BY <3>1 DEF Owned
  <2>5. \A b \in Apps : Owned(b) \in BOOLEAN /\ Owned(b)' \in BOOLEAN
    BY DEF Owned
  <2> QED BY <2>3, <2>4, <2>5
<1>9. \A b : UsersOf(b)' = UsersOf(b)
  BY <1>1 DEF UsersOf
<1>10. AppInv'
  <2>1. AppCounted'
    <3>1. UsersOf(a) = {}
      BY <1>7 DEF UsersOf
    <3>2. Cardinality(UsersOf(a)') = 0 /\ One(Owned(a)') = 1
      BY <1>8, <1>9, <3>1, FS_EmptySet DEF One
    <3>3. \A b \in Apps \ {a} :
            One(Owned(b)') + app'[b].threads + Cardinality(UsersOf(b)') <= app'[b].refs
      BY <1>4, <1>8, <1>9 DEF ManagerInv, AppCounted
    <3>4. One(Owned(a)') + app'[a].threads + Cardinality(UsersOf(a)') <= app'[a].refs
      BY <1>4, <3>2
    <3> QED BY <3>3, <3>4 DEF AppCounted
  <2>2. AppLives'
    BY <1>4 DEF ManagerInv, AppLives
  <2>3. OneOwner'
    <3>1. \A j \in Infos : info[j].app # a
      BY <1>7 DEF Owned
    <3>2. \A j \in Infos : info[j].app \in Apps \cup {None}
      BY DEF ManagerInv, Typing, InfoType
    <3>3. OneOwner
      BY DEF ManagerInv
    <3>4. \A j \in Infos : info'[j].app = IF j = i THEN a ELSE info[j].app
      BY <1>3
    <3>5. \A j \in Infos : info'[j].model = info[j].model
      BY <1>3
    <3>6. app'[a].model = info[i].model /\ \A b \in Apps \ {a} : app'[b].model = app[b].model
      BY <1>4
    <3> QED BY <3>1, <3>2, <3>3, <3>4, <3>5, <3>6, OwnerIsSet
  <2>4. StopsOnce'
    BY <1>4, <1>8 DEF ManagerInv, StopsOnce, One
  <2>5. RunningIsKnown'
    BY <1>4, <1>8 DEF ManagerInv, RunningIsKnown
  <2> QED BY <2>1, <2>2, <2>3, <2>4, <2>5 DEF AppInv
<1>11. RequestPlaces'
  BY <1>1 DEF ManagerInv, RequestPlaces, Goes, Only, InfoPlaces
<1>12. \A q \in Requests : req[q].pc \in InfoPlaces => req[q].inf \in Infos
  BY DEF ManagerInv, RequestPlaces
<1>13. Making'
  <2>1. \A q \in Requests \ {r} : req[q].pc = "make" => req[q].inf \in Infos \ {i}
    BY <1>12 DEF ManagerInv, Making, InfoPlaces
  <2>2. \A q \in Requests : req'[q].pc = "make" => q # r /\ req'[q] = req[q]
    BY <1>1 DEF Goes, Only
  <2>3. ASSUME NEW q \in Requests, req'[q].pc = "make"
        PROVE  info'[req'[q].inf].lock /\ info'[req'[q].inf].app = None
    <3>1. req'[q] = req[q] /\ req[q].pc = "make" /\ req[q].inf \in Infos \ {i}
      BY <2>1, <2>2, <2>3
    <3>2. info'[req[q].inf] = info[req[q].inf]
      BY <1>3, <3>1
    <3>3. info[req[q].inf].lock /\ info[req[q].inf].app = None
      BY <3>1 DEF ManagerInv, Making
    <3> QED BY <3>1, <3>2, <3>3
  <2>4. ASSUME NEW p \in Requests, NEW q \in Requests,
               req'[p].pc = "make", req'[q].pc = "make", req'[p].inf = req'[q].inf
        PROVE  p = q
    <3>1. req'[p] = req[p] /\ req'[q] = req[q]
      BY <2>2, <2>4
    <3> QED BY <2>4, <3>1 DEF ManagerInv, Making
  <2> QED BY <2>3, <2>4 DEF Making
<1>14. PagesLoaded'
  <2>1. UNCHANGED <<file, flips>>
    OBVIOUS
  <2>2. \A j \in Infos : info'[j].offline = info[j].offline /\ info'[j].page = info[j].page
    BY <1>3
  <2>3. ASSUME NEW q \in Requests, req'[q].pc = "serve"
        PROVE  info'[req'[q].inf].page > 0
    <3>1. q # r /\ req'[q] = req[q]
      BY <1>1, <2>3 DEF Goes, Only
    <3>2. req[q].inf \in Infos
      BY <1>12, <2>3, <3>1 DEF InfoPlaces
    <3>3. info[req[q].inf].page > 0
      BY <2>3, <3>1 DEF ManagerInv, PagesLoaded, OfflinePageIsLoaded
    <3> QED BY <2>2, <3>1, <3>2, <3>3
  <2>4. OfflinePageIsLoaded'
    BY <2>3 DEF OfflinePageIsLoaded
  <2> QED BY <2>1, <2>2, <2>4 DEF ManagerInv, PagesLoaded
<1>15. Initializing' /\ OneHostingModel'
  BY <1>1, <1>3, InitMove DEF Goes
<1>16. Changing'
  BY DEF ManagerInv, Changing
<1> QED BY <1>5, <1>6, <1>10, <1>11, <1>13, <1>14, <1>15, <1>16 DEF ManagerInv, AppInv

LEMMA CreateApplicationStep ==
  ASSUME ManagerInv, NEW r \in Requests, CreateApplication(r)
  PROVE  ManagerInv'
<1> DEFINE i == req[r].inf
<1>1. /\ req[r].pc = "make"
      /\ UNCHANGED <<hosting, inShutdown, recycling, mvars, watcher, rh, entry, file,
                     w, c, s, bounds>>
  BY DEF CreateApplication
<1>2. i \in Infos /\ rh \in {"none", "loaded", "error"}
  BY <1>1 DEF ManagerInv, RequestPlaces, InfoPlaces, Typing
<1>3. CASE /\ info' = [info EXCEPT ![i].lock = FALSE]
           /\ Goto(r, "pending") /\ UNCHANGED app
  <2>1. Goes(r, "pending")
    BY <1>3, GotoGoes DEF ManagerInv, Places, InfoPlaces
  <2> QED BY <1>1, <1>2, <1>3, <2>1, LockStep
<1>4. ASSUME NEW a \in Apps, \A b \in Apps : app[b].st = "unused" <=> b >= a,
             app' = [app EXCEPT ![a] = [NoApplication EXCEPT !.st = "running", !.refs = 1,
                                                             !.model = info[i].model]],
             info' = [info EXCEPT ![i].app = a, ![i].lock = FALSE],
             Goto(r, "extract")
      PROVE  ManagerInv'
  <2>1. app[a].st = "unused"
    BY <1>4 DEF Apps
  <2> QED BY <1>1, <1>2, <1>4, <2>1, CreateStep
<1> QED BY <1>3, <1>4 DEF CreateApplication

-----------------------------------------------------------------------------
(* A step of another thread on applications and their owners.              *)
LEMMA OwnerStep ==
  ASSUME ManagerInv, Typing', AppInv', Changing',
         UNCHANGED <<req, hosting, mgrLock, table, hostingModel, file, flips, Copied>>,
         \A i \in Infos :
           /\ info'[i].refs = info[i].refs /\ info'[i].key = info[i].key
           /\ info'[i].model = info[i].model /\ info'[i].offline = info[i].offline
           /\ info'[i].page = info[i].page /\ info'[i].lock = info[i].lock
           /\ info'[i].app \in {info[i].app, None},
         \A i \in Infos :
           \/ info'[i].st = info[i].st
           \/ info[i].st = "dying" /\ info'[i].st = "dead" /\ info'[i].app = None,
         \A i \in Infos : entry'[i].io => entry[i].io,
         w'.pc \in EntryPlaces => w'.e = w.e /\ w.pc \in EntryPlaces,
         \A i \in Infos : Updates(i)' => Updates(i)
  PROVE  ManagerInv'
<1>1. InfoCounted' /\ HeldAreLive' /\ UsedObjects'
  BY InfoKept
<1>2. RequestPlaces' /\ Making' /\ PagesLoaded'
  BY PlacesKept
<1>3. Initializing' /\ OneHostingModel'
  BY InitKept
<1> QED BY <1>1, <1>2, <1>3 DEF ManagerInv, AppInv

(* An owner loses its application.                                         *)
LEMMA Disowns ==
  ASSUME ManagerInv, NEW i \in Infos, NEW a \in Apps, info[i].app = a,
         info'[i].app = None, \A j \in Infos \ {i} : info'[j].app = info[j].app
  PROVE  /\ Owned(a) /\ ~Owned(a)'
         /\ \A b \in Apps \ {a} : Owned(b)' = Owned(b)
<1>1. \A b \in Apps : b # None
  BY NoneIsNothing
<1>2. \A j \in Infos : info[j].app = a => j = i
  BY <1>1 DEF ManagerInv, OneOwner
<1> QED BY <1>1, <1>2 DEF Owned

LEMMA DisownFields ==
  ASSUME Typing, NEW i \in Infos, info' = [info EXCEPT ![i].app = None]
  PROVE  /\ info' \in [Infos -> InfoType] /\ info'[i].app = None
         /\ \A j \in Infos \ {i} : info'[j] = info[j]
         /\ \A j \in Infos :
              /\ info'[j].refs = info[j].refs /\ info'[j].key = info[j].key
              /\ info'[j].model = info[j].model /\ info'[j].offline = info[j].offline
              /\ info'[j].page = info[j].page /\ info'[j].lock = info[j].lock
              /\ info'[j].st = info[j].st /\ info'[j].app \in {info[j].app, None}
<1>1. info \in [Infos -> InfoType] /\ info[i] \in InfoType
  BY DEF Typing
<1>2. info'[i] = [info[i] EXCEPT !.app = None] /\ \A j \in Infos \ {i} : info'[j] = info[j]
  BY <1>1
<1>3. /\ info'[i] \in InfoType /\ info'[i].app = None
      /\ info'[i].refs = info[i].refs /\ info'[i].key = info[i].key
      /\ info'[i].model = info[i].model /\ info'[i].offline = info[i].offline
      /\ info'[i].page = info[i].page /\ info'[i].lock = info[i].lock
      /\ info'[i].st = info[i].st
  BY <1>1, <1>2 DEF InfoType
<1>4. info' \in [Infos -> InfoType]
  BY <1>1, <1>3
<1> QED BY <1>2, <1>3, <1>4

(* The owner's application is stopped and the owner's reference dropped.   *)
LEMMA StopsOwned ==
  ASSUME ManagerInv, NEW i \in Infos, NEW a \in Apps, info[i].app = a,
         info'[i].app = None, info'[i].model = info[i].model,
         \A j \in Infos \ {i} : info'[j] = info[j],
         Typing', app' = AppDrop(Stop(app, a), a), UNCHANGED <<req, recycling>>
  PROVE  AppInv'
<1>1. Owned(a) /\ ~Owned(a)' /\ \A b \in Apps \ {a} : Owned(b)' = Owned(b)
  BY Disowns
<1>2. app[a].refs > 0 /\ app[a].refs >= 1
  BY <1>1, HeldApps, AppNumbers DEF ManagerInv
<1>3. app \in [Apps -> ApplicationType]
  BY DEF ManagerInv, Typing
<1>4. /\ Stop(app, a) \in [Apps -> ApplicationType]
      /\ \A b \in Apps \ {a} : Stop(app, a)[b] = app[b]
      /\ Stop(app, a)[a].st = "stopped" /\ Stop(app, a)[a].stops = app[a].stops + 1
      /\ Stop(app, a)[a].refs = app[a].refs /\ Stop(app, a)[a].model = app[a].model
      /\ Stop(app, a)[a].threads = app[a].threads
  BY <1>3, StopsApp
<1> DEFINE f == Stop(app, a)
<1>5. /\ f \in [Apps -> ApplicationType] /\ f[a].refs >= 1 /\ app' = AppDrop(f, a)
  BY <1>2, <1>4
<1> HIDE DEF f
<1>6. /\ \A b \in Apps \ {a} : app'[b] = f[b]
      /\ app'[a].refs = f[a].refs - 1
      /\ app'[a].st = IF f[a].refs = 1 THEN "freed" ELSE f[a].st
      /\ app'[a].model = f[a].model /\ app'[a].threads = f[a].threads
      /\ app'[a].stops = f[a].stops
  BY <1>5, DropsApp
<1>7. /\ \A b \in Apps \ {a} : app'[b] = app[b]
      /\ app'[a].refs = app[a].refs - 1 /\ app'[a].st \in {"freed", "stopped"}
      /\ app[a].refs = 1 <=> app'[a].st = "freed"
      /\ app'[a].model = app[a].model /\ app'[a].threads = app[a].threads
      /\ app'[a].stops = app[a].stops + 1
  BY <1>4, <1>6 DEF f
<1>8. \A b : UsersOf(b)' = UsersOf(b)
  BY DEF UsersOf
<1>9. One(Owned(a)) = 1 /\ One(Owned(a)') = 0
  BY <1>1 DEF One
<1>10. \A b \in Apps :
          One(Owned(b)') + app'[b].threads + Cardinality(UsersOf(b)') + app[b].refs
            <= One(Owned(b)) + app[b].threads + Cardinality(UsersOf(b)) + app'[b].refs
  <2>1. \A b \in Apps : /\ app[b].refs \in Nat /\ app[b].threads \in Nat
                        /\ One(Owned(b)) \in Int /\ Cardinality(UsersOf(b)) \in Nat
    BY AppNumbers, UsersNumber DEF ManagerInv
  <2>2. ASSUME NEW b \in Apps \ {a}
        PROVE  One(Owned(b)') + app'[b].threads + Cardinality(UsersOf(b)') + app[b].refs
                 <= One(Owned(b)) + app[b].threads + Cardinality(UsersOf(b)) + app'[b].refs
    BY <1>1, <1>7, <1>8, <2>1
  <2>3. One(Owned(a)') + app'[a].threads + Cardinality(UsersOf(a)') + app[a].refs
          <= One(Owned(a)) + app[a].threads + Cardinality(UsersOf(a)) + app'[a].refs
    BY <1>7, <1>8, <1>9, <2>1
  <2> QED BY <2>2, <2>3
<1>11. \A b \in Apps : app'[b].refs > 0 =>
         app[b].refs > 0 /\ app'[b].st \in {app[b].st, "stopped"}
  <2>1. app'[a].refs > 0 => app'[a].st = "stopped"
    BY <1>7, AppNumbers DEF ManagerInv
  <2> QED BY <1>2, <1>7, <2>1
<1>12. \A b \in Apps : app'[b].model = app[b].model
  BY <1>7
<1>13. \A b \in Apps : app[b].model = "out" =>
         app'[b].stops + app'[b].threads + One(Owned(b)')
           <= app[b].stops + app[b].threads + One(Owned(b))
  <2>1. \A b \in Apps : app[b].stops \in Nat /\ app[b].threads \in Nat /\ One(Owned(b)) \in Int
    BY AppNumbers DEF ManagerInv
  <2>2. \A b \in Apps \ {a} : /\ app'[b].stops = app[b].stops /\ app'[b].threads = app[b].threads
                              /\ One(Owned(b)') = One(Owned(b))
    BY <1>1, <1>7
  <2>3. app'[a].stops + app'[a].threads + One(Owned(a)')
          <= app[a].stops + app[a].threads + One(Owned(a))
    BY <1>7, <1>9, <2>1
  <2>4. \A b \in Apps \ {a} :
         app'[b].stops + app'[b].threads + One(Owned(b)')
           <= app[b].stops + app[b].threads + One(Owned(b))
    BY <2>1, <2>2
  <2> QED BY <2>3, <2>4
<1>14. \A j \in Infos : /\ info'[j].app \in {info[j].app, None}
                        /\ info[j].app # None => info'[j].model = info[j].model
  OBVIOUS
<1>15. \A b \in Apps : app'[b].st = "running" =>
           /\ app[b].st = "running"
           /\ Owned(b) \/ app[b].threads > 0 =>
                Owned(b)' \/ app'[b].threads > 0 \/ recycling'
  BY <1>1, <1>7
<1> QED BY <1>10, <1>11, <1>12, <1>13, <1>14, <1>15, AppSide

-----------------------------------------------------------------------------
(* APPLICATION_INFO::RecycleApplication.                                   *)
RecycledFrom(i) ==
  /\ info' \in [Infos -> InfoType] /\ app' \in [Apps -> ApplicationType]
  /\ recycling' \in BOOLEAN
  /\ \A j \in Infos :
       /\ info'[j].refs = info[j].refs /\ info'[j].key = info[j].key
       /\ info'[j].model = info[j].model /\ info'[j].offline = info[j].offline
       /\ info'[j].page = info[j].page /\ info'[j].lock = info[j].lock
       /\ info'[j].st = info[j].st /\ info'[j].app \in {info[j].app, None}

LEMMA ThreadAdded ==
  ASSUME NEW f \in [Apps -> ApplicationType], NEW a \in Apps
  PROVE  /\ [f EXCEPT ![a].threads = @ + 1] \in [Apps -> ApplicationType]
         /\ \A b \in Apps \ {a} : [f EXCEPT ![a].threads = @ + 1][b] = f[b]
         /\ [f EXCEPT ![a].threads = @ + 1][a].threads = f[a].threads + 1
         /\ [f EXCEPT ![a].threads = @ + 1][a].refs = f[a].refs
         /\ [f EXCEPT ![a].threads = @ + 1][a].st = f[a].st
         /\ [f EXCEPT ![a].threads = @ + 1][a].model = f[a].model
         /\ [f EXCEPT ![a].threads = @ + 1][a].stops = f[a].stops
  BY DEF ApplicationType

LEMMA ThreadEnded ==
  ASSUME NEW f \in [Apps -> ApplicationType], NEW a \in Apps, f[a].threads > 0
  PROVE  /\ [f EXCEPT ![a].threads = @ - 1] \in [Apps -> ApplicationType]
         /\ \A b \in Apps \ {a} : [f EXCEPT ![a].threads = @ - 1][b] = f[b]
         /\ [f EXCEPT ![a].threads = @ - 1][a].threads = f[a].threads - 1
         /\ [f EXCEPT ![a].threads = @ - 1][a].refs = f[a].refs
         /\ [f EXCEPT ![a].threads = @ - 1][a].st = f[a].st
         /\ [f EXCEPT ![a].threads = @ - 1][a].model = f[a].model
         /\ [f EXCEPT ![a].threads = @ - 1][a].stops = f[a].stops
<1>1. f[a].threads - 1 \in Nat
  BY DEF ApplicationType
<1> QED BY <1>1 DEF ApplicationType

LEMMA ReferenceAdded ==
  ASSUME NEW f \in [Apps -> ApplicationType], NEW a \in Apps
  PROVE  /\ [f EXCEPT ![a].refs = @ + 1] \in [Apps -> ApplicationType]
         /\ \A b \in Apps \ {a} : [f EXCEPT ![a].refs = @ + 1][b] = f[b]
         /\ [f EXCEPT ![a].refs = @ + 1][a].refs = f[a].refs + 1
         /\ [f EXCEPT ![a].refs = @ + 1][a].threads = f[a].threads
         /\ [f EXCEPT ![a].refs = @ + 1][a].st = f[a].st
         /\ [f EXCEPT ![a].refs = @ + 1][a].model = f[a].model
         /\ [f EXCEPT ![a].refs = @ + 1][a].stops = f[a].stops
  BY DEF ApplicationType

(* Everything AppSide asks, when one application a and its owner change.   *)
LEMMA OneAppChanges ==
  ASSUME ManagerInv, Typing', NEW a \in Apps, UNCHANGED req, recycling => recycling',
         \A b \in Apps \ {a} : app'[b] = app[b] /\ Owned(b)' = Owned(b),
         One(Owned(a)') + app'[a].threads + app[a].refs
           <= One(Owned(a)) + app[a].threads + app'[a].refs,
         app'[a].refs > 0 => app[a].refs > 0 /\ app'[a].st \in {app[a].st, "stopped"},
         app'[a].model = app[a].model,
         app[a].model = "out" =>
           app'[a].stops + app'[a].threads + One(Owned(a)')
             <= app[a].stops + app[a].threads + One(Owned(a)),
         \A i \in Infos : /\ info'[i].app \in {info[i].app, None}
                          /\ info[i].app # None => info'[i].model = info[i].model,
         app'[a].st = "running" =>
           /\ app[a].st = "running"
           /\ Owned(a) \/ app[a].threads > 0 =>
                Owned(a)' \/ app'[a].threads > 0 \/ recycling'
  PROVE  AppInv'
<1>1. \A b : UsersOf(b)' = UsersOf(b)
  BY DEF UsersOf
<1>2. \A b \in Apps :
        /\ app[b].refs \in Nat /\ app[b].threads \in Nat /\ app[b].stops \in Nat
        /\ app'[b].refs \in Nat /\ app'[b].threads \in Nat
        /\ One(Owned(b)) \in Int /\ One(Owned(b)') \in Int
        /\ Cardinality(UsersOf(b)) \in Nat
  BY AppNumbers, AppNumbersNext, UsersNumber DEF ManagerInv
<1>3. \A b \in Apps \ {a} : One(Owned(b)') = One(Owned(b))
  OBVIOUS
<1>4. \A b \in Apps :
          One(Owned(b)') + app'[b].threads + Cardinality(UsersOf(b)') + app[b].refs
            <= One(Owned(b)) + app[b].threads + Cardinality(UsersOf(b)) + app'[b].refs
  <2>1. ASSUME NEW b \in Apps \ {a}
        PROVE  One(Owned(b)') + app'[b].threads + Cardinality(UsersOf(b)') + app[b].refs
                 <= One(Owned(b)) + app[b].threads + Cardinality(UsersOf(b)) + app'[b].refs
    BY <1>1, <1>2, <1>3
  <2>2. One(Owned(a)') + app'[a].threads + Cardinality(UsersOf(a)') + app[a].refs
          <= One(Owned(a)) + app[a].threads + Cardinality(UsersOf(a)) + app'[a].refs
    BY <1>1, <1>2
  <2> QED BY <2>1, <2>2
<1>5. \A b \in Apps : app[b].model = "out" =>
         app'[b].stops + app'[b].threads + One(Owned(b)')
           <= app[b].stops + app[b].threads + One(Owned(b))
  <2>1. \A b \in Apps \ {a} :
         app'[b].stops + app'[b].threads + One(Owned(b)')
           <= app[b].stops + app[b].threads + One(Owned(b))
    BY <1>2, <1>3
  <2> QED BY <2>1
<1>6. \A b \in Apps : app'[b].refs > 0 =>
         app[b].refs > 0 /\ app'[b].st \in {app[b].st, "stopped"}
  OBVIOUS
<1>7. \A b \in Apps : app'[b].st = "running" =>
           /\ app[b].st = "running"
           /\ Owned(b) \/ app[b].threads > 0 =>
                Owned(b)' \/ app'[b].threads > 0 \/ recycling'
  OBVIOUS
<1>8. \A b \in Apps : app'[b].model = app[b].model
  OBVIOUS
<1> QED BY <1>4, <1>5, <1>6, <1>7, <1>8, AppSide

LEMMA Recycles ==
  ASSUME ManagerInv, NEW i \in Infos, RecycleApplication(i)
  PROVE  RecycledFrom(i) /\ (UNCHANGED req /\ Typing' => AppInv')
<1>a. PICK a : a = info[i].app
  OBVIOUS
<1>1. /\ info \in [Infos -> InfoType] /\ app \in [Apps -> ApplicationType]
      /\ recycling \in BOOLEAN
  BY DEF ManagerInv, Typing
<1>2. CASE a = None
  <2>1. UNCHANGED <<info, app, recycling>>
    BY <1>a, <1>2 DEF RecycleApplication
  <2>2. RecycledFrom(i)
    BY <1>1, <2>1 DEF RecycledFrom
  <2>3. UNCHANGED req => AppInv'
    BY <2>1, AppsKept
  <2> QED BY <2>2, <2>3
<1>3. CASE a # None
  <2>1. a \in Apps /\ Owned(a) /\ app[a].model = info[i].model
    BY <1>a, <1>1, <1>3 DEF ManagerInv, InfoType, Owned, OneOwner
  <2>2. app[a].refs > 0 /\ app[a].refs \in Nat /\ app[a].threads \in Nat
        /\ app[a].stops \in Nat
    BY <2>1, HeldApps, AppNumbers DEF ManagerInv
  <2>3. info[i].model \in {"in", "out"}
    BY <1>1 DEF InfoType, Models
  <2>4. One(Owned(a)) = 1 /\ One(Owned(a)') \in {0, 1}
    BY <2>1 DEF One
  <2>5. CASE info[i].model = "out"
    <3>1. /\ info' = [info EXCEPT ![i].app = None]
          /\ \/ app' = [app EXCEPT ![a].threads = @ + 1] /\ UNCHANGED recycling
             \/ app' = app /\ recycling' = TRUE
      BY <1>a, <1>3, <2>5 DEF RecycleApplication, Detached
    <3>2. /\ info' \in [Infos -> InfoType] /\ info'[i].app = None
          /\ \A j \in Infos \ {i} : info'[j] = info[j]
          /\ \A j \in Infos :
               /\ info'[j].refs = info[j].refs /\ info'[j].key = info[j].key
               /\ info'[j].model = info[j].model /\ info'[j].offline = info[j].offline
               /\ info'[j].page = info[j].page /\ info'[j].lock = info[j].lock
               /\ info'[j].st = info[j].st /\ info'[j].app \in {info[j].app, None}
      BY <3>1, DisownFields DEF ManagerInv
    <3>3. ~Owned(a)' /\ \A b \in Apps \ {a} : Owned(b)' = Owned(b)
      BY <1>a, <2>1, <3>2, Disowns
    <3>4. One(Owned(a)') = 0
      BY <3>3 DEF One
    <3>5. CASE app' = [app EXCEPT ![a].threads = @ + 1] /\ UNCHANGED recycling
      <4>1. /\ app' \in [Apps -> ApplicationType]
            /\ \A b \in Apps \ {a} : app'[b] = app[b]
            /\ app'[a].threads = app[a].threads + 1 /\ app'[a].refs = app[a].refs
            /\ app'[a].st = app[a].st /\ app'[a].model = app[a].model
            /\ app'[a].stops = app[a].stops
        BY <1>1, <2>1, <3>5, ThreadAdded
      <4>2. RecycledFrom(i)
        BY <1>1, <3>2, <3>5, <4>1 DEF RecycledFrom
      <4>3. One(Owned(a)') + app'[a].threads + app[a].refs
              <= One(Owned(a)) + app[a].threads + app'[a].refs
        BY <2>2, <2>4, <3>4, <4>1
      <4>4. app'[a].stops + app'[a].threads + One(Owned(a)')
              <= app[a].stops + app[a].threads + One(Owned(a))
        BY <2>2, <2>4, <3>4, <4>1
      <4>5. app'[a].threads > 0
        BY <2>2, <4>1
      <4>6. ASSUME UNCHANGED req, Typing' PROVE AppInv'
        BY <2>1, <2>2, <3>2, <3>3, <3>5, <4>1, <4>3, <4>4, <4>5, <4>6, OneAppChanges, ZenonT(60)
      <4> QED BY <4>2, <4>6
    <3>6. CASE app' = app /\ recycling' = TRUE
      <4>1. RecycledFrom(i)
        BY <1>1, <3>2, <3>6 DEF RecycledFrom
      <4>2. One(Owned(a)') + app'[a].threads + app[a].refs
              <= One(Owned(a)) + app[a].threads + app'[a].refs
        BY <2>2, <2>4, <3>4, <3>6
      <4>3. app'[a].stops + app'[a].threads + One(Owned(a)')
              <= app[a].stops + app[a].threads + One(Owned(a))
        BY <2>2, <2>4, <3>4, <3>6
      <4>4. ASSUME UNCHANGED req, Typing' PROVE AppInv'
        BY <2>1, <2>2, <3>2, <3>3, <3>6, <4>2, <4>3, <4>4, OneAppChanges
      <4> QED BY <4>1, <4>4
    <3> QED BY <3>1, <3>5, <3>6
  <2>6. CASE info[i].model = "in"
    <3> DEFINE f == [app EXCEPT ![a].refs = @ + 1]
    <3>1. /\ info' = [info EXCEPT ![i].app = a]
          /\ \/ app' = [f EXCEPT ![a].threads = @ + 1] /\ UNCHANGED recycling
             \/ app' = f /\ recycling' = TRUE
      BY <1>a, <1>3, <2>6 DEF RecycleApplication, Detached
    <3>2. info' = info
      <4>1. info[i] = [info[i] EXCEPT !.app = a] /\ info'[i] = [info[i] EXCEPT !.app = a]
        BY <1>a, <1>1, <3>1 DEF InfoType
      <4> QED BY <1>1, <3>1, <4>1
    <3>3. \A b : Owned(b)' = Owned(b)
      BY <3>2 DEF Owned
    <3>4. /\ f \in [Apps -> ApplicationType]
          /\ \A b \in Apps \ {a} : f[b] = app[b]
          /\ f[a].refs = app[a].refs + 1 /\ f[a].threads = app[a].threads
          /\ f[a].st = app[a].st /\ f[a].model = app[a].model
          /\ f[a].stops = app[a].stops
      BY <1>1, <2>1, ReferenceAdded
    <3> HIDE DEF f
    <3>5. /\ app' \in [Apps -> ApplicationType]
          /\ \A b \in Apps \ {a} : app'[b] = f[b]
          /\ app'[a].threads \in {f[a].threads, f[a].threads + 1}
          /\ app'[a].refs = f[a].refs /\ app'[a].st = f[a].st
          /\ app'[a].model = f[a].model /\ app'[a].stops = f[a].stops
      <4>1. CASE app' = [f EXCEPT ![a].threads = @ + 1]
        BY <2>1, <3>4, <4>1, ThreadAdded
      <4>2. CASE app' = f
        BY <3>4, <4>2
      <4> QED BY <3>1, <4>1, <4>2
    <3>6. RecycledFrom(i)
      BY <1>1, <3>1, <3>2, <3>5 DEF RecycledFrom
    <3>7. One(Owned(a)') + app'[a].threads + app[a].refs
            <= One(Owned(a)) + app[a].threads + app'[a].refs
      BY <2>2, <2>4, <3>3, <3>4, <3>5
    <3>8. ASSUME UNCHANGED req, Typing' PROVE AppInv'
      <4>1. app[a].model # "out"
        BY <2>1, <2>6
      <4>2. recycling => recycling'
        BY <3>1
      <4>3. app'[a].st = "running" => app[a].st = "running" /\ Owned(a)'
        BY <2>1, <3>3, <3>4, <3>5
      <4>4. /\ app'[a].refs > 0 => app[a].refs > 0 /\ app'[a].st \in {app[a].st, "stopped"}
            /\ app'[a].model = app[a].model
            /\ \A b \in Apps \ {a} : app'[b] = app[b] /\ Owned(b)' = Owned(b)
        BY <2>2, <3>3, <3>4, <3>5
      <4> QED BY <2>1, <3>2, <3>7, <3>8, <4>1, <4>2, <4>3, <4>4, OneAppChanges
    <3> QED BY <3>6, <3>8
  <2> QED BY <2>3, <2>5, <2>6
<1> QED BY <1>2, <1>3

LEMMA DoRecycleStep ==
  ASSUME ManagerInv, NEW a \in Apps, DoRecycleApplication(a)
  PROVE  ManagerInv'
<1> DEFINE over == [app EXCEPT ![a].threads = @ - 1]
<1>1. /\ app[a].threads > 0
      /\ IF app[a].model = "out"
         THEN app' = AppDrop(Stop(over, a), a) /\ UNCHANGED recycling
         ELSE app' = AppDrop(over, a) /\ recycling' = TRUE
      /\ UNCHANGED <<hosting, inShutdown, mvars, watcher, rh, info, entry, file, req,
                     w, c, s, bounds>>
  BY DEF DoRecycleApplication
<1>2. app \in [Apps -> ApplicationType] /\ recycling \in BOOLEAN
  BY DEF ManagerInv, Typing
<1>3. /\ app[a].refs >= 1 /\ app[a].refs > 0 /\ app[a].refs \in Nat
      /\ app[a].threads \in Nat /\ app[a].stops \in Nat /\ One(Owned(a)) \in Int
  BY <1>1, HeldApps, AppNumbers DEF ManagerInv
<1>4. /\ over \in [Apps -> ApplicationType]
      /\ \A b \in Apps \ {a} : over[b] = app[b]
      /\ over[a].threads = app[a].threads - 1 /\ over[a].refs = app[a].refs
      /\ over[a].st = app[a].st /\ over[a].model = app[a].model
      /\ over[a].stops = app[a].stops
  BY <1>1, <1>2, ThreadEnded
<1> HIDE DEF over
<1>5. \A b : Owned(b)' = Owned(b)
  BY <1>1 DEF Owned
<1>6. /\ app' \in [Apps -> ApplicationType] /\ recycling' \in BOOLEAN
      /\ recycling => recycling'
      /\ \A b \in Apps \ {a} : app'[b] = app[b]
      /\ app'[a].threads = app[a].threads - 1 /\ app'[a].refs = app[a].refs - 1
      /\ app'[a].model = app[a].model
      /\ app[a].refs # 1 => app'[a].st \in {app[a].st, "stopped"}
      /\ app[a].model = "out" => app'[a].stops = app[a].stops + 1
      /\ app'[a].st = "running" => recycling' /\ app[a].st = "running"
  <2>1. CASE app[a].model = "out"
    <3> DEFINE f == Stop(over, a)
    <3>1. /\ f \in [Apps -> ApplicationType]
          /\ \A b \in Apps \ {a} : f[b] = over[b]
          /\ f[a].st = "stopped" /\ f[a].stops = over[a].stops + 1
          /\ f[a].refs = over[a].refs /\ f[a].model = over[a].model
          /\ f[a].threads = over[a].threads
      BY <1>4, StopsApp
    <3>2. app' = AppDrop(f, a) /\ recycling' = recycling
      BY <1>1, <2>1
    <3> HIDE DEF f
    <3>3. /\ app' \in [Apps -> ApplicationType]
          /\ \A b \in Apps \ {a} : app'[b] = f[b]
          /\ app'[a].refs = f[a].refs - 1
          /\ app'[a].st = IF f[a].refs = 1 THEN "freed" ELSE f[a].st
          /\ app'[a].model = f[a].model /\ app'[a].threads = f[a].threads
          /\ app'[a].stops = f[a].stops
      BY <1>3, <1>4, <3>1, <3>2, DropsApp
    <3> QED BY <1>2, <1>4, <3>1, <3>2, <3>3
  <2>2. CASE app[a].model # "out"
    <3>1. app' = AppDrop(over, a) /\ recycling' = TRUE
      BY <1>1, <2>2
    <3>2. /\ app' \in [Apps -> ApplicationType]
          /\ \A b \in Apps \ {a} : app'[b] = over[b]
          /\ app'[a].refs = over[a].refs - 1
          /\ app'[a].st = IF over[a].refs = 1 THEN "freed" ELSE over[a].st
          /\ app'[a].model = over[a].model /\ app'[a].threads = over[a].threads
          /\ app'[a].stops = over[a].stops
      BY <1>3, <1>4, <3>1, DropsApp
    <3> QED BY <1>4, <2>2, <3>1, <3>2
  <2> QED BY <2>1, <2>2
<1>7. Typing'
  BY <1>1, <1>6 DEF ManagerInv, Typing, mvars, bounds
<1>8. AppInv'
  <2>1. One(Owned(a)') + app'[a].threads + app[a].refs
          <= One(Owned(a)) + app[a].threads + app'[a].refs
    BY <1>3, <1>5, <1>6
  <2>2. app[a].model = "out" =>
          app'[a].stops + app'[a].threads + One(Owned(a)')
            <= app[a].stops + app[a].threads + One(Owned(a))
    BY <1>3, <1>5, <1>6
  <2>3. app'[a].refs > 0 => app[a].refs > 0 /\ app'[a].st \in {app[a].st, "stopped"}
    BY <1>3, <1>6
  <2>4. \A i \in Infos : /\ info'[i].app \in {info[i].app, None}
                         /\ info[i].app # None => info'[i].model = info[i].model
    BY <1>1
  <2>5. \A b \in Apps \ {a} : app'[b] = app[b] /\ Owned(b)' = Owned(b)
    BY <1>5, <1>6
  <2> QED BY <1>1, <1>6, <1>7, <2>1, <2>2, <2>3, <2>4, <2>5, OneAppChanges
<1>9. Changing'
  BY <1>1 DEF ManagerInv, Changing, mvars
<1>10. \A i \in Infos : Updates(i)' => Updates(i)
  BY <1>1 DEF Updates
<1>11. Copied' = Copied
  BY <1>1 DEF Copied
<1> QED BY <1>1, <1>7, <1>8, <1>9, <1>10, <1>11, OwnerStep DEF mvars, bounds

(* RecycleApplication by the watcher and by a configuration change.        *)
LEMMA WatcherRecyclesStep ==
  ASSUME ManagerInv, WatcherRecycles
  PROVE  ManagerInv'
<1>1. /\ w.pc = "recycle" /\ RecycleApplication(w.e) /\ w' = [w EXCEPT !.pc = "release"]
      /\ UNCHANGED <<hosting, inShutdown, mvars, watcher, rh, entry, file, req, c, s, bounds>>
  BY DEF WatcherRecycles
<1>2. w.e \in Infos
  BY <1>1 DEF ManagerInv, UsedObjects, EntryPlaces
<1>3. w' \in WatcherType /\ w'.pc = "release" /\ w'.e = w.e
  BY <1>1 DEF ManagerInv, Typing, WatcherType, EntryPlaces
<1>4. RecycledFrom(w.e) /\ (UNCHANGED req /\ Typing' => AppInv')
  BY <1>1, <1>2, Recycles
<1>5. Typing'
  BY <1>1, <1>3, <1>4 DEF ManagerInv, Typing, RecycledFrom, mvars, bounds
<1>6. Changing'
  BY <1>1 DEF ManagerInv, Changing, mvars
<1>7. \A i \in Infos : Updates(i)' => Updates(i)
  BY <1>1, <1>3 DEF Updates
<1>8. Copied' = Copied
  BY <1>1 DEF Copied
<1>9. w.pc \in EntryPlaces
  BY <1>1 DEF EntryPlaces
<1> QED BY <1>1, <1>3, <1>4, <1>5, <1>6, <1>7, <1>8, <1>9, OwnerStep
  DEF RecycledFrom, mvars, bounds

LEMMA RecycleFound ==
  ASSUME ManagerInv, RecycleChanged,
         \E i \in c.todo : RecycleApplication(i) /\ c' = [c EXCEPT !.todo = @ \ {i}]
  PROVE  ManagerInv'
<1>1. PICK i \in c.todo : RecycleApplication(i) /\ c' = [c EXCEPT !.todo = @ \ {i}]
  OBVIOUS
<1>2. /\ c.pc = "paths"
      /\ UNCHANGED <<hosting, inShutdown, mvars, watcher, rh, entry, file, req, w, s, bounds>>
  BY DEF RecycleChanged
<1>3. /\ i \in Infos /\ c' \in ChangeType
      /\ c'.pc = c.pc /\ c'.path = c.path /\ c'.copy = c.copy /\ c'.keep = c.keep
  BY <1>1 DEF ManagerInv, Typing, ChangeType
<1>4. RecycledFrom(i) /\ (UNCHANGED req /\ Typing' => AppInv')
  BY <1>1, <1>3, Recycles
<1>5. Typing'
  BY <1>2, <1>3, <1>4 DEF ManagerInv, Typing, RecycledFrom, mvars, bounds
<1>6. Changing'
  BY <1>2, <1>3 DEF ManagerInv, Changing, mvars
<1>7. \A j \in Infos : Updates(j)' => Updates(j)
  BY <1>2 DEF Updates
<1>8. Copied' = Copied
  BY <1>3 DEF Copied
<1> QED BY <1>2, <1>4, <1>5, <1>6, <1>7, <1>8, OwnerStep DEF RecycledFrom, mvars, bounds

(* A kept copy that the shutdown has cleared: nothing is found in it.       *)
LEMMA RecycleNothing ==
  ASSUME ManagerInv, RecycleChanged, c.keep,
         c' = [c EXCEPT !.pc = "faulted", !.todo = {}, !.copy = {}, !.keep = FALSE],
         UNCHANGED <<info, app, recycling>>
  PROVE  ManagerInv'
<1>1. /\ c.pc = "paths"
      /\ UNCHANGED <<hosting, inShutdown, mvars, watcher, rh, entry, file, req, w, s, bounds>>
  BY DEF RecycleChanged
<1>2. /\ c' \in ChangeType /\ c'.pc = "faulted" /\ c'.path = c.path
      /\ c'.copy = {} /\ ~c'.keep
  BY DEF ManagerInv, Typing, ChangeType
<1>3. Typing'
  BY <1>1, <1>2 DEF ManagerInv, Typing, mvars, bounds
<1>4. Changing'
  BY <1>1, <1>2 DEF ManagerInv, Changing, mvars
<1>5. Copied' = Copied
  BY <1>2 DEF Copied
<1>6. InfoCounted' /\ HeldAreLive'
  BY <1>1, <1>5 DEF ManagerInv, InfoCounted, HeldAreLive, Holders, RequestsOf, Updates, mvars
<1>7. UsedObjects' /\ AppCounted' /\ AppLives' /\ OneOwner' /\ StopsOnce' /\ RunningIsKnown'
  BY <1>1 DEF ManagerInv, UsedObjects, AppCounted, AppLives, OneOwner, StopsOnce,
              RunningIsKnown, Owned, UsersOf, mvars
<1>8. RequestPlaces' /\ Making' /\ Initializing' /\ OneHostingModel' /\ PagesLoaded'
  BY <1>1 DEF ManagerInv, RequestPlaces, Making, Initializing, OneHostingModel,
              PagesLoaded, OfflinePageIsLoaded, mvars, bounds
<1> QED BY <1>3, <1>4, <1>6, <1>7, <1>8 DEF ManagerInv

LEMMA RecycleChangedStep ==
  ASSUME ManagerInv, RecycleChanged
  PROVE  ManagerInv'
<1>1. \/ \E i \in c.todo : RecycleApplication(i) /\ c' = [c EXCEPT !.todo = @ \ {i}]
      \/ /\ c.keep
         /\ c' = [c EXCEPT !.pc = "faulted", !.todo = {}, !.copy = {}, !.keep = FALSE]
         /\ UNCHANGED <<info, app, recycling>>
  BY DEF RecycleChanged
<1> QED BY <1>1, RecycleFound, RecycleNothing

-----------------------------------------------------------------------------
(* The destructor of an APPLICATION_INFO.                                  *)
LEMMA DestroyStep ==
  ASSUME ManagerInv, NEW i \in Infos, Destroy(i)
  PROVE  ManagerInv'
<1>a. PICK a : a = info[i].app
  OBVIOUS
<1>1. /\ info[i].st = "dying"
      /\ entry' = [entry EXCEPT ![i].dir = FALSE,
                                ![i].refs = @ - (IF entry[i].dir THEN 2 ELSE 1)]
      /\ info' = [info EXCEPT ![i].st = "dead", ![i].app = None]
      /\ app' = IF a = None THEN app ELSE AppDrop(Stop(app, a), a)
      /\ UNCHANGED <<hosting, inShutdown, recycling, mvars, watcher, rh, file, req,
                     w, c, s, bounds>>
  BY <1>a DEF Destroy
<1>2. info \in [Infos -> InfoType] /\ app \in [Apps -> ApplicationType]
      /\ entry \in [Infos -> EntryType]
  BY DEF ManagerInv, Typing
<1>3. /\ info' \in [Infos -> InfoType] /\ info'[i].app = None /\ info'[i].st = "dead"
      /\ info'[i].model = info[i].model
      /\ \A j \in Infos \ {i} : info'[j] = info[j]
      /\ \A j \in Infos :
           /\ info'[j].refs = info[j].refs /\ info'[j].key = info[j].key
           /\ info'[j].model = info[j].model /\ info'[j].offline = info[j].offline
           /\ info'[j].page = info[j].page /\ info'[j].lock = info[j].lock
           /\ info'[j].app \in {info[j].app, None}
  <2>1. info[i] \in InfoType
    BY <1>2
  <2>2. /\ info'[i] = [info[i] EXCEPT !.st = "dead", !.app = None]
        /\ \A j \in Infos \ {i} : info'[j] = info[j]
    BY <1>1, <1>2
  <2>3. /\ info'[i] \in InfoType /\ info'[i].app = None /\ info'[i].st = "dead"
        /\ info'[i].refs = info[i].refs /\ info'[i].key = info[i].key
        /\ info'[i].model = info[i].model /\ info'[i].offline = info[i].offline
        /\ info'[i].page = info[i].page /\ info'[i].lock = info[i].lock
    BY <2>1, <2>2 DEF InfoType
  <2>4. info' \in [Infos -> InfoType]
    BY <1>1, <1>2, <2>2, <2>3
  <2> QED BY <2>2, <2>3, <2>4
<1>4. entry' \in [Infos -> EntryType] /\ \A j \in Infos : entry'[j].io = entry[j].io
  <2> DEFINE n == entry[i].refs - (IF entry[i].dir THEN 2 ELSE 1)
  <2>1. n \in Int /\ entry[i] \in EntryType
    BY <1>2 DEF EntryType
  <2> HIDE DEF n
  <2>2. /\ entry'[i] = [entry[i] EXCEPT !.dir = FALSE, !.refs = n]
        /\ \A j \in Infos \ {i} : entry'[j] = entry[j]
    BY <1>1, <1>2 DEF n
  <2>3. entry'[i] \in EntryType /\ entry'[i].io = entry[i].io
    BY <2>1, <2>2 DEF EntryType
  <2> QED BY <1>1, <1>2, <2>2, <2>3
<1>5. app' \in [Apps -> ApplicationType] /\ (Typing' => AppInv')
  <2>1. CASE a = None
    <3>1. \A j \in Infos : info'[j].app = info[j].app
      BY <1>a, <1>3, <2>1
    <3>2. app' = app
      BY <1>1, <2>1
    <3>3. AppInv'
      BY <1>1, <1>3, <3>1, <3>2, AppsKept
    <3> QED BY <1>2, <3>2, <3>3
  <2>2. CASE a # None
    <3>1. a \in Apps /\ Owned(a) /\ app' = AppDrop(Stop(app, a), a)
      BY <1>a, <1>1, <1>2, <2>2 DEF InfoType, Owned
    <3>2. app[a].refs >= 1
      BY <3>1, HeldApps, AppNumbers DEF ManagerInv
    <3>3. Stop(app, a) \in [Apps -> ApplicationType] /\ Stop(app, a)[a].refs = app[a].refs
      BY <1>2, <3>1, StopsApp
    <3>4. app' \in [Apps -> ApplicationType]
      BY <3>1, <3>2, <3>3, DropsApp
    <3>5. Typing' => AppInv'
      BY <1>a, <1>1, <1>3, <3>1, StopsOwned
    <3> QED BY <3>4, <3>5
  <2> QED BY <2>1, <2>2
<1>6. Typing'
  BY <1>1, <1>3, <1>4, <1>5 DEF ManagerInv, Typing, mvars, bounds
<1>7. Changing'
  BY <1>1 DEF ManagerInv, Changing, mvars
<1>8. \A j \in Infos : Updates(j)' => Updates(j)
  BY <1>1 DEF Updates
<1>9. Copied' = Copied
  BY <1>1 DEF Copied
<1>10. \A j \in Infos : \/ info'[j].st = info[j].st
                        \/ info[j].st = "dying" /\ info'[j].st = "dead" /\ info'[j].app = None
  BY <1>1, <1>3
<1> QED BY <1>1, <1>3, <1>4, <1>5, <1>6, <1>7, <1>8, <1>9, <1>10, OwnerStep
  DEF mvars, bounds

LEMMA ShutDownApplicationStep ==
  ASSUME ManagerInv, ShutDownApplication
  PROVE  ManagerInv'
<1>1. PICK i \in s.todo :
        /\ s' = [s EXCEPT !.todo = @ \ {i}]
        /\ IF info[i].app = None THEN UNCHANGED <<info, app>>
           ELSE /\ ~info[i].lock
                /\ info' = [info EXCEPT ![i].app = None]
                /\ app' = AppDrop(Stop(app, info[i].app), info[i].app)
  BY DEF ShutDownApplication
<1>2. /\ s.pc = "apps"
      /\ UNCHANGED <<hosting, inShutdown, recycling, mvars, watcher, rh, entry, file, req,
                     w, c, bounds>>
  BY DEF ShutDownApplication
<1>3. i \in Infos /\ s' \in ShutdownType /\ s'.pc = s.pc
  BY <1>1 DEF ManagerInv, Typing, ShutdownType
<1>4. Changing'
  BY <1>2, <1>3 DEF ManagerInv, Changing, mvars
<1>5. \A j \in Infos : Updates(j)' => Updates(j)
  BY <1>2 DEF Updates
<1>6. Copied' = Copied
  BY <1>2 DEF Copied
<1>7. info \in [Infos -> InfoType] /\ app \in [Apps -> ApplicationType]
  BY DEF ManagerInv, Typing
<1>a. PICK a : a = info[i].app
  OBVIOUS
<1>8. CASE a = None
  <2>1. UNCHANGED <<info, app>>
    BY <1>a, <1>1, <1>8
  <2>2. Typing'
    BY <1>2, <1>3, <2>1 DEF ManagerInv, Typing, mvars, bounds
  <2>3. AppInv'
    BY <1>2, <2>1, AppsKept
  <2> QED BY <1>2, <1>4, <1>5, <1>6, <2>1, <2>2, <2>3, OwnerStep DEF mvars, bounds
<1>9. CASE a # None
  <2>1. /\ info' = [info EXCEPT ![i].app = None] /\ app' = AppDrop(Stop(app, a), a)
        /\ a \in Apps /\ Owned(a)
    BY <1>a, <1>1, <1>3, <1>7, <1>9 DEF InfoType, Owned
  <2>2. /\ info' \in [Infos -> InfoType] /\ info'[i].app = None
        /\ \A j \in Infos \ {i} : info'[j] = info[j]
        /\ \A j \in Infos :
              /\ info'[j].refs = info[j].refs /\ info'[j].key = info[j].key
              /\ info'[j].model = info[j].model /\ info'[j].offline = info[j].offline
              /\ info'[j].page = info[j].page /\ info'[j].lock = info[j].lock
              /\ info'[j].st = info[j].st /\ info'[j].app \in {info[j].app, None}
    BY <1>3, <2>1, DisownFields DEF ManagerInv
  <2>3. app[a].refs >= 1
    BY <2>1, HeldApps, AppNumbers DEF ManagerInv
  <2>4. Stop(app, a) \in [Apps -> ApplicationType] /\ Stop(app, a)[a].refs = app[a].refs
    BY <1>7, <2>1, StopsApp
  <2>5. app' \in [Apps -> ApplicationType]
    BY <2>1, <2>3, <2>4, DropsApp
  <2>6. Typing'
    BY <1>2, <1>3, <2>2, <2>5 DEF ManagerInv, Typing, mvars, bounds
  <2>7. AppInv'
    BY <1>a, <1>2, <1>3, <2>1, <2>2, <2>6, StopsOwned
  <2> QED BY <1>2, <1>4, <1>5, <1>6, <2>2, <2>6, <2>7, OwnerStep DEF mvars, bounds
<1> QED BY <1>8, <1>9

-----------------------------------------------------------------------------
(* A step of the watcher that only touches its entry.                      *)
LEMMA EntryStep ==
  ASSUME ManagerInv, entry' \in [Infos -> EntryType], w' \in WatcherType,
         \A i \in Infos : entry'[i].io => info[i].st # "unused",
         w'.pc \in EntryPlaces => w'.e \in Infos /\ info[w'.e].st # "unused",
         \A i \in Infos : Updates(i)' => Updates(i),
         UNCHANGED <<hosting, inShutdown, recycling, mgrLock, table, hashUp, hostingModel,
                     rh, info, app, file, req, c, flips>>,
         watcher' \in BOOLEAN, s' \in ShutdownType,
         s'.pc \in {"apps", "clear"} => s.pc \in {"apps", "clear"},
         s.pc \in {"clear", "done"} => s'.pc \in {"clear", "done"}
  PROVE  ManagerInv'
<1>1. Typing'
  BY DEF ManagerInv, Typing
<1>2. InfoCounted'
  <2>1. \A i : RequestsOf(i)' = RequestsOf(i)
    BY DEF RequestsOf
  <2>2. \A i : Holders(i)' = Holders(i)
    BY <2>1 DEF Holders, Copied
  <2>3. \A i \in Infos : /\ One(Updates(i)') <= One(Updates(i))
                         /\ One(Updates(i)) \in Nat /\ One(Updates(i)') \in Nat
    BY DEF One
  <2>4. \A i \in Infos : /\ Holders(i) \in Nat /\ info[i].refs \in Nat
                         /\ Holders(i) + One(Updates(i)) <= info[i].refs
    BY HoldersNumber, RefsNumber DEF ManagerInv, InfoCounted
  <2>5. \A i \in Infos : Holders(i)' + One(Updates(i)') <= info'[i].refs
    BY <2>2, <2>3, <2>4
  <2> QED BY <2>5 DEF InfoCounted
<1>3. HeldAreLive'
  BY DEF ManagerInv, HeldAreLive, Copied
<1>4. UsedObjects'
  BY DEF ManagerInv, UsedObjects
<1>5. AppInv'
  BY AppsKept
<1>6. RequestPlaces' /\ Making' /\ PagesLoaded'
  BY PlacesKept
<1>7. Initializing' /\ OneHostingModel'
  BY InitKept
<1>8. Changing'
  BY DEF ManagerInv, Changing
<1> QED BY <1>1, <1>2, <1>3, <1>4, <1>5, <1>6, <1>7, <1>8 DEF ManagerInv, AppInv

LEMMA DequeueStep ==
  ASSUME ManagerInv, NEW i \in Infos, Dequeue(i)
  PROVE  ManagerInv'
<1>1. /\ entry[i].io /\ w' = [pc |-> "handle", e |-> i]
      /\ entry' = [entry EXCEPT ![i].io = FALSE, ![i].dirty = FALSE]
      /\ UNCHANGED <<hosting, inShutdown, recycling, mvars, watcher, rh, info, app, file,
                     req, c, s, bounds>>
  BY DEF Dequeue
<1>2. /\ entry' \in [Infos -> EntryType] /\ w' \in WatcherType
      /\ \A j \in Infos : entry'[j].io => entry[j].io
  BY <1>1, ZenonT(40) DEF ManagerInv, Typing, EntryType, WatcherType, EntryPlaces
<1>3. \A j \in Infos : entry[j].io => info[j].st # "unused"
  BY DEF ManagerInv, UsedObjects
<1>4. \A j \in Infos : ~Updates(j)'
  BY <1>1 DEF Updates
<1> QED BY <1>1, <1>2, <1>3, <1>4, EntryStep DEF mvars, bounds, ManagerInv, Typing

LEMMA HandleStep ==
  ASSUME ManagerInv, HandleChangeCompletion
  PROVE  ManagerInv'
<1> DEFINE i == w.e
<1>1. /\ w.pc = "handle"
      /\ \/ w' = [w EXCEPT !.pc = "update"] /\ entry' = [entry EXCEPT ![i].lock = TRUE]
         \/ w' = [w EXCEPT !.pc = "again"] /\ UNCHANGED entry
      /\ UNCHANGED <<hosting, inShutdown, recycling, mvars, watcher, rh, info, app, file,
                     req, c, s, bounds>>
  BY DEF HandleChangeCompletion
<1>2. i \in Infos /\ info[i].st # "unused"
  BY <1>1 DEF ManagerInv, UsedObjects, EntryPlaces
<1>3. w' \in WatcherType /\ w'.e = i /\ w'.pc \in {"update", "again"}
  BY <1>1 DEF ManagerInv, Typing, WatcherType, EntryPlaces
<1> HIDE DEF i
<1>4. entry' \in [Infos -> EntryType] /\ \A j \in Infos : entry'[j].io = entry[j].io
  <2>1. entry \in [Infos -> EntryType] /\ entry[i] \in EntryType
    BY <1>2 DEF ManagerInv, Typing
  <2>2. CASE UNCHANGED entry
    BY <2>1, <2>2
  <2>3. CASE entry' = [entry EXCEPT ![i].lock = TRUE]
    <3>1. /\ entry'[i] = [entry[i] EXCEPT !.lock = TRUE]
          /\ \A j \in Infos \ {i} : entry'[j] = entry[j]
          /\ entry' = [j \in Infos |-> entry'[j]]
      BY <1>2, <2>1, <2>3
    <3>2. entry'[i] \in EntryType /\ entry'[i].io = entry[i].io
      BY <2>1, <3>1 DEF EntryType
    <3> QED BY <2>1, <3>1, <3>2
  <2> QED BY <1>1, <2>2, <2>3 DEF i
<1>5. \A j \in Infos : entry[j].io => info[j].st # "unused"
  BY DEF ManagerInv, UsedObjects
<1>6. \A j \in Infos : ~Updates(j)'
  BY <1>3 DEF Updates
<1> QED BY <1>1, <1>2, <1>3, <1>4, <1>5, <1>6, EntryStep DEF mvars, bounds, ManagerInv, Typing

LEMMA MonitorStep ==
  ASSUME ManagerInv, MonitorAgain
  PROVE  ManagerInv'
<1> DEFINE i == w.e
           on == entry[i].valid /\ entry[i].dir
           n == IF on THEN entry[i].refs ELSE entry[i].refs - 1
<1>1. /\ w.pc = "again"
      /\ entry' = [entry EXCEPT ![i].io = on, ![i].refs = IF on THEN @ ELSE @ - 1]
      /\ w' = [w EXCEPT !.pc = "wait"]
      /\ UNCHANGED <<hosting, inShutdown, recycling, mvars, watcher, rh, info, app, file,
                     req, c, s, bounds>>
  BY DEF MonitorAgain
<1>2. i \in Infos /\ info[i].st # "unused"
  BY <1>1 DEF ManagerInv, UsedObjects, EntryPlaces
<1>3. w' \in WatcherType /\ w'.pc = "wait"
  BY <1>1 DEF ManagerInv, Typing, WatcherType
<1>4. entry \in [Infos -> EntryType] /\ entry[i] \in EntryType
  BY <1>2 DEF ManagerInv, Typing
<1>5. on \in BOOLEAN /\ n \in Int
  BY <1>4 DEF EntryType
<1>6. /\ entry'[i] = [entry[i] EXCEPT !.io = on, !.refs = n]
      /\ \A j \in Infos \ {i} : entry'[j] = entry[j]
      /\ entry' = [j \in Infos |-> entry'[j]]
  BY <1>1, <1>2, <1>4
<1> HIDE DEF i, on, n
<1>7. entry'[i] \in EntryType
  BY <1>4, <1>5, <1>6 DEF EntryType
<1>8. entry' \in [Infos -> EntryType]
  BY <1>4, <1>6, <1>7
<1>9. \A j \in Infos : entry'[j].io => info[j].st # "unused"
  BY <1>2, <1>6 DEF ManagerInv, UsedObjects
<1>10. \A j \in Infos : ~Updates(j)'
  BY <1>3 DEF Updates
<1>11. w'.pc \notin EntryPlaces
  BY <1>3 DEF EntryPlaces
<1> QED BY <1>1, <1>3, <1>8, <1>9, <1>10, <1>11, EntryStep DEF mvars, bounds, ManagerInv, Typing

LEMMA DeleteWatcherStep ==
  ASSUME ManagerInv, DeleteWatcher
  PROVE  ManagerInv'
<1>1. /\ s.pc = "watcher" /\ watcher' = FALSE
      /\ w' = [w EXCEPT !.pc = IF w.pc = "wait" THEN "exited" ELSE "terminated"]
      /\ s' = [s EXCEPT !.pc = "lock"]
      /\ UNCHANGED <<hosting, inShutdown, recycling, mvars, rh, info, entry, app, file, req,
                     c, bounds>>
  BY DEF DeleteWatcher
<1>2. /\ w' \in WatcherType /\ w'.pc \in {"exited", "terminated"}
      /\ s' \in ShutdownType /\ s'.pc = "lock"
  BY <1>1 DEF ManagerInv, Typing, WatcherType, ShutdownType
<1>3. w'.pc \notin EntryPlaces /\ \A j \in Infos : ~Updates(j)'
  BY <1>2 DEF EntryPlaces, Updates
<1>4. \A j \in Infos : entry'[j].io => info[j].st # "unused"
  BY <1>1 DEF ManagerInv, UsedObjects
<1> QED BY <1>1, <1>2, <1>3, <1>4, EntryStep DEF mvars, bounds, ManagerInv, Typing

LEMMA FlipStep ==
  ASSUME ManagerInv, NEW k \in Keys, Flip(k)
  PROVE  ManagerInv'
<1>1. /\ flips' = flips + 1 /\ file' = [file EXCEPT ![k] = ~@]
      /\ entry' = [i \in Infos |-> IF info[i].key = k /\ entry[i].dir
                                   THEN [entry[i] EXCEPT !.dirty = TRUE] ELSE entry[i]]
      /\ UNCHANGED <<hosting, inShutdown, recycling, mvars, watcher, rh, info, app, req,
                     w, c, s>>
  BY DEF Flip
<1>2. /\ entry' \in [Infos -> EntryType]
      /\ \A i \in Infos : entry'[i].io = entry[i].io
  <2>1. \A i \in Infos : entry[i] \in EntryType
    BY DEF ManagerInv, Typing
  <2>2. ASSUME NEW i \in Infos PROVE entry'[i] \in EntryType /\ entry'[i].io = entry[i].io
    <3>1. entry'[i] \in {entry[i], [entry[i] EXCEPT !.dirty = TRUE]}
      BY <1>1
    <3> QED BY <2>1, <3>1 DEF EntryType
  <2>3. entry' = [i \in Infos |-> entry'[i]]
    BY <1>1
  <2> QED BY <2>2, <2>3
<1>3. flips \in Nat /\ file \in [Keys -> BOOLEAN]
  BY DEF ManagerInv, Typing
<1>4. file' \in [Keys -> BOOLEAN] /\ flips' \in Nat /\ flips' > 0
  BY <1>1, <1>3
<1>5. Typing'
  BY <1>1, <1>2, <1>4 DEF ManagerInv, Typing, mvars
<1>6. InfoCounted' /\ HeldAreLive' /\ UsedObjects'
  <2>1. \A j \in Infos : Updates(j)' => Updates(j)
    BY <1>1 DEF Updates
  <2>2. Copied' = Copied
    BY <1>1 DEF Copied
  <2> QED BY <1>1, <1>2, <1>5, <2>1, <2>2, InfoKept DEF mvars
<1>7. AppInv'
  BY <1>1, AppsKept
<1>8. RequestPlaces' /\ Making'
  BY <1>1 DEF ManagerInv, RequestPlaces, Making
<1>9. PagesLoaded'
  BY <1>1, <1>4 DEF ManagerInv, PagesLoaded, OfflinePageIsLoaded
<1>10. Initializing' /\ OneHostingModel'
  BY <1>1, InitKept DEF mvars
<1>11. Changing'
  BY <1>1 DEF ManagerInv, Changing, mvars
<1> QED BY <1>5, <1>6, <1>7, <1>8, <1>9, <1>10, <1>11 DEF ManagerInv, AppInv

-----------------------------------------------------------------------------
(* UpdateAppOfflineFileHandle holds a reference while it works.            *)
LEMMA UpdateStep ==
  ASSUME ManagerInv, UpdateAppOfflineFileHandle
  PROVE  ManagerInv'
<1>a. PICK i : i = w.e
  OBVIOUS
<1>1. /\ w.pc = "update"
      /\ UNCHANGED <<hosting, inShutdown, recycling, mvars, watcher, rh, entry, app, file,
                     req, c, s, bounds>>
      /\ \/ /\ file[info[i].key]
            /\ info' = [info EXCEPT ![i].refs = @ + 1, ![i].page = flips, ![i].offline = TRUE]
            /\ w' \in {[w EXCEPT !.pc = "recycle"], [w EXCEPT !.pc = "release"]}
         \/ /\ info' = [info EXCEPT ![i].refs = @ + 1, ![i].offline = FALSE]
            /\ w' = [w EXCEPT !.pc = "release"]
  BY <1>a DEF UpdateAppOfflineFileHandle, PageBeforeFlag
<1>2. i \in Infos /\ info[i].st # "unused" /\ info[i].key \in Keys
  BY <1>a, <1>1 DEF ManagerInv, UsedObjects, EntryPlaces
<1>3. flips \in Nat /\ (file[info[i].key] => flips > 0)
  BY <1>2 DEF ManagerInv, Typing, PagesLoaded
<1>4. w' \in WatcherType /\ w'.pc \in {"recycle", "release"} /\ w'.e = i
  BY <1>a, <1>1 DEF ManagerInv, Typing, WatcherType, EntryPlaces
<1>5. info \in [Infos -> InfoType] /\ info[i] \in InfoType /\ info[i].refs + 1 \in Nat
  BY <1>2 DEF ManagerInv, Typing, InfoType
<1>6. /\ info'[i] \in InfoType /\ info'[i].refs = info[i].refs + 1
      /\ info'[i].st = info[i].st /\ info'[i].key = info[i].key
      /\ info'[i].model = info[i].model /\ info'[i].app = info[i].app
      /\ info'[i].lock = info[i].lock
      /\ info'[i].offline => info'[i].page > 0
      /\ info'[i].page = info[i].page \/ info'[i].page > 0
  <2>1. CASE /\ file[info[i].key]
             /\ info' = [info EXCEPT ![i].refs = @ + 1, ![i].page = flips, ![i].offline = TRUE]
    <3>1. info'[i] = [info[i] EXCEPT !.refs = @ + 1, !.page = flips, !.offline = TRUE]
      BY <1>2, <1>5, <2>1
    <3>2. PICK n : n = flips
      OBVIOUS
    <3>3. n \in Nat /\ n > 0
      BY <1>3, <2>1, <3>2
    <3>4. info'[i] = [info[i] EXCEPT !.refs = @ + 1, !.page = n, !.offline = TRUE]
      BY <3>1, <3>2
    <3> QED BY <1>5, <3>3, <3>4 DEF InfoType
  <2>2. CASE info' = [info EXCEPT ![i].refs = @ + 1, ![i].offline = FALSE]
    <3>1. info'[i] = [info[i] EXCEPT !.refs = @ + 1, !.offline = FALSE]
      BY <1>2, <1>5, <2>2
    <3> QED BY <1>5, <3>1 DEF InfoType
  <2> QED BY <1>1, <2>1, <2>2
<1>7. \A j \in Infos \ {i} : info'[j] = info[j]
  BY <1>1, <1>5
<1>8. info' \in [Infos -> InfoType]
  <2>1. info' = [j \in Infos |-> info'[j]]
    BY <1>1, <1>5
  <2> QED BY <1>5, <1>6, <1>7, <2>1
<1>9. Typing'
  BY <1>1, <1>4, <1>8 DEF ManagerInv, Typing, mvars, bounds
<1>10. InfoCounted' /\ HeldAreLive' /\ UsedObjects'
  <2>1. \A j \in Infos : RequestsOf(j)' = RequestsOf(j)
    BY <1>1 DEF RequestsOf
  <2>2. \A j \in Infos : Holders(j)' = Holders(j)
    BY <1>1, <2>1 DEF Holders, Copied, mvars
  <2>3. \A j \in Infos : Holders(j) \in Nat /\ info[j].refs \in Nat
    BY HoldersNumber, RefsNumber DEF ManagerInv
  <2>4. \A j \in Infos : One(Updates(j)) = 0 /\ One(Updates(j)') = One(j = i)
    BY <1>1, <1>4 DEF Updates, One
  <2>5. \A j \in Infos : info'[j].refs = info[j].refs + One(j = i) /\ One(j = i) \in Nat
    BY <1>6, <1>7, <2>3 DEF One
  <2>6. \A j \in Infos : Holders(j)' + One(Updates(j)') + info[j].refs
                         <= Holders(j) + One(Updates(j)) + info'[j].refs
    BY <2>2, <2>3, <2>4, <2>5
  <2>7. \A j \in Infos : info'[j].st = info[j].st
    BY <1>6, <1>7
  <2>8. \A j \in Infos : info'[j].key = info[j].key /\ info'[j].app \in {info[j].app, None}
    BY <1>6, <1>7
  <2>9. w.pc \in EntryPlaces /\ w'.e = w.e
    BY <1>a, <1>1, <1>4 DEF EntryPlaces
  <2> QED BY <1>1, <1>9, <2>2, <2>6, <2>7, <2>8, <2>9, InfoSide
<1>11. AppInv'
  BY <1>1, <1>6, <1>7, AppsKept
<1>12. \A q \in Requests : req[q].pc \in InfoPlaces => req[q].inf \in Infos
  BY DEF ManagerInv, RequestPlaces
<1>13. RequestPlaces' /\ Making'
  <2>1. \A j \in Infos : info'[j].app = info[j].app /\ info'[j].lock = info[j].lock
    BY <1>6, <1>7
  <2> QED BY <1>1, <1>12, <2>1 DEF ManagerInv, RequestPlaces, Making, InfoPlaces
<1>14. PagesLoaded'
  BY <1>1, <1>6, <1>7, <1>12
  DEF ManagerInv, PagesLoaded, OfflinePageIsLoaded, InfoPlaces, bounds
<1>15. Initializing' /\ OneHostingModel'
  BY <1>1, <1>6, <1>7, InitKept DEF mvars
<1>16. Changing'
  BY <1>1 DEF ManagerInv, Changing, mvars
<1> QED BY <1>9, <1>10, <1>11, <1>13, <1>14, <1>15, <1>16 DEF ManagerInv, AppInv

-----------------------------------------------------------------------------
(* Several records lose a reference together with a holder.                *)
LEMMA DropStep ==
  ASSUME ManagerInv, NEW S \in SUBSET Infos, info' = Drop(info, S),
         \A i \in S : info[i].st # "unused",
         \A i \in Infos : Holders(i)' + One(Updates(i)') + One(i \in S)
                          <= Holders(i) + One(Updates(i)),
         \A i \in Infos : Holders(i)' # 0 => Holders(i) # 0,
         entry' \in [Infos -> EntryType], \A i \in Infos : entry'[i].io = entry[i].io,
         w' \in WatcherType, c' \in ChangeType, s' \in ShutdownType,
         w'.pc \in EntryPlaces => w'.e = w.e /\ w.pc \in EntryPlaces,
         table' \in SUBSET table, table' = table \/ mgrLock = "shutdown", Changing',
         UNCHANGED <<hosting, inShutdown, recycling, mgrLock, hashUp, hostingModel, watcher,
                     rh, app, file, req, flips>>
  PROVE  ManagerInv'
<1>1. \A i \in Infos : /\ info[i].refs \in Nat /\ One(Updates(i)) \in Nat
                       /\ Holders(i) \in Nat /\ Holders(i)' \in Nat /\ One(i \in S) \in Nat
                       /\ One(Updates(i)') \in Nat
                       /\ Holders(i) + One(Updates(i)) <= info[i].refs
  BY RefsNumber, HoldersNumber, HoldersNumberNext DEF ManagerInv, One, InfoCounted
<1>2. \A i \in S : info[i].refs >= 1
  <2> SUFFICES ASSUME NEW i \in S PROVE info[i].refs >= 1
    OBVIOUS
  <2>1. i \in Infos /\ One(i \in S) = 1
    BY DEF One
  <2> QED BY <1>1, <2>1
<1>3. /\ info' \in [Infos -> InfoType] /\ SameData
      /\ \A i \in Infos : /\ info'[i].refs = info[i].refs - One(i \in S)
                          /\ info'[i].st = IF i \in S /\ info[i].refs = 1 THEN "dying"
                                           ELSE info[i].st
  BY <1>2, Drops DEF ManagerInv
<1>4. Typing'
  BY <1>3 DEF ManagerInv, Typing
<1>5. InfoCounted' /\ HeldAreLive' /\ UsedObjects'
  <2>1. \A i \in Infos : Holders(i)' + One(Updates(i)') + info[i].refs
                         <= Holders(i) + One(Updates(i)) + info'[i].refs
    BY <1>1, <1>3
  <2>2. \A i \in Infos : \/ info'[i].st = info[i].st
                         \/ /\ info'[i].st = "dying" /\ info'[i].refs = 0
                            /\ info[i].st # "unused"
    BY <1>3 DEF One
  <2>3. \A i \in Infos : info'[i].key = info[i].key /\ info'[i].app \in {info[i].app, None}
    BY <1>3 DEF SameData
  <2> QED BY <1>4, <2>1, <2>2, <2>3, InfoSide
<1>6. AppInv'
  BY <1>3, AppsKept DEF SameData
<1>7. RequestPlaces' /\ Making' /\ PagesLoaded'
  BY <1>3, PlacesKept DEF SameData
<1>8. OneHostingModel'
  <2>1. table \subseteq Infos
    BY DEF ManagerInv, Typing
  <2> QED BY <1>3, <2>1 DEF ManagerInv, OneHostingModel, SameData
<1>9. Initializing'
  <2>1. CASE table' = table
    BY <1>3, <2>1, InitKept DEF SameData
  <2>2. CASE mgrLock = "shutdown"
    BY <2>2, InitFree
  <2> QED BY <2>1, <2>2
<1> QED BY <1>4, <1>5, <1>6, <1>7, <1>8, <1>9 DEF ManagerInv, AppInv

LEMMA WatcherReleasesStep ==
  ASSUME ManagerInv, WatcherReleases
  PROVE  ManagerInv'
<1>a. PICK i : i = w.e
  OBVIOUS
<1> DEFINE last == info[i].refs = 1
           mark == Marked(entry, info, {i})
<1>1. /\ w.pc = "release" /\ info' = Drop(info, {i})
      /\ entry' = [mark EXCEPT ![i].lock = last]
      /\ w' = [w EXCEPT !.pc = IF last THEN "stuck" ELSE "again"]
      /\ UNCHANGED <<hosting, inShutdown, recycling, mvars, watcher, rh, app, file, req,
                     c, s, bounds>>
  BY <1>a DEF WatcherReleases
<1>2. i \in Infos /\ info[i].st # "unused"
  BY <1>a, <1>1 DEF ManagerInv, UsedObjects, EntryPlaces
<1>3. w' \in WatcherType /\ w'.pc \in {"stuck", "again"} /\ w'.e = w.e /\ w.pc \in EntryPlaces
  BY <1>1 DEF ManagerInv, Typing, WatcherType, EntryPlaces
<1>4. last \in BOOLEAN
  OBVIOUS
<1>5. mark \in [Infos -> EntryType] /\ \A j \in Infos : mark[j].io = entry[j].io
  BY Marks DEF ManagerInv
<1> HIDE DEF last, mark
<1>6. entry' \in [Infos -> EntryType] /\ \A j \in Infos : entry'[j].io = entry[j].io
  <2>1. mark[i] \in EntryType
    BY <1>2, <1>5
  <2>2. /\ entry'[i] = [mark[i] EXCEPT !.lock = last]
        /\ \A j \in Infos \ {i} : entry'[j] = mark[j]
        /\ entry' = [j \in Infos |-> entry'[j]]
    BY <1>1, <1>2, <1>5
  <2>3. entry'[i] \in EntryType /\ entry'[i].io = mark[i].io
    BY <1>4, <2>1, <2>2 DEF EntryType
  <2> QED BY <1>5, <2>2, <2>3
<1>7. /\ \A j \in Infos : Holders(j)' = Holders(j) /\ Holders(j) \in Nat
      /\ \A j \in Infos : One(Updates(j)) = One(j \in {i}) /\ One(Updates(j)') = 0
  <2>1. \A j \in Infos : RequestsOf(j)' = RequestsOf(j)
    BY <1>1 DEF RequestsOf
  <2>2. \A j \in Infos : Holders(j)' = Holders(j)
    BY <1>1, <2>1 DEF Holders, Copied, mvars
  <2>3. \A j \in Infos : (Updates(j) <=> j \in {i}) /\ ~Updates(j)'
    BY <1>a, <1>1, <1>3 DEF Updates
  <2> QED BY <2>2, <2>3, HoldersNumber DEF One
<1>8. \A j \in Infos : Holders(j)' + One(Updates(j)') + One(j \in {i})
                       <= Holders(j) + One(Updates(j))
  <2>1. \A j \in Infos : One(j \in {i}) \in Nat
    BY DEF One
  <2> QED BY <1>7, <2>1
<1>9. Changing'
  BY <1>1 DEF ManagerInv, Changing, mvars
<1>10. c' \in ChangeType /\ s' \in ShutdownType /\ table' = table
  BY <1>1 DEF ManagerInv, Typing, mvars
<1> QED BY <1>1, <1>2, <1>3, <1>6, <1>7, <1>8, <1>9, <1>10, DropStep DEF mvars, bounds

LEMMA DropCopyStep ==
  ASSUME ManagerInv, DropCopy
  PROVE  ManagerInv'
<1>1. /\ c.pc = "paths" /\ info' = Drop(info, Copied) /\ entry' = Marked(entry, info, Copied)
      /\ c' = [pc |-> "idle", path |-> <<>>, todo |-> {}, copy |-> {}, keep |-> FALSE]
      /\ UNCHANGED <<hosting, inShutdown, recycling, mvars, watcher, rh, app, file, req,
                     w, s, bounds>>
  BY DEF DropCopy, Copied
<1>2. Copied \in SUBSET Infos /\ \A i \in Copied : info[i].st # "unused"
  BY DEF ManagerInv, Typing, ChangeType, Copied, HeldAreLive
<1>3. c' \in ChangeType /\ w' \in WatcherType /\ s' \in ShutdownType
  BY <1>1 DEF ManagerInv, Typing, ChangeType
<1>4. entry' \in [Infos -> EntryType] /\ \A i \in Infos : entry'[i].io = entry[i].io
  BY <1>1, Marks DEF ManagerInv
<1>5. ASSUME NEW i \in Infos
      PROVE  /\ Holders(i)' + One(Updates(i)') + One(i \in Copied)
                <= Holders(i) + One(Updates(i))
             /\ Holders(i)' # 0 => Holders(i) # 0
  <2>1. RequestsOf(i)' = RequestsOf(i) /\ Updates(i)' = Updates(i)
    BY <1>1 DEF RequestsOf, Updates
  <2>2. table' = table /\ Copied' = {}
    BY <1>1 DEF Copied, mvars
  <2>3. One(i \in {}) = 0 /\ One(i \in Copied) \in Nat /\ One(i \in table) \in Nat
        /\ One(Updates(i)) \in Nat
    BY DEF One
  <2>4. Cardinality(RequestsOf(i)) \in Nat
    BY Numbers DEF RequestsOf
  <2>5. Holders(i)' = One(i \in table) + One(i \in {}) + Cardinality(RequestsOf(i))
    BY <2>1, <2>2 DEF Holders
  <2>6. Holders(i) = One(i \in table) + One(i \in Copied) + Cardinality(RequestsOf(i))
    BY DEF Holders
  <2> QED BY <2>1, <2>3, <2>4, <2>5, <2>6
<1>6. Changing'
  BY <1>1 DEF ManagerInv, Changing, mvars
<1>7. table' = table
  BY <1>1 DEF mvars
<1> QED BY <1>1, <1>2, <1>3, <1>4, <1>5, <1>6, <1>7, DropStep DEF mvars, bounds

LEMMA ClearTableStep ==
  ASSUME ManagerInv, ClearTable
  PROVE  ManagerInv'
<1>1. /\ s.pc = "apps" /\ info' = Drop(info, table) /\ entry' = Marked(entry, info, table)
      /\ s' = [pc |-> "clear", todo |-> {i \in table : info[i].refs = 1}]
      /\ table' = {}
      /\ UNCHANGED <<hosting, inShutdown, recycling, mgrLock, hashUp, hostingModel, watcher,
                     rh, app, file, req, w, c, bounds>>
  BY DEF ClearTable
<1>2. table \in SUBSET Infos /\ \A i \in table : info[i].st # "unused"
  BY DEF ManagerInv, Typing, HeldAreLive
<1>3. c' \in ChangeType /\ w' \in WatcherType /\ s' \in ShutdownType /\ s'.pc = "clear"
  BY <1>1, <1>2 DEF ManagerInv, Typing, ShutdownType
<1>4. entry' \in [Infos -> EntryType] /\ \A i \in Infos : entry'[i].io = entry[i].io
  BY <1>1, Marks DEF ManagerInv
<1>5. ASSUME NEW i \in Infos
      PROVE  /\ Holders(i)' + One(Updates(i)') + One(i \in table)
                <= Holders(i) + One(Updates(i))
             /\ Holders(i)' # 0 => Holders(i) # 0
  <2>1. RequestsOf(i)' = RequestsOf(i) /\ Updates(i)' = Updates(i)
    BY <1>1 DEF RequestsOf, Updates
  <2>2. table' = {} /\ Copied' = Copied
    BY <1>1 DEF Copied
  <2>3. One(i \in {}) = 0 /\ One(i \in Copied) \in Nat /\ One(i \in table) \in Nat
        /\ One(Updates(i)) \in Nat
    BY DEF One
  <2>4. Cardinality(RequestsOf(i)) \in Nat
    BY Numbers DEF RequestsOf
  <2>5. Holders(i)' = One(i \in {}) + One(i \in Copied) + Cardinality(RequestsOf(i))
    BY <2>1, <2>2 DEF Holders
  <2>6. Holders(i) = One(i \in table) + One(i \in Copied) + Cardinality(RequestsOf(i))
    BY DEF Holders
  <2> QED BY <2>1, <2>3, <2>4, <2>5, <2>6
<1>6. Changing' /\ mgrLock = "shutdown"
  BY <1>1, <1>3 DEF ManagerInv, Changing
<1> QED BY <1>1, <1>2, <1>3, <1>4, <1>5, <1>6, DropStep DEF bounds

-----------------------------------------------------------------------------
(* The steps of a request that change nothing but its place.               *)
LEMMA ExecuteStep ==
  ASSUME ManagerInv, NEW r \in Requests, OnExecuteRequestHandler(r)
  PROVE  ManagerInv'
<1>1. PICK k \in Keys : req' = [req EXCEPT ![r].key = k,
                                           ![r].pc = IF inShutdown THEN "done" ELSE "find"]
  BY DEF OnExecuteRequestHandler
<1>2. /\ req[r].pc = "idle"
      /\ UNCHANGED <<hosting, inShutdown, recycling, mvars, watcher, rh, info, entry, app,
                     file, w, c, s, bounds>>
  BY DEF OnExecuteRequestHandler
<1>3. /\ Only(r) /\ req'[r].pc \in {"done", "find"} /\ req'[r].key \in Keys
      /\ req'[r].inf = req[r].inf /\ req'[r].ap = req[r].ap
  BY <1>1 DEF ManagerInv, Typing, RequestType, Only, Places
<1>4. \A q \in Requests : req'[q].inf = req[q].inf /\ req'[q].ap = req[q].ap
  BY <1>3 DEF Only
<1>5. Typing'
  BY <1>2, <1>3 DEF ManagerInv, Typing, mvars, bounds, Only
<1>6. InfoCounted' /\ HeldAreLive' /\ UsedObjects'
  <2>1. \A i \in Infos : Updates(i)' => Updates(i)
    BY <1>2 DEF Updates
  <2>2. Copied' = Copied
    BY <1>2 DEF Copied
  <2> QED BY <1>2, <1>4, <1>5, <2>1, <2>2, InfoKept DEF mvars
<1>7. AppInv'
  BY <1>2, <1>4, AppsKept
<1>8. RequestPlaces' /\ Making' /\ PagesLoaded'
  BY <1>2, <1>3, PlacesMove DEF bounds, InfoPlaces
<1>9. Initializing' /\ OneHostingModel'
  BY <1>2, <1>3, InitMove DEF mvars
<1>10. Changing'
  BY <1>2 DEF ManagerInv, Changing, mvars
<1> QED BY <1>5, <1>6, <1>7, <1>8, <1>9, <1>10 DEF ManagerInv, AppInv

LEMMA MoveStep ==
  ASSUME ManagerInv, NEW r \in Requests,
         \/ CountInfos(r) \/ AppOfflineFound(r) \/ ServeOffline(r) \/ EnsureUnlocked(r)
         \/ RunHandler(r)
  PROVE  ManagerInv'
<1>1. PICK pc \in {"done", "create", "serve", "ensure", "pending", "extract", "lock",
                   "crashed", "executed", "faulted"} :
        /\ Goto(r, pc) /\ req[r].pc # "idle"
        /\ pc \notin {"done", "create", "faulted"} => req[r].pc \in InfoPlaces
        /\ pc = "executed" => req[r].ap # None
        /\ pc = "serve" => info[req[r].inf].offline
        /\ UNCHANGED <<hosting, inShutdown, recycling, mvars, watcher, rh, info, entry, app,
                       file, w, c, s, bounds>>
  <2>1. CASE CountInfos(r)
    BY <2>1 DEF CountInfos
  <2>2. CASE AppOfflineFound(r)
    BY <2>2 DEF AppOfflineFound, InfoPlaces
  <2>3. CASE ServeOffline(r)
    BY <2>3 DEF ServeOffline, InfoPlaces
  <2>4. CASE EnsureUnlocked(r)
    BY <2>4 DEF EnsureUnlocked, InfoPlaces
  <2>5. CASE RunHandler(r)
    BY <2>5 DEF RunHandler, InfoPlaces
  <2> QED BY <2>1, <2>2, <2>3, <2>4, <2>5
<1>2. pc \in Places \ {"init", "make"} /\ Typing
  BY DEF Places, InfoPlaces, ManagerInv
<1>3. Goes(r, pc)
  BY <1>1, <1>2, GotoGoes
<1>4. req[r].key \in Keys
  BY <1>1 DEF ManagerInv, RequestPlaces
<1>5. pc \in InfoPlaces => req[r].inf \in Infos
  BY <1>1 DEF ManagerInv, RequestPlaces, InfoPlaces
<1>6. pc = "executed" => req[r].ap \in Apps
  BY <1>1 DEF ManagerInv, Typing, RequestType
<1>7. pc = "serve" => info[req[r].inf].page > 0
  BY <1>1, <1>5 DEF ManagerInv, PagesLoaded, InfoPlaces
<1>8. rh' \in {"none", "loaded", "error"}
  BY <1>1 DEF ManagerInv, Typing
<1> QED BY <1>1, <1>2, <1>3, <1>4, <1>5, <1>6, <1>7, <1>8, GoesOn

-----------------------------------------------------------------------------
(* The threads of the notifications.                                       *)
LEMMA NotifyStep ==
  ASSUME ManagerInv,
         OnGlobalConfigurationChange \/ OnGlobalStopListening \/ LockManager \/ DeleteTable
  PROVE  ManagerInv'
<1>1. UNCHANGED <<hosting, recycling, table, hostingModel, watcher, rh, info, entry, app,
                  file, req, w, flips>>
  BY DEF OnGlobalConfigurationChange, OnGlobalStopListening, LockManager, DeleteTable,
         mvars, bounds
<1>2. /\ inShutdown' \in BOOLEAN /\ hashUp' \in BOOLEAN
      /\ mgrLock' \in {"free", "request", "shutdown"}
      /\ c' \in ChangeType /\ s' \in ShutdownType /\ c'.copy = c.copy /\ c'.keep = c.keep
      /\ c'.pc # "idle" => c'.path \in ChangePaths
      /\ c'.pc = "paths" <=> c.pc = "paths"
      /\ s.pc \in {"clear", "done"} => s'.pc \in {"clear", "done"}
      /\ s'.pc \in {"apps", "clear"} => mgrLock' = "shutdown"
      /\ mgrLock' = mgrLock \/ mgrLock # "request"
  <2>1. CASE OnGlobalConfigurationChange
    <3>1. PICK p \in ChangePaths :
            c' = IF inShutdown THEN c ELSE [c EXCEPT !.pc = "table", !.path = p]
      BY <2>1 DEF OnGlobalConfigurationChange
    <3>2. c.pc = "idle" /\ UNCHANGED <<inShutdown, hashUp, mgrLock, s>>
      BY <2>1 DEF OnGlobalConfigurationChange, mvars
    <3> QED BY <3>1, <3>2 DEF ManagerInv, Typing, ChangeType, Changing
  <2>2. CASE OnGlobalStopListening
    BY <2>2 DEF OnGlobalStopListening, mvars, ManagerInv, Typing, ShutdownType, Changing
  <2>3. CASE LockManager
    BY <2>3 DEF LockManager, mvars, ManagerInv, Typing, ShutdownType, Changing
  <2>4. CASE DeleteTable
    BY <2>4 DEF DeleteTable, mvars, ManagerInv, Typing, ShutdownType, Changing
  <2> QED BY <2>1, <2>2, <2>3, <2>4
<1>3. Typing'
  BY <1>1, <1>2 DEF ManagerInv, Typing
<1>4. InfoCounted' /\ HeldAreLive' /\ UsedObjects'
  <2>1. \A i \in Infos : Updates(i)' => Updates(i)
    BY <1>1 DEF Updates
  <2>2. Copied' = Copied
    BY <1>2 DEF Copied
  <2> QED BY <1>1, <1>3, <2>1, <2>2, InfoKept
<1>5. AppInv'
  BY <1>1, AppsKept
<1>6. RequestPlaces' /\ Making' /\ PagesLoaded'
  BY <1>1, PlacesKept
<1>7. Initializing' /\ OneHostingModel'
  <2>1. CASE mgrLock' = mgrLock
    BY <1>1, <2>1, InitKept
  <2>2. CASE mgrLock # "request"
    <3>1. OneHostingModel'
      BY <1>1 DEF ManagerInv, OneHostingModel
    <3> QED BY <1>1, <2>2, <3>1, InitFree
  <2> QED BY <1>2, <2>1, <2>2
<1>8. Changing'
  BY <1>1, <1>2 DEF ManagerInv, Changing
<1> QED BY <1>3, <1>4, <1>5, <1>6, <1>7, <1>8 DEF ManagerInv, AppInv

-----------------------------------------------------------------------------
(* The copy references every record, the changed ones leave the table.     *)
LEMMA CopyReferences ==
  ASSUME ManagerInv, NEW S \in SUBSET table, info' = Drop(Take(info, table), S)
  PROVE  /\ info' \in [Infos -> InfoType] /\ SameData
         /\ \A i \in Infos : /\ info'[i].st = info[i].st
                             /\ info'[i].refs = info[i].refs + One(i \in table) - One(i \in S)
<1> DEFINE f == Take(info, table)
<1>1. table \in SUBSET Infos /\ S \in SUBSET Infos /\ info \in [Infos -> InfoType]
  BY DEF ManagerInv, Typing
<1>2. /\ f \in [Infos -> InfoType]
      /\ \A i \in Infos :
           /\ f[i].key = info[i].key /\ f[i].model = info[i].model
           /\ f[i].offline = info[i].offline /\ f[i].page = info[i].page
           /\ f[i].app = info[i].app /\ f[i].lock = info[i].lock
           /\ f[i].refs = info[i].refs + One(i \in table) /\ f[i].st = info[i].st
  <2>1. ASSUME NEW i \in Infos
        PROVE  /\ f[i] \in InfoType
               /\ f[i].key = info[i].key /\ f[i].model = info[i].model
               /\ f[i].offline = info[i].offline /\ f[i].page = info[i].page
               /\ f[i].app = info[i].app /\ f[i].lock = info[i].lock
               /\ f[i].refs = info[i].refs + One(i \in table) /\ f[i].st = info[i].st
    <3>1. f[i] = IF i \in table THEN [info[i] EXCEPT !.refs = @ + 1] ELSE info[i]
      BY DEF Take
    <3>2. info[i] \in InfoType
      BY <1>1
    <3> HIDE DEF f
    <3> QED BY <3>1, <3>2 DEF InfoType, One
  <2>2. f = [i \in Infos |-> f[i]]
    BY DEF Take
  <2> HIDE DEF f
  <2> QED BY <2>1, <2>2
<1>3. \A i \in S : info[i].refs \in Nat /\ info[i].refs >= 1 /\ One(i \in table) = 1
  <2> SUFFICES ASSUME NEW i \in S
               PROVE  info[i].refs \in Nat /\ info[i].refs >= 1 /\ One(i \in table) = 1
    OBVIOUS
  <2>1. Holders(i) # 0 /\ Holders(i) \in Nat
    BY HoldersNumber
  <2>2. /\ Holders(i) + One(Updates(i)) <= info[i].refs
        /\ info[i].refs \in Nat /\ One(Updates(i)) \in Nat
    BY <1>1, RefsNumber DEF ManagerInv, InfoCounted
  <2> QED BY <2>1, <2>2 DEF One
<1> HIDE DEF f
<1>4. \A i \in S : f[i].refs >= 1 /\ f[i].refs # 1
  BY <1>1, <1>2, <1>3
<1>5. /\ Drop(f, S) \in [Infos -> InfoType]
      /\ \A i \in Infos :
           /\ Drop(f, S)[i].key = f[i].key /\ Drop(f, S)[i].model = f[i].model
           /\ Drop(f, S)[i].offline = f[i].offline /\ Drop(f, S)[i].page = f[i].page
           /\ Drop(f, S)[i].app = f[i].app /\ Drop(f, S)[i].lock = f[i].lock
           /\ Drop(f, S)[i].refs = f[i].refs - One(i \in S)
           /\ Drop(f, S)[i].st = IF i \in S /\ f[i].refs = 1 THEN "dying" ELSE f[i].st
  BY <1>1, <1>2, <1>4, DropsFrom
<1>6. info' = Drop(f, S)
  BY DEF f
<1>7. /\ info' \in [Infos -> InfoType]
      /\ \A i \in Infos : info'[i].st = info[i].st
  BY <1>2, <1>4, <1>5, <1>6
<1>8. \A i \in Infos : info'[i].refs = info[i].refs + One(i \in table) - One(i \in S)
  <2> SUFFICES ASSUME NEW i \in Infos
               PROVE  info'[i].refs = info[i].refs + One(i \in table) - One(i \in S)
    OBVIOUS
  <2>1. info'[i].refs = f[i].refs - One(i \in S)
    BY <1>5, <1>6
  <2>2. f[i].refs = info[i].refs + One(i \in table)
    BY <1>2
  <2>3. info[i].refs \in Nat /\ One(i \in table) \in Nat /\ One(i \in S) \in Nat
    BY <1>1 DEF InfoType, One
  <2> QED BY <2>1, <2>2, <2>3
<1>9. SameData
  BY <1>2, <1>5, <1>6 DEF SameData
<1> QED BY <1>7, <1>8, <1>9

LEMMA TakeChangedStep ==
  ASSUME ManagerInv, TakeChanged
  PROVE  ManagerInv'
<1> DEFINE changed == {i \in table : FindConfigChangedApplication(c.path, info[i].key)}
           after == IF changed # {} /\ hostingModel = "in" THEN table ELSE table \ changed
<1>1. /\ c.pc = "table" /\ mgrLock = "free"
      /\ UNCHANGED <<hosting, inShutdown, recycling, mgrLock, hashUp, watcher, rh, app,
                     file, req, w, s, bounds>>
  BY DEF TakeChanged
<1>2. c.copy = {} /\ ~c.keep /\ c \in ChangeType /\ c.path \in ChangePaths
      /\ Copied = {}
  BY <1>1 DEF ManagerInv, Changing, Typing, Copied
<1>3. \A i \in Infos : Updates(i)' = Updates(i)
  BY <1>1 DEF Updates
<1>4. CASE inShutdown
  <2>1. c' = [c EXCEPT !.pc = "idle"] /\ UNCHANGED <<info, entry, table, hostingModel>>
    BY <1>4 DEF TakeChanged
  <2>2. c' \in ChangeType /\ c'.pc = "idle" /\ c'.copy = c.copy /\ c'.keep = c.keep
    BY <1>2, <2>1 DEF ChangeType
  <2>3. Typing'
    BY <1>1, <2>1, <2>2 DEF ManagerInv, Typing, bounds
  <2>4. AppInv'
    BY <1>1, <2>1, AppsKept
  <2>5. Changing'
    BY <1>1, <1>2, <2>1, <2>2 DEF ManagerInv, Changing
  <2>6. Copied' = Copied
    BY <2>2 DEF Copied
  <2> QED BY <1>1, <1>3, <2>1, <2>3, <2>4, <2>5, <2>6, OwnerStep DEF bounds
<1>5. CASE ~inShutdown
  <2>a. PICK S : S = changed
    OBVIOUS
  <2>b. PICK T : T = after
    OBVIOUS
  <2>1. /\ info' = Drop(Take(info, table), S)
        /\ entry' = Marked(entry, Take(info, table), S)
        /\ table' = T
        /\ hostingModel' = IF T = {} THEN "unknown" ELSE hostingModel
        /\ c' = [c EXCEPT !.pc = "paths", !.todo = S, !.copy = table,
                          !.keep = S # {} /\ hostingModel = "in"]
    BY <1>5, <2>a, <2>b DEF TakeChanged, CopyIsReferenced
  <2>2. /\ S \subseteq table /\ T \subseteq table /\ table \in SUBSET Infos
        /\ T = IF S # {} /\ hostingModel = "in" THEN table ELSE table \ S
    BY <2>a, <2>b DEF ManagerInv, Typing
  <2> HIDE DEF changed, after
  <2>3. /\ info' \in [Infos -> InfoType] /\ SameData
        /\ \A i \in Infos : /\ info'[i].st = info[i].st
                            /\ info'[i].refs = info[i].refs + One(i \in table) - One(i \in S)
    BY <2>1, <2>2, CopyReferences
  <2>4. entry' \in [Infos -> EntryType] /\ \A i \in Infos : entry'[i].io = entry[i].io
    BY <2>1, Marks DEF ManagerInv
  <2>5. /\ c' \in ChangeType /\ c'.pc = "paths" /\ c'.path = c.path /\ c'.copy = table
        /\ c'.keep <=> (S # {} /\ hostingModel = "in")
    <3>1. PICK keep \in BOOLEAN : keep = (S # {} /\ hostingModel = "in")
      OBVIOUS
    <3>2. c' = [c EXCEPT !.pc = "paths", !.todo = S, !.copy = table, !.keep = keep]
      BY <2>1, <3>1
    <3>3. S \in SUBSET Infos
      BY <2>2
    <3> QED BY <1>2, <2>2, <3>1, <3>2, <3>3 DEF ChangeType
  <2>6. hostingModel' \in Models \cup {"unknown"}
    BY <2>1 DEF ManagerInv, Typing
  <2>7. Typing'
    BY <1>1, <2>1, <2>2, <2>3, <2>4, <2>5, <2>6 DEF ManagerInv, Typing, bounds
  <2>8. ASSUME NEW i \in Infos
        PROVE  /\ Holders(i)' + One(Updates(i)') + info[i].refs
                  <= Holders(i) + One(Updates(i)) + info'[i].refs
               /\ Holders(i)' # 0 => Holders(i) # 0
    <3>1. RequestsOf(i)' = RequestsOf(i) /\ Updates(i)' = Updates(i)
      BY <1>1, <1>3 DEF RequestsOf
    <3>2. Copied' = IF S # {} /\ hostingModel = "in" THEN {} ELSE table
      BY <2>5 DEF Copied
    <3>3. One(i \in T) + One(i \in Copied') + One(i \in S) <= One(i \in table) + One(i \in table)
      BY <2>2, <3>2 DEF One
    <3>4. /\ One(i \in T) \in Nat /\ One(i \in Copied') \in Nat /\ One(i \in S) \in Nat
          /\ One(i \in table) \in Nat /\ One(i \in Copied) = 0 /\ One(Updates(i)) \in Nat
          /\ One(i \in table) = 0 => One(i \in T) = 0 /\ One(i \in Copied') = 0
      BY <1>2, <2>2, <3>2 DEF One
    <3>5. Cardinality(RequestsOf(i)) \in Nat
      BY Numbers DEF RequestsOf
    <3>6. Holders(i)' = One(i \in T) + One(i \in Copied') + Cardinality(RequestsOf(i))
      BY <2>1, <3>1 DEF Holders
    <3>7. Holders(i) = One(i \in table) + One(i \in Copied) + Cardinality(RequestsOf(i))
      BY DEF Holders
    <3>8. info[i].refs \in Nat
      BY RefsNumber DEF ManagerInv
    <3>9. info'[i].refs = info[i].refs + One(i \in table) - One(i \in S)
      BY <2>3
    <3>10. Holders(i)' # 0 => Holders(i) # 0
      BY <3>4, <3>5, <3>6, <3>7
    <3>11. Holders(i)' + One(Updates(i)') + info[i].refs
           <= Holders(i) + One(Updates(i)) + info'[i].refs
      BY <3>1, <3>3, <3>4, <3>5, <3>6, <3>7, <3>8, <3>9
    <3> QED BY <3>10, <3>11
  <2>9. InfoCounted' /\ HeldAreLive' /\ UsedObjects'
    <3>1. \A i \in Infos : info'[i].key = info[i].key /\ info'[i].app \in {info[i].app, None}
      BY <2>3 DEF SameData
    <3> QED BY <1>1, <2>3, <2>4, <2>7, <2>8, <3>1, InfoSide
  <2>10. AppInv'
    BY <1>1, <2>3, AppsKept DEF SameData
  <2>11. RequestPlaces' /\ Making' /\ PagesLoaded'
    BY <1>1, <2>3, PlacesKept DEF SameData, bounds
  <2>12. Initializing'
    BY <1>1, InitFree
  <2>13. OneHostingModel'
    BY <2>1, <2>2, <2>3 DEF ManagerInv, OneHostingModel, SameData
  <2>14. Changing'
    BY <1>1, <1>2, <2>1, <2>2, <2>5 DEF ManagerInv, Changing
  <2> QED BY <2>7, <2>9, <2>10, <2>11, <2>12, <2>13, <2>14 DEF ManagerInv, AppInv
<1> QED BY <1>4, <1>5

-----------------------------------------------------------------------------
(* The invariant.                                                          *)
LEMMA InitHolds == Init => ManagerInv
<1> SUFFICES ASSUME Init PROVE ManagerInv
  OBVIOUS
<1> USE DEF Init
<1>1. /\ NoInfo \in InfoType /\ NoEntry \in EntryType /\ NoApplication \in ApplicationType
      /\ [pc |-> "idle", key |-> <<>>, inf |-> None, ap |-> None] \in RequestType
      /\ w \in WatcherType /\ c \in ChangeType /\ s \in ShutdownType
  <2>1. NoInfo \in InfoType
    BY DEF NoInfo, InfoType, Models
  <2>2. NoEntry \in EntryType
    BY DEF NoEntry, EntryType
  <2>3. NoApplication \in ApplicationType
    BY DEF NoApplication, ApplicationType, Models
  <2>4. [pc |-> "idle", key |-> <<>>, inf |-> None, ap |-> None] \in RequestType
    BY DEF RequestType, Places
  <2>5. w \in WatcherType
    BY DEF WatcherType
  <2>6. c \in ChangeType
    BY DEF ChangeType
  <2>7. s \in ShutdownType
    BY DEF ShutdownType
  <2> QED BY <2>1, <2>2, <2>3, <2>4, <2>5, <2>6, <2>7
<1>2. Typing
  BY <1>1 DEF Typing
<1>3. \A x \in Infos \cup Apps : RequestsOf(x) = {} /\ UsersOf(x) = {}
  BY NoneIsNothing DEF RequestsOf, UsersOf
<1>4. /\ \A i \in Infos : info[i] = NoInfo /\ entry[i] = NoEntry
      /\ \A a \in Apps : app[a] = NoApplication
  OBVIOUS
<1>5. Copied = {}
  BY DEF Copied
<1>6. \A a \in Apps : ~Owned(a)
  BY <1>4, NoneIsNothing DEF Owned, NoInfo
<1>7. \A i \in Infos : ~Updates(i)
  BY DEF Updates
<1>8. InfoCounted
  <2> SUFFICES ASSUME NEW i \in Infos PROVE Holders(i) + One(Updates(i)) <= info[i].refs
    BY DEF InfoCounted
  <2>1. One(i \in table) = 0 /\ One(i \in Copied) = 0 /\ One(Updates(i)) = 0
    BY <1>5, <1>7 DEF One
  <2>2. Cardinality(RequestsOf(i)) = 0
    BY <1>3, FS_EmptySet
  <2>3. info[i].refs = 0
    BY <1>4 DEF NoInfo
  <2> QED BY <2>1, <2>2, <2>3 DEF Holders
<1>9. HeldAreLive /\ UsedObjects
  BY <1>4, <1>5 DEF HeldAreLive, UsedObjects, NoInfo, NoEntry, EntryPlaces
<1>10. AppCounted
  <2> SUFFICES ASSUME NEW a \in Apps
               PROVE  One(Owned(a)) + app[a].threads + Cardinality(UsersOf(a)) <= app[a].refs
    BY DEF AppCounted
  <2>1. One(Owned(a)) = 0
    BY <1>6 DEF One
  <2>2. Cardinality(UsersOf(a)) = 0
    BY <1>3, FS_EmptySet
  <2>3. app[a].refs = 0 /\ app[a].threads = 0
    BY <1>4 DEF NoApplication
  <2> QED BY <2>1, <2>2, <2>3
<1>11. AppLives /\ OneOwner /\ RunningIsKnown
  BY <1>4 DEF AppLives, OneOwner, RunningIsKnown, NoApplication, NoInfo
<1>12. StopsOnce
  BY <1>4, <1>6 DEF StopsOnce, NoApplication, One
<1>13. \A r \in Requests : req[r].pc = "idle" /\ req[r].inf = None
  OBVIOUS
<1>14. RequestPlaces /\ Making /\ Initializing
  BY <1>13 DEF RequestPlaces, Making, Initializing, InfoPlaces
<1>15. OneHostingModel /\ Changing
  BY DEF OneHostingModel, Changing
<1>16. PagesLoaded
  BY <1>4, <1>13 DEF PagesLoaded, OfflinePageIsLoaded, NoInfo
<1> QED BY <1>2, <1>8, <1>9, <1>10, <1>11, <1>12, <1>14, <1>15, <1>16 DEF ManagerInv

LEMMA StutterStep ==
  ASSUME ManagerInv, UNCHANGED vars
  PROVE  ManagerInv'
<1> USE DEF vars
<1>1. Typing' /\ Changing'
  BY DEF ManagerInv, Typing, Changing
<1>2. AppInv'
  BY AppsKept
<1>3. Copied' = Copied /\ \A i \in Infos : Updates(i)' => Updates(i)
  BY DEF Copied, Updates
<1> QED BY <1>1, <1>2, <1>3, OwnerStep

LEMMA RequestStepHolds ==
  ASSUME ManagerInv, NEW r \in Requests, RequestStep(r)
  PROVE  ManagerInv'
<1>1. CASE OnExecuteRequestHandler(r)
  BY <1>1, ExecuteStep
<1>2. CASE FindInfo(r)
  BY <1>2, FindStep
<1>3. CASE CreateInfo(r)
  BY <1>3, CreateInfoStep
<1>4. CASE InitializeInfo(r)
  BY <1>4, InitializeStep
<1>5. CASE EnsureLocked(r)
  BY <1>5, EnsureStep
<1>6. CASE CreateApplication(r)
  BY <1>6, CreateApplicationStep
<1>7. CASE ExtractApplication(r)
  BY <1>7, ExtractStep
<1>8. CASE ReleaseApplication(r)
  BY <1>8, ReleaseStep
<1>9. CASE EndRequest(r)
  BY <1>9, EndStep
<1>10. CASE \/ CountInfos(r) \/ AppOfflineFound(r) \/ ServeOffline(r) \/ EnsureUnlocked(r)
            \/ RunHandler(r)
  BY <1>10, MoveStep
<1> QED BY <1>1, <1>2, <1>3, <1>4, <1>5, <1>6, <1>7, <1>8, <1>9, <1>10 DEF RequestStep

LEMMA NextStep == ManagerInv /\ [Next]_vars => ManagerInv'
<1> SUFFICES ASSUME ManagerInv, [Next]_vars PROVE ManagerInv'
  OBVIOUS
<1>1. CASE \E r \in Requests : RequestStep(r)
  BY <1>1, RequestStepHolds
<1>2. CASE \E a \in Apps : DoRecycleApplication(a)
  BY <1>2, DoRecycleStep
<1>3. CASE \E i \in Infos : Destroy(i)
  BY <1>3, DestroyStep
<1>4. CASE \E k \in Keys : Flip(k)
  BY <1>4, FlipStep
<1>5. CASE WatcherStep
  BY <1>5, DequeueStep, HandleStep, UpdateStep, WatcherRecyclesStep, WatcherReleasesStep,
     MonitorStep DEF WatcherStep
<1>6. CASE TakeChanged \/ RecycleChanged \/ DropCopy
  BY <1>6, TakeChangedStep, RecycleChangedStep, DropCopyStep
<1>7. CASE DeleteWatcher \/ ShutDownApplication \/ ClearTable
  BY <1>7, DeleteWatcherStep, ShutDownApplicationStep, ClearTableStep
<1>8. CASE OnGlobalConfigurationChange \/ OnGlobalStopListening \/ LockManager \/ DeleteTable
  BY <1>8, NotifyStep
<1>9. CASE UNCHANGED vars
  BY <1>9, StutterStep
<1> QED BY <1>1, <1>2, <1>3, <1>4, <1>5, <1>6, <1>7, <1>8, <1>9 DEF Next, ShutdownStep

\* Every reference of a request, of the table, of its copy and of the watcher is in the
\* count of the APPLICATION_INFO, and what the requests and the threads rely on holds.
THEOREM ManagerInvHolds == Spec => []ManagerInv
<1> QED BY InitHolds, NextStep, PTL DEF Spec

-----------------------------------------------------------------------------
(* One record per configuration path: whoever initializes a record has     *)
(* looked for another one under the lock it still holds.                   *)
PathsInv ==
  /\ OneRecordPerPath
  /\ \A r \in Requests : req[r].pc = "init" =>
       /\ info[req[r].inf].key = req[r].key
       /\ \A j \in table : info[j].key # req[r].key

(* No other step gives a record a path or puts it into the table.           *)
PathsKept ==
  /\ \A i \in Infos : info'[i].key = info[i].key
  /\ table' \subseteq table
  /\ \A r \in Requests : req'[r].pc = "init" => req'[r] = req[r]

(* What the steps set of a record is never its path.                        *)
SameKeys == \A j \in Infos : info'[j].key = info[j].key

LEMMA KeysOneField ==
  ASSUME info \in [Infos -> InfoType], NEW i, NEW x,
         \/ UNCHANGED info
         \/ info' = [info EXCEPT ![i].app = x]
         \/ info' = [info EXCEPT ![i].lock = x]
  PROVE  SameKeys
<1>1. CASE info' = [info EXCEPT ![i].app = x]
  BY <1>1 DEF InfoType, SameKeys
<1>2. CASE info' = [info EXCEPT ![i].lock = x]
  BY <1>2 DEF InfoType, SameKeys
<1> QED BY <1>1, <1>2 DEF SameKeys

LEMMA KeysMoreFields ==
  ASSUME info \in [Infos -> InfoType], NEW i, NEW x, NEW y,
         \/ info' = [info EXCEPT ![i].app = x, ![i].lock = y]
         \/ info' = [info EXCEPT ![i].st = x, ![i].app = y]
         \/ info' = [info EXCEPT ![i].refs = @ + 1, ![i].offline = x]
         \/ info' = [info EXCEPT ![i].refs = @ + 1, ![i].page = x, ![i].offline = y]
  PROVE  SameKeys
<1>1. CASE info' = [info EXCEPT ![i].app = x, ![i].lock = y]
  BY <1>1 DEF InfoType, SameKeys
<1>2. CASE info' = [info EXCEPT ![i].st = x, ![i].app = y]
  BY <1>2 DEF InfoType, SameKeys
<1>3. CASE info' = [info EXCEPT ![i].refs = @ + 1, ![i].offline = x]
  BY <1>3 DEF InfoType, SameKeys
<1>4. CASE info' = [info EXCEPT ![i].refs = @ + 1, ![i].page = x, ![i].offline = y]
  BY <1>4 DEF InfoType, SameKeys
<1> QED BY <1>1, <1>2, <1>3, <1>4

LEMMA KeysRecycled ==
  ASSUME info \in [Infos -> InfoType], NEW i, RecycleApplication(i) PROVE SameKeys
<1>1. UNCHANGED info \/ info' = [info EXCEPT ![i].app = Detached(i)]
  BY DEF RecycleApplication
<1> QED BY <1>1, KeysOneField

LEMMA KeysTaken ==
  ASSUME NEW f \in [Infos -> InfoType], NEW S
  PROVE  /\ Take(f, S) \in [Infos -> InfoType]
         /\ \A j \in Infos : Take(f, S)[j].key = f[j].key
<1> QED BY DEF Take, InfoType

LEMMA KeysDropped ==
  ASSUME NEW f \in [Infos -> InfoType], NEW S
  PROVE  \A j \in Infos : Drop(f, S)[j].key = f[j].key
<1>1. ASSUME NEW j \in Infos, j \in S PROVE Drop(f, S)[j].key = f[j].key
  <2>1. Drop(f, S)[j] = [f[j] EXCEPT !.refs = @ - 1,
                                     !.st = IF f[j].refs = 1 THEN "dying" ELSE @]
    BY <1>1 DEF Drop
  <2>2. f[j] \in InfoType
    OBVIOUS
  <2> QED BY <2>1, <2>2 DEF InfoType
<1>2. ASSUME NEW j \in Infos, j \notin S PROVE Drop(f, S)[j].key = f[j].key
  BY <1>2 DEF Drop
<1> QED BY <1>1, <1>2

LEMMA PathsStay ==
  ASSUME ManagerInv, PathsInv, PathsKept PROVE PathsInv'
<1>1. table \subseteq Infos /\ \A r \in Requests : req[r].pc = "init" => req[r].inf \in Infos
  BY DEF ManagerInv, Typing, RequestPlaces, InfoPlaces
<1>2. OneRecordPerPath'
  BY <1>1 DEF PathsInv, PathsKept, OneRecordPerPath
<1>3. \A r \in Requests : req'[r].pc = "init" =>
        info'[req'[r].inf].key = req'[r].key /\ \A j \in table' : info'[j].key # req'[r].key
  BY <1>1 DEF PathsInv, PathsKept
<1> QED BY <1>2, <1>3 DEF PathsInv

LEMMA CreatedPath ==
  ASSUME ManagerInv, PathsInv, NEW r \in Requests, CreateInfo(r) PROVE PathsInv'
<1> DEFINE found == CreatedMeanwhile(req[r].key)
           New(i) == /\ info' = [info EXCEPT ![i] = [NoInfo EXCEPT !.st = "live", !.refs = 1,
                                   !.key = req[r].key, !.model = hosting[req[r].key]]]
                     /\ req' = [req EXCEPT ![r].inf = i, ![r].pc = "init"]
<1>1. req[r].pc = "create" /\ mgrLock = "free" /\ table' = table /\ table \subseteq Infos
  BY DEF CreateInfo, ManagerInv, Typing
<1>2. CASE \E pc \in {"done", "faulted"} : Goto(r, pc) /\ UNCHANGED info
  BY <1>1, <1>2, PathsStay DEF PathsKept, Goto, ManagerInv, Typing
<1>3. CASE /\ info' = Take(info, found)
           /\ req' = [req EXCEPT ![r].inf = CHOOSE i \in found : TRUE, ![r].pc = "offline"]
  <2>1. \A i \in Infos : info'[i].key = info[i].key
    BY <1>3 DEF Take, ManagerInv, Typing, InfoType
  <2>2. \A q \in Requests : req'[q].pc = "init" => req'[q] = req[q]
    BY <1>3 DEF ManagerInv, Typing, RequestType
  <2> QED BY <1>1, <2>1, <2>2, PathsStay DEF PathsKept
<1>4. ASSUME found = {}, NEW i \in Infos, info[i].st = "unused", New(i)
      PROVE  PathsInv'
  <2>1. i \notin table
    BY <1>4 DEF ManagerInv, HeldAreLive
  <2>2. \A j \in table : info'[j].key = info[j].key /\ info[j].key # req[r].key
    BY <1>1, <1>4, <2>1 DEF CreatedMeanwhile, Find, ManagerInv, Typing
  <2>3. info'[i].key = req[r].key
    BY <1>4 DEF NoInfo, ManagerInv, Typing
  <2>4. \A q \in Requests : req'[q].pc = "init" => q = r
    BY <1>1, <1>4 DEF ManagerInv, Initializing, Typing
  <2>5. req'[r].inf = i /\ req'[r].key = req[r].key
    BY <1>4 DEF ManagerInv, Typing, RequestType
  <2> QED BY <1>1, <2>2, <2>3, <2>4, <2>5 DEF PathsInv, OneRecordPerPath
<1>5. \/ \E pc \in {"done", "faulted"} : Goto(r, pc) /\ UNCHANGED info
      \/ /\ info' = Take(info, found)
         /\ req' = [req EXCEPT ![r].inf = CHOOSE i \in found : TRUE, ![r].pc = "offline"]
      \/ found = {} /\ \E i \in Infos : info[i].st = "unused" /\ New(i)
  <2>1. CASE inShutdown \/ (found = {} /\ Mixed(req[r].key))
    BY <2>1 DEF CreateInfo
  <2>2. CASE ~inShutdown /\ found # {}
    BY <2>2 DEF CreateInfo
  <2>3. CASE ~inShutdown /\ found = {} /\ ~Mixed(req[r].key)
    <3>1. \A i \in Infos : i >= i
      BY BoundsAssumption DEF Infos
    <3> QED BY <2>3, <3>1 DEF CreateInfo
  <2> QED BY <2>1, <2>2, <2>3
<1> QED BY <1>2, <1>3, <1>4, <1>5

LEMMA InitializedPath ==
  ASSUME ManagerInv, PathsInv, NEW r \in Requests, InitializeInfo(r) PROVE PathsInv'
<1>1. /\ req[r].pc = "init" /\ req[r].inf \in Infos /\ table \subseteq Infos
      /\ table' = table \cup {req[r].inf}
  BY DEF InitializeInfo, ManagerInv, Typing, RequestPlaces, InfoPlaces
<1>2. info \in [Infos -> InfoType] /\ req \in [Requests -> RequestType]
  BY DEF ManagerInv, Typing
<1>3. \A j \in Infos : info'[j].key = info[j].key
  BY <1>1, <1>2 DEF InitializeInfo, InfoType
<1>4. \A q \in Requests : req[q].pc = "init" => q = r
  BY <1>1 DEF ManagerInv, Initializing
<1>5. \A q \in Requests : req'[q].pc # "init"
  BY <1>2, <1>4 DEF InitializeInfo, Goto, RequestType
<1> QED BY <1>1, <1>3, <1>5 DEF PathsInv, OneRecordPerPath

LEMMA PathsRequest ==
  ASSUME ManagerInv, NEW r \in Requests, RequestStep(r),
         ~CreateInfo(r), ~InitializeInfo(r)
  PROVE  PathsKept
<1>1. /\ info \in [Infos -> InfoType] /\ req \in [Requests -> RequestType]
  BY DEF ManagerInv, Typing
<1> USE <1>1 DEF PathsKept, mvars, RequestType
<1>2. CASE OnExecuteRequestHandler(r)
  BY <1>2 DEF OnExecuteRequestHandler
<1>3. CASE FindInfo(r)
  BY <1>3, KeysTaken DEF FindInfo, Goto
<1>4. CASE CountInfos(r)
  BY <1>4 DEF CountInfos, Goto
<1>5. CASE AppOfflineFound(r) \/ ServeOffline(r) \/ EnsureUnlocked(r) \/ RunHandler(r)
  BY <1>5 DEF AppOfflineFound, ServeOffline, EnsureUnlocked, RunHandler, Goto
<1>6. CASE EnsureLocked(r)
  <2>1. SameKeys
    <3>1. UNCHANGED info \/ info' = [info EXCEPT ![req[r].inf].lock = TRUE]
      BY <1>6 DEF EnsureLocked, CreatesLocked
    <3> QED BY <3>1, KeysOneField
  <2>2. \E pc : pc # "init" /\ Goto(r, pc)
    BY <1>6 DEF EnsureLocked
  <2>3. table' = table
    BY <1>6 DEF EnsureLocked
  <2> QED BY <2>1, <2>2, <2>3 DEF Goto, SameKeys
<1>7. CASE CreateApplication(r)
  <2>1. SameKeys
    <3>1. \/ \E a : info' = [info EXCEPT ![req[r].inf].app = a, ![req[r].inf].lock = FALSE]
          \/ info' = [info EXCEPT ![req[r].inf].lock = FALSE]
      BY <1>7 DEF CreateApplication
    <3> QED BY <3>1, KeysOneField, KeysMoreFields
  <2>2. \E pc : pc # "init" /\ Goto(r, pc)
    BY <1>7 DEF CreateApplication
  <2>3. table' = table
    BY <1>7 DEF CreateApplication
  <2> QED BY <2>1, <2>2, <2>3 DEF Goto, SameKeys
<1>8. CASE ExtractApplication(r) \/ ReleaseApplication(r)
  BY <1>8 DEF ExtractApplication, ReleaseApplication
<1>9. CASE EndRequest(r)
  BY <1>9, KeysDropped DEF EndRequest
<1> QED BY <1>2, <1>3, <1>4, <1>5, <1>6, <1>7, <1>8, <1>9 DEF RequestStep

LEMMA PathsWatcher == ASSUME ManagerInv, WatcherStep PROVE PathsKept
<1>1. info \in [Infos -> InfoType]
  BY DEF ManagerInv, Typing
<1> USE <1>1 DEF PathsKept, mvars
<1>2. CASE (\E i \in Infos : Dequeue(i)) \/ HandleChangeCompletion \/ MonitorAgain
  BY <1>2 DEF Dequeue, HandleChangeCompletion, MonitorAgain
<1>3. CASE UpdateAppOfflineFileHandle
  <2>1. \/ info' = [info EXCEPT ![w.e].refs = @ + 1, ![w.e].page = flips, ![w.e].offline = TRUE]
        \/ info' = [info EXCEPT ![w.e].refs = @ + 1, ![w.e].offline = FALSE]
    BY <1>3 DEF UpdateAppOfflineFileHandle, PageBeforeFlag
  <2>2. SameKeys
    BY <2>1, KeysMoreFields
  <2> QED BY <1>3, <2>2 DEF UpdateAppOfflineFileHandle, SameKeys
<1>4. CASE WatcherRecycles
  BY <1>4, KeysRecycled DEF WatcherRecycles, SameKeys
<1>5. CASE WatcherReleases
  BY <1>5, KeysDropped DEF WatcherReleases
<1> QED BY <1>2, <1>3, <1>4, <1>5 DEF WatcherStep

LEMMA PathsOthers ==
  ASSUME ManagerInv,
         \/ \E a \in Apps : DoRecycleApplication(a)
         \/ \E i \in Infos : Destroy(i)
         \/ \E k \in Keys : Flip(k)
         \/ OnGlobalConfigurationChange \/ TakeChanged \/ RecycleChanged \/ DropCopy
         \/ OnGlobalStopListening \/ ShutdownStep \/ UNCHANGED vars
  PROVE  PathsKept
<1>1. info \in [Infos -> InfoType]
  BY DEF ManagerInv, Typing
<1> USE <1>1 DEF PathsKept, mvars
<1>2. CASE \E a \in Apps : DoRecycleApplication(a)
  BY <1>2 DEF DoRecycleApplication
<1>3. CASE \E i \in Infos : Destroy(i)
  <2>1. \E i : info' = [info EXCEPT ![i].st = "dead", ![i].app = None]
    BY <1>3 DEF Destroy
  <2>2. SameKeys
    BY <2>1, KeysMoreFields
  <2> QED BY <1>3, <2>2 DEF Destroy, SameKeys
<1>4. CASE \E k \in Keys : Flip(k)
  BY <1>4 DEF Flip
<1>5. CASE OnGlobalConfigurationChange \/ OnGlobalStopListening \/ UNCHANGED vars
  BY <1>5 DEF OnGlobalConfigurationChange, OnGlobalStopListening, vars
<1>6. CASE TakeChanged
  BY <1>6, KeysTaken, KeysDropped DEF TakeChanged, CopyIsReferenced
<1>7. CASE RecycleChanged
  BY <1>7, KeysRecycled, KeysOneField DEF RecycleChanged, SameKeys
<1>8. CASE DropCopy
  BY <1>8, KeysDropped DEF DropCopy
<1>9. CASE ShutdownStep
  <2>1. CASE ShutDownApplication
    <3>1. UNCHANGED info \/ \E i : info' = [info EXCEPT ![i].app = None]
      BY <2>1 DEF ShutDownApplication
    <3>2. SameKeys
      BY <3>1, KeysOneField
    <3> QED BY <2>1, <3>2 DEF ShutDownApplication, SameKeys
  <2>2. CASE ClearTable
    BY <2>2, KeysDropped DEF ClearTable
  <2>3. CASE DeleteWatcher \/ LockManager \/ DeleteTable
    BY <2>3 DEF DeleteWatcher, LockManager, DeleteTable
  <2> QED BY <1>9, <2>1, <2>2, <2>3 DEF ShutdownStep
<1> QED BY <1>2, <1>3, <1>4, <1>5, <1>6, <1>7, <1>8, <1>9

LEMMA PathsNext == ManagerInv /\ PathsInv /\ [Next]_vars => PathsInv'
<1> SUFFICES ASSUME ManagerInv, PathsInv, [Next]_vars PROVE PathsInv'
  OBVIOUS
<1>1. CASE \E r \in Requests : RequestStep(r)
  BY <1>1, PathsRequest, PathsStay, CreatedPath, InitializedPath
<1>2. CASE WatcherStep
  BY <1>2, PathsWatcher, PathsStay
<1>3. CASE ~WatcherStep /\ ~\E r \in Requests : RequestStep(r)
  BY <1>3, PathsOthers, PathsStay DEF Next
<1> QED BY <1>1, <1>2, <1>3

LEMMA PathsHold == Spec => []PathsInv
<1>1. Init => PathsInv
  BY DEF Init, PathsInv, OneRecordPerPath
<1> QED BY <1>1, PathsNext, ManagerInvHolds, PTL DEF Spec

\* ManagerSafe for every number of requests, applications and events: hosting models are
\* not mixed, a path has one record, RecycleApplication, ShutDownApplication and the destructors stop a process
\* once, and whoever sees m_fAppOfflineFound finds a page.
THEOREM ManagerSafeHolds == Spec => []ManagerSafe
<1>1. ManagerInv /\ PathsInv => ManagerSafe
  <2> SUFFICES ASSUME ManagerInv, PathsInv PROVE ManagerSafe
    OBVIOUS
  <2>1. TypeOK
    BY DEF ManagerInv, Typing, InfoType, ApplicationType, RequestType, TypeOK
  <2>2. StoppedOnce
    <3> SUFFICES ASSUME NEW a \in Apps, app[a].model = "out" PROVE app[a].stops <= 1
      BY DEF StoppedOnce
    <3>1. app[a].stops + app[a].threads + One(Owned(a)) <= 1
      BY DEF ManagerInv, StopsOnce
    <3>2. app[a].stops \in Nat /\ app[a].threads \in Nat /\ One(Owned(a)) \in Nat
      BY DEF ManagerInv, Typing, ApplicationType, One
    <3> QED BY <3>1, <3>2
  <2> QED BY <2>1, <2>2 DEF ManagerSafe, ManagerInv, PathsInv, PagesLoaded
<1> QED BY <1>1, ManagerInvHolds, PathsHold, PTL

\* No request, no table, no copy of it that ShutDown has not cleared and no recycling
\* thread uses an APPLICATION_INFO or an IAPPLICATION that DereferenceApplicationInfo or
\* DereferenceApplication destroyed.
THEOREM InUseAreAliveHolds == Spec => []InUseAreAlive
<1>1. ManagerInv => InfosInUseAreAlive
  <2> SUFFICES ASSUME ManagerInv PROVE InfosInUseAreAlive
    OBVIOUS
  <2>1. ~KeptCopyIsCleared => c.copy \subseteq table \cup Copied
    BY DEF ManagerInv, Changing, Copied, KeptCopyIsCleared
  <2> QED BY <2>1 DEF ManagerInv, HeldAreLive, InfosInUseAreAlive
<1>2. ManagerInv => ApplicationsInUseAreAlive
  <2> SUFFICES ASSUME ManagerInv PROVE ApplicationsInUseAreAlive
    OBVIOUS
  <2>1. \A a \in Apps : app[a].refs \in Nat /\ (app[a].refs >= 1 => app[a].refs > 0)
    BY DEF ManagerInv, Typing, ApplicationType
  <2>2. /\ \A r \in Requests : req[r].ap # None => req[r].ap \in Apps
        /\ \A i \in Infos : info[i].app # None => info[i].app \in Apps
    BY DEF ManagerInv, Typing, RequestType, InfoType
  <2> QED BY <2>1, <2>2, HeldApps DEF ManagerInv, AppLives, ApplicationsInUseAreAlive, Owned
<1> QED BY <1>1, <1>2, ManagerInvHolds, PTL DEF InUseAreAlive

\* A running application has an owner that will stop it, a thread that recycles it, or
\* a worker process that is about to be recycled (RecycleApplication).
THEOREM NoApplicationIsLostHolds == Spec => []NoApplicationIsLost
<1>1. ManagerInv => NoApplicationIsLost
  BY NoneIsNothing DEF ManagerInv, RunningIsKnown, UsedObjects, Owned, NoApplicationIsLost
<1> QED BY <1>1, ManagerInvHolds, PTL

-----------------------------------------------------------------------------
(* What FindConfigChangedApplication finds.                                *)
LEMMA ChangedAreBelow ==
  ASSUME NEW path \in Seq(Segments), NEW k \in Seq(Segments),
         FindConfigChangedApplication(path, k)
  PROVE  IsAncestor(path, k)
<1> DEFINE n == Len(path)
<1>1. /\ n \in Nat /\ Len(k) \in Nat /\ n <= Len(k)
      /\ SubSeq(path, 1, n) = SubSeq(k, 1, n)
      /\ Len(k) = n \/ k[n + 1] = Slash
  BY DEF FindConfigChangedApplication, IsPrefix
<1>2. path = SubSeq(k, 1, n)
  BY <1>1, SubSeqFull
<1>3. CASE Len(k) = n
  <2>1. path = k
    BY <1>2, <1>3, SubSeqFull
  <2> QED BY <2>1 DEF IsAncestor
<1>4. CASE Len(k) # n
  <2>1. n + 1 \in 1 .. Len(k) /\ 1 \in 1 .. Len(k) /\ k[n + 1] = Slash /\ (n + 1) - 1 = n
    BY <1>1, <1>4
  <2>2. SubSeq(k, 1, n + 1) = SubSeq(k, 1, n) \o <<Slash>>
    <3>1. n + 1 \in 1 .. Len(k) /\ 1 \in 1 .. Len(k) /\ n + 1 \in 1 .. Len(k)
      BY <2>1
    <3> HIDE DEF n
    <3>2. SubSeq(k, 1, n + 1) = SubSeq(k, 1, (n + 1) - 1) \o <<k[n + 1]>>
      BY <3>1, SubSeqRecursiveSecond
    <3> QED BY <2>1, <3>2
  <2>3. Append(path, Slash) = SubSeq(k, 1, n + 1)
    BY <1>2, <2>2
  <2>4. Slash \in Segments
    BY DEF Segments
  <2>5. Append(path, Slash) \in Seq(Segments) /\ Len(Append(path, Slash)) = n + 1
    BY <2>4
  <2>6. SubSeq(Append(path, Slash), 1, n + 1) = SubSeq(k, 1, n + 1)
    BY <2>3, <2>5, SubSeqFull
  <2>7. IsPrefix(Append(path, Slash), k)
    BY <2>1, <2>5, <2>6 DEF IsPrefix
  <2> QED BY <2>7 DEF IsAncestor
<1> QED BY <1>3, <1>4

\* RecycleApplicationFromManager removes no application but those whose configuration
\* path is the path that changed, or continues it with a separator.
THEOREM OnlyChangedLeaveHolds == Spec => OnlyChangedLeave
<1> DEFINE Leave == \A i \in table \ table' : s.pc = "apps" \/ IsAncestor(c.path, info[i].key)
<1>1. ManagerInv /\ [Next]_vars => [Leave]_vars
  <2> SUFFICES ASSUME ManagerInv, Next PROVE Leave
    OBVIOUS
  <2>1. CASE TakeChanged
    <3> SUFFICES ASSUME NEW i \in table \ table' PROVE IsAncestor(c.path, info[i].key)
      OBVIOUS
    <3>1. FindConfigChangedApplication(c.path, info[i].key)
      BY <2>1 DEF TakeChanged
    <3>2. c.path \in ChangePaths
      BY <2>1 DEF TakeChanged, ManagerInv, Changing
    <3>3. info[i].key \in Keys
      BY DEF ManagerInv, HeldAreLive, UsedObjects, Typing
    <3>4. c.path \in Seq(Segments) /\ info[i].key \in Seq(Segments)
      BY <3>2, <3>3, PathsAreSequences
    <3> QED BY <3>1, <3>4, ChangedAreBelow
  <2>2. CASE ClearTable
    BY <2>2 DEF ClearTable
  <2>3. CASE \E r \in Requests : RequestStep(r)
    <3>1. PICK r \in Requests : RequestStep(r)
      BY <2>3
    <3>2. table \subseteq table'
      BY <3>1 DEF RequestStep, OnExecuteRequestHandler, FindInfo, CountInfos, CreateInfo,
         InitializeInfo, AppOfflineFound, ServeOffline, EnsureUnlocked, EnsureLocked,
         CreateApplication, ExtractApplication, RunHandler, ReleaseApplication, EndRequest,
         mvars
    <3> QED BY <3>2
  <2>4. CASE WatcherStep
    <3>1. table' = table
      BY <2>4 DEF WatcherStep, Dequeue, HandleChangeCompletion, UpdateAppOfflineFileHandle,
         WatcherRecycles, WatcherReleases, MonitorAgain, mvars
    <3> QED BY <3>1
  <2>5. CASE \/ \E a \in Apps : DoRecycleApplication(a)
             \/ \E i \in Infos : Destroy(i)
             \/ \E k \in Keys : Flip(k)
    <3>1. table' = table
      BY <2>5 DEF DoRecycleApplication, Destroy, Flip, mvars
    <3> QED BY <3>1
  <2>6. CASE \/ OnGlobalConfigurationChange \/ RecycleChanged \/ DropCopy
             \/ OnGlobalStopListening
    <3>1. table' = table
      BY <2>6 DEF OnGlobalConfigurationChange, RecycleChanged, DropCopy,
         OnGlobalStopListening, mvars
    <3> QED BY <3>1
  <2>7. CASE DeleteWatcher \/ LockManager \/ ShutDownApplication \/ DeleteTable
    <3>1. table' = table
      BY <2>7 DEF DeleteWatcher, LockManager, ShutDownApplication, DeleteTable, mvars
    <3> QED BY <3>1
  <2> QED BY <2>1, <2>2, <2>3, <2>4, <2>5, <2>6, <2>7 DEF Next, ShutdownStep
<1> QED BY <1>1, ManagerInvHolds, PTL DEF Spec, OnlyChangedLeave

=============================================================================
