---------------------------- MODULE SharedState_proofs -----------------------------
(***************************************************************************)
(* Proofs about what all the requests of the module share: first the       *)
(* request handler that Activation loads for them, then the table of       *)
(* HashTable.  The two specifications have nothing in common; no theorem   *)
(* is about both.                                                          *)
(*                                                                         *)
(* Activation, for any requests, applications, configurations and disks:   *)
(* the request handler is loaded at most once, the flag which is read      *)
(* without the lock stands for an entry point that can be called, and a    *)
(* failure to load is final.  HandlerInv says what each place between the  *)
(* flags and the entry point knows of them: only the holder of g_srwLock   *)
(* loads, and only while neither flag is set.  ConfigInv, of the race for  *)
(* the module context, says whose configuration is stored there, and       *)
(* HostFxrInv that it names the newest hostfxr.dll that was found.         *)
(*                                                                         *)
(* HashTable, for any threads, keys, records and hashes, and any number of *)
(* buckets: the chains stay in order and the references and the count      *)
(* exact, and the table implements RecordMap.  The heart of TableInv is    *)
(* what a walk knows of the nodes it has passed: their keys are others and *)
(* their hashes not greater, which no insertion under the shared lock can  *)
(* undo because the chain is ordered.  It is why a pointer that still      *)
(* holds what the walk read is enough for the interlocked exchange.        *)
(***************************************************************************)
EXTENDS Activation, HashTable, FiniteSetTheorems, SequenceTheorems, WellFoundedInduction, TLAPS

(* Induction: a set of numbers has a least one, so that what is false for  *)
(* none that is least is true for all.                                     *)
LEMMA LeastExists ==
  ASSUME NEW S \in SUBSET Nat, S # {}
  PROVE  \E p \in S : \A q \in S : p <= q
<1>1. PICK p \in S : \A q \in S : ~ (<<q, p>> \in OpToRel(<, Nat))
  BY WFMin, NatLessThanWellFounded
<1>2. \A q \in S : ~ (q < p)
  BY <1>1 DEF OpToRel
<1> QED BY <1>2

-----------------------------------------------------------------------------
(* Activation: the loading of the request handler.                         *)
LoadPlaces == {"load", "address", "flag"}
LockedPlaces == LoadPlaces \cup {"take", "fails"}
Places == LockedPlaces \cup {"new", "populate", "set", "copy", "ensure", "lock", "find",
                             "findLock", "create", "done", "failed"}

Request == [pc : Places, app : Apps \cup {Null}, conf : Requests \cup {Null}, invalid : BOOLEAN]

HandlerTypes ==
  /\ stored \in [Apps -> Requests \cup {Null}]
  /\ entry \in [Apps -> BOOLEAN]
  /\ rhEntry \in BOOLEAN /\ rhLoaded \in BOOLEAN /\ rhError \in BOOLEAN
  /\ loads \in Nat
  /\ req \in [Requests -> Request]
  /\ \A r \in Requests : req[r].pc # "new" => req[r].app \in Apps

\* Who loads holds the lock, and neither flag is set.
LoaderInv ==
  \A r \in Requests :
    req[r].pc \in LoadPlaces => rhLock = r /\ ~rhLoaded /\ ~rhError

\* A failure is not yet flagged only where the lock is still held.
FailureInv ==
  /\ rhError => ~rhLoaded
  /\ \A r \in Requests : req[r].pc = "fails" => ~rhLoaded /\ (rhError \/ rhLock = r)

\* The flag stands for the pointer, and who is past it has a copy of it.
EntryInv ==
  /\ rhLoaded => rhEntry
  /\ \A r \in Requests :
       /\ req[r].pc = "flag" => rhEntry
       /\ req[r].pc \in {"take", "create"} => rhLoaded
       /\ req[r].pc = "create" => entry[req[r].app]
       /\ ~req[r].invalid

\* LoadLibrary was called: a flag says so, or the one who called it is about to.
LoadsInv ==
  /\ loads <= 1
  /\ loads = 1 =>
       \/ rhLoaded
       \/ rhError
       \/ \E r \in Requests : rhLock = r /\ req[r].pc \in {"address", "flag", "fails"}

HandlerInv == HandlerTypes /\ LoaderInv /\ FailureInv /\ EntryInv /\ LoadsInv

handlerVars == <<stored, entry, rhLock, rhEntry, rhLoaded, rhError, loads>>

-----------------------------------------------------------------------------
(* A request moves on and keeps its application and its answer.            *)
Moved(r, pc) ==
  /\ req' \in [Requests -> Request]
  /\ req'[r].pc = pc /\ req'[r].app = req[r].app /\ req'[r].invalid = req[r].invalid
  /\ \A q \in Requests \ {r} : req'[q] = req[q]

LEMMA GotoMoves ==
  ASSUME HandlerTypes, NEW r \in Requests, NEW pc \in Places, Goto(r, pc)
  PROVE  Moved(r, pc)
  BY DEF HandlerTypes, Goto, Moved, Request

LEMMA UsesMoves ==
  ASSUME HandlerTypes, NEW r \in Requests, NEW c \in Requests \cup {Null}, Uses(r, c)
  PROVE  Moved(r, "ensure")
  BY DEF HandlerTypes, Uses, Moved, Request, Places

(* Places outside the loading of the handler promise nothing of it.        *)
Elsewhere == {"populate", "set", "copy", "ensure", "lock", "find", "findLock", "done", "failed"}

LEMMA MoveElsewhere ==
  ASSUME HandlerInv, NEW r \in Requests, NEW pc \in Elsewhere, Moved(r, pc),
         req[r].pc \notin LockedPlaces \cup {"new"},
         entry' = entry, rhLock' = rhLock, rhEntry' = rhEntry, rhLoaded' = rhLoaded,
         rhError' = rhError, loads' = loads,
         stored' \in [Apps -> Requests \cup {Null}]
  PROVE  HandlerInv'
<1>1. HandlerTypes'
  BY DEF HandlerInv, HandlerTypes, Moved, Elsewhere
<1>2. LoaderInv'
  BY DEF HandlerInv, LoaderInv, Moved, Elsewhere, LoadPlaces
<1>3. FailureInv'
  BY DEF HandlerInv, FailureInv, Moved, Elsewhere
<1>4. EntryInv'
  BY DEF HandlerInv, EntryInv, Moved, Elsewhere
<1>5. LoadsInv'
  BY DEF HandlerInv, LoadsInv, Moved, LockedPlaces, LoadPlaces
<1> QED BY <1>1, <1>2, <1>3, <1>4, <1>5 DEF HandlerInv

-----------------------------------------------------------------------------
LEMMA Initially == Init => HandlerInv
<1> SUFFICES ASSUME Init PROVE HandlerInv
  OBVIOUS
<1>1. req \in [Requests -> Request] /\ \A r \in Requests : req[r].pc = "new" /\ ~req[r].invalid
  BY DEF Init, Request, Places
<1>2. HandlerTypes
  BY <1>1 DEF Init, HandlerTypes
<1> QED BY <1>1, <1>2 DEF Init, HandlerInv, LoaderInv, FailureInv, EntryInv, LoadsInv, LoadPlaces

LEMMA GetModuleContextKeeps ==
  ASSUME HandlerInv, NEW r \in Requests, NEW a \in Apps, GetModuleContext(r, a)
  PROVE  HandlerInv'
<1> USE DEF HandlerInv
<1>1. /\ req' \in [Requests -> Request]
      /\ req'[r].pc \in {"ensure", "populate"} /\ req'[r].app = a /\ ~req'[r].invalid
      /\ \A q \in Requests \ {r} : req'[q] = req[q]
  BY DEF GetModuleContext, HandlerTypes, Request, Places
<1>2. UNCHANGED handlerVars /\ req[r].pc = "new"
  BY DEF GetModuleContext, configVars, appVars, rhVars, handlerVars
<1>3. HandlerTypes'
  BY <1>1, <1>2 DEF HandlerTypes, handlerVars
<1>4. LoaderInv' /\ FailureInv' /\ EntryInv' /\ LoadsInv'
  BY <1>1, <1>2 DEF LoaderInv, FailureInv, EntryInv, LoadsInv, LoadPlaces, handlerVars
<1> QED BY <1>3, <1>4

(* GetConfig, and the looks at the application before the handler is wanted. *)
LEMMA OutsideKeeps ==
  ASSUME HandlerInv, NEW r \in Requests,
         \/ Populate(r) \/ SetModuleContext(r) \/ CopyApplicationPath(r)
         \/ EnsureUnlocked(r) \/ EnsureLocked(r)
  PROVE  HandlerInv'
<1> HandlerTypes
  BY DEF HandlerInv
<1>1. CASE Populate(r)
  <2>1. \E pc \in {"failed", "set"} : Goto(r, pc)
    BY <1>1 DEF Populate
  <2>2. \E pc \in {"failed", "set"} : Moved(r, pc)
    BY <2>1, GotoMoves DEF Places
  <2> QED BY <1>1, <2>2, MoveElsewhere
      DEF Populate, appVars, rhVars, HandlerTypes, Elsewhere, LockedPlaces, LoadPlaces
<1>2. CASE SetModuleContext(r)
  <2>1. req[r].pc = "set" /\ UNCHANGED <<appVars, rhVars>>
    BY <1>2 DEF SetModuleContext
  <2>2. stored' \in [Apps -> Requests \cup {Null}]
    BY <1>2 DEF SetModuleContext, HandlerTypes
  <2>3. TakesStored(r) \in Requests \cup {Null}
    BY <2>1 DEF TakesStored, Context, HandlerTypes
  <2>4. Goto(r, "copy") \/ Goto(r, "failed") \/ Uses(r, TakesStored(r))
    BY <1>2 DEF SetModuleContext
  <2>5. \E pc \in {"copy", "failed", "ensure"} : Moved(r, pc)
    BY <2>3, <2>4, GotoMoves, UsesMoves DEF Places
  <2> QED BY <2>1, <2>2, <2>5, MoveElsewhere
      DEF appVars, rhVars, Elsewhere, LockedPlaces, LoadPlaces
<1>3. CASE CopyApplicationPath(r)
  <2>1. req[r].pc = "copy" /\ UNCHANGED <<stored, appVars, rhVars>>
    BY <1>3 DEF CopyApplicationPath
  <2>2. Uses(r, r) \/ Goto(r, "failed")
    BY <1>3 DEF CopyApplicationPath
  <2>3. \E pc \in {"ensure", "failed"} : Moved(r, pc)
    BY <2>2, GotoMoves, UsesMoves DEF Places
  <2> QED BY <2>1, <2>3, MoveElsewhere
      DEF appVars, rhVars, HandlerTypes, Elsewhere, LockedPlaces, LoadPlaces
<1>4. CASE EnsureUnlocked(r)
  <2>1. req[r].pc = "ensure" /\ UNCHANGED <<configVars, appVars, rhVars>>
    BY <1>4 DEF EnsureUnlocked
  <2>2. \E pc \in {"done", "lock"} : Goto(r, pc)
    BY <1>4 DEF EnsureUnlocked
  <2>3. \E pc \in {"done", "lock"} : Moved(r, pc)
    BY <2>2, GotoMoves DEF Places
  <2> QED BY <2>1, <2>3, MoveElsewhere
      DEF configVars, appVars, rhVars, HandlerTypes, Elsewhere, LockedPlaces, LoadPlaces
<1>5. CASE EnsureLocked(r)
  <2>1. req[r].pc = "lock" /\ UNCHANGED <<configVars, entry, rhVars>>
    BY <1>5 DEF EnsureLocked
  <2>2. \E pc \in {"done", "find"} : Goto(r, pc)
    BY <1>5 DEF EnsureLocked
  <2>3. \E pc \in {"done", "find"} : Moved(r, pc)
    BY <2>2, GotoMoves DEF Places
  <2> QED BY <2>1, <2>3, MoveElsewhere
      DEF configVars, rhVars, HandlerTypes, Elsewhere, LockedPlaces, LoadPlaces
<1> QED BY <1>1, <1>2, <1>3, <1>4, <1>5

(* The first look at the flags, without the lock.                          *)
LEMMA FindUnlockedKeeps ==
  ASSUME HandlerInv, NEW r \in Requests, FindUnlocked(r)
  PROVE  HandlerInv'
<1> HandlerTypes
  BY DEF HandlerInv
<1>1. UNCHANGED handlerVars /\ req[r].pc = "find"
  BY DEF FindUnlocked, configVars, appVars, rhVars, handlerVars
<1>2. CASE rhError
  <2>1. Moved(r, "fails")
    BY <1>2, GotoMoves DEF FindUnlocked, Places, LockedPlaces
  <2>2. HandlerTypes'
    BY <1>1, <2>1 DEF HandlerTypes, Moved, handlerVars
  <2>3. LoaderInv' /\ FailureInv' /\ EntryInv' /\ LoadsInv'
    BY <1>1, <1>2, <2>1 DEF HandlerInv, LoaderInv, FailureInv, EntryInv, LoadsInv, LoadPlaces,
                            Moved, handlerVars
  <2> QED BY <2>2, <2>3 DEF HandlerInv
<1>3. CASE ~rhError /\ rhLoaded
  <2>1. Moved(r, "take")
    BY <1>3, GotoMoves DEF FindUnlocked, IsLoaded, Places, LockedPlaces
  <2>2. HandlerTypes'
    BY <1>1, <2>1 DEF HandlerTypes, Moved, handlerVars
  <2>3. LoaderInv' /\ FailureInv' /\ EntryInv' /\ LoadsInv'
    BY <1>1, <1>3, <2>1 DEF HandlerInv, LoaderInv, FailureInv, EntryInv, LoadsInv, LoadPlaces,
                            Moved, handlerVars
  <2> QED BY <2>2, <2>3 DEF HandlerInv
<1>4. CASE ~rhError /\ ~rhLoaded
  <2>1. Moved(r, "findLock")
    BY <1>4, GotoMoves DEF FindUnlocked, IsLoaded, Places
  <2> QED BY <1>1, <2>1, MoveElsewhere
      DEF HandlerTypes, Elsewhere, LockedPlaces, LoadPlaces, handlerVars
<1> QED BY <1>2, <1>3, <1>4

(* The second look, with the lock: the first loader finds loads = 0.       *)
LEMMA FindLockedKeeps ==
  ASSUME HandlerInv, NEW r \in Requests, FindLocked(r)
  PROVE  HandlerInv'
<1> HandlerTypes
  BY DEF HandlerInv
<1>1. /\ req[r].pc = "findLock" /\ rhLock = Null /\ rhLock' = r
      /\ UNCHANGED <<stored, entry, rhEntry, rhLoaded, rhError, loads>>
  BY DEF FindLocked, configVars, appVars
<1>2. \E pc \in {"fails", "take", "load"} :
        /\ Moved(r, pc)
        /\ pc = "fails" => rhError
        /\ pc = "take" => rhLoaded
        /\ pc = "load" => ~rhError /\ ~rhLoaded
  <2>1. Recheck \in {"fails", "take", "load"} /\ Goto(r, Recheck)
    BY DEF FindLocked, Recheck
  <2>2. Moved(r, Recheck)
    BY <2>1, GotoMoves DEF Places, LockedPlaces, LoadPlaces
  <2> QED BY <2>1, <2>2 DEF Recheck
<1>3. \A q \in Requests : q # Null
  BY NullAssumption
<1>4. HandlerTypes'
  BY <1>1, <1>2 DEF HandlerTypes, Moved
<1>5. LoaderInv'
  BY <1>1, <1>2, <1>3 DEF HandlerInv, LoaderInv, LoadPlaces, Moved
<1>6. FailureInv'
  BY <1>1, <1>2, <1>3 DEF HandlerInv, FailureInv, Moved
<1>7. EntryInv'
  BY <1>1, <1>2 DEF HandlerInv, EntryInv, Moved
<1>8. LoadsInv'
  BY <1>1, <1>3 DEF HandlerInv, LoadsInv
<1> QED BY <1>4, <1>5, <1>6, <1>7, <1>8 DEF HandlerInv

(* LoadLibrary: the loader is alone, so nobody has loaded before.          *)
LEMMA LoadHandlerKeeps ==
  ASSUME HandlerInv, NEW r \in Requests, LoadHandler(r)
  PROVE  HandlerInv'
<1> HandlerTypes
  BY DEF HandlerInv
<1>1. /\ req[r].pc = "load"
      /\ UNCHANGED <<stored, entry, rhLock, rhEntry, rhLoaded, rhError>>
  BY DEF LoadHandler, configVars, appVars
<1>2. rhLock = r /\ ~rhLoaded /\ ~rhError
  BY <1>1 DEF HandlerInv, LoaderInv, LoadPlaces
<1>3. loads = 0
  BY <1>1, <1>2 DEF HandlerInv, HandlerTypes, LoadsInv
<1>4. \E pc \in {"address", "fails"} : Moved(r, pc) /\ (loads' = 1 \/ loads' = loads)
  BY <1>3, GotoMoves DEF LoadHandler, Places, LockedPlaces, LoadPlaces
<1>5. HandlerTypes'
  BY <1>1, <1>4 DEF HandlerTypes, Moved
<1>6. LoaderInv' /\ FailureInv'
  BY <1>1, <1>2, <1>4 DEF HandlerInv, LoaderInv, FailureInv, LoadPlaces, Moved
<1>7. EntryInv'
  BY <1>1, <1>4 DEF HandlerInv, EntryInv, Moved
<1>8. LoadsInv'
  BY <1>1, <1>2, <1>3, <1>4 DEF LoadsInv, Moved
<1> QED BY <1>5, <1>6, <1>7, <1>8 DEF HandlerInv

(* The pointer is set by the holder of the lock, while the flag is not.    *)
LEMMA GetProcAddressKeeps ==
  ASSUME HandlerInv, NEW r \in Requests, GetProcAddress(r)
  PROVE  HandlerInv'
<1> HandlerTypes
  BY DEF HandlerInv
<1>1. /\ req[r].pc = "address"
      /\ UNCHANGED <<stored, entry, rhLock, rhLoaded, rhError, loads>>
  BY DEF GetProcAddress, configVars, appVars
<1>2. rhLock = r /\ ~rhLoaded /\ ~rhError
  BY <1>1 DEF HandlerInv, LoaderInv, LoadPlaces
<1>3. \A q \in Requests \ {r} : req[q].pc \notin LoadPlaces \cup {"fails"}
  BY <1>2 DEF HandlerInv, LoaderInv, FailureInv
<1>4. CASE rhEntry' = TRUE /\ Goto(r, "flag")
  <2>1. Moved(r, "flag")
    BY <1>4, GotoMoves DEF Places, LockedPlaces, LoadPlaces
  <2>2. HandlerTypes'
    BY <1>1, <1>4, <2>1 DEF HandlerTypes, Moved
  <2>3. LoaderInv' /\ FailureInv'
    BY <1>1, <1>2, <1>3, <2>1 DEF HandlerInv, LoaderInv, FailureInv, LoadPlaces, Moved
  <2>4. EntryInv'
    BY <1>1, <1>4, <2>1 DEF HandlerInv, EntryInv, Moved
  <2>5. LoadsInv'
    BY <1>1, <1>2, <2>1 DEF HandlerInv, LoadsInv, Moved
  <2> QED BY <2>2, <2>3, <2>4, <2>5 DEF HandlerInv
<1>5. CASE Goto(r, "fails") /\ UNCHANGED rhEntry
  <2>1. Moved(r, "fails")
    BY <1>5, GotoMoves DEF Places, LockedPlaces
  <2>2. HandlerTypes'
    BY <1>1, <1>5, <2>1 DEF HandlerTypes, Moved
  <2>3. LoaderInv' /\ FailureInv'
    BY <1>1, <1>2, <1>3, <1>5, <2>1 DEF HandlerInv, LoaderInv, FailureInv, LoadPlaces, Moved
  <2>4. EntryInv'
    BY <1>1, <1>5, <2>1 DEF HandlerInv, EntryInv, Moved
  <2>5. LoadsInv'
    BY <1>1, <1>2, <1>5, <2>1 DEF HandlerInv, LoadsInv, Moved
  <2> QED BY <2>2, <2>3, <2>4, <2>5 DEF HandlerInv
<1> QED BY <1>4, <1>5 DEF GetProcAddress

(* The flag is set by the one who has stored the pointer.                  *)
LEMMA FlagLoadedKeeps ==
  ASSUME HandlerInv, NEW r \in Requests, FlagLoaded(r)
  PROVE  HandlerInv'
<1> HandlerTypes
  BY DEF HandlerInv
<1>1. /\ req[r].pc = "flag" /\ rhLoaded' = TRUE
      /\ UNCHANGED <<stored, entry, rhLock, rhEntry, rhError, loads>>
  BY DEF FlagLoaded, configVars, appVars
<1>2. rhLock = r /\ ~rhLoaded /\ ~rhError /\ rhEntry
  BY <1>1 DEF HandlerInv, LoaderInv, LoadPlaces, EntryInv
<1>3. \A q \in Requests \ {r} : req[q].pc \notin LoadPlaces \cup {"fails"}
  BY <1>2 DEF HandlerInv, LoaderInv, FailureInv
<1>4. Moved(r, "take")
  BY GotoMoves DEF FlagLoaded, Places, LockedPlaces
<1>5. HandlerTypes'
  BY <1>1, <1>4 DEF HandlerTypes, Moved
<1>6. LoaderInv' /\ FailureInv'
  BY <1>1, <1>2, <1>3, <1>4 DEF LoaderInv, FailureInv, LoadPlaces, Moved
<1>7. EntryInv'
  BY <1>1, <1>2, <1>4 DEF HandlerInv, EntryInv, Moved
<1>8. LoadsInv'
  BY <1>1 DEF HandlerInv, LoadsInv
<1> QED BY <1>5, <1>6, <1>7, <1>8 DEF HandlerInv

(* The lock is let go only with a flag set.                                *)
LEMMA TakeEntryKeeps ==
  ASSUME HandlerInv, NEW r \in Requests, TakeEntry(r)
  PROVE  HandlerInv'
<1> HandlerTypes
  BY DEF HandlerInv
<1>1. /\ req[r].pc = "take" /\ rhLock' = Released(rhLock, r)
      /\ UNCHANGED <<stored, rhEntry, rhLoaded, rhError, loads>>
  BY DEF TakeEntry, configVars
<1>2. Moved(r, "create")
  BY GotoMoves DEF TakeEntry, Places
<1>3. rhLoaded /\ rhEntry /\ ~rhError
  BY <1>1 DEF HandlerInv, EntryInv, FailureInv
<1>4. req[r].app \in Apps
  BY <1>1 DEF HandlerTypes
<1>5. /\ entry' \in [Apps -> BOOLEAN] /\ entry'[req[r].app]
      /\ \A a \in Apps : entry[a] => entry'[a]
  BY <1>3, <1>4 DEF TakeEntry, HandlerTypes
<1>6. HandlerTypes'
  BY <1>1, <1>2, <1>5 DEF HandlerTypes, Moved
<1>7. LoaderInv' /\ FailureInv'
  BY <1>1, <1>2, <1>3 DEF HandlerInv, LoaderInv, FailureInv, LoadPlaces, Moved
<1>8. EntryInv'
  BY <1>1, <1>2, <1>3, <1>5 DEF HandlerInv, HandlerTypes, EntryInv, Moved
<1>9. LoadsInv'
  BY <1>1, <1>3 DEF HandlerInv, LoadsInv
<1> QED BY <1>6, <1>7, <1>8, <1>9 DEF HandlerInv

LEMMA FindFailsKeeps ==
  ASSUME HandlerInv, NEW r \in Requests, FindFails(r)
  PROVE  HandlerInv'
<1> HandlerTypes
  BY DEF HandlerInv
<1>1. /\ req[r].pc = "fails" /\ rhLock' = Released(rhLock, r) /\ rhError' = TRUE
      /\ UNCHANGED <<stored, rhEntry, rhLoaded, loads>>
  BY DEF FindFails, configVars
<1>2. Moved(r, "failed")
  BY GotoMoves DEF FindFails, Places
<1>3. ~rhLoaded /\ (rhError \/ rhLock = r)
  BY <1>1 DEF HandlerInv, FailureInv
<1>4. \A q \in Requests \ {r} : req[q].pc \notin LoadPlaces \cup {"take", "create"}
  BY <1>3 DEF HandlerInv, LoaderInv, EntryInv
<1>5. entry' \in [Apps -> BOOLEAN]
  BY DEF FindFails, HandlerTypes
<1>6. HandlerTypes'
  BY <1>1, <1>2, <1>5 DEF HandlerTypes, Moved
<1>7. LoaderInv' /\ FailureInv'
  BY <1>1, <1>2, <1>3, <1>4 DEF HandlerInv, LoaderInv, FailureInv, LoadPlaces, Moved
<1>8. EntryInv'
  BY <1>1, <1>2, <1>3, <1>4 DEF HandlerInv, EntryInv, Moved
<1>9. LoadsInv'
  BY <1>1 DEF HandlerInv, LoadsInv
<1> QED BY <1>6, <1>7, <1>8, <1>9 DEF HandlerInv

(* The pointer is there, so that the call is never refused.                *)
LEMMA CreateApplicationKeeps ==
  ASSUME HandlerInv, NEW r \in Requests, CreateApplication(r)
  PROVE  HandlerInv'
<1> HandlerTypes
  BY DEF HandlerInv
<1>1. req[r].pc = "create" /\ UNCHANGED <<configVars, entry, rhVars>>
  BY DEF CreateApplication
<1>2. entry[req[r].app]
  BY <1>1 DEF HandlerInv, EntryInv
<1>3. \E pc \in {"done", "failed"} : Goto(r, pc)
  BY <1>2 DEF CreateApplication
<1>4. \E pc \in {"done", "failed"} : Moved(r, pc)
  BY <1>3, GotoMoves DEF Places
<1> QED BY <1>1, <1>4, MoveElsewhere
    DEF configVars, rhVars, HandlerTypes, Elsewhere, LockedPlaces, LoadPlaces

-----------------------------------------------------------------------------
LEMMA StepKeeps == HandlerInv /\ [Next]_vars => HandlerInv'
<1> SUFFICES ASSUME HandlerInv, [Next]_vars PROVE HandlerInv'
  OBVIOUS
<1>1. CASE UNCHANGED vars
  <2>1. UNCHANGED <<handlerVars, req>>
    BY <1>1 DEF vars, configVars, appVars, rhVars, handlerVars
  <2> QED BY <2>1 DEF HandlerInv, HandlerTypes, LoaderInv, FailureInv, EntryInv, LoadsInv,
                      handlerVars
<1>2. CASE Next
  <2>1. PICK r \in Requests : (\E a \in Apps : GetModuleContext(r, a)) \/ Step(r)
    BY <1>2 DEF Next
  <2>2. CASE \E a \in Apps : GetModuleContext(r, a)
    BY <2>2, GetModuleContextKeeps
  <2>3. CASE Step(r)
    BY <2>3, OutsideKeeps, FindUnlockedKeeps, FindLockedKeeps, LoadHandlerKeeps,
       GetProcAddressKeeps, FlagLoadedKeeps, TakeEntryKeeps, FindFailsKeeps,
       CreateApplicationKeeps DEF Step
  <2> QED BY <2>1, <2>2, <2>3
<1> QED BY <1>1, <1>2

(* What FindRequestHandlerAssembly knows at each place between the flags   *)
(* and the entry point stays true, whichever request runs.                 *)
THEOREM HandlerInvHolds == Spec => []HandlerInv
<1>1. Init => HandlerInv
  BY Initially
<1>2. HandlerInv /\ [Next]_vars => HandlerInv'
  BY StepKeeps
<1> QED BY <1>1, <1>2, PTL DEF Spec

(* FindRequestHandlerAssembly calls LoadLibrary at most once in the life   *)
(* of the worker process, however many requests of however many            *)
(* applications come in, and whether or not loading succeeds.              *)
THEOREM LoadedAtMostOnce == Spec => []HandlerLoadedOnce
<1>1. HandlerInv => HandlerLoadedOnce
  BY DEF HandlerInv, LoadsInv, HandlerLoadedOnce
<1> QED BY <1>1, HandlerInvHolds, PTL

(* g_fAspnetcoreRHAssemblyLoaded is read without the lock, yet no request  *)
(* that passes it finds the pointer to CreateApplication missing: the      *)
(* pointer is stored one step before the flag (EntryInv).                  *)
THEOREM EntryAlwaysPublished == Spec => []EntryIsPublished
<1>1. HandlerInv => EntryIsPublished
  BY DEF HandlerInv, EntryInv, EntryIsPublished
<1> QED BY <1>1, HandlerInvHolds, PTL

(* "we remember the load failure so that we will not try again": after one *)
(* no application of the worker process is created.                        *)
THEOREM FailureStays == Spec => FailureIsFinal
<1>1. HandlerInv /\ [Next]_vars => [rhError => UNCHANGED app]_vars
  <2> SUFFICES ASSUME HandlerInv, Next, rhError PROVE UNCHANGED app
    BY DEF vars
  <2>1. PICK r \in Requests : (\E a \in Apps : GetModuleContext(r, a)) \/ Step(r)
    BY DEF Next
  <2>2. ~CreateApplication(r)
    BY DEF CreateApplication, HandlerInv, EntryInv, FailureInv
  <2> QED BY <2>1, <2>2 DEF Step, GetModuleContext, Populate, SetModuleContext,
             CopyApplicationPath, EnsureUnlocked, EnsureLocked, FindUnlocked, FindLocked,
             LoadHandler, GetProcAddress, FlagLoaded, TakeEntry, FindFails, appVars
<1> QED BY <1>1, HandlerInvHolds, PTL DEF Spec, FailureIsFinal
-----------------------------------------------------------------------------
(* The race for the module context.  What a request uses is what is stored *)
(* there; it belongs to a request that has won the race, and nobody else   *)
(* will delete it.                                                         *)
ConfigTypes ==
  /\ stored \in [Apps -> Requests \cup {Null}]
  /\ config = [r \in Requests |-> config[r]]
  /\ \A r \in Requests : "life" \in DOMAIN config[r]
  /\ req \in [Requests -> Request]
  /\ \A r \in Requests : req[r].pc # "new" => req[r].app \in Apps

UsersInv ==
  /\ \A r \in Requests : req[r].conf # Null => req[r].pc # "new" /\ req[r].conf = Context(r)
  /\ \A r \in Requests : req[r].pc = "copy" => Context(r) = r

OwnersInv ==
  \A a \in Apps : stored[a] # Null =>
    /\ config[stored[a]].life \in {"live", "dangling"}
    /\ req[stored[a]].pc \notin {"new", "populate", "set"}

ConfigInv == ConfigTypes /\ UsersInv /\ OwnersInv

(* A step that only takes one request further.                             *)
LEMMA FurtherKeepsConfig ==
  ASSUME ConfigInv, NEW r \in Requests, NEW pc \in Places \ {"new", "populate", "set", "copy"},
         Goto(r, pc), UNCHANGED configVars, req[r].pc # "new"
  PROVE  ConfigInv'
<1> USE DEF ConfigInv, configVars
<1>1. /\ req' \in [Requests -> Request]
      /\ req'[r].pc = pc /\ req'[r].app = req[r].app /\ req'[r].conf = req[r].conf
      /\ \A q \in Requests \ {r} : req'[q] = req[q]
  BY DEF ConfigTypes, Goto, Request
<1>2. ConfigTypes'
  BY <1>1 DEF ConfigTypes
<1>3. UsersInv'
  BY <1>1 DEF UsersInv, Context
<1>4. OwnersInv'
  BY <1>1 DEF ConfigTypes, OwnersInv
<1> QED BY <1>2, <1>3, <1>4

LEMMA ContextKeepsConfig ==
  ASSUME ConfigInv, NEW r \in Requests, NEW a \in Apps, GetModuleContext(r, a)
  PROVE  ConfigInv'
<1> USE DEF ConfigInv
<1>1. /\ req' \in [Requests -> Request]
      /\ req'[r].pc \in {"ensure", "populate"} /\ req'[r].app = a /\ req'[r].conf = stored[a]
      /\ \A q \in Requests \ {r} : req'[q] = req[q]
      /\ req[r].pc = "new" /\ UNCHANGED configVars
  BY DEF GetModuleContext, ConfigTypes, Request, Places
<1>2. ConfigTypes'
  BY <1>1 DEF ConfigTypes, configVars
<1>3. UsersInv'
  BY <1>1 DEF UsersInv, Context, configVars
<1>4. OwnersInv'
  BY <1>1 DEF ConfigTypes, OwnersInv, configVars
<1> QED BY <1>2, <1>3, <1>4

LEMMA PopulateKeepsConfig ==
  ASSUME ConfigInv, NEW r \in Requests, Populate(r)
  PROVE  ConfigInv'
<1> USE DEF ConfigInv
<1>1. req[r].pc = "populate" /\ stored' = stored
  BY DEF Populate
<1>2. PICK pc \in {"failed", "set"} : Goto(r, pc)
  BY DEF Populate
<1>3. /\ req' \in [Requests -> Request]
      /\ req'[r].pc = pc /\ req'[r].app = req[r].app /\ req'[r].conf = req[r].conf
      /\ \A q \in Requests \ {r} : req'[q] = req[q]
  BY <1>2 DEF ConfigTypes, Goto, Request, Places
<1>4. /\ config' = [q \in Requests |-> config'[q]]
      /\ "life" \in DOMAIN config'[r]
      /\ \A q \in Requests \ {r} : config'[q] = config[q]
  BY ZenonT(40) DEF Populate, ConfigTypes, Populated, NoConfig
<1>5. \A a \in Apps : stored[a] # r
  BY <1>1, NullAssumption DEF OwnersInv
<1>6. ConfigTypes'
  BY <1>1, <1>3, <1>4 DEF ConfigTypes
<1>7. UsersInv'
  BY <1>1, <1>3 DEF UsersInv, Context
<1>8. OwnersInv'
  BY <1>1, <1>3, <1>4, <1>5 DEF ConfigTypes, OwnersInv
<1> QED BY <1>6, <1>7, <1>8

(* The winner's configuration is stored, the loser's deleted, and a loser  *)
(* is never the one whose configuration is stored.                         *)
LEMMA SetKeepsConfig ==
  ASSUME ConfigInv, NEW r \in Requests, SetModuleContext(r)
  PROVE  ConfigInv'
<1> DEFINE a == req[r].app
<1> USE DEF ConfigInv
<1>1. req[r].pc = "set" /\ a \in Apps
  BY DEF SetModuleContext, ConfigTypes
<1>2. \A b \in Apps : stored[b] # r
  BY <1>1, NullAssumption DEF OwnersInv
<1>3. PICK l \in {"live", "deleted"} : config' = [config EXCEPT ![r].life = l]
  BY DEF SetModuleContext
<1>4. /\ config' = [q \in Requests |-> config'[q]]
      /\ \A q \in Requests : "life" \in DOMAIN config'[q]
      /\ \A q \in Requests \ {r} : config'[q] = config[q]
      /\ config'[r].life = l
  BY <1>3 DEF ConfigTypes
<1>5. CASE Context(r) = Null /\ stored' = [stored EXCEPT ![a] = r] /\ Goto(r, "copy")
           /\ config' = [config EXCEPT ![r].life = "live"]
  <2>1. /\ req' \in [Requests -> Request]
        /\ req'[r].pc = "copy" /\ req'[r].app = a /\ req'[r].conf = req[r].conf
        /\ \A q \in Requests \ {r} : req'[q] = req[q]
    BY <1>5 DEF ConfigTypes, Goto, Request, Places
  <2>2. /\ stored' \in [Apps -> Requests \cup {Null}] /\ stored'[a] = r
        /\ \A b \in Apps \ {a} : stored'[b] = stored[b]
    BY <1>1, <1>5 DEF ConfigTypes
  <2>3. config'[r].life = "live"
    BY <1>5 DEF ConfigTypes
  <2>4. ConfigTypes'
    BY <1>1, <1>4, <2>1, <2>2 DEF ConfigTypes
  <2>5. UsersInv'
    <3>1. \A q \in Requests : req[q].app = a /\ req[q].pc # "new" => req[q].conf = Null
      BY <1>5 DEF UsersInv, Context
    <3>2. \A q \in Requests : req[q].app = a => req[q].pc # "copy"
      BY <1>5, NullAssumption DEF UsersInv, Context
    <3>3. \A q \in Requests \ {r} : req[q].pc # "new" /\ req[q].app # a =>
             stored'[req[q].app] = stored[req[q].app]
      BY <2>2 DEF ConfigTypes
    <3>4. req[r].conf = Null
      BY <1>1, <3>1
    <3> QED BY <2>1, <2>2, <3>1, <3>2, <3>3, <3>4 DEF UsersInv, Context
  <2>6. OwnersInv'
    <3>1. ASSUME NEW b \in Apps \ {a}, stored'[b] # Null
          PROVE  config'[stored'[b]].life \in {"live", "dangling"}
                 /\ req'[stored'[b]].pc \notin {"new", "populate", "set"}
      <4>1. stored'[b] = stored[b] /\ stored[b] \in Requests \ {r}
        BY <1>2, <2>2, <3>1 DEF ConfigTypes
      <4> QED BY <1>4, <2>1, <3>1, <4>1 DEF OwnersInv
    <3> QED BY <1>1, <2>1, <2>2, <2>3, <3>1 DEF OwnersInv
  <2> QED BY <2>4, <2>5, <2>6
<1>6. CASE stored' = stored /\ (Goto(r, "failed") \/ (Context(r) # Null /\ Uses(r, TakesStored(r))))
  <2>1. /\ req' \in [Requests -> Request]
        /\ req'[r].pc \in {"failed", "ensure"} /\ req'[r].app = a
        /\ req'[r].conf \in {req[r].conf, Context(r)}
        /\ \A q \in Requests \ {r} : req'[q] = req[q]
    BY <1>1, <1>6 DEF ConfigTypes, Goto, Uses, TakesStored, Context, Request, Places
  <2>2. ConfigTypes'
    BY <1>4, <1>6, <2>1, <1>1 DEF ConfigTypes
  <2>3. UsersInv'
    BY <1>1, <1>6, <2>1 DEF UsersInv, Context
  <2>4. OwnersInv'
    BY <1>2, <1>4, <1>6, <2>1 DEF ConfigTypes, OwnersInv
  <2> QED BY <2>2, <2>3, <2>4
<1>7. \/ /\ Context(r) = Null /\ stored' = [stored EXCEPT ![a] = r] /\ Goto(r, "copy")
         /\ config' = [config EXCEPT ![r].life = "live"]
      \/ stored' = stored /\ (Goto(r, "failed") \/ (Context(r) # Null /\ Uses(r, TakesStored(r))))
  BY DEF SetModuleContext
<1> QED BY <1>5, <1>6, <1>7

LEMMA CopyKeepsConfig ==
  ASSUME ConfigInv, NEW r \in Requests, CopyApplicationPath(r)
  PROVE  ConfigInv'
<1> USE DEF ConfigInv
<1>1. req[r].pc = "copy" /\ req[r].app \in Apps /\ stored' = stored /\ Context(r) = r
  BY DEF CopyApplicationPath, ConfigTypes, UsersInv
<1>2. config[r].life \in {"live", "dangling"}
  BY <1>1, NullAssumption DEF OwnersInv, Context
<1>3. /\ config' = [q \in Requests |-> config'[q]]
      /\ \A q \in Requests : "life" \in DOMAIN config'[q]
      /\ \A q \in Requests \ {r} : config'[q] = config[q]
      /\ config'[r].life \in {"live", "dangling"}
  <2>1. CASE config' = [config EXCEPT ![r].path = TRUE]
    BY <1>2, <2>1 DEF ConfigTypes
  <2>2. CASE config' = [config EXCEPT ![r].life = "dangling"]
    BY <2>2 DEF ConfigTypes
  <2> QED BY <2>1, <2>2 DEF CopyApplicationPath
<1>4. /\ req' \in [Requests -> Request]
      /\ req'[r].pc \in {"failed", "ensure"} /\ req'[r].app = req[r].app
      /\ req'[r].conf \in {req[r].conf, r}
      /\ \A q \in Requests \ {r} : req'[q] = req[q]
  BY DEF CopyApplicationPath, ConfigTypes, Goto, Uses, Request, Places
<1>5. ConfigTypes'
  BY <1>1, <1>3, <1>4 DEF ConfigTypes
<1>6. UsersInv'
  BY <1>1, <1>4 DEF UsersInv, Context
<1>7. OwnersInv'
  BY <1>1, <1>3, <1>4 DEF ConfigTypes, OwnersInv
<1> QED BY <1>5, <1>6, <1>7

(* Nothing after GetConfig touches a configuration.                        *)
LEMMA LaterKeepsConfig ==
  ASSUME ConfigInv, NEW r \in Requests,
         \/ EnsureUnlocked(r) \/ EnsureLocked(r) \/ FindUnlocked(r) \/ FindLocked(r)
         \/ LoadHandler(r) \/ GetProcAddress(r) \/ FlagLoaded(r) \/ TakeEntry(r) \/ FindFails(r)
  PROVE  ConfigInv'
<1> DEFINE Later == Places \ {"new", "populate", "set", "copy"}
<1>1. UNCHANGED configVars /\ req[r].pc # "new"
  BY DEF EnsureUnlocked, EnsureLocked, FindUnlocked, FindLocked, LoadHandler, GetProcAddress, FlagLoaded,
         TakeEntry, FindFails
<1>2. \E pc \in Later : Goto(r, pc)
  BY DEF EnsureUnlocked, EnsureLocked, FindUnlocked, FindLocked, LoadHandler, GetProcAddress, FlagLoaded,
         TakeEntry, FindFails, Recheck, Places, LockedPlaces, LoadPlaces
<1> QED BY <1>1, <1>2, FurtherKeepsConfig

LEMMA CreateKeepsConfig ==
  ASSUME ConfigInv, NEW r \in Requests, CreateApplication(r)
  PROVE  ConfigInv'
<1> USE DEF ConfigInv
<1>1. UNCHANGED configVars /\ req[r].pc = "create"
  BY DEF CreateApplication
<1>2. CASE \E pc \in {"done", "failed"} : Goto(r, pc)
  BY <1>1, <1>2, FurtherKeepsConfig DEF Places
<1>3. CASE req' = [req EXCEPT ![r].pc = "failed", ![r].invalid = TRUE]
  <2>1. /\ req' \in [Requests -> Request]
        /\ req'[r].pc = "failed" /\ req'[r].app = req[r].app /\ req'[r].conf = req[r].conf
        /\ \A q \in Requests \ {r} : req'[q] = req[q]
    BY <1>3 DEF ConfigTypes, Request, Places
  <2>2. ConfigTypes'
    BY <1>1, <2>1 DEF ConfigTypes, configVars
  <2>3. UsersInv' /\ OwnersInv'
    BY <1>1, <2>1 DEF ConfigTypes, UsersInv, OwnersInv, Context, configVars
  <2> QED BY <2>2, <2>3
<1> QED BY <1>2, <1>3 DEF CreateApplication

(* Whose configuration the module context holds at each place of GetConfig *)
(* and what the requests of the application have taken from it.            *)
THEOREM ConfigInvHolds == Spec => []ConfigInv
<1>1. Init => ConfigInv
  <2> SUFFICES ASSUME Init PROVE ConfigInv
    OBVIOUS
  <2>1. req \in [Requests -> Request]
        /\ \A r \in Requests : req[r].pc = "new" /\ req[r].conf = Null
    BY DEF Init, Request, Places
  <2>2. config = [r \in Requests |-> NoConfig] /\ "life" \in DOMAIN NoConfig
    BY DEF Init, NoConfig
  <2>3. ConfigTypes
    BY <2>1, <2>2 DEF Init, ConfigTypes
  <2> QED BY <2>1, <2>3 DEF Init, ConfigInv, UsersInv, OwnersInv
<1>2. ConfigInv /\ [Next]_vars => ConfigInv'
  <2> SUFFICES ASSUME ConfigInv, [Next]_vars PROVE ConfigInv'
    OBVIOUS
  <2>1. CASE UNCHANGED vars
    BY <2>1 DEF vars, configVars, ConfigInv, ConfigTypes, UsersInv, OwnersInv, Context
  <2>2. CASE Next
    <3>1. PICK r \in Requests : (\E a \in Apps : GetModuleContext(r, a)) \/ Step(r)
      BY <2>2 DEF Next
    <3> QED BY <3>1, ContextKeepsConfig, PopulateKeepsConfig, SetKeepsConfig, CopyKeepsConfig,
               LaterKeepsConfig, CreateKeepsConfig DEF Step
  <2> QED BY <2>1, <2>2
<1> QED BY <1>1, <1>2, PTL DEF Spec

(* Requests that race through GetConfig end up with one configuration per  *)
(* application: what a request uses is what the module context of its      *)
(* application holds, and it is not one that a loser of the race deleted.  *)
THEOREM OneConfigPerApplication == Spec => []ConfigIsShared
<1>1. ConfigInv => ConfigIsShared
  <2> SUFFICES ASSUME ConfigInv, NEW r \in Requests, req[r].conf # Null
               PROVE  req[r].conf = Context(r) /\ config[req[r].conf].life \in {"live", "dangling"}
    BY DEF ConfigIsShared
  <2> QED BY DEF ConfigInv, ConfigTypes, UsersInv, OwnersInv, Context
<1> QED BY <1>1, ConfigInvHolds, PTL

-----------------------------------------------------------------------------
(* The two locks.  Whoever holds the one of an application works on that   *)
(* application inside EnsureApplicationCreated; whoever holds g_srwLock is *)
(* inside FindRequestHandlerAssembly.                                      *)
Lives == {"none", "private", "live", "dangling", "deleted"}

LockTypes ==
  /\ appLock \in [Apps -> Requests \cup {Null}] /\ rhLock \in Requests \cup {Null}
  /\ app \in [Apps -> BOOLEAN] /\ rhModule \in BOOLEAN
  /\ \A r \in Requests : config[r].life \in Lives

HeldInv ==
  /\ \A a \in Apps : appLock[a] # Null =>
       req[appLock[a]].pc \in Inside /\ req[appLock[a]].app = a
  /\ rhLock # Null => req[rhLock].pc \in LockedPlaces

LocksInv == LockTypes /\ HeldInv

(* A request that moves takes a lock on its way in, keeps it inside and    *)
(* gives it back on its way out.                                           *)
LEMMA MoveKeepsHeld ==
  ASSUME LockTypes, HeldInv, HandlerTypes, NEW r \in Requests, NEW pc \in Places,
         req[r].pc # "new", req'[r].pc = pc, req'[r].app = req[r].app,
         \A q \in Requests \ {r} : req'[q] = req[q],
         \/ appLock' = appLock /\ (req[r].pc \in Inside => pc \in Inside)
         \/ appLock' = [appLock EXCEPT ![req[r].app] = Null]
         \/ req[r].pc \notin Inside /\ pc \in Inside /\ appLock' = [appLock EXCEPT ![req[r].app] = r],
         \/ rhLock' = rhLock /\ (req[r].pc \in LockedPlaces => pc \in LockedPlaces)
         \/ rhLock' = Released(rhLock, r)
         \/ rhLock' = r /\ pc \in LockedPlaces
  PROVE  /\ HeldInv'
         /\ appLock' \in [Apps -> Requests \cup {Null}]
         /\ rhLock' \in Requests \cup {Null}
<1>1. req[r].app \in Apps
  BY DEF HandlerTypes
<1>2. appLock' \in [Apps -> Requests \cup {Null}] /\ rhLock' \in Requests \cup {Null}
  BY <1>1 DEF LockTypes, Released
<1>3. ASSUME NEW a \in Apps, appLock'[a] # Null
      PROVE  req'[appLock'[a]].pc \in Inside /\ req'[appLock'[a]].app = a
  <2>1. CASE appLock'[a] = appLock[a]
    <3>1. appLock[a] \in Requests /\ req[appLock[a]].pc \in Inside /\ req[appLock[a]].app = a
      BY <1>3, <2>1 DEF LockTypes, HeldInv
    <3>2. CASE appLock[a] = r
      BY <1>1, <1>3, <2>1, <3>1, <3>2 DEF LockTypes
    <3>3. CASE appLock[a] # r
      BY <2>1, <3>1, <3>3
    <3> QED BY <3>2, <3>3
  <2>2. CASE appLock'[a] # appLock[a]
    <3>1. a = req[r].app /\ appLock'[a] = r /\ pc \in Inside
      BY <1>1, <1>3, <2>2 DEF LockTypes
    <3> QED BY <3>1
  <2> QED BY <2>1, <2>2
<1>4. ASSUME rhLock' # Null PROVE req'[rhLock'].pc \in LockedPlaces
  BY <1>4 DEF LockTypes, HeldInv, Released
<1> QED BY <1>2, <1>3, <1>4 DEF HeldInv

(* GetConfig touches no lock, and names the life of a configuration.       *)
LEMMA ConfigKeepsLocks ==
  ASSUME LocksInv, HandlerTypes, ConfigTypes, NEW r \in Requests,
         Populate(r) \/ SetModuleContext(r) \/ CopyApplicationPath(r)
  PROVE  LocksInv'
<1> USE DEF LocksInv
<1>1. /\ UNCHANGED <<appVars, rhVars>>
      /\ req[r].pc \in {"populate", "set", "copy"}
  BY DEF Populate, SetModuleContext, CopyApplicationPath
<1>2. PICK pc \in {"failed", "set", "copy", "ensure"} : Moved(r, pc)
  <2>1. TakesStored(r) \in Requests \cup {Null}
    BY <1>1 DEF TakesStored, Context, HandlerTypes
  <2>2. \/ \E pc \in {"failed", "set", "copy"} : Goto(r, pc)
        \/ \E c \in Requests \cup {Null} : Uses(r, c)
    BY <2>1 DEF Populate, SetModuleContext, CopyApplicationPath
  <2> QED BY <2>2, GotoMoves, UsesMoves DEF Places
<1>3. HeldInv' /\ appLock' \in [Apps -> Requests \cup {Null}] /\ rhLock' \in Requests \cup {Null}
  BY <1>1, <1>2, MoveKeepsHeld DEF Moved, Places, Inside, LockedPlaces, LoadPlaces, appVars, rhVars
<1>4. \A q \in Requests : config'[q].life \in Lives
  <2>1. CASE Populate(r)
    BY <2>1, ZenonT(40) DEF Populate, Populated, NoConfig, LockTypes, ConfigTypes, Lives
  <2>2. CASE SetModuleContext(r)
    <3>1. \E l \in {"live", "deleted"} : config' = [config EXCEPT ![r].life = l]
      BY <2>2 DEF SetModuleContext
    <3> QED BY <3>1 DEF LockTypes, ConfigTypes, Lives
  <2>3. CASE CopyApplicationPath(r)
    BY <2>3 DEF CopyApplicationPath, LockTypes, ConfigTypes, Lives
  <2> QED BY <2>1, <2>2, <2>3
<1> QED BY <1>1, <1>3, <1>4 DEF LockTypes, appVars, rhVars

(* The ways in, inside, and out of the two sections.                       *)
LEMMA EnsureKeepsLocks ==
  ASSUME LocksInv, HandlerTypes, NEW r \in Requests,
         \/ EnsureUnlocked(r) \/ EnsureLocked(r) \/ FindUnlocked(r) \/ FindLocked(r)
         \/ LoadHandler(r) \/ GetProcAddress(r) \/ FlagLoaded(r) \/ TakeEntry(r) \/ FindFails(r)
         \/ CreateApplication(r)
  PROVE  LocksInv'
<1> USE DEF LocksInv
<1>1. config' = config /\ app' \in [Apps -> BOOLEAN] /\ rhModule' \in BOOLEAN
  BY DEF EnsureUnlocked, EnsureLocked, FindUnlocked, FindLocked, LoadHandler, GetProcAddress, FlagLoaded,
         TakeEntry, FindFails, CreateApplication, LockTypes, configVars, appVars, rhVars
<1>2. HeldInv' /\ appLock' \in [Apps -> Requests \cup {Null}] /\ rhLock' \in Requests \cup {Null}
  <2> DEFINE Goes(pc) == /\ pc \in Places /\ req'[r].pc = pc /\ req'[r].app = req[r].app
                         /\ \A q \in Requests \ {r} : req'[q] = req[q]
  <2>0. \A pc \in Places : Goto(r, pc) => Goes(pc)
    BY GotoMoves DEF Moved
  <2> USE DEF Places, LockedPlaces, LoadPlaces, Inside
  <2>1. CASE EnsureUnlocked(r)
    <3>1. req[r].pc = "ensure" /\ UNCHANGED <<appVars, rhVars>> /\ \E pc \in {"done", "lock"} : Goto(r, pc)
      BY <2>1 DEF EnsureUnlocked
    <3> QED BY <2>0, <3>1, MoveKeepsHeld DEF appVars, rhVars
  <2>2. CASE EnsureLocked(r)
    <3>1. req[r].pc = "lock" /\ UNCHANGED rhVars
          /\ \/ Goto(r, "done") /\ UNCHANGED appLock
             \/ Goto(r, "find") /\ appLock' = [appLock EXCEPT ![req[r].app] = r]
      BY <2>2 DEF EnsureLocked
    <3> QED BY <2>0, <3>1, MoveKeepsHeld DEF rhVars
  <2>3. CASE FindUnlocked(r)
    <3>1. req[r].pc = "find" /\ UNCHANGED <<appVars, rhVars>>
          /\ \E pc \in {"fails", "take", "findLock"} : Goto(r, pc)
      BY <2>3 DEF FindUnlocked
    <3> QED BY <2>0, <3>1, MoveKeepsHeld DEF appVars, rhVars
  <2>4. CASE FindLocked(r)
    <3>1. req[r].pc = "findLock" /\ UNCHANGED appVars /\ rhLock' = r
          /\ \E pc \in {"fails", "take", "load"} : Goto(r, pc)
      BY <2>4 DEF FindLocked, Recheck
    <3> QED BY <2>0, <3>1, MoveKeepsHeld DEF appVars
  <2>5. CASE LoadHandler(r)
    <3>1. req[r].pc = "load" /\ UNCHANGED <<appVars, rhLock>>
          /\ \E pc \in {"address", "fails"} : Goto(r, pc)
      BY <2>5 DEF LoadHandler
    <3> QED BY <2>0, <3>1, MoveKeepsHeld DEF appVars
  <2>6. CASE GetProcAddress(r)
    <3>1. req[r].pc = "address" /\ UNCHANGED <<appVars, rhLock>>
          /\ \E pc \in {"flag", "fails"} : Goto(r, pc)
      BY <2>6 DEF GetProcAddress
    <3> QED BY <2>0, <3>1, MoveKeepsHeld DEF appVars
  <2>10. CASE FlagLoaded(r)
    <3>1. req[r].pc = "flag" /\ UNCHANGED <<appVars, rhLock>> /\ Goto(r, "take")
      BY <2>10 DEF FlagLoaded
    <3> QED BY <2>0, <3>1, MoveKeepsHeld DEF appVars
  <2>7. CASE TakeEntry(r)
    <3>1. req[r].pc = "take" /\ UNCHANGED appLock /\ rhLock' = Released(rhLock, r) /\ Goto(r, "create")
      BY <2>7 DEF TakeEntry
    <3> QED BY <2>0, <3>1, MoveKeepsHeld
  <2>8. CASE FindFails(r)
    <3>1. req[r].pc = "fails" /\ appLock' = [appLock EXCEPT ![req[r].app] = Null]
          /\ rhLock' = Released(rhLock, r) /\ Goto(r, "failed")
      BY <2>8 DEF FindFails, ReleaseApp
    <3> QED BY <2>0, <3>1, MoveKeepsHeld
  <2>9. CASE CreateApplication(r)
    <3>1. req[r].pc = "create" /\ appLock' = [appLock EXCEPT ![req[r].app] = Null] /\ UNCHANGED rhVars
      BY <2>9 DEF CreateApplication, ReleaseApp
    <3>2. \E pc \in {"done", "failed"} : Goes(pc)
      <4>1. CASE \E pc \in {"done", "failed"} : Goto(r, pc)
        BY <2>0, <4>1
      <4>2. CASE req' = [req EXCEPT ![r].pc = "failed", ![r].invalid = TRUE]
        BY <4>2 DEF HandlerTypes, Request
      <4> QED BY <2>9, <4>1, <4>2 DEF CreateApplication
    <3> QED BY <3>1, <3>2, MoveKeepsHeld DEF rhVars
  <2> QED BY <2>1, <2>2, <2>3, <2>4, <2>5, <2>6, <2>7, <2>8, <2>9, <2>10
<1> QED BY <1>1, <1>2 DEF LockTypes

LEMMA StepKeepsLocks == LocksInv /\ HandlerTypes /\ ConfigTypes /\ [Next]_vars => LocksInv'
<1> SUFFICES ASSUME LocksInv, HandlerTypes, ConfigTypes, [Next]_vars PROVE LocksInv'
  OBVIOUS
<1>1. CASE UNCHANGED vars
  BY <1>1 DEF vars, configVars, appVars, rhVars, LocksInv, LockTypes, HeldInv
<1>2. CASE Next
  <2>1. PICK r \in Requests : (\E a \in Apps : GetModuleContext(r, a)) \/ Step(r)
    BY <1>2 DEF Next
  <2>2. CASE \E a \in Apps : GetModuleContext(r, a)
    <3>1. /\ req[r].pc = "new" /\ \A q \in Requests \ {r} : req'[q] = req[q]
          /\ UNCHANGED <<configVars, appVars, rhVars>>
      BY <2>2 DEF GetModuleContext, HandlerTypes
    <3>2. \A a \in Apps : appLock[a] # r
      BY <3>1, NullAssumption DEF LocksInv, HeldInv, Inside
    <3>3. rhLock # r
      BY <3>1, NullAssumption DEF LocksInv, HeldInv, LockedPlaces, LoadPlaces
    <3> QED BY <3>1, <3>2, <3>3 DEF LocksInv, LockTypes, HeldInv, configVars, appVars, rhVars
  <2>3. CASE Step(r)
    BY <2>3, ConfigKeepsLocks, EnsureKeepsLocks DEF Step
  <2> QED BY <2>1, <2>2, <2>3
<1> QED BY <1>1, <1>2

(* The double-checked loading of the request handler is safe: the locks    *)
(* are held only inside their sections, whichever step fails, the handler  *)
(* is loaded once, and its flag is a promise to those who do not lock.     *)
THEOREM LoadingIsSafe == Spec => []LoadingSafe
<1>1. Init => LocksInv
  <2>1. ASSUME Init PROVE LockTypes
    <3>1. NoConfig.life = "none"
      BY DEF NoConfig
    <3>2. \A r \in Requests : config[r].life = "none"
      BY <2>1, <3>1 DEF Init
    <3> QED BY <2>1, <3>2 DEF Init, LockTypes, Lives
  <2>2. Init => HeldInv
    BY DEF Init, HeldInv
  <2> QED BY <2>1, <2>2 DEF LocksInv
<1>2. LocksInv /\ HandlerInv /\ ConfigInv /\ [Next]_vars => LocksInv'
  BY StepKeepsLocks DEF HandlerInv, ConfigInv
<1>3. LocksInv /\ HandlerInv /\ ConfigInv => TypeOK
  <2> SUFFICES ASSUME LocksInv, HandlerInv, ConfigInv PROVE TypeOK
    OBVIOUS
  <2>1. \A r \in Requests : req[r].conf \in Requests \cup {Null}
    BY DEF ConfigInv, ConfigTypes, Request
  <2> QED BY <2>1 DEF LocksInv, LockTypes, HeldInv, Lives, HandlerInv, HandlerTypes, TypeOK,
                     LockedPlaces, LoadPlaces
<1>4. Spec => []TypeOK
  BY <1>1, <1>2, <1>3, HandlerInvHolds, ConfigInvHolds, PTL DEF Spec
<1> QED BY <1>4, LoadedAtMostOnce, EntryAlwaysPublished, PTL DEF LoadingSafe

-----------------------------------------------------------------------------
(* The order of versions, in which a release is above its prereleases and  *)
(* these are ordered by their labels as texts, is the one                  *)
(* fx_ver_t::compare decides by.                                           *)
Numbers == Int \X Int \X Int

LEMMA ThreeNumbers ==
  ASSUME NEW s \in Numbers
  PROVE  s = <<s[1], s[2], s[3]>> /\ s[1] \in Int /\ s[2] \in Int /\ s[3] \in Int
  BY DEF Numbers

LEMMA NumbersDiffer ==
  ASSUME NEW s \in Numbers, NEW t \in Numbers, s # t
  PROVE  s[1] # t[1] \/ s[2] # t[2] \/ s[3] # t[3]
<1> SUFFICES ASSUME s[1] = t[1], s[2] = t[2], s[3] = t[3] PROVE FALSE
  OBVIOUS
<1>1. PICK a, b, c : a = s[1] /\ b = s[2] /\ c = s[3]
  OBVIOUS
<1>2. s = <<a, b, c>> /\ t = <<a, b, c>>
  <2>1. s = <<s[1], s[2], s[3]>> /\ t = <<t[1], t[2], t[3]>>
    BY ThreeNumbers
  <2> QED BY <1>1, <2>1
<1> QED BY <1>2

LEMMA NumbersCompared ==
  ASSUME NEW s \in Numbers, NEW t \in Numbers, s # t
  PROVE  CompareText(s, t) =
           IF \/ s[1] < t[1]
              \/ s[1] = t[1] /\ s[2] < t[2]
              \/ s[1] = t[1] /\ s[2] = t[2] /\ s[3] < t[3]
           THEN -1 ELSE 1
<1>1. /\ s = <<s[1], s[2], s[3]>> /\ s[1] \in Int /\ s[2] \in Int /\ s[3] \in Int
      /\ t = <<t[1], t[2], t[3]>> /\ t[1] \in Int /\ t[2] \in Int /\ t[3] \in Int
      /\ Len(s) = 3 /\ Len(t) = 3
  BY DEF Numbers
<1>2. Before(s, t) <=> \E i \in 1 .. 3 : (\A j \in 1 .. i - 1 : s[j] = t[j]) /\ s[i] < t[i]
  <2>1. \A i \in 1 .. 3 : ~ (i > 3) /\ \A j \in 1 .. i - 1 : j <= 3
    OBVIOUS
  <2> QED BY <1>1, <2>1 DEF Before
<1>3. ASSUME NEW i \in 1 .. 3
      PROVE  /\ i = 1 => \A j \in 1 .. i - 1 : s[j] = t[j]
             /\ i = 2 => ((\A j \in 1 .. i - 1 : s[j] = t[j]) <=> s[1] = t[1])
             /\ i = 3 => ((\A j \in 1 .. i - 1 : s[j] = t[j]) <=> s[1] = t[1] /\ s[2] = t[2])
  <2>1. CASE i = 1
    BY <2>1
  <2>2. CASE i = 2
    BY <2>2
  <2>3. CASE i = 3
    BY <2>3
  <2> QED BY <2>1, <2>2, <2>3
<1>4. Before(s, t) <=> \/ s[1] < t[1]
                       \/ s[1] = t[1] /\ s[2] < t[2]
                       \/ s[1] = t[1] /\ s[2] = t[2] /\ s[3] < t[3]
  <2>1. \A i \in 1 .. 3 : i = 1 \/ i = 2 \/ i = 3
    OBVIOUS
  <2> QED BY <1>2, <1>3, <2>1
<1> QED BY <1>4 DEF CompareText

Versions == {x \in FolderNames : x.num \in Numbers}

\* The two texts differ first where one of the pairs does.
LEMMA BeforeIsTransitive ==
  ASSUME NEW s \in Seq(Int), NEW t \in Seq(Int), NEW u \in Seq(Int), Before(s, t), Before(t, u)
  PROVE  Before(s, u)
<1>1. PICK i \in 1 .. Len(t) :
        /\ \A j \in 1 .. i - 1 : j <= Len(s) /\ s[j] = t[j]
        /\ i > Len(s) \/ s[i] < t[i]
  BY DEF Before
<1>2. PICK k \in 1 .. Len(u) :
        /\ \A j \in 1 .. k - 1 : j <= Len(t) /\ t[j] = u[j]
        /\ k > Len(t) \/ t[k] < u[k]
  BY DEF Before
<1>3. /\ Len(s) \in Nat /\ Len(t) \in Nat /\ Len(u) \in Nat
      /\ \A j \in 1 .. Len(s) : s[j] \in Int
      /\ \A j \in 1 .. Len(t) : t[j] \in Int
      /\ \A j \in 1 .. Len(u) : u[j] \in Int
  OBVIOUS
<1>4. CASE i < k
  <2>1. \A j \in 1 .. i - 1 : j <= Len(s) /\ s[j] = u[j]
    BY <1>1, <1>2, <1>3, <1>4
  <2>2. i \in 1 .. Len(u) /\ t[i] = u[i]
    BY <1>1, <1>2, <1>3, <1>4
  <2>3. i > Len(s) \/ s[i] < u[i]
    BY <1>1, <2>2
  <2> QED BY <2>1, <2>2, <2>3 DEF Before
<1>5. CASE k <= i
  <2>1. \A j \in 1 .. k - 1 : j <= Len(s) /\ s[j] = u[j]
    BY <1>1, <1>2, <1>3, <1>5
  <2>2. t[k] < u[k] /\ k \in 1 .. Len(t)
    BY <1>1, <1>2, <1>3, <1>5
  <2>3. k > Len(s) \/ s[k] < u[k]
    <3>1. CASE k = i
      BY <1>1, <1>3, <2>2, <3>1
    <3>2. CASE k < i
      <4>1. k \in 1 .. i - 1
        BY <3>2
      <4> QED BY <1>1, <2>2, <4>1
    <3> QED BY <1>5, <3>1, <3>2
  <2> QED BY <1>2, <2>1, <2>3 DEF Before
<1> QED BY <1>3, <1>4, <1>5

\* Versions that only the build tells apart.
SameRank(x, y) == x.num = y.num /\ x.pre = y.pre

LEMMA VersionsCompared ==
  ASSUME NEW m \in Versions, NEW x \in Versions
  PROVE  IF compare(m, x) <= 0 THEN Newer(x, m) \/ SameRank(x, m) ELSE ~Newer(x, m)
<1>1. /\ m.num \in Numbers /\ x.num \in Numbers
      /\ m.num[1] \in Int /\ m.num[2] \in Int /\ m.num[3] \in Int
      /\ x.num[1] \in Int /\ x.num[2] \in Int /\ x.num[3] \in Int
  BY ThreeNumbers DEF Versions
<1>2. CASE m.num # x.num
  <2>1. compare(m, x) = CompareText(m.num, x.num)
    BY <1>2 DEF compare
  <2>2. compare(m, x) =
          IF \/ m.num[1] < x.num[1]
             \/ m.num[1] = x.num[1] /\ m.num[2] < x.num[2]
             \/ m.num[1] = x.num[1] /\ m.num[2] = x.num[2] /\ m.num[3] < x.num[3]
          THEN -1 ELSE 1
    BY <1>1, <1>2, <2>1, NumbersCompared
  <2>3. m.num[1] # x.num[1] \/ m.num[2] # x.num[2] \/ m.num[3] # x.num[3]
    BY <1>1, <1>2, NumbersDiffer
  <2> QED BY <1>1, <1>2, <2>2, <2>3 DEF Newer
<1>3. CASE m.num = x.num /\ (m.pre = <<>>) # (x.pre = <<>>)
  <2>1. compare(m, x) = IF m.pre = <<>> THEN 1 ELSE -1
    BY <1>3 DEF compare
  <2> QED BY <1>1, <1>3, <2>1 DEF Newer
<1>4. CASE m.num = x.num /\ (m.pre = <<>>) = (x.pre = <<>>) /\ m.pre # x.pre
  <2>1. compare(m, x) = CompareText(m.pre, x.pre)
    BY <1>4 DEF compare
  <2>2. compare(m, x) = IF Before(m.pre, x.pre) THEN -1 ELSE 1
    BY <1>4, <2>1 DEF CompareText
  <2> QED BY <1>1, <1>4, <2>2 DEF Newer
<1>5. CASE m.num = x.num /\ m.pre = x.pre
  <2>1. x.pre \in Seq(Int)
    BY DEF Versions, FolderNames
  <2>2. ~Before(x.pre, x.pre)
    BY <2>1 DEF Before
  <2> QED BY <1>1, <1>5, <2>2 DEF Newer, SameRank
<1> QED BY <1>2, <1>3, <1>4, <1>5

LEMMA NewerIsTransitive ==
  ASSUME NEW x \in Versions, NEW y \in Versions, NEW m \in Versions,
         Newer(x, y), Newer(y, m) \/ SameRank(y, m)
  PROVE  Newer(x, m)
<1>1. /\ x.num[1] \in Int /\ x.num[2] \in Int /\ x.num[3] \in Int
      /\ m.num[1] \in Int /\ m.num[2] \in Int /\ m.num[3] \in Int
      /\ y.num[1] \in Int /\ y.num[2] \in Int /\ y.num[3] \in Int
  BY ThreeNumbers DEF Versions
<1>2. x.pre \in Seq(Int) /\ y.pre \in Seq(Int) /\ m.pre \in Seq(Int)
  BY DEF Versions, FolderNames
<1>3. Before(m.pre, y.pre) /\ Before(y.pre, x.pre) => Before(m.pre, x.pre)
  BY <1>2, BeforeIsTransitive
<1>4. CASE SameRank(y, m)
  BY <1>4 DEF Newer, SameRank
<1>5. CASE Newer(y, m)
  <2>1. CASE x.num = y.num /\ y.num = m.num
    <3>1. y.pre # <<>> /\ (x.pre = <<>> \/ Before(y.pre, x.pre))
      BY <1>1, <2>1 DEF Newer
    <3>2. m.pre # <<>> /\ Before(m.pre, y.pre)
      BY <1>1, <1>5, <2>1, <3>1 DEF Newer
    <3> QED BY <1>3, <2>1, <3>1, <3>2 DEF Newer
  <2>2. CASE ~ (x.num = y.num /\ y.num = m.num)
    BY <1>1, <1>5, <2>2 DEF Newer
  <2> QED BY <2>1, <2>2
<1> QED BY <1>4, <1>5

LEMMA ParsedAreVersions ==
  ASSUME NEW name \in FolderNames
  PROVE  Parses(name) <=> name \in Versions
<1>1. name.num \in Numbers \/ name.num = <<>>
  BY DEF FolderNames, Numbers
<1>2. \A s \in Numbers : Len(s) = 3
  BY DEF Numbers
<1>3. Len(<<>>) # 3
  OBVIOUS
<1> QED BY <1>1, <1>2, <1>3 DEF Parses, Versions

LEMMA HigherIsNewest ==
  ASSUME NEW m \in Versions, NEW name \in FolderNames
  PROVE  /\ HigherOf(m, name) \in Versions
         /\ Parses(name) => ~Newer(name, HigherOf(m, name))
         /\ \A x \in Versions : ~Newer(x, m) => ~Newer(x, HigherOf(m, name))
<1>1. Parses(name) <=> name \in Versions
  BY ParsedAreVersions
<1>2. CASE ~Parses(name)
  BY <1>2 DEF HigherOf
<1>3. CASE Parses(name) /\ compare(m, name) <= 0
  <2>1. HigherOf(m, name) = name /\ name \in Versions
    BY <1>1, <1>3 DEF HigherOf
  <2>2. Newer(name, m) \/ SameRank(name, m)
    BY <1>3, <2>1, VersionsCompared
  <2>3. ~Newer(name, name)
    <3>1. name.pre \in Seq(Int)
      BY <2>1 DEF Versions, FolderNames
    <3>2. ~Before(name.pre, name.pre)
      BY <3>1 DEF Before
    <3> QED BY <2>1, <3>2, ThreeNumbers DEF Newer, Versions
  <2> QED BY <2>1, <2>2, <2>3, NewerIsTransitive
<1>4. CASE Parses(name) /\ ~ (compare(m, name) <= 0)
  <2>1. HigherOf(m, name) = m
    BY <1>4 DEF HigherOf
  <2>2. ~Newer(name, m)
    BY <1>1, <1>4, VersionsCompared
  <2> QED BY <1>4, <2>1, <2>2
<1> QED BY <1>2, <1>3, <1>4

\* The loop of FindHighestDotNetVersion over the first n folders.
Highest(max, folders, n) ==
  max = [i \in 0 .. n |-> IF i = 0 THEN Lowest ELSE HigherOf(max[i - 1], folders[i])]

\* Such a function exists: otherwise there would be a least n without one.
LEMMA HighestExists ==
  ASSUME NEW folders \in Seq(FolderNames), NEW n \in Nat
  PROVE  \E max : Highest(max, folders, n)
<1> DEFINE T == {k \in Nat : ~ \E max : Highest(max, folders, k)}
<1>1. SUFFICES ASSUME T # {} PROVE FALSE
  OBVIOUS
<1>2. PICK k \in T : \A l \in T : k <= l
  BY <1>1, LeastExists
<1>3. CASE k = 0
  <2> DEFINE f == [i \in 0 .. 0 |-> Lowest]
  <2>1. f = [i \in 0 .. 0 |-> IF i = 0 THEN Lowest ELSE HigherOf(f[i - 1], folders[i])]
    OBVIOUS
  <2>2. Highest(f, folders, k)
    BY <1>3, <2>1 DEF Highest
  <2> QED BY <1>2, <2>2
<1>4. CASE k # 0
  <2>1. k \in Nat /\ k - 1 \in Nat /\ k - 1 \notin T
    BY <1>2, <1>4
  <2>2. PICK f : Highest(f, folders, k - 1)
    BY <2>1
  <2> DEFINE g == [i \in 0 .. k |-> IF i = k THEN HigherOf(f[k - 1], folders[k]) ELSE f[i]]
  <2>3. \A i \in 0 .. k - 1 : f[i] = IF i = 0 THEN Lowest ELSE HigherOf(f[i - 1], folders[i])
    BY <2>2 DEF Highest
  <2>4. ASSUME NEW i \in 0 .. k
        PROVE  g[i] = IF i = 0 THEN Lowest ELSE HigherOf(g[i - 1], folders[i])
    <3>1. CASE i = 0
      <4>1. i \in 0 .. k - 1 /\ i # k
        BY <1>4, <2>1, <3>1
      <4> QED BY <2>3, <3>1, <4>1
    <3>2. CASE i # 0 /\ i # k
      <4>1. i \in 0 .. k - 1 /\ i - 1 \in 0 .. k /\ i - 1 # k
        BY <2>1, <3>2
      <4>2. g[i] = f[i] /\ g[i - 1] = f[i - 1]
        BY <3>2, <4>1
      <4> QED BY <2>3, <3>2, <4>1, <4>2
    <3>3. CASE i # 0 /\ i = k
      <4>1. k - 1 \in 0 .. k /\ k - 1 # k
        BY <2>1
      <4> QED BY <3>3, <4>1
    <3> QED BY <3>1, <3>2, <3>3
  <2>5. g = [i \in 0 .. k |-> g[i]]
    OBVIOUS
  <2> HIDE DEF g
  <2>6. Highest(g, folders, k)
    BY <2>4, <2>5 DEF Highest
  <2> QED BY <1>2, <2>6
<1> QED BY <1>3, <1>4

\* What the loop has found when it has seen i folders is the newest of them.
LEMMA HighestIsNewest ==
  ASSUME NEW folders \in Seq(FolderNames), NEW max, Highest(max, folders, Len(folders))
  PROVE  \A i \in 0 .. Len(folders) :
           /\ max[i] \in Versions
           /\ \A j \in 1 .. i : Parses(folders[j]) => ~Newer(folders[j], max[i])
<1> DEFINE Good(i) == /\ max[i] \in Versions
                      /\ \A j \in 1 .. i : Parses(folders[j]) => ~Newer(folders[j], max[i])
           T == {i \in 0 .. Len(folders) : ~Good(i)}
<1>1. /\ Len(folders) \in Nat
      /\ \A j \in 1 .. Len(folders) : folders[j] \in FolderNames
  BY ElementOfSeq
<1>2. SUFFICES ASSUME T # {} PROVE FALSE
  OBVIOUS
<1>3. T \in SUBSET Nat
  BY <1>1
<1>4. PICK i \in T : \A l \in T : i <= l
  BY <1>2, <1>3, LeastExists
<1>5. \A k \in 0 .. Len(folders) :
        max[k] = IF k = 0 THEN Lowest ELSE HigherOf(max[k - 1], folders[k])
  BY DEF Highest
<1>6. CASE i = 0
  <2>1. max[0] = Lowest
    BY <1>1, <1>5
  <2>2. Lowest \in Versions
    BY EmptySeq DEF Lowest, Versions, FolderNames, Numbers
  <2>3. \A j \in 1 .. 0 : FALSE
    OBVIOUS
  <2> QED BY <1>4, <1>6, <2>1, <2>2, <2>3
<1>7. CASE i # 0
  <2>1. i \in 1 .. Len(folders) /\ i - 1 \in 0 .. Len(folders) /\ i - 1 \notin T
    BY <1>1, <1>4, <1>7
  <2>2. Good(i - 1) /\ folders[i] \in FolderNames /\ max[i] = HigherOf(max[i - 1], folders[i])
    BY <1>1, <1>5, <1>7, <2>1
  <2>3. /\ max[i] \in Versions
        /\ Parses(folders[i]) => ~Newer(folders[i], max[i])
        /\ \A x \in Versions : ~Newer(x, max[i - 1]) => ~Newer(x, max[i])
    BY <2>2, HigherIsNewest
  <2>4. ASSUME NEW j \in 1 .. i, Parses(folders[j])
        PROVE  ~Newer(folders[j], max[i])
    <3>1. CASE j = i
      BY <2>3, <2>4, <3>1
    <3>2. CASE j # i
      <4>1. j \in 1 .. i - 1 /\ j \in 1 .. Len(folders)
        BY <1>1, <2>1, <3>2
      <4>2. folders[j] \in Versions
        BY <1>1, <2>4, <4>1, ParsedAreVersions
      <4> QED BY <2>2, <2>3, <2>4, <4>1, <4>2
    <3> QED BY <3>1, <3>2
  <2> QED BY <1>4, <2>3, <2>4
<1> QED BY <1>6, <1>7

LEMMA FoundIsNewest ==
  ASSUME NEW folders \in Seq(FolderNames)
  PROVE  \A j \in DOMAIN folders :
           Parses(folders[j]) => ~Newer(folders[j], FindHighestDotNetVersion(folders))
<1> DEFINE max == CHOOSE f : Highest(f, folders, Len(folders))
<1>1. Len(folders) \in Nat /\ DOMAIN folders = 1 .. Len(folders)
  OBVIOUS
<1>2. Highest(max, folders, Len(folders))
  BY <1>1, HighestExists
<1>3. FindHighestDotNetVersion(folders) = [max[Len(folders)] EXCEPT !.plain = TRUE]
  BY DEF FindHighestDotNetVersion, Highest
<1> HIDE DEF max
<1>4. /\ max[Len(folders)] \in Versions
      /\ \A j \in 1 .. Len(folders) : Parses(folders[j]) => ~Newer(folders[j], max[Len(folders)])
  BY <1>1, <1>2, HighestIsNewest
<1>5. PICK v, x : v = max[Len(folders)] /\ x = FindHighestDotNetVersion(folders)
  OBVIOUS
<1>6. x.num = v.num /\ x.pre = v.pre
  BY <1>3, <1>4, <1>5 DEF Versions, FolderNames
<1> QED BY <1>1, <1>4, <1>5, <1>6 DEF Newer

-----------------------------------------------------------------------------
(* The hostfxr.dll of a configuration and the first argument it is given.  *)
FromFolder(m, h) ==
  /\ h.folder \in m.complete
  /\ \A i \in DOMAIN m.folders : Parses(m.folders[i]) => ~Newer(m.folders[i], h.folder)

IsFound(m, h) ==
  /\ h.at \in {"beside", "folder", None}
  /\ h.at = "beside" => "hostfxr" \in m.files /\ (h.argv[2] = AppDll \/ m.space)
  /\ h.at = "folder" => FromFolder(m, h)
  /\ h.at = None => ~m.directory

LEMMA LookupFinds ==
  ASSUME NEW m \in Disks, GetAbsolutePathToHostFxr(m).ok
  PROVE  \/ ~m.directory /\ GetAbsolutePathToHostFxr(m) = Found(None, Lowest)
         \/ \E folder : /\ GetAbsolutePathToHostFxr(m) = Found("folder", folder)
                        /\ folder \in m.complete
                        /\ \A i \in DOMAIN m.folders :
                             Parses(m.folders[i]) => ~Newer(m.folders[i], folder)
<1>1. m.folders \in Seq(FolderNames)
  BY DEF Disks
<1>2. PICK highest : highest = FindHighestDotNetVersion(m.folders)
  OBVIOUS
<1>3. \A i \in DOMAIN m.folders : Parses(m.folders[i]) => ~Newer(m.folders[i], highest)
  BY <1>1, <1>2, FoundIsNewest
<1>4. ~Failure.ok
  BY DEF Failure
<1>5. GetAbsolutePathToHostFxr(m) =
        IF ~m.directory THEN Found(None, Lowest)
        ELSE IF highest \in m.complete THEN Found("folder", highest) ELSE Failure
  BY <1>2 DEF GetAbsolutePathToHostFxr
<1> HIDE DEF Found, Failure
<1> QED BY <1>3, <1>4, <1>5

LEMMA Parsed ==
  ASSUME NEW h, NEW at, NEW folder, NEW exe, NEW words,
         h = ParseHostfxrArguments(Found(at, folder), exe, words), h.ok
  PROVE  h.at = at /\ h.folder = folder /\ h.argv = <<exe>> \o words
<1>1. h = IF words = <<>> THEN Failure ELSE [Found(at, folder) EXCEPT !.argv = <<exe>> \o words]
  BY DEF ParseHostfxrArguments
<1>2. ~Failure.ok
  BY DEF Failure
<1>3. h = [Found(at, folder) EXCEPT !.argv = <<exe>> \o words]
  BY <1>1, <1>2
<1>4. PICK argv : argv = <<exe>> \o words
  OBVIOUS
<1>5. h = [Found(at, folder) EXCEPT !.argv = argv]
  BY <1>3, <1>4
<1>6. h.at = at /\ h.folder = folder /\ h.argv = argv
  BY <1>5 DEF Found
<1> QED BY <1>4, <1>6

LEMMA SecondOfThem ==
  ASSUME NEW S, NEW a, NEW b, NEW rest \in Seq(S)
  PROVE  (<<a>> \o (<<b>> \o rest))[2] = b
<1> DEFINE T == S \cup {a, b}
           p == <<a>>
           q == <<b>>
           w == q \o rest
           v == p \o w
<1>1. p \in Seq(T) /\ Len(p) = 1 /\ q \in Seq(T) /\ Len(q) = 1 /\ q[1] = b
  OBVIOUS
<1>2. Len(rest) \in Nat /\ rest \in Seq(T)
  OBVIOUS
<1> HIDE DEF p, q, T
<1>3. /\ w \in Seq(T) /\ Len(w) = Len(q) + Len(rest)
      /\ \A i \in 1 .. Len(q) + Len(rest) : w[i] = IF i <= Len(q) THEN q[i] ELSE rest[i - Len(q)]
  BY <1>1, <1>2, ConcatProperties
<1> HIDE DEF w
<1>4. w[1] = b /\ Len(w) = 1 + Len(rest)
  BY <1>1, <1>2, <1>3
<1>5. /\ v \in Seq(T) /\ Len(v) = Len(p) + Len(w)
      /\ \A i \in 1 .. Len(p) + Len(w) : v[i] = IF i <= Len(p) THEN p[i] ELSE w[i - Len(p)]
  <2>1. p \in Seq(T) /\ w \in Seq(T)
    BY <1>1, <1>3
  <2> QED BY ONLY <2>1, ConcatProperties
<1> HIDE DEF v
<1>6. v[2] = w[2 - 1]
  BY <1>1, <1>2, <1>4, <1>5
<1>7. v[2] = b
  BY <1>4, <1>6
<1> QED BY <1>7 DEF p, q, w, v

LEMMA DllIsFirst ==
  ASSUME NEW m \in Disks, NEW arguments \in Seq(STRING), ~m.space
  PROVE  (<<"path">> \o StandaloneWords(m, arguments))[2] = AppDll
<1>1. StandaloneWords(m, arguments) = <<AppDll>> \o arguments
  BY DEF StandaloneWords, DllWords
<1>2. (<<"path">> \o (<<AppDll>> \o arguments))[2] = AppDll
  BY SecondOfThem
<1> QED BY <1>1, <1>2

LEMMA ParametersAreFound ==
  ASSUME NEW m \in Disks, NEW s \in Section, GetHostFxrParameters(m, s).ok
  PROVE  IsFound(m, GetHostFxrParameters(m, s))
<1> DEFINE h == GetHostFxrParameters(m, s)
           x == GetAbsolutePathToHostFxr(m)
           exe == GetAbsolutePathToDotnet(m)
<1>1. ~Failure.ok /\ s.arguments \in Seq(STRING)
  BY DEF Failure, Section
<1>2. CASE s.dotnet
  <2>1. h = IF exe = None \/ ~x.ok THEN Failure ELSE ParseHostfxrArguments(x, exe, s.arguments)
    BY <1>2 DEF GetHostFxrParameters
  <2> HIDE DEF h, x, exe, Failure
  <2>2. x.ok /\ h = ParseHostfxrArguments(x, exe, s.arguments) /\ h.ok
    BY <1>1, <2>1 DEF h
  <2>3. CASE ~m.directory /\ x = Found(None, Lowest)
    <3>1. h.at = None
      <4>1. h = ParseHostfxrArguments(Found(None, Lowest), exe, s.arguments) /\ h.ok
        BY <2>2, <2>3
      <4> QED BY ONLY <4>1, Parsed
    <3> QED BY <2>3, <3>1 DEF IsFound, h, None
  <2>4. ASSUME NEW folder, x = Found("folder", folder), folder \in m.complete,
               \A i \in DOMAIN m.folders : Parses(m.folders[i]) => ~Newer(m.folders[i], folder)
        PROVE  IsFound(m, h)
    <3>1. h.at = "folder" /\ h.folder = folder
      <4>1. h = ParseHostfxrArguments(Found("folder", folder), exe, s.arguments) /\ h.ok
        BY <2>2, <2>4
      <4> QED BY ONLY <4>1, Parsed
    <3> QED BY <2>4, <3>1 DEF IsFound, FromFolder, None
  <2> QED BY <2>2, <2>3, <2>4, LookupFinds DEF h, x
<1>3. CASE ~s.dotnet
  <2> DEFINE words == StandaloneWords(m, s.arguments)
  <2>1. h = IF "path" \in m.files
            THEN IF "hostfxr" \in m.files /\ "dll" \in m.files
                 THEN ParseHostfxrArguments(Found("beside", Lowest), "path", words)
                 ELSE Failure
            ELSE Failure
    BY <1>3 DEF GetHostFxrParameters, GetStandaloneHostfxrParameters
  <2> HIDE DEF h, Failure, words
  <2>2. /\ "hostfxr" \in m.files /\ h.ok
        /\ h = ParseHostfxrArguments(Found("beside", Lowest), "path", words)
    BY <1>1, <2>1 DEF h
  <2>3. h.at = "beside" /\ h.argv = <<"path">> \o words
    BY <2>2, Parsed
  <2>4. m.space \/ (<<"path">> \o words)[2] = AppDll
    BY <1>1, DllIsFirst DEF words
  <2>5. IsFound(m, h)
    BY <2>2, <2>3, <2>4 DEF IsFound, None
  <2> QED BY <2>5 DEF h
<1> QED BY <1>2, <1>3

HostFxrInv ==
  /\ site \in [Apps -> Section] /\ disk \in Disks
  /\ \A r \in Requests :
       /\ {"life", "inProcess", "hostfxr"} \subseteq DOMAIN config[r]
       /\ IF config[r].inProcess THEN IsFound(disk, config[r].hostfxr)
          ELSE config[r].hostfxr = Failure

\* A step that leaves what a configuration says of hostfxr.
LEMMA LookupIsKept ==
  ASSUME HostFxrInv, ConfigTypes, site' = site, disk' = disk,
         \/ config' = config
         \/ \E r \in Requests : \E x : config' = [config EXCEPT ![r].life = x]
         \/ \E r \in Requests : \E x : config' = [config EXCEPT ![r].path = x]
  PROVE  HostFxrInv'
<1>1. ASSUME NEW q \in Requests
      PROVE  /\ {"life", "inProcess", "hostfxr"} \subseteq DOMAIN config'[q]
             /\ config'[q].inProcess = config[q].inProcess
             /\ config'[q].hostfxr = config[q].hostfxr
  BY DEF HostFxrInv, ConfigTypes
<1> QED BY <1>1 DEF HostFxrInv

LEMMA PopulateKeepsLookup ==
  ASSUME HostFxrInv, ConfigTypes, NEW r \in Requests, Populate(r)
  PROVE  HostFxrInv'
<1> DEFINE s == site[req[r].app]
           hostfxr == IF InProcess(s) THEN GetHostFxrParameters(disk, s) ELSE Failure
<1>1. site' = site /\ disk' = disk /\ s \in Section
  BY DEF Populate, HostFxrInv, ConfigTypes
<1>2. CASE config' = config
  BY <1>1, <1>2, LookupIsKept
<1>3. CASE /\ InProcess(s) => hostfxr.ok
           /\ config' = [config EXCEPT ![r] = [Populated(s) EXCEPT !.hostfxr = hostfxr]]
  <2>1. PICK c : c = [Populated(s) EXCEPT !.hostfxr = hostfxr]
    OBVIOUS
  <2>2. /\ {"life", "inProcess", "hostfxr"} \subseteq DOMAIN c
        /\ c.inProcess = InProcess(s) /\ c.hostfxr = hostfxr
    BY <2>1 DEF Populated, NoConfig
  <2>3. IF InProcess(s) THEN IsFound(disk, hostfxr) ELSE hostfxr = Failure
    BY <1>1, <1>3, ParametersAreFound DEF HostFxrInv
  <2>4. \A q \in Requests : config'[q] = IF q = r THEN c ELSE config[q]
    BY <1>3, <2>1 DEF ConfigTypes
  <2> HIDE DEF s, hostfxr
  <2> QED BY <1>1, <2>2, <2>3, <2>4 DEF HostFxrInv
<1> QED BY <1>2, <1>3 DEF Populate

\* A configuration that is stored names the newest hostfxr.dll there is beside dotnet (in
\* the order of compare, labels of prereleases as texts), unless the directory host\fxr is
\* missing and it names none; or the one beside the application, with the application's dll
\* as the first argument unless its path contains a space.  For any contents of the disk,
\* any versions, and any interleaving of the requests.
THEOREM HostFxrIsRightHolds == Spec => []HostFxrIsRight
<1>1. Init => HostFxrInv
  <2> SUFFICES ASSUME Init PROVE HostFxrInv
    OBVIOUS
  <2>1. site \in [Apps -> Section] /\ disk \in Disks
    BY SituationAssumption DEF Init
  <2>2. \A r \in Requests : config[r] = NoConfig
    BY DEF Init
  <2>3. /\ {"life", "inProcess", "hostfxr"} \subseteq DOMAIN NoConfig
        /\ ~NoConfig.inProcess /\ NoConfig.hostfxr = Failure
    BY DEF NoConfig
  <2> QED BY <2>1, <2>2, <2>3 DEF HostFxrInv
<1>2. HostFxrInv /\ ConfigTypes /\ [Next]_vars => HostFxrInv'
  <2> SUFFICES ASSUME HostFxrInv, ConfigTypes, [Next]_vars PROVE HostFxrInv'
    OBVIOUS
  <2>1. CASE UNCHANGED vars
    BY <2>1, LookupIsKept DEF vars, configVars
  <2>2. ASSUME NEW r \in Requests, (\E a \in Apps : GetModuleContext(r, a)) \/ Step(r)
        PROVE  HostFxrInv'
    <3>1. site' = site /\ disk' = disk
      BY <2>2 DEF Step, GetModuleContext, Populate, SetModuleContext, CopyApplicationPath,
         EnsureUnlocked, EnsureLocked, FindUnlocked, FindLocked, LoadHandler, GetProcAddress, FlagLoaded,
         TakeEntry, FindFails, CreateApplication
    <3>2. CASE Populate(r)
      BY <3>2, PopulateKeepsLookup
    <3>3. CASE SetModuleContext(r) \/ CopyApplicationPath(r)
      BY <3>1, <3>3, LookupIsKept DEF SetModuleContext, CopyApplicationPath
    <3>4. CASE config' = config
      BY <3>1, <3>4, LookupIsKept
    <3> QED BY <2>2, <3>2, <3>3, <3>4 DEF Step, GetModuleContext,
         EnsureUnlocked, EnsureLocked, FindUnlocked, FindLocked, LoadHandler, GetProcAddress, FlagLoaded,
         TakeEntry, FindFails, CreateApplication, configVars
  <2> QED BY <2>1, <2>2 DEF Next
<1>3. HostFxrInv /\ ConfigTypes => HostFxrIsRight
  <2> SUFFICES ASSUME HostFxrInv, ConfigTypes PROVE HostFxrIsRight
    OBVIOUS
  <2>1. ASSUME NEW a \in Apps, stored[a] # Null
        PROVE  /\ IF config[stored[a]].inProcess THEN IsFound(disk, config[stored[a]].hostfxr)
                  ELSE config[stored[a]].hostfxr = Failure
    BY <2>1 DEF HostFxrInv, ConfigTypes
  <2>2. NewestIsStored
    BY <2>1 DEF NewestIsStored, IsFound, FromFolder, None
  <2>3. Failure.at # "beside"
    BY DEF Failure, None
  <2>4. FirstArgumentIsTheDll
    BY <2>1, <2>3 DEF FirstArgumentIsTheDll, IsFound
  <2> QED BY <2>2, <2>4 DEF HostFxrIsRight
<1>4. ConfigInv => ConfigTypes
  BY DEF ConfigInv
<1> QED BY <1>1, <1>2, <1>3, <1>4, ConfigInvHolds, PTL DEF Spec

-----------------------------------------------------------------------------
(* The sizes of the table.                                                 *)
LEMMA PrimesArePositive ==
  ASSUME NEW n \in Nat \ {0}
  PROVE  GetPrime(n) \in Nat \ {0}
<1> DEFINE known == {p \in g_Primes : p >= n}
           others == {p \in Nat : n <= p /\ p < MAXDWORD /\ IsPrime(p)}
           Least(S) == CHOOSE p \in S : \A q \in S : p <= q
<1>1. known \in SUBSET Nat /\ others \in SUBSET Nat
  BY DEF g_Primes
<1>2. known # {} => Least(known) \in known
  BY <1>1, LeastExists
<1>3. others # {} => Least(others) \in others
  BY <1>1, LeastExists
<1>4. GetPrime(n) = IF known # {} THEN Least(known) ELSE IF others # {} THEN Least(others) ELSE n
  BY DEF GetPrime
<1>5. GetPrime(n) \in known \cup others \cup {n}
  BY <1>2, <1>3, <1>4
<1>6. \A p \in known \cup others : p >= n
  OBVIOUS
<1>7. \A p \in known \cup others : p \in Nat
  BY <1>1
<1> HIDE DEF known, others, Least
<1>8. \A p \in known \cup others \cup {n} : p \in Nat \ {0}
  BY <1>6, <1>7
<1> QED BY <1>5, <1>8

-----------------------------------------------------------------------------
(* Chains: what is where after a node has come or gone.                    *)
LEMMA Inserted ==
  ASSUME NEW s \in Seq(Records), NEW i \in 1 .. Len(s) + 1, NEW x \in Records
  PROVE  /\ InsertAt(s, i, x) \in Seq(Records)
         /\ Len(InsertAt(s, i, x)) = Len(s) + 1
         /\ \A j \in 1 .. Len(s) + 1 : InsertAt(s, i, x)[j] =
              IF j < i THEN s[j] ELSE IF j = i THEN x ELSE s[j - 1]
<1> DEFINE p == SubSeq(s, 1, i - 1)
           q == SubSeq(s, i, Len(s))
<1>1. \A j \in 1 .. Len(s) : s[j] \in Records
  BY ElementOfSeq
<1>2. /\ p \in Seq(Records) /\ Len(p) = i - 1
      /\ \A j \in 1 .. i - 1 : p[j] = s[j]
  <2>1. /\ p \in Seq(Records)
        /\ Len(p) = IF 1 <= i - 1 THEN (i - 1) - 1 + 1 ELSE 0
        /\ \A j \in 1 .. (i - 1) - 1 + 1 : p[j] = s[1 + j - 1]
    BY <1>1, SubSeqProperties
  <2> HIDE DEF p
  <2> QED BY <2>1
<1>3. /\ q \in Seq(Records) /\ Len(q) = Len(s) - i + 1
      /\ \A j \in 1 .. Len(s) - i + 1 : q[j] = s[i + j - 1]
  <2>1. /\ q \in Seq(Records)
        /\ Len(q) = IF i <= Len(s) THEN Len(s) - i + 1 ELSE 0
        /\ \A j \in 1 .. Len(s) - i + 1 : q[j] = s[i + j - 1]
    BY <1>1, SubSeqProperties
  <2> HIDE DEF q
  <2> QED BY <2>1
<1> DEFINE one == <<x>>
           u == p \o one
<1>4. one \in Seq(Records) /\ Len(one) = 1 /\ one[1] = x
  OBVIOUS
<1> HIDE DEF p, q, one
<1>6. /\ u \in Seq(Records) /\ Len(u) = i
      /\ \A j \in 1 .. i : u[j] = IF j <= i - 1 THEN p[j] ELSE one[j - (i - 1)]
  <2>1. /\ u \in Seq(Records) /\ Len(u) = Len(p) + Len(one)
        /\ \A j \in 1 .. Len(p) + Len(one) : u[j] = IF j <= Len(p) THEN p[j] ELSE one[j - Len(p)]
    BY <1>2, <1>4, ConcatProperties
  <2> HIDE DEF u
  <2> QED BY <1>2, <1>4, <2>1
<1> HIDE DEF u
<1> DEFINE v == u \o q
<1>7. /\ v \in Seq(Records) /\ Len(v) = Len(u) + Len(q)
      /\ \A j \in 1 .. Len(u) + Len(q) : v[j] = IF j <= Len(u) THEN u[j] ELSE q[j - Len(u)]
  BY <1>3, <1>6, ConcatProperties
<1>5. InsertAt(s, i, x) = v
  BY DEF InsertAt, p, q, one, u
<1> HIDE DEF v
<1>8. ASSUME NEW j \in 1 .. Len(s) + 1
      PROVE  v[j] = IF j < i THEN s[j] ELSE IF j = i THEN x ELSE s[j - 1]
  <2>1. CASE j <= i
    <3>1. v[j] = u[j]
      BY <1>3, <1>6, <1>7, <2>1
    <3>2. CASE j < i
      BY <1>2, <1>6, <3>1, <3>2
    <3>3. CASE j = i
      BY <1>4, <1>6, <3>1, <3>3
    <3> QED BY <2>1, <3>2, <3>3
  <2>2. CASE j > i
    <3>1. v[j] = q[j - i] /\ j - i \in 1 .. Len(s) - i + 1
      BY <1>3, <1>6, <1>7, <2>2
    <3>2. q[j - i] = s[i + (j - i) - 1] /\ i + (j - i) - 1 = j - 1
      BY <1>3, <3>1
    <3> QED BY <2>2, <3>1, <3>2
  <2> QED BY <2>1, <2>2
<1> QED BY <1>3, <1>5, <1>6, <1>7, <1>8

LEMMA Removed ==
  ASSUME NEW s \in Seq(Records), NEW i \in 1 .. Len(s)
  PROVE  /\ RemoveAt(s, i) \in Seq(Records)
         /\ Len(RemoveAt(s, i)) = Len(s) - 1
         /\ \A j \in 1 .. Len(s) - 1 : RemoveAt(s, i)[j] = IF j < i THEN s[j] ELSE s[j + 1]
<1> DEFINE p == SubSeq(s, 1, i - 1)
           q == SubSeq(s, i + 1, Len(s))
<1>1. \A j \in 1 .. Len(s) : s[j] \in Records
  BY ElementOfSeq
<1>2. /\ p \in Seq(Records) /\ Len(p) = i - 1
      /\ \A j \in 1 .. i - 1 : p[j] = s[j]
  <2>1. /\ p \in Seq(Records)
        /\ Len(p) = IF 1 <= i - 1 THEN (i - 1) - 1 + 1 ELSE 0
        /\ \A j \in 1 .. (i - 1) - 1 + 1 : p[j] = s[1 + j - 1]
    BY <1>1, SubSeqProperties
  <2> HIDE DEF p
  <2> QED BY <2>1
<1>3. /\ q \in Seq(Records) /\ Len(q) = Len(s) - i
      /\ \A j \in 1 .. Len(s) - i : q[j] = s[i + j]
  <2>1. /\ q \in Seq(Records)
        /\ Len(q) = IF i + 1 <= Len(s) THEN Len(s) - (i + 1) + 1 ELSE 0
        /\ \A j \in 1 .. Len(s) - (i + 1) + 1 : q[j] = s[i + 1 + j - 1]
    BY <1>1, SubSeqProperties
  <2> HIDE DEF q
  <2> QED BY <2>1
<1> DEFINE v == p \o q
<1>4. RemoveAt(s, i) = v
  BY DEF RemoveAt
<1> HIDE DEF p, q
<1>5. /\ v \in Seq(Records) /\ Len(v) = Len(p) + Len(q)
      /\ \A j \in 1 .. Len(p) + Len(q) : v[j] = IF j <= Len(p) THEN p[j] ELSE q[j - Len(p)]
  BY <1>2, <1>3, ConcatProperties
<1> HIDE DEF v
<1>6. ASSUME NEW j \in 1 .. Len(s) - 1
      PROVE  v[j] = IF j < i THEN s[j] ELSE s[j + 1]
  <2>1. CASE j < i
    <3>1. j \in 1 .. i - 1
      BY <2>1
    <3>2. j \in 1 .. Len(p) + Len(q) /\ j <= Len(p)
      BY <1>2, <1>3, <2>1
    <3>3. v[j] = p[j]
      BY <1>5, <3>2
    <3> QED BY <1>2, <2>1, <3>1, <3>3
  <2>2. CASE j >= i
    <3>1. v[j] = q[j - (i - 1)] /\ j - (i - 1) \in 1 .. Len(s) - i
      <4>1. /\ j - (i - 1) \in 1 .. Len(s) - i /\ j \in 1 .. Len(p) + Len(q) /\ ~ (j <= Len(p))
            /\ Len(p) = i - 1
        BY <1>2, <1>3, <2>2
      <4> QED BY <1>5, <4>1
    <3>2. q[j - (i - 1)] = s[i + (j - (i - 1))] /\ i + (j - (i - 1)) = j + 1
      BY <1>3, <3>1
    <3> QED BY <2>2, <3>1, <3>2
  <2> QED BY <2>1, <2>2
<1> QED BY <1>2, <1>3, <1>4, <1>5, <1>6

LEMMA InsertedNodes ==
  ASSUME NEW s \in Seq(Records), NEW i \in 1 .. Len(s) + 1, NEW x \in Records
  PROVE  ToSet(InsertAt(s, i, x)) = ToSet(s) \cup {x}
<1>0. PICK v : v = InsertAt(s, i, x)
  OBVIOUS
<1>1. /\ v \in Seq(Records) /\ Len(v) = Len(s) + 1
      /\ \A j \in 1 .. Len(s) + 1 : v[j] = IF j < i THEN s[j] ELSE IF j = i THEN x ELSE s[j - 1]
  BY <1>0, Inserted, SMTT(30)
<1>2. DOMAIN v = 1 .. Len(s) + 1 /\ DOMAIN s = 1 .. Len(s)
  BY <1>1
<1>3. ASSUME NEW y \in ToSet(v)
      PROVE  y \in ToSet(s) \cup {x}
  <2>1. PICK j \in 1 .. Len(s) + 1 : y = v[j]
    BY <1>2 DEF ToSet
  <2>2. CASE j < i
    BY <1>1, <1>2, <2>1, <2>2 DEF ToSet
  <2>3. CASE j = i
    BY <1>1, <2>1, <2>3
  <2>4. CASE j > i
    <3>1. y = s[j - 1] /\ j - 1 \in 1 .. Len(s)
      BY <1>1, <2>1, <2>4
    <3> QED BY <1>2, <3>1 DEF ToSet
  <2> QED BY <2>2, <2>3, <2>4
<1>4. x \in ToSet(v)
  <2>1. v[i] = x
    BY <1>1
  <2> QED BY <1>2, <2>1 DEF ToSet
<1>5. ASSUME NEW y \in ToSet(s)
      PROVE  y \in ToSet(v)
  <2>1. PICK j \in 1 .. Len(s) : y = s[j]
    BY <1>2 DEF ToSet
  <2>2. CASE j < i
    <3>1. v[j] = y
      BY <1>1, <2>1, <2>2
    <3> QED BY <1>2, <3>1 DEF ToSet
  <2>3. CASE j >= i
    <3>1. v[j + 1] = s[j + 1 - 1] /\ j + 1 \in 1 .. Len(s) + 1
      BY <1>1, <2>1, <2>3
    <3> QED BY <1>2, <2>1, <3>1 DEF ToSet
  <2> QED BY <2>2, <2>3
<1> QED BY <1>0, <1>3, <1>4, <1>5

\* Different nodes in different places.
Distinct(s) == \A i, j \in DOMAIN s : s[i] = s[j] => i = j

LEMMA RemovedNodes ==
  ASSUME NEW s \in Seq(Records), NEW i \in 1 .. Len(s), Distinct(s)
  PROVE  ToSet(RemoveAt(s, i)) = ToSet(s) \ {s[i]}
<1>0. PICK v : v = RemoveAt(s, i)
  OBVIOUS
<1>1. /\ v \in Seq(Records) /\ Len(v) = Len(s) - 1
      /\ \A j \in 1 .. Len(s) - 1 : v[j] = IF j < i THEN s[j] ELSE s[j + 1]
  BY <1>0, Removed, Zenon
<1>2. DOMAIN v = 1 .. Len(s) - 1 /\ DOMAIN s = 1 .. Len(s) /\ Len(s) \in Nat
  BY <1>1
<1>3. ASSUME NEW y \in ToSet(v)
      PROVE  y \in ToSet(s) \ {s[i]}
  <2>1. PICK j \in 1 .. Len(s) - 1 : y = v[j]
    BY <1>2 DEF ToSet
  <2>2. PICK k \in 1 .. Len(s) : k # i /\ y = s[k]
    <3>1. CASE j < i
      BY <1>1, <1>2, <2>1, <3>1
    <3>2. CASE j >= i
      <4>1. y = s[j + 1] /\ j + 1 \in 1 .. Len(s) /\ j + 1 # i
        BY <1>1, <1>2, <2>1, <3>2
      <4> QED BY <4>1
    <3> QED BY <1>2, <3>1, <3>2
  <2> QED BY <1>2, <2>2 DEF Distinct, ToSet
<1>4. ASSUME NEW y \in ToSet(s), y # s[i]
      PROVE  y \in ToSet(v)
  <2>1. PICK j \in 1 .. Len(s) : y = s[j]
    BY <1>2 DEF ToSet
  <2>2. j # i
    BY <1>4, <2>1
  <2>3. CASE j < i
    <3>1. v[j] = y /\ j \in 1 .. Len(s) - 1
      BY <1>1, <1>2, <2>1, <2>3
    <3> QED BY <1>2, <3>1 DEF ToSet
  <2>4. CASE j > i
    <3>1. v[j - 1] = s[j - 1 + 1] /\ j - 1 \in 1 .. Len(s) - 1
      BY <1>1, <1>2, <2>1, <2>4
    <3> QED BY <1>2, <2>1, <3>1 DEF ToSet
  <2> QED BY <1>2, <2>2, <2>3, <2>4
<1> QED BY <1>0, <1>3, <1>4

LEMMA TailNodes ==
  ASSUME NEW s \in Seq(Records), s # <<>>
  PROVE  /\ Tail(s) \in Seq(Records) /\ Len(Tail(s)) = Len(s) - 1
         /\ \A j \in 1 .. Len(s) - 1 : Tail(s)[j] = s[j + 1]
         /\ Head(s) = s[1] /\ Head(s) \in Records /\ 1 \in DOMAIN s
         /\ ToSet(s) = ToSet(Tail(s)) \cup {Head(s)}
<1> DEFINE v == Tail(s)
<1>1. /\ v \in Seq(Records) /\ Len(v) = Len(s) - 1
      /\ \A j \in 1 .. Len(v) : v[j] = s[j + 1]
      /\ Head(s) = s[1] /\ Head(s) \in Records
  BY HeadTailProperties
<1>2. DOMAIN s = 1 .. Len(s) /\ Len(s) \in Nat \ {0}
  BY EmptySeq
<1> HIDE DEF v
<1>3. DOMAIN v = 1 .. Len(s) - 1
  BY <1>1
<1>4. ASSUME NEW y \in ToSet(s)
      PROVE  y \in ToSet(v) \cup {s[1]}
  <2>1. PICK j \in 1 .. Len(s) : y = s[j]
    BY <1>2 DEF ToSet
  <2>2. CASE j > 1
    <3>1. v[j - 1] = s[j - 1 + 1] /\ j - 1 \in 1 .. Len(s) - 1
      BY <1>1, <1>2, <2>2
    <3> QED BY <1>3, <2>1, <3>1 DEF ToSet
  <2> QED BY <2>1, <2>2
<1>5. ASSUME NEW y \in ToSet(v)
      PROVE  y \in ToSet(s)
  <2>1. PICK j \in 1 .. Len(s) - 1 : y = v[j]
    BY <1>3 DEF ToSet
  <2>2. y = s[j + 1] /\ j + 1 \in 1 .. Len(s)
    BY <1>1, <1>2, <2>1
  <2> QED BY <1>2, <2>2 DEF ToSet
<1>6. s[1] \in ToSet(s)
  BY <1>2 DEF ToSet
<1> QED BY <1>1, <1>2, <1>4, <1>5, <1>6 DEF v

-----------------------------------------------------------------------------
(* Chains in the order of the hashes.                                      *)
Sorted(s) ==
  \A i, j \in DOMAIN s : i < j => HashR(s[i]) <= HashR(s[j]) /\ KeyOf[s[i]] # KeyOf[s[j]]
Bucketed(s, n, b) == \A x \in ToSet(s) : HashR(x) % n = b
Stands(p, s) == p = Nil \/ p \in ToSet(s)

LEMMA Hashes ==
  ASSUME NEW x \in Records
  PROVE  HashR(x) \in Nat /\ KeyOf[x] \in Keys /\ x # Nil /\ HashR(x) = HashOf[KeyOf[x]]
  BY TableAssumption DEF HashR

LEMMA NodesAreRecords ==
  ASSUME NEW s \in Seq(Records)
  PROVE  /\ DOMAIN s = 1 .. Len(s) /\ Len(s) \in Nat /\ ToSet(s) \subseteq Records
         /\ \A i \in 1 .. Len(s) : s[i] \in Records /\ s[i] \in ToSet(s)
         /\ \A x \in ToSet(s) : \E i \in 1 .. Len(s) : s[i] = x
  BY ElementOfSeq DEF ToSet

LEMMA OrderedChainsTo ==
  ASSUME NEW m \in Int, NEW chains \in [0 .. m -> Seq(Records)], NEW n \in Nat
  PROVE  Ordered(chains, n) <=> \A b \in 0 .. m : Sorted(chains[b]) /\ Bucketed(chains[b], n, b)
<1>1. ASSUME NEW b \in 0 .. m
      PROVE  /\ DOMAIN chains[b] = 1 .. Len(chains[b]) /\ Len(chains[b]) \in Nat
             /\ \A i \in DOMAIN chains[b] : chains[b][i] \in Records
             /\ \A i \in DOMAIN chains[b] : HashR(chains[b][i]) \in Nat
  BY NodesAreRecords, Hashes
<1>2. ASSUME Ordered(chains, n), NEW b \in 0 .. m
      PROVE  Sorted(chains[b]) /\ Bucketed(chains[b], n, b)
  <2>1. \A i \in DOMAIN chains[b] :
          /\ HashR(chains[b][i]) % n = b
          /\ \A j \in 1 .. i - 1 : /\ HashR(chains[b][j]) <= HashR(chains[b][i])
                                   /\ KeyOf[chains[b][j]] # KeyOf[chains[b][i]]
    BY <1>2 DEF Ordered
  <2>2. \A i, j \in DOMAIN chains[b] : i < j => i \in 1 .. j - 1
    BY <1>1
  <2> QED BY <2>1, <2>2 DEF Sorted, Bucketed, ToSet
<1>3. ASSUME \A b \in 0 .. m : Sorted(chains[b]) /\ Bucketed(chains[b], n, b)
      PROVE  Ordered(chains, n)
  <2>1. ASSUME NEW b \in 0 .. m, NEW i \in DOMAIN chains[b]
        PROVE  /\ HashR(chains[b][i]) % n = b
               /\ \A j \in 1 .. i - 1 : /\ HashR(chains[b][j]) <= HashR(chains[b][i])
                                        /\ KeyOf[chains[b][j]] # KeyOf[chains[b][i]]
    <3>1. HashR(chains[b][i]) % n = b
      BY <1>3 DEF Bucketed, ToSet
    <3>2. \A j \in 1 .. i - 1 : j \in DOMAIN chains[b] /\ j < i
      BY <1>1
    <3> QED BY <1>3, <3>1, <3>2 DEF Sorted
  <2> QED BY <2>1 DEF Ordered
<1> QED BY <1>2, <1>3

LEMMA OrderedChains ==
  ASSUME NEW n \in Nat \ {0}, NEW chains \in [0 .. n - 1 -> Seq(Records)]
  PROVE  Ordered(chains, n) <=> \A b \in 0 .. n - 1 : Sorted(chains[b]) /\ Bucketed(chains[b], n, b)
<1> DEFINE m == n - 1
<1>1. m \in Int /\ chains \in [0 .. m -> Seq(Records)] /\ n \in Nat
  OBVIOUS
<1> HIDE DEF m
<1>2. Ordered(chains, n) <=> \A b \in 0 .. m : Sorted(chains[b]) /\ Bucketed(chains[b], n, b)
  BY ONLY <1>1, OrderedChainsTo
<1> QED BY <1>2 DEF m

LEMMA SortedDistinct ==
  ASSUME NEW s \in Seq(Records), Sorted(s)
  PROVE  /\ Distinct(s)
         /\ \A x, y \in ToSet(s) : KeyOf[x] = KeyOf[y] => x = y
<1>1. DOMAIN s = 1 .. Len(s) /\ Len(s) \in Nat
  OBVIOUS
<1>2. \A i, j \in DOMAIN s : KeyOf[s[i]] = KeyOf[s[j]] => i = j
  <2>1. \A i, j \in DOMAIN s : i < j \/ j < i \/ i = j
    BY <1>1
  <2> QED BY <2>1 DEF Sorted
<1>3. Distinct(s)
  BY <1>2 DEF Distinct
<1> QED BY <1>2, <1>3 DEF ToSet

LEMMA InsertSorted ==
  ASSUME NEW s \in Seq(Records), Sorted(s), NEW i \in 1 .. Len(s) + 1, NEW x \in Records,
         BehindEqual(s, x, i), \A y \in ToSet(s) : KeyOf[y] # KeyOf[x]
  PROVE  Sorted(InsertAt(s, i, x))
<1> DEFINE v == InsertAt(s, i, x)
<1>1. /\ v \in Seq(Records) /\ Len(v) = Len(s) + 1
      /\ \A j \in 1 .. Len(s) + 1 : v[j] = IF j < i THEN s[j] ELSE IF j = i THEN x ELSE s[j - 1]
  <2>1. i \in 1 .. Len(s) + 1 /\ x \in Records /\ s \in Seq(Records)
    OBVIOUS
  <2> QED BY ONLY <2>1, Inserted
<1> HIDE DEF v
<1>2. /\ DOMAIN v = 1 .. Len(s) + 1 /\ DOMAIN s = 1 .. Len(s) /\ Len(s) \in Nat
      /\ \A j \in 1 .. Len(s) : s[j] \in ToSet(s) /\ HashR(s[j]) \in Nat
  BY <1>1, NodesAreRecords, Hashes
<1>3. HashR(x) \in Nat
  BY Hashes
<1>4. ASSUME NEW a \in 1 .. Len(s) + 1, NEW c \in 1 .. Len(s) + 1, a < c
      PROVE  HashR(v[a]) <= HashR(v[c]) /\ KeyOf[v[a]] # KeyOf[v[c]]
  <2>1. CASE c < i
    <3>1. v[a] = s[a] /\ v[c] = s[c] /\ a \in DOMAIN s /\ c \in DOMAIN s
      BY <1>1, <1>2, <1>4, <2>1
    <3> QED BY <1>4, <3>1 DEF Sorted
  <2>2. CASE c = i
    <3>1. v[a] = s[a] /\ v[c] = x /\ a \in 1 .. Len(s) /\ a \in 1 .. i - 1
      BY <1>1, <1>4, <2>2
    <3> QED BY <1>2, <3>1 DEF BehindEqual
  <2>3. CASE a = i
    <3>1. v[a] = x /\ v[c] = s[c - 1] /\ c - 1 \in 1 .. Len(s) /\ i \in 1 .. Len(s) /\ i <= c - 1
      BY <1>1, <1>4, <2>3
    <3>2. HashR(s[i]) > HashR(x)
      BY <3>1 DEF BehindEqual
    <3>3. HashR(s[i]) <= HashR(s[c - 1])
      <4>1. CASE i = c - 1
        BY <1>2, <3>1, <4>1
      <4>2. CASE i < c - 1
        BY <1>2, <3>1, <4>2 DEF Sorted
      <4> QED BY <3>1, <4>1, <4>2
    <3>4. s[c - 1] \in ToSet(s) /\ HashR(s[c - 1]) \in Nat /\ HashR(s[i]) \in Nat
      BY <1>2, <3>1
    <3> QED BY <1>3, <3>1, <3>2, <3>3, <3>4
  <2>4. CASE a < i /\ i < c
    <3>1. v[a] = s[a] /\ v[c] = s[c - 1] /\ a \in DOMAIN s /\ c - 1 \in DOMAIN s /\ a < c - 1
      BY <1>1, <1>2, <2>4
    <3> QED BY <3>1 DEF Sorted
  <2>5. CASE i < a
    <3>1. /\ v[a] = s[a - 1] /\ v[c] = s[c - 1]
          /\ a - 1 \in DOMAIN s /\ c - 1 \in DOMAIN s /\ a - 1 < c - 1
      BY <1>1, <1>2, <1>4, <2>5
    <3> QED BY <3>1 DEF Sorted
  <2> QED BY <1>4, <2>1, <2>2, <2>3, <2>4, <2>5
<1> QED BY <1>2, <1>4 DEF Sorted, v

LEMMA RemoveSorted ==
  ASSUME NEW s \in Seq(Records), Sorted(s), NEW i \in 1 .. Len(s)
  PROVE  Sorted(RemoveAt(s, i))
<1> DEFINE v == RemoveAt(s, i)
<1>1. /\ v \in Seq(Records) /\ Len(v) = Len(s) - 1
      /\ \A j \in 1 .. Len(s) - 1 : v[j] = IF j < i THEN s[j] ELSE s[j + 1]
  BY Removed
<1> HIDE DEF v
<1>2. DOMAIN v = 1 .. Len(s) - 1 /\ DOMAIN s = 1 .. Len(s) /\ Len(s) \in Nat
  BY <1>1
<1>3. ASSUME NEW a \in 1 .. Len(s) - 1, NEW c \in 1 .. Len(s) - 1, a < c
      PROVE  \E d, e \in DOMAIN s : d < e /\ v[a] = s[d] /\ v[c] = s[e]
  <2>1. CASE c < i
    <3>1. v[a] = s[a] /\ v[c] = s[c] /\ a \in DOMAIN s /\ c \in DOMAIN s
      BY <1>1, <1>2, <1>3, <2>1
    <3> QED BY <1>3, <3>1
  <2>2. CASE a < i /\ i <= c
    <3>1. v[a] = s[a] /\ v[c] = s[c + 1] /\ a \in DOMAIN s /\ c + 1 \in DOMAIN s /\ a < c + 1
      BY <1>1, <1>2, <1>3, <2>2
    <3> QED BY <3>1
  <2>3. CASE i <= a
    <3>1. /\ v[a] = s[a + 1] /\ v[c] = s[c + 1]
          /\ a + 1 \in DOMAIN s /\ c + 1 \in DOMAIN s /\ a + 1 < c + 1
      BY <1>1, <1>2, <1>3, <2>3
    <3> QED BY <3>1
  <2> QED BY <1>2, <1>3, <2>1, <2>2, <2>3
<1>4. ASSUME NEW a \in DOMAIN v, NEW c \in DOMAIN v, a < c
      PROVE  HashR(v[a]) <= HashR(v[c]) /\ KeyOf[v[a]] # KeyOf[v[c]]
  <2>1. a \in 1 .. Len(s) - 1 /\ c \in 1 .. Len(s) - 1
    BY <1>2
  <2>2. PICK d, e \in DOMAIN s : d < e /\ v[a] = s[d] /\ v[c] = s[e]
    BY <1>3, <1>4, <2>1
  <2>3. HashR(s[d]) <= HashR(s[e]) /\ KeyOf[s[d]] # KeyOf[s[e]]
    BY <2>2 DEF Sorted
  <2> QED BY <2>2, <2>3
<1>5. Sorted(v)
  BY <1>4 DEF Sorted
<1> QED BY <1>5 DEF v

LEMMA TailSorted ==
  ASSUME NEW s \in Seq(Records), Sorted(s), s # <<>>
  PROVE  /\ Sorted(Tail(s))
         /\ ToSet(Tail(s)) = ToSet(s) \ {Head(s)}
<1> DEFINE v == Tail(s)
<1>1. /\ v \in Seq(Records) /\ Len(v) = Len(s) - 1
      /\ \A j \in 1 .. Len(s) - 1 : v[j] = s[j + 1]
      /\ Head(s) = s[1] /\ 1 \in DOMAIN s /\ ToSet(s) = ToSet(v) \cup {Head(s)}
  BY TailNodes
<1> HIDE DEF v
<1>2. DOMAIN v = 1 .. Len(s) - 1 /\ DOMAIN s = 1 .. Len(s) /\ Len(s) \in Nat
  BY <1>1
<1>3. \A j \in DOMAIN v : v[j] = s[j + 1] /\ j + 1 \in DOMAIN s /\ 1 < j + 1
  BY <1>1, <1>2
<1>4. Sorted(v)
  <2>1. \A i, j \in DOMAIN v : i < j => i + 1 < j + 1
    BY <1>2
  <2> QED BY <1>3, <2>1 DEF Sorted
<1>5. \A j \in DOMAIN v : v[j] # s[1]
  BY <1>1, <1>3 DEF Sorted
<1>6. Head(s) \notin ToSet(v)
  BY <1>1, <1>5 DEF ToSet
<1> QED BY <1>1, <1>4, <1>6 DEF v

-----------------------------------------------------------------------------
(* A walk through a chain.  Up to the pointer p every node has a hash not  *)
(* greater than that of the key k, and is not that of k.                   *)
WalkedPast(s, p, k) ==
  \A i, j \in DOMAIN s : s[j] = p /\ i <= j => HashR(s[i]) <= HashOf[k] /\ KeyOf[s[i]] # k
\* The nodes of S are all beyond p, where they are in the chain.
Beyond(s, p, S) == \A i, j \in DOMAIN s : s[j] = p /\ i <= j => s[i] \notin S

LEMMA Standing ==
  ASSUME NEW s \in Seq(Records), Distinct(s), NEW p, Stands(p, s)
  PROVE  \E m \in 0 .. Len(s) :
           /\ Place(s, p) = m /\ (m = 0 <=> p = Nil) /\ (m > 0 => s[m] = p)
           /\ After(s, p) = IF m < Len(s) THEN s[m + 1] ELSE Nil
           /\ After(s, p) # Nil <=> m < Len(s)
           /\ Stands(After(s, p), s)
<1>1. /\ DOMAIN s = 1 .. Len(s) /\ Len(s) \in Nat
      /\ \A i \in 1 .. Len(s) : s[i] \in ToSet(s) /\ s[i] # Nil
  BY NodesAreRecords, Hashes
<1>2. \E m \in 0 .. Len(s) : Place(s, p) = m /\ (m = 0 <=> p = Nil) /\ (m > 0 => s[m] = p)
  <2>1. CASE p = Nil
    BY <1>1, <2>1 DEF Place
  <2>2. CASE p # Nil
    <3>1. PICK i \in DOMAIN s : s[i] = p
      BY <2>2 DEF Stands, ToSet
    <3>2. \A j \in DOMAIN s : s[j] = p => j = i
      BY <3>1 DEF Distinct
    <3>3. Place(s, p) = i
      BY <2>2, <3>1, <3>2 DEF Place
    <3> QED BY <1>1, <2>2, <3>1, <3>3
  <2> QED BY <2>1, <2>2
<1>3. PICK m \in 0 .. Len(s) : Place(s, p) = m /\ (m = 0 <=> p = Nil) /\ (m > 0 => s[m] = p)
  BY <1>2
<1>4. After(s, p) = IF m < Len(s) THEN s[m + 1] ELSE Nil
  BY <1>3 DEF After
<1>5. m < Len(s) => m + 1 \in 1 .. Len(s)
  BY <1>1
<1> QED BY <1>1, <1>3, <1>4, <1>5 DEF Stands

LEMMA WalksOn ==
  ASSUME NEW s \in Seq(Records), Distinct(s), NEW p, Stands(p, s), NEW k \in Keys,
         WalkedPast(s, p, k), After(s, p) # Nil, KeyOf[After(s, p)] # k,
         ~StopsAt(k, After(s, p))
  PROVE  Stands(After(s, p), s) /\ WalkedPast(s, After(s, p), k)
<1>1. PICK m \in 0 .. Len(s) :
           /\ (m = 0 <=> p = Nil) /\ (m > 0 => s[m] = p)
           /\ After(s, p) = s[m + 1] /\ m < Len(s) /\ Stands(After(s, p), s)
  BY Standing
<1>2. /\ DOMAIN s = 1 .. Len(s) /\ Len(s) \in Nat /\ m + 1 \in DOMAIN s
      /\ \A i \in DOMAIN s : HashR(s[i]) \in Nat
  BY <1>1, NodesAreRecords, Hashes
<1>3. HashR(s[m + 1]) <= HashOf[k]
  <2>1. ~ (HashR(s[m + 1]) > HashOf[k])
    BY <1>1 DEF StopsAt
  <2> QED BY <1>2, <2>1, TableAssumption
<1>4. ASSUME NEW i \in DOMAIN s, NEW j \in DOMAIN s, s[j] = After(s, p), i <= j
      PROVE  HashR(s[i]) <= HashOf[k] /\ KeyOf[s[i]] # k
  <2>1. j = m + 1
    BY <1>1, <1>2, <1>4 DEF Distinct
  <2>2. CASE i = m + 1
    BY <1>1, <1>3, <2>2
  <2>3. CASE i # m + 1
    <3>1. m \in DOMAIN s /\ s[m] = p /\ i <= m
      BY <1>1, <1>2, <1>4, <2>1, <2>3
    <3> QED BY <3>1 DEF WalkedPast
  <2> QED BY <2>2, <2>3
<1> QED BY <1>1, <1>4 DEF WalkedPast

LEMMA NotThere ==
  ASSUME NEW s \in Seq(Records), Sorted(s), NEW p, Stands(p, s), NEW k \in Keys,
         WalkedPast(s, p, k), StopsAt(k, After(s, p))
  PROVE  /\ \A x \in ToSet(s) : KeyOf[x] # k
         /\ \A x \in Records : KeyOf[x] = k => BehindEqual(s, x, Place(s, p) + 1)
<1>1. PICK m \in 0 .. Len(s) :
           /\ (m = 0 <=> p = Nil) /\ (m > 0 => s[m] = p) /\ Place(s, p) = m
           /\ After(s, p) = IF m < Len(s) THEN s[m + 1] ELSE Nil
           /\ After(s, p) # Nil <=> m < Len(s)
  BY Standing, SortedDistinct
<1>2. /\ DOMAIN s = 1 .. Len(s) /\ Len(s) \in Nat /\ HashOf[k] \in Nat
      /\ \A i \in DOMAIN s : HashR(s[i]) \in Nat /\ HashR(s[i]) = HashOf[KeyOf[s[i]]]
  BY NodesAreRecords, Hashes, TableAssumption
<1>3. ASSUME NEW i \in 1 .. m
      PROVE  HashR(s[i]) <= HashOf[k] /\ KeyOf[s[i]] # k
  <2>1. i \in DOMAIN s /\ m \in DOMAIN s /\ s[m] = p /\ i <= m
    BY <1>1, <1>2
  <2> QED BY <2>1 DEF WalkedPast
<1>4. m < Len(s) => HashR(s[m + 1]) > HashOf[k]
  BY <1>1 DEF StopsAt
<1>5. ASSUME NEW i \in m + 1 .. Len(s)
      PROVE  HashR(s[i]) > HashOf[k]
  <2>1. HashR(s[m + 1]) > HashOf[k] /\ m + 1 \in DOMAIN s /\ i \in DOMAIN s
    BY <1>2, <1>4
  <2>2. CASE i = m + 1
    BY <2>1, <2>2
  <2>3. CASE m + 1 < i
    <3>1. HashR(s[m + 1]) <= HashR(s[i])
      BY <2>1, <2>3 DEF Sorted
    <3> QED BY <1>2, <2>1, <3>1
  <2> QED BY <2>2, <2>3
<1>6. ASSUME NEW i \in DOMAIN s
      PROVE  KeyOf[s[i]] # k
  <2>1. CASE i <= m
    BY <1>2, <1>3, <2>1
  <2>2. CASE i > m
    <3>1. HashR(s[i]) > HashOf[k] /\ HashR(s[i]) = HashOf[KeyOf[s[i]]]
      BY <1>2, <1>5, <2>2
    <3> QED BY <1>2, <3>1
  <2> QED BY <1>2, <2>1, <2>2
<1>7. ASSUME NEW x \in Records, KeyOf[x] = k
      PROVE  BehindEqual(s, x, m + 1)
  <2>1. HashR(x) = HashOf[k]
    BY <1>7, Hashes
  <2> QED BY <1>3, <1>4, <2>1 DEF BehindEqual
<1> QED BY <1>1, <1>6, <1>7 DEF ToSet

LEMMA InsertionIsBehind ==
  ASSUME NEW s \in Seq(Records), Sorted(s), NEW i \in 1 .. Len(s) + 1, NEW x \in Records,
         BehindEqual(s, x, i), x \notin ToSet(s), NEW p, Stands(p, s)
  PROVE  /\ Stands(p, InsertAt(s, i, x))
         /\ \A k \in Keys : WalkedPast(s, p, k) => WalkedPast(InsertAt(s, i, x), p, k)
         /\ \A S : Beyond(s, p, S) /\ x \notin S => Beyond(InsertAt(s, i, x), p, S)
<1> DEFINE v == InsertAt(s, i, x)
<1>1. /\ v \in Seq(Records) /\ Len(v) = Len(s) + 1
      /\ \A j \in 1 .. Len(s) + 1 : v[j] = IF j < i THEN s[j] ELSE IF j = i THEN x ELSE s[j - 1]
      /\ ToSet(v) = ToSet(s) \cup {x}
  <2>1. i \in 1 .. Len(s) + 1 /\ x \in Records /\ s \in Seq(Records)
    OBVIOUS
  <2> QED BY ONLY <2>1, Inserted, InsertedNodes
<1> HIDE DEF v
<1>2. /\ DOMAIN v = 1 .. Len(s) + 1 /\ DOMAIN s = 1 .. Len(s) /\ Len(s) \in Nat
      /\ \A j \in 1 .. Len(s) : s[j] \in ToSet(s) /\ s[j] \in Records /\ HashR(s[j]) \in Nat
  BY <1>1, NodesAreRecords, Hashes
<1>3. Stands(p, v)
  BY <1>1 DEF Stands
\* Where the nodes up to p have been.
<1>4. ASSUME NEW a \in DOMAIN v, NEW c \in DOMAIN v, v[c] = p, a <= c
      PROVE  \E d, e \in DOMAIN s :
               /\ s[e] = p /\ d <= e
               /\ v[a] = s[d] \/ (v[a] = x /\ HashR(x) < HashR(s[d]))
  <2>0. p # x
    BY <1>2, <1>4, Hashes DEF Stands
  <2>1. c # i
    BY <1>1, <1>2, <1>4, <2>0
  <2>2. CASE c < i
    <3>1. v[c] = s[c] /\ v[a] = s[a] /\ a \in DOMAIN s /\ c \in DOMAIN s
      BY <1>1, <1>2, <1>4, <2>2
    <3> QED BY <1>4, <3>1
  <2>3. CASE c > i
    <3>1. v[c] = s[c - 1] /\ c - 1 \in DOMAIN s
      BY <1>1, <1>2, <2>3
    <3>2. CASE a < i
      <4>1. v[a] = s[a] /\ a \in DOMAIN s /\ a <= c - 1
        BY <1>1, <1>2, <1>4, <2>3, <3>2
      <4> QED BY <1>4, <3>1, <4>1
    <3>3. CASE a = i
      <4>1. v[a] = x /\ i \in DOMAIN s /\ i <= c - 1
        BY <1>1, <1>2, <1>4, <2>3, <3>3
      <4>2. HashR(s[i]) > HashR(x)
        BY <1>2, <4>1 DEF BehindEqual
      <4>3. HashR(x) < HashR(s[i])
        BY <4>2
      <4> QED BY <1>4, <3>1, <4>1, <4>3
    <3>4. CASE a > i
      <4>1. v[a] = s[a - 1] /\ a - 1 \in DOMAIN s /\ a - 1 <= c - 1
        BY <1>1, <1>2, <1>4, <2>3, <3>4
      <4> QED BY <1>4, <3>1, <4>1
    <3> QED BY <1>2, <3>2, <3>3, <3>4
  <2> QED BY <1>2, <2>1, <2>2, <2>3
<1>5. ASSUME NEW k \in Keys, WalkedPast(s, p, k)
      PROVE  WalkedPast(v, p, k)
  <2>1. HashR(x) \in Nat /\ HashR(x) = HashOf[KeyOf[x]] /\ HashOf[k] \in Nat
    BY Hashes, TableAssumption
  <2>2. ASSUME NEW a \in DOMAIN v, NEW c \in DOMAIN v, v[c] = p, a <= c
        PROVE  HashR(v[a]) <= HashOf[k] /\ KeyOf[v[a]] # k
    <3>1. PICK d \in DOMAIN s, e \in DOMAIN s :
               /\ s[e] = p /\ d <= e
               /\ v[a] = s[d] \/ (v[a] = x /\ HashR(x) < HashR(s[d]))
      BY <1>4, <2>2
    <3>2. HashR(s[d]) <= HashOf[k] /\ KeyOf[s[d]] # k /\ HashR(s[d]) \in Nat
      BY <1>2, <1>5, <3>1 DEF WalkedPast
    <3>3. CASE v[a] = s[d]
      BY <3>2, <3>3
    <3>4. CASE v[a] = x /\ HashR(x) < HashR(s[d])
      BY <2>1, <3>2, <3>4
    <3> QED BY <3>1, <3>3, <3>4
  <2> QED BY <2>2 DEF WalkedPast
<1>6. ASSUME NEW S, Beyond(s, p, S), x \notin S
      PROVE  Beyond(v, p, S)
  <2>1. ASSUME NEW a \in DOMAIN v, NEW c \in DOMAIN v, v[c] = p, a <= c
        PROVE  v[a] \notin S
    <3>1. PICK d \in DOMAIN s, e \in DOMAIN s : s[e] = p /\ d <= e /\ (v[a] = s[d] \/ v[a] = x)
      BY <1>4, <2>1
    <3> QED BY <1>6, <3>1 DEF Beyond
  <2> QED BY <2>1 DEF Beyond
<1> QED BY <1>3, <1>5, <1>6 DEF v

-----------------------------------------------------------------------------
(* The invariant.                                                          *)
ThreadPlaces == {"idle", "walk", "take", "link", "own", "count", "leave", "check", "rehash",
                 "grow", "done", "apply", "deleteIf"}
ThreadType ==
  [pc : ThreadPlaces, op : {"none", "insert", "find", "apply"}, key : Keys \cup {Nil},
   prev : Records \cup {Nil}, cur : Records \cup {Nil}, held : Records \cup {Nil},
   due : SUBSET Records, b : Nat]

TableTypes ==
  /\ nBuckets \in Nat \ {0} /\ buckets \in [0 .. nBuckets - 1 -> Seq(Records)]
  /\ nItems \in Int /\ refs \in [Records -> Int]
  /\ th \in [Threads -> ThreadType]

\* There is a larger table only while a thread moves the nodes to it.
Grows == \E t \in Threads : th[t].pc = "grow"
GrownIsOurs ==
  /\ Grows => grown \in [0 .. nNewBuckets - 1 -> Seq(Records)]
  /\ ~Grows => grown = <<>>

\* Whoever has the lock exclusively has it alone.
OwnerIsAlone ==
  \A t, u \in Threads : Owning(t) /\ t # u => ~Owning(u) /\ ~Sharing(u)

Entering(w) == w.op = "insert" /\ w.pc \in {"walk", "link"}
Adding(w) == w.pc \in {"own", "count"}

\* A record is inserted by the one thread that has made it.
OneInserts ==
  \A t, u \in Threads : t # u =>
    /\ Entering(th[t]) => th[u].held # th[t].held
    /\ Adding(th[t]) /\ Adding(th[u]) => th[u].held # th[t].held

Holders(r) == {t \in Threads : th[t].held = r}
TableHas(r) == r \in Linked /\ \A t \in Threads : th[t].pc = "own" => th[t].held # r
Referenced ==
  \A r \in Records : refs[r] = Cardinality(Holders(r)) + (IF TableHas(r) THEN 1 ELSE 0)

\* The walk of FindNodeInternal.
Walking(w) ==
  /\ w.op \in {"insert", "find"} /\ w.key \in Keys
  /\ Stands(w.prev, BucketOf(w.key)) /\ WalkedPast(BucketOf(w.key), w.prev, w.key)
\* The walk of Apply and DeleteIf.
Visiting(w) ==
  /\ w.b \in 0 .. nBuckets - 1 /\ w.cur = Nil /\ Stands(w.prev, buckets[w.b])
\* The records that Apply has still to visit are ahead of it.
DueIsAhead(w) ==
  /\ w.due \subseteq Nodes(buckets) /\ \A r \in w.due : HashR(r) % nBuckets >= w.b
  /\ Beyond(buckets[w.b], w.prev, w.due)

\* What a thread may rely on where it is.
Stance(w) ==
  /\ w.pc = "idle" => w = Idle
  /\ w.pc \in {"walk", "link"} => Walking(w)
  /\ w.pc = "walk" => w.cur = Nil
  /\ w.pc = "link" => /\ w.op = "insert" /\ StopsAt(w.key, w.cur)
                      /\ Stands(w.cur, BucketOf(w.key))
  /\ w.pc = "take" => w.op = "find" /\ w.prev = Nil /\ w.cur \in Linked
  /\ w.op = "find" /\ w.pc \in {"walk", "take"} => w.held = Nil
  /\ w.op = "insert" => w.held \in Records /\ KeyOf[w.held] = w.key
  /\ Entering(w) => w.held \notin Linked
  /\ Adding(w) => w.op = "insert" /\ w.held \in Linked
  /\ w.pc = "apply" => w.op = "apply" /\ Visiting(w) /\ DueIsAhead(w)
  /\ w.op = "apply" => w.pc \in {"apply", "leave", "done"} /\ (w.pc # "apply" => w.due = {})
  /\ w.pc = "deleteIf" => w.op = "none" /\ w.held = Nil /\ Visiting(w)

TableInv ==
  /\ TableTypes /\ GrownIsOurs /\ ChainsAreOrdered /\ CountIsRight
  /\ Referenced /\ OwnerIsAlone /\ OneInserts
  /\ \A t \in Threads : Stance(th[t])

-----------------------------------------------------------------------------
(* What the order of the chains says of the table.                         *)
LEMMA NewSize ==
  ASSUME TableTypes
  PROVE  nNewBuckets \in Nat \ {0}
<1>1. 2 * nBuckets \in Nat \ {0}
  BY DEF TableTypes
<1> QED BY <1>1, PrimesArePositive DEF nNewBuckets

LEMMA NothingGrown ==
  Nodes(<<>>) = {} /\ \A n : Ordered(<<>>, n)
<1>1. DOMAIN <<>> = {}
  OBVIOUS
<1> QED BY <1>1 DEF Nodes, Ordered

LEMMA HashPlaces ==
  ASSUME NEW h \in Nat, NEW n \in Nat \ {0}
  PROVE  h % n \in 0 .. n - 1
  OBVIOUS

LEMMA NodesOf ==
  ASSUME NEW n \in Nat \ {0}, NEW chains \in [0 .. n - 1 -> Seq(Records)]
  PROVE  /\ Nodes(chains) \subseteq Records
         /\ \A b \in 0 .. n - 1 : ToSet(chains[b]) \subseteq Nodes(chains)
         /\ \A r \in Nodes(chains) : \E b \in 0 .. n - 1 : r \in ToSet(chains[b])
  BY NodesAreRecords DEF Nodes

LEMMA KeysOnceIn ==
  ASSUME NEW n \in Nat \ {0}, NEW chains \in [0 .. n - 1 -> Seq(Records)], Ordered(chains, n)
  PROVE  /\ \A r \in Nodes(chains) : r \in ToSet(chains[HashR(r) % n])
         /\ \A r, s \in Nodes(chains) : KeyOf[r] = KeyOf[s] => r = s
<1>1. \A b \in 0 .. n - 1 : Sorted(chains[b]) /\ Bucketed(chains[b], n, b)
  BY OrderedChains
<1>2. \A r \in Nodes(chains) : r \in ToSet(chains[HashR(r) % n]) /\ HashR(r) % n \in 0 .. n - 1
  <2>1. ASSUME NEW r \in Nodes(chains)
        PROVE  r \in ToSet(chains[HashR(r) % n]) /\ HashR(r) % n \in 0 .. n - 1
    <3>1. PICK b \in 0 .. n - 1 : r \in ToSet(chains[b])
      BY NodesOf
    <3>2. HashR(r) % n = b
      BY <1>1, <3>1 DEF Bucketed
    <3> QED BY <3>1, <3>2
  <2> QED BY <2>1
<1>3. ASSUME NEW r \in Nodes(chains), NEW s \in Nodes(chains), KeyOf[r] = KeyOf[s]
      PROVE  r = s
  <2>1. HashR(r) = HashR(s)
    BY <1>3 DEF HashR
  <2> DEFINE b == HashR(r) % n
  <2>2. b \in 0 .. n - 1 /\ r \in ToSet(chains[b]) /\ s \in ToSet(chains[b])
    BY <1>2, <2>1
  <2>3. chains[b] \in Seq(Records) /\ Sorted(chains[b])
    BY <1>1, <2>2
  <2> HIDE DEF b
  <2> QED BY <1>3, <2>2, <2>3, SortedDistinct
<1> QED BY <1>2, <1>3

LEMMA InOrder ==
  ASSUME TableInv
  PROVE  /\ Linked \subseteq Records /\ IsFiniteSet(Linked)
         /\ \A r, s \in Linked : KeyOf[r] = KeyOf[s] => r = s
         /\ \A b \in 0 .. nBuckets - 1 :
              /\ Sorted(buckets[b]) /\ Distinct(buckets[b]) /\ Bucketed(buckets[b], nBuckets, b)
              /\ ToSet(buckets[b]) \subseteq Nodes(buckets)
         /\ \A r \in Nodes(buckets) : r \in ToSet(buckets[HashR(r) % nBuckets])
         /\ Nodes(buckets) \subseteq Linked
         /\ ~Grows => Nodes(grown) = {} /\ Linked = Nodes(buckets)
<1>1. /\ nBuckets \in Nat \ {0} /\ buckets \in [0 .. nBuckets - 1 -> Seq(Records)]
      /\ Ordered(buckets, nBuckets) /\ Ordered(grown, nNewBuckets)
      /\ \A r \in Nodes(buckets), s \in Nodes(grown) : KeyOf[r] # KeyOf[s]
      /\ nNewBuckets \in Nat \ {0}
  BY NewSize DEF TableInv, TableTypes, ChainsAreOrdered
<1>2. /\ Nodes(buckets) \subseteq Records
      /\ \A r \in Nodes(buckets) : r \in ToSet(buckets[HashR(r) % nBuckets])
      /\ \A r, s \in Nodes(buckets) : KeyOf[r] = KeyOf[s] => r = s
      /\ \A b \in 0 .. nBuckets - 1 : ToSet(buckets[b]) \subseteq Nodes(buckets)
  BY <1>1, NodesOf, KeysOnceIn
<1>3. /\ Nodes(grown) \subseteq Records
      /\ \A r, s \in Nodes(grown) : KeyOf[r] = KeyOf[s] => r = s
  <2>1. CASE Grows
    <3>1. grown \in [0 .. nNewBuckets - 1 -> Seq(Records)]
      BY <2>1 DEF TableInv, GrownIsOurs
    <3> HIDE DEF nNewBuckets
    <3> QED BY <1>1, <3>1, NodesOf, KeysOnceIn
  <2>2. CASE ~Grows
    BY <2>2, NothingGrown DEF TableInv, GrownIsOurs
  <2> QED BY <2>1, <2>2
<1>4. \A b \in 0 .. nBuckets - 1 :
        Sorted(buckets[b]) /\ Distinct(buckets[b]) /\ Bucketed(buckets[b], nBuckets, b)
  BY <1>1, OrderedChains, SortedDistinct
<1>5. Linked \subseteq Records /\ IsFiniteSet(Linked)
  BY <1>2, <1>3, FS_Subset, TableAssumption DEF Linked
<1>6. \A r, s \in Linked : KeyOf[r] = KeyOf[s] => r = s
  BY <1>1, <1>2, <1>3 DEF Linked
<1>7. ~Grows => Nodes(grown) = {}
  BY NothingGrown DEF TableInv, GrownIsOurs
<1> QED BY <1>2, <1>4, <1>5, <1>6, <1>7 DEF Linked

LEMMA Buckets ==
  ASSUME TableInv, NEW k \in Keys
  PROVE  /\ Bucket(k) \in 0 .. nBuckets - 1 /\ BucketOf(k) \in Seq(Records)
         /\ Sorted(BucketOf(k)) /\ Distinct(BucketOf(k))
         /\ ToSet(BucketOf(k)) \subseteq Nodes(buckets)
         /\ \A r \in Nodes(buckets) : KeyOf[r] = k => r \in ToSet(BucketOf(k))
<1>1. nBuckets \in Nat \ {0} /\ buckets \in [0 .. nBuckets - 1 -> Seq(Records)] /\ HashOf[k] \in Nat
  BY TableAssumption DEF TableInv, TableTypes
<1>2. Bucket(k) \in 0 .. nBuckets - 1
  BY <1>1, HashPlaces DEF Bucket
<1>3. \A r \in Nodes(buckets) : KeyOf[r] = k => HashR(r) % nBuckets = Bucket(k)
  BY DEF HashR, Bucket
<1> QED BY <1>1, <1>2, <1>3, InOrder DEF BucketOf

\* While a thread shares the lock there is no larger table.
LEMMA SharedTable ==
  ASSUME TableInv, (\E t \in Threads : Sharing(t)) \/ NobodyOwns
  PROVE  ~Grows /\ grown = <<>> /\ Linked = Nodes(buckets) /\ NobodyOwns
<1>1. NobodyOwns
  BY DEF TableInv, OwnerIsAlone, NobodyOwns, Owning, Sharing
<1>2. ~Grows
  BY <1>1 DEF NobodyOwns, Owning, Grows
<1> QED BY <1>1, <1>2, InOrder DEF TableInv, GrownIsOurs

-----------------------------------------------------------------------------
(* Steps of one thread.                                                    *)
Becomes(t, v) == v \in ThreadType /\ th' = [th EXCEPT ![t] = v]

\* What a step may do with the lock and with the record it holds.
LockIsKept(t, v) ==
  /\ v.pc \in {"walk", "take", "link", "own", "count", "leave", "apply"} => Sharing(t) \/ NobodyOwns
  /\ v.pc \in {"deleteIf", "grow"} => Owning(t) \/ Free
HoldsAlone(t, v) ==
  \A u \in Threads \ {t} :
    /\ Entering(v) \/ Entering(th[u]) => th[u].held # v.held
    /\ Adding(v) /\ Adding(th[u]) => th[u].held # v.held

LEMMA ThreadStep ==
  ASSUME TableTypes, NEW t \in Threads, NEW v, Becomes(t, v)
  PROVE  /\ th' \in [Threads -> ThreadType] /\ th'[t] = v
         /\ \A u \in Threads \ {t} : th'[u] = th[u]
  BY DEF TableTypes, Becomes

LEMMA LockStep ==
  ASSUME TableTypes, OwnerIsAlone, NEW t \in Threads, NEW v, Becomes(t, v), LockIsKept(t, v)
  PROVE  OwnerIsAlone'
<1>1. th'[t] = v /\ \A u \in Threads \ {t} : th'[u] = th[u]
  BY ThreadStep
<1>2. ASSUME NEW u \in Threads, NEW x \in Threads, u # x, Owning(u)'
      PROVE  ~Owning(x)' /\ ~Sharing(x)'
  <2>1. CASE u = t
    <3>1. th'[x] = th[x]
      BY <1>1, <1>2, <2>1
    <3>2. Owning(t) \/ Free
      BY <1>1, <1>2, <2>1 DEF Owning, LockIsKept
    <3> QED BY <1>2, <2>1, <3>1, <3>2 DEF OwnerIsAlone, Owning, Sharing, Free, NobodyOwns, NobodyShares
  <2>2. CASE u # t
    <3>1. Owning(u)
      BY <1>1, <1>2, <2>2 DEF Owning
    <3>2. CASE x = t
      <4>1. ~Owning(t) /\ ~Sharing(t) /\ ~NobodyOwns /\ ~Free
        BY <2>2, <3>1 DEF OwnerIsAlone, NobodyOwns, Free
      <4> QED BY <1>1, <3>2, <4>1 DEF LockIsKept, Owning, Sharing
    <3>3. CASE x # t
      BY <1>1, <1>2, <3>1, <3>3 DEF OwnerIsAlone, Owning, Sharing
    <3> QED BY <3>2, <3>3
  <2> QED BY <2>1, <2>2
<1> QED BY <1>2 DEF OwnerIsAlone

LEMMA HoldStep ==
  ASSUME TableTypes, OneInserts, NEW t \in Threads, NEW v, Becomes(t, v), HoldsAlone(t, v)
  PROVE  OneInserts'
<1>1. th'[t] = v /\ \A u \in Threads \ {t} : th'[u] = th[u]
  BY ThreadStep
<1>2. ASSUME NEW u \in Threads, NEW x \in Threads, u # x
      PROVE  /\ Entering(th'[u]) => th'[x].held # th'[u].held
             /\ Adding(th'[u]) /\ Adding(th'[x]) => th'[x].held # th'[u].held
  <2>1. CASE u = t
    BY <1>1, <1>2, <2>1 DEF HoldsAlone
  <2>2. CASE x = t
    BY <1>1, <1>2, <2>2 DEF HoldsAlone
  <2>3. CASE u # t /\ x # t
    BY <1>1, <1>2, <2>3 DEF OneInserts
  <2> QED BY <2>1, <2>2, <2>3
<1> QED BY <1>2 DEF OneInserts, Entering, Adding

LEMMA StanceIsKept ==
  ASSUME NEW w, UNCHANGED <<buckets, nBuckets, grown>>
  PROVE  Stance(w)' <=> Stance(w)
  BY DEF Stance, Walking, Visiting, DueIsAhead, Linked, BucketOf, Bucket, Entering, Adding

LEMMA CountStays ==
  ASSUME TableTypes, CountIsRight, NEW t \in Threads, NEW v, Becomes(t, v),
         Adding(v) <=> Adding(th[t]), Linked' = Linked, nItems' = nItems
  PROVE  CountIsRight'
<1>1. th'[t] = v /\ \A u \in Threads \ {t} : th'[u] = th[u]
  BY ThreadStep
<1>2. {u \in Threads : th'[u].pc \in {"own", "count"}} = {u \in Threads : th[u].pc \in {"own", "count"}}
  BY <1>1 DEF Adding
<1> QED BY <1>2 DEF CountIsRight

LEMMA ReferencesStay ==
  ASSUME TableTypes, Referenced, NEW t \in Threads, NEW v, Becomes(t, v),
         v.held = th[t].held, v.pc = "own" <=> th[t].pc = "own",
         Linked' = Linked, refs' = refs
  PROVE  Referenced'
<1>1. th'[t] = v /\ \A u \in Threads \ {t} : th'[u] = th[u]
  BY ThreadStep
<1>2. ASSUME NEW r
      PROVE  Holders(r)' = Holders(r) /\ TableHas(r)' = TableHas(r)
  BY <1>1 DEF Holders, TableHas
<1> QED BY <1>2 DEF Referenced

\* A step that leaves the table alone and keeps to what it holds.
Quiet(t, v) ==
  /\ Becomes(t, v) /\ LockIsKept(t, v)
  /\ v.held = th[t].held /\ (Entering(v) => Entering(th[t]))
  /\ \A place \in {"own", "count", "grow"} : v.pc = place <=> th[t].pc = place

LEMMA QuietStep ==
  ASSUME TableInv, NEW t \in Threads, NEW v, Quiet(t, v), Stance(v),
         UNCHANGED <<buckets, sizes, nItems, refs>>
  PROVE  TableInv'
<1>1. /\ TableTypes /\ Becomes(t, v) /\ LockIsKept(t, v) /\ v.held = th[t].held
      /\ Entering(v) => Entering(th[t])
      /\ v.pc = "own" <=> th[t].pc = "own"
      /\ Adding(v) <=> Adding(th[t])
      /\ v.pc = "grow" <=> th[t].pc = "grow"
  BY DEF TableInv, Quiet, Adding
<1>2. th'[t] = v /\ \A u \in Threads \ {t} : th'[u] = th[u]
  BY <1>1, ThreadStep
<1>3. UNCHANGED <<buckets, nBuckets, grown>>
  BY DEF sizes
<1>4. Linked' = Linked /\ nNewBuckets' = nNewBuckets /\ Grows' = Grows
  BY <1>1, <1>2, <1>3 DEF Linked, nNewBuckets, Grows
<1>5. TableTypes'
  BY <1>1, <1>3, ThreadStep DEF TableTypes
<1>6. GrownIsOurs'
  BY <1>3, <1>4 DEF TableInv, GrownIsOurs
<1>7. ChainsAreOrdered'
  BY <1>3, <1>4 DEF TableInv, ChainsAreOrdered
<1>8. CountIsRight' /\ Referenced'
  BY <1>1, <1>4, CountStays, ReferencesStay DEF TableInv
<1>9. OwnerIsAlone'
  BY <1>1, LockStep DEF TableInv
<1>10. OneInserts'
  <2>1. HoldsAlone(t, v)
    BY <1>1 DEF HoldsAlone, TableInv, OneInserts
  <2> QED BY <1>1, <2>1, HoldStep DEF TableInv
<1>11. \A u \in Threads : Stance(th[u])'
  <2>1. ASSUME NEW u \in Threads
        PROVE  Stance(th'[u])
    BY <1>2 DEF TableInv
  <2>2. ASSUME NEW u \in Threads
        PROVE  Stance(th[u])'
    <3>1. PICK w : w = th'[u]
      OBVIOUS
    <3>2. Stance(w) /\ Stance(w)'
      BY <1>3, <2>1, <3>1, StanceIsKept
    <3> QED BY <3>1, <3>2
  <2> QED BY <2>2
<1> QED BY <1>5, <1>6, <1>7, <1>8, <1>9, <1>10, <1>11 DEF TableInv

-----------------------------------------------------------------------------
(* The steps that only read the table.                                     *)
LEMMA FindKeyStep ==
  ASSUME TableInv, NEW t \in Threads, NEW k \in Keys, FindKey(t, k)
  PROVE  TableInv'
<1>1. /\ th[t].pc = "idle" /\ th \in [Threads -> ThreadType] /\ Stance(th[t])
      /\ th[t] \in ThreadType
  BY DEF FindKey, TableInv, TableTypes
<1> DEFINE x == [Idle EXCEPT !.pc = "walk", !.op = "find", !.key = k]
<1>2. PICK v : v = x
  OBVIOUS
<1>3. /\ v \in ThreadType /\ v.pc = "walk" /\ v.op = "find" /\ v.key = k
      /\ v.prev = Nil /\ v.cur = Nil /\ v.held = Nil
  BY <1>2 DEF Idle, ThreadType, ThreadPlaces
<1>4. Becomes(t, v) /\ UNCHANGED <<buckets, sizes, nItems, refs>> /\ NobodyOwns
  BY <1>2, <1>3 DEF FindKey, Becomes
<1>5. th[t] = Idle /\ Idle.pc = "idle" /\ Idle.held = Nil
  BY <1>1 DEF Stance, Idle
<1>6. Quiet(t, v)
  BY <1>3, <1>4, <1>5 DEF Quiet, LockIsKept, Entering
<1>7. Walking(v)
  <2>1. \A i \in DOMAIN BucketOf(k) : BucketOf(k)[i] # Nil
    BY Buckets, NodesAreRecords, Hashes
  <2> QED BY <1>3, <2>1 DEF Walking, Stands, WalkedPast
<1>8. Stance(v)
  BY <1>3, <1>7 DEF Stance, Entering, Adding
<1> QED BY <1>4, <1>6, <1>8, QuietStep

LEMMA WalkStep ==
  ASSUME TableInv, NEW t \in Threads, FindNodeInternal(t)
  PROVE  TableInv'
<1> DEFINE w == th[t]
           node == After(BucketOf(w.key), w.prev)
           Hit == ~StopsAt(w.key, node) /\ KeyOf[node] = w.key
<1>1. w \in ThreadType /\ Stance(w) /\ w.pc = "walk" /\ th \in [Threads -> ThreadType]
  BY DEF FindNodeInternal, TableInv, TableTypes
<1>2. Walking(w) /\ w.op \in {"insert", "find"} /\ w.key \in Keys
  BY <1>1 DEF Stance, Walking
<1>3. Sharing(t) /\ NobodyOwns /\ Linked = Nodes(buckets)
  BY <1>1, SharedTable DEF Sharing
<1>4. /\ BucketOf(w.key) \in Seq(Records) /\ Distinct(BucketOf(w.key))
      /\ ToSet(BucketOf(w.key)) \subseteq Linked
      /\ Stands(w.prev, BucketOf(w.key)) /\ WalkedPast(BucketOf(w.key), w.prev, w.key)
  BY <1>2, <1>3, Buckets DEF Walking
<1>5. Stands(node, BucketOf(w.key))
  BY <1>4, Standing
<1>6. /\ node = Nil => StopsAt(w.key, node)
      /\ ~StopsAt(w.key, node) => node \in Linked /\ node \in Records /\ node # Nil
      /\ node \in Records \cup {Nil}
  BY <1>4, <1>5, NodesAreRecords DEF Stands, StopsAt
<1>7. PICK pc, prev, cur :
        /\ th' = [th EXCEPT ![t].pc = pc, ![t].prev = prev, ![t].cur = cur]
        /\ \/ /\ ~StopsAt(w.key, node) /\ ~Hit
              /\ pc = "walk" /\ prev = node /\ cur = Nil
           \/ Hit /\ w.op = "find" /\ pc = "take" /\ prev = Nil /\ cur = node
           \/ Hit /\ w.op = "insert" /\ pc = "leave" /\ prev = Nil /\ cur = node
           \/ StopsAt(w.key, node) /\ w.op = "find" /\ pc = "leave" /\ prev = Nil /\ cur = Nil
           \/ StopsAt(w.key, node) /\ w.op = "insert" /\ pc = "link" /\ prev = w.prev /\ cur = node
  BY DEF FindNodeInternal
<1>8. PICK v : v = [w EXCEPT !.pc = pc, !.prev = prev, !.cur = cur]
  OBVIOUS
<1>9. w.prev \in Records \cup {Nil} /\ w.held \in Records \cup {Nil}
  BY <1>1 DEF ThreadType
<1>10. pc \in ThreadPlaces /\ prev \in Records \cup {Nil} /\ cur \in Records \cup {Nil}
  BY <1>6, <1>7, <1>9 DEF ThreadPlaces
<1>11. /\ v \in ThreadType /\ th' = [th EXCEPT ![t] = v]
       /\ v.pc = pc /\ v.prev = prev /\ v.cur = cur
       /\ v.op = w.op /\ v.key = w.key /\ v.held = w.held
  BY <1>1, <1>7, <1>8, <1>10 DEF ThreadType
<1>12. Quiet(t, v)
  BY <1>1, <1>3, <1>7, <1>11 DEF Quiet, Becomes, LockIsKept, Entering
<1>13. /\ w.op = "insert" => w.held \in Records /\ KeyOf[w.held] = w.key /\ w.held \notin Linked
       /\ w.op = "find" => w.held = Nil
  BY <1>1 DEF Stance, Entering
<1>14. Stance(v)
  <2>1. CASE pc = "walk"
    <3>1. ~StopsAt(w.key, node) /\ KeyOf[node] # w.key /\ prev = node /\ cur = Nil
      BY <1>7, <2>1
    <3>2. WalkedPast(BucketOf(w.key), node, w.key)
      BY <1>2, <1>4, <1>6, <3>1, WalksOn
    <3>3. Walking(v)
      BY <1>2, <1>5, <1>11, <3>1, <3>2 DEF Walking
    <3> QED BY <1>2, <1>11, <1>13, <2>1, <3>1, <3>3 DEF Stance, Entering, Adding
  <2>2. CASE pc = "take"
    BY <1>6, <1>7, <1>11, <1>13, <2>2 DEF Stance, Entering, Adding
  <2>3. CASE pc = "leave"
    BY <1>2, <1>11, <1>13, <2>3 DEF Stance, Entering, Adding
  <2>4. CASE pc = "link"
    <3>1. StopsAt(w.key, node) /\ w.op = "insert" /\ prev = w.prev /\ cur = node
      BY <1>7, <2>4
    <3>2. Walking(v)
      BY <1>2, <1>11, <3>1 DEF Walking
    <3> QED BY <1>5, <1>11, <1>13, <2>4, <3>1, <3>2 DEF Stance, Entering, Adding
  <2> QED BY <1>7, <2>1, <2>2, <2>3, <2>4
<1>15. UNCHANGED <<buckets, sizes, nItems, refs>>
  BY DEF FindNodeInternal
<1> QED BY <1>12, <1>14, <1>15, QuietStep

LEMMA RetryStep ==
  ASSUME TableInv, NEW t \in Threads, Retry(t)
  PROVE  TableInv'
<1> DEFINE w == th[t]
<1>1. w \in ThreadType /\ Stance(w) /\ w.pc = "link" /\ th \in [Threads -> ThreadType]
  BY DEF Retry, TableInv, TableTypes
<1>2. PICK v : v = [w EXCEPT !.pc = "walk", !.prev = Nil, !.cur = Nil]
  OBVIOUS
<1>3. /\ v \in ThreadType /\ th' = [th EXCEPT ![t] = v]
      /\ v.pc = "walk" /\ v.prev = Nil /\ v.cur = Nil
      /\ v.op = w.op /\ v.key = w.key /\ v.held = w.held
  BY <1>1, <1>2 DEF Retry, ThreadType, ThreadPlaces
<1>4. Quiet(t, v)
  BY <1>1, <1>3 DEF Quiet, Becomes, LockIsKept, Sharing, Entering
<1>5. /\ w.op = "insert" /\ w.held \in Records /\ KeyOf[w.held] = w.key /\ w.held \notin Linked
      /\ w.key \in Keys
  BY <1>1 DEF Stance, Entering, Walking
<1>6. Walking(v)
  <2>1. \A i \in DOMAIN BucketOf(w.key) : BucketOf(w.key)[i] # Nil
    BY <1>5, Buckets, NodesAreRecords, Hashes
  <2> QED BY <1>3, <1>5, <2>1 DEF Walking, Stands, WalkedPast
<1>7. Stance(v)
  BY <1>3, <1>5, <1>6 DEF Stance, Entering, Adding
<1>8. UNCHANGED <<buckets, sizes, nItems, refs>>
  BY DEF Retry
<1> QED BY <1>4, <1>7, <1>8, QuietStep

\* Leave, CheckLoad and a rehash that is not needed or finds no memory.
LEMMA LeavingStep ==
  ASSUME TableInv, NEW t \in Threads, th[t].pc \in {"leave", "check", "rehash"},
         NEW place \in {"check", "rehash", "done"}, GoesTo(t, place),
         place = "done" \/ th[t].op # "apply",
         UNCHANGED <<buckets, sizes, nItems, refs>>
  PROVE  TableInv'
<1> DEFINE w == th[t]
<1>1. w \in ThreadType /\ Stance(w) /\ th \in [Threads -> ThreadType]
  BY DEF TableInv, TableTypes
<1>2. w.op = "apply" => w.pc = "leave" /\ w.due = {}
  BY <1>1 DEF Stance
<1>3. PICK v : v = [w EXCEPT !.pc = place]
  OBVIOUS
<1>4. /\ v \in ThreadType /\ th' = [th EXCEPT ![t] = v]
      /\ v.pc = place /\ v.op = w.op /\ v.key = w.key /\ v.held = w.held /\ v.due = w.due
  BY <1>1, <1>3 DEF GoesTo, ThreadType, ThreadPlaces
<1>5. Quiet(t, v)
  BY <1>1, <1>4 DEF Quiet, Becomes, LockIsKept, Sharing, Entering
<1>6. Stance(v)
  BY <1>1, <1>2, <1>4 DEF Stance, Entering, Adding
<1> QED BY <1>5, <1>6, QuietStep

LEMMA BucketIsSorted ==
  ASSUME TableInv, NEW b \in 0 .. nBuckets - 1
  PROVE  /\ buckets[b] \in Seq(Records) /\ Sorted(buckets[b]) /\ Distinct(buckets[b])
         /\ ToSet(buckets[b]) \subseteq Records /\ ToSet(buckets[b]) \subseteq Linked
         /\ \A r \in Nodes(buckets) : HashR(r) % nBuckets = b => r \in ToSet(buckets[b])
  BY InOrder, NodesAreRecords DEF TableInv, TableTypes

\* Apply and DeleteIf go to the first bucket or to the next one.
LEMMA BucketIsEntered ==
  ASSUME TableInv, NEW v, v.b \in 0 .. nBuckets - 1, v.cur = Nil, v.prev = Nil
  PROVE  Visiting(v) /\ \A S : Beyond(buckets[v.b], v.prev, S)
<1>1. \A i \in DOMAIN buckets[v.b] : buckets[v.b][i] # Nil
  BY BucketIsSorted, NodesAreRecords, Hashes
<1> QED BY <1>1 DEF Visiting, Stands, Beyond

\* Once the walk has come to the end of a bucket, none of its nodes is still due.
LEMMA BucketIsDone ==
  ASSUME TableInv, NEW w, Visiting(w), After(buckets[w.b], w.prev) = Nil, NEW S,
         Beyond(buckets[w.b], w.prev, S)
  PROVE  \A r \in S : r \notin ToSet(buckets[w.b])
<1> DEFINE s == buckets[w.b]
<1>1. /\ w.b \in 0 .. nBuckets - 1 /\ Stands(w.prev, s) /\ After(s, w.prev) = Nil
      /\ Beyond(s, w.prev, S)
  BY DEF Visiting
<1>2. s \in Seq(Records) /\ Distinct(s)
  BY <1>1, BucketIsSorted
<1> HIDE DEF s
<1>3. PICK m \in 0 .. Len(s) : /\ (m = 0 <=> w.prev = Nil) /\ (m > 0 => s[m] = w.prev)
                               /\ After(s, w.prev) # Nil <=> m < Len(s)
  BY <1>1, <1>2, Standing
<1>4. DOMAIN s = 1 .. Len(s) /\ Len(s) \in Nat
  BY <1>2, NodesAreRecords
<1>5. m = Len(s)
  <2>1. ~ (m < Len(s))
    BY <1>1, <1>3
  <2>2. m \in 0 .. Len(s) /\ Len(s) \in Nat
    BY <1>4
  <2> QED BY ONLY <2>1, <2>2
<1>6. \A i \in DOMAIN s : s[i] \notin S
  <2>1. ASSUME NEW i \in DOMAIN s
        PROVE  s[i] \notin S
    <3>1. m \in DOMAIN s /\ s[m] = w.prev /\ i <= m
      BY <1>3, <1>4, <1>5, <2>1
    <3> QED BY <1>1, <3>1 DEF Beyond
  <2> QED BY <2>1
<1> QED BY <1>6 DEF ToSet, s

LEMMA ApplyStep ==
  ASSUME TableInv, NEW t \in Threads, Apply(t)
  PROVE  TableInv'
<1>1. /\ th[t].pc = "idle" /\ th \in [Threads -> ThreadType] /\ Stance(th[t])
      /\ nBuckets \in Nat \ {0}
  BY DEF Apply, TableInv, TableTypes
<1>2. NobodyOwns /\ UNCHANGED <<buckets, sizes, nItems, refs>>
  BY DEF Apply
<1>3. Linked = Nodes(buckets) /\ Linked \subseteq Records
  BY <1>2, SharedTable, InOrder
<1> DEFINE x == [Idle EXCEPT !.pc = "apply", !.op = "apply", !.due = Linked]
<1>4. PICK v : v = x
  OBVIOUS
<1>5. /\ v.pc = "apply" /\ v.op = "apply" /\ v.key = Nil /\ v.b = 0
      /\ v.prev = Nil /\ v.cur = Nil /\ v.held = Nil /\ v.due = Linked
      /\ v = [pc |-> "apply", op |-> "apply", key |-> Nil, prev |-> Nil, cur |-> Nil,
              held |-> Nil, due |-> Linked, b |-> 0]
  BY <1>4 DEF Idle
<1>6. v \in ThreadType
  BY <1>3, <1>5 DEF ThreadType, ThreadPlaces
<1>7. Becomes(t, v)
  BY <1>4, <1>6 DEF Apply, Becomes
<1>8. th[t] = Idle /\ Idle.pc = "idle" /\ Idle.held = Nil
  BY <1>1 DEF Stance, Idle
<1>9. Quiet(t, v)
  BY <1>2, <1>5, <1>7, <1>8 DEF Quiet, LockIsKept, Entering
<1>10. v.b \in 0 .. nBuckets - 1
  BY <1>1, <1>5
<1>11. Visiting(v) /\ Beyond(buckets[v.b], v.prev, v.due)
  BY <1>5, <1>10, BucketIsEntered
<1>12. DueIsAhead(v)
  <2>1. \A r \in Records : HashR(r) % nBuckets >= 0
    BY <1>1, Hashes, HashPlaces
  <2> QED BY <1>3, <1>5, <1>11, <2>1 DEF DueIsAhead
<1>13. Stance(v)
  BY <1>5, <1>11, <1>12 DEF Stance, Entering, Adding
<1> QED BY <1>2, <1>9, <1>13, QuietStep

LEMMA ApplyNextStep ==
  ASSUME TableInv, NEW t \in Threads, ApplyNext(t)
  PROVE  TableInv'
<1> DEFINE w == th[t]
           s == buckets[w.b]
<1>1. /\ w \in ThreadType /\ Stance(w) /\ w.pc = "apply" /\ th \in [Threads -> ThreadType]
      /\ nBuckets \in Nat \ {0} /\ UNCHANGED <<buckets, sizes, nItems, refs>>
  BY DEF ApplyNext, TableInv, TableTypes
<1>2. w.op = "apply" /\ Visiting(w) /\ DueIsAhead(w)
  BY <1>1 DEF Stance
<1>3. /\ w.b \in 0 .. nBuckets - 1 /\ w.cur = Nil /\ Stands(w.prev, s)
      /\ Beyond(s, w.prev, w.due) /\ w.due \subseteq Nodes(buckets)
      /\ \A r \in w.due : HashR(r) % nBuckets >= w.b
      /\ s \in Seq(Records) /\ Distinct(s) /\ ToSet(s) \subseteq Records
  BY <1>2, BucketIsSorted DEF Visiting, DueIsAhead
<1>4. Sharing(t) /\ w.due \subseteq Records
  BY <1>1 DEF Sharing, ThreadType
<1>5. CASE NodeAt(t) # Nil /\ th' = [th EXCEPT ![t].prev = NodeAt(t), ![t].due = @ \ {NodeAt(t)}]
  <2>1. PICK n : n = After(s, w.prev)
    OBVIOUS
  <2>2. PICK m \in 0 .. Len(s) :
             /\ (m = 0 <=> w.prev = Nil) /\ (m > 0 => s[m] = w.prev)
             /\ n = s[m + 1] /\ m < Len(s) /\ Stands(n, s) /\ n # Nil
    BY <1>3, <1>5, <2>1, Standing DEF NodeAt
  <2>3. n \in Records /\ NodeAt(t) = n
    BY <1>3, <2>1, <2>2 DEF Stands, NodeAt
  <2>4. PICK v : v = [w EXCEPT !.prev = n, !.due = w.due \ {n}]
    OBVIOUS
  <2>5. /\ v \in ThreadType /\ v.pc = "apply" /\ v.op = "apply" /\ v.b = w.b /\ v.cur = Nil
        /\ v.prev = n /\ v.held = w.held /\ v.due = w.due \ {n}
    BY <1>1, <1>2, <1>3, <2>3, <2>4 DEF ThreadType
  <2>6. th' = [th EXCEPT ![t] = v]
    BY <1>1, <1>5, <2>3, <2>4 DEF ThreadType
  <2>7. Quiet(t, v)
    BY <1>1, <1>4, <2>5, <2>6 DEF Quiet, Becomes, LockIsKept, Entering
  <2>8. Visiting(v)
    BY <1>3, <2>2, <2>5 DEF Visiting
  <2>9. Beyond(s, n, v.due)
    <3> HIDE DEF s
    <3>1. DOMAIN s = 1 .. Len(s) /\ Len(s) \in Nat
      BY <1>3, NodesAreRecords
    <3>2. ASSUME NEW i \in DOMAIN s, NEW j \in DOMAIN s, s[j] = n, i <= j
          PROVE  s[i] \notin w.due \ {n}
      <4>1. j = m + 1
        BY <1>3, <2>2, <3>1, <3>2 DEF Distinct
      <4>2. CASE i = m + 1
        BY <2>2, <4>2
      <4>3. CASE i # m + 1
        <5>1. m \in DOMAIN s /\ s[m] = w.prev /\ i <= m
          BY <2>2, <3>1, <3>2, <4>1, <4>3
        <5> QED BY <1>3, <5>1 DEF Beyond
      <4> QED BY <4>2, <4>3
    <3> QED BY <2>5, <3>2 DEF Beyond
  <2>10. DueIsAhead(v)
    BY <1>3, <2>5, <2>9 DEF DueIsAhead
  <2>11. Stance(v)
    BY <2>5, <2>8, <2>10 DEF Stance, Entering, Adding
  <2> QED BY <1>1, <2>7, <2>11, QuietStep
<1>6. CASE NodeAt(t) = Nil /\ ~LastBucket(t) /\ NextBucket(t)
  <2>1. PICK v : v = [w EXCEPT !.prev = Nil, !.b = w.b + 1]
    OBVIOUS
  <2>2. w.b + 1 \in 0 .. nBuckets - 1 /\ w.b + 1 \in Nat
    BY <1>1, <1>3, <1>6 DEF LastBucket
  <2>3. /\ v \in ThreadType /\ v.pc = "apply" /\ v.op = "apply" /\ v.b = w.b + 1 /\ v.cur = Nil
        /\ v.prev = Nil /\ v.held = w.held /\ v.due = w.due
    BY <1>1, <1>2, <1>3, <2>1, <2>2 DEF ThreadType
  <2>4. th' = [th EXCEPT ![t] = v]
    BY <1>1, <1>6, <2>1 DEF ThreadType, NextBucket
  <2>5. Quiet(t, v)
    BY <1>1, <1>4, <2>3, <2>4 DEF Quiet, Becomes, LockIsKept, Entering
  <2>6. Visiting(v) /\ Beyond(buckets[v.b], v.prev, v.due)
    BY <2>2, <2>3, BucketIsEntered
  <2>7. ASSUME NEW r \in w.due
        PROVE  HashR(r) % nBuckets >= w.b + 1
    <3>1. r \notin ToSet(s)
      BY <1>2, <1>3, <1>6, BucketIsDone DEF NodeAt
    <3>2. HashR(r) % nBuckets # w.b /\ HashR(r) % nBuckets >= w.b
      BY <1>3, <3>1, BucketIsSorted
    <3>3. HashR(r) % nBuckets \in 0 .. nBuckets - 1
      BY <1>1, <1>4, Hashes, HashPlaces
    <3> QED BY <1>3, <3>2, <3>3
  <2>8. DueIsAhead(v)
    BY <1>3, <2>3, <2>6, <2>7 DEF DueIsAhead
  <2>9. Stance(v)
    BY <2>3, <2>6, <2>8 DEF Stance, Entering, Adding
  <2> QED BY <1>1, <2>5, <2>9, QuietStep
<1>7. CASE /\ NodeAt(t) = Nil /\ LastBucket(t)
           /\ th' = [th EXCEPT ![t].pc = "leave", ![t].prev = Nil, ![t].b = 0]
  <2>1. PICK v : v = [w EXCEPT !.pc = "leave", !.prev = Nil, !.b = 0]
    OBVIOUS
  <2>2. /\ v \in ThreadType /\ v.pc = "leave" /\ v.op = "apply" /\ v.b = 0
        /\ v.prev = Nil /\ v.held = w.held /\ v.due = w.due
    <3>1. w \in ThreadType /\ w.op = "apply"
      BY <1>1, <1>2, <1>3
    <3>2. "leave" \in ThreadPlaces
      BY DEF ThreadPlaces
    <3> HIDE DEF w
    <3> QED BY <2>1, <3>1, <3>2 DEF ThreadType
  <2>3. th' = [th EXCEPT ![t] = v]
    BY <1>1, <1>7, <2>1 DEF ThreadType
  <2>4. Quiet(t, v)
    BY <1>1, <1>4, <2>2, <2>3 DEF Quiet, Becomes, LockIsKept, Entering
  <2>5. ASSUME NEW r \in w.due
        PROVE  FALSE
    <3>1. r \notin ToSet(s)
      BY <1>2, <1>3, <1>7, BucketIsDone DEF NodeAt
    <3>2. HashR(r) % nBuckets # w.b /\ HashR(r) % nBuckets >= w.b
      BY <1>3, <3>1, BucketIsSorted
    <3>3. HashR(r) % nBuckets \in 0 .. nBuckets - 1
      BY <1>1, <1>4, Hashes, HashPlaces
    <3> QED BY <1>1, <1>3, <1>7, <3>2, <3>3 DEF LastBucket
  <2>6. Stance(v)
    BY <2>2, <2>5 DEF Stance, Entering, Adding
  <2> QED BY <1>1, <2>4, <2>6, QuietStep
<1> QED BY <1>5, <1>6, <1>7 DEF ApplyNext

LEMMA DeleteIfBegins ==
  ASSUME TableInv, NEW t \in Threads, DeleteIf(t)
  PROVE  TableInv'
<1>1. /\ th[t] \in ThreadType /\ th[t].pc = "idle" /\ th \in [Threads -> ThreadType]
      /\ Stance(th[t]) /\ nBuckets \in Nat \ {0}
      /\ Free /\ UNCHANGED <<buckets, sizes, nItems, refs>>
  BY DEF DeleteIf, TableInv, TableTypes
<1>2. /\ th[t].held = Nil /\ th[t].prev = Nil /\ th[t].cur = Nil /\ th[t].b = 0
      /\ th[t].op = "none"
  BY <1>1 DEF Stance, Idle
<1>3. PICK v : v = [th[t] EXCEPT !.pc = "deleteIf"]
  OBVIOUS
<1>4. /\ v \in ThreadType /\ v.pc = "deleteIf" /\ v.held = Nil /\ v.prev = Nil
      /\ v.cur = Nil /\ v.b = 0 /\ v.op = "none" /\ th' = [th EXCEPT ![t] = v]
  BY <1>1, <1>2, <1>3 DEF DeleteIf, ThreadType, ThreadPlaces
<1>5. Quiet(t, v)
  BY <1>1, <1>2, <1>4 DEF Quiet, Becomes, LockIsKept, Entering
<1>6. v.b \in 0 .. nBuckets - 1
  BY <1>1, <1>4
<1>7. Visiting(v)
  BY <1>4, <1>6, BucketIsEntered
<1>8. Stance(v)
  BY <1>4, <1>7 DEF Stance, Entering, Adding
<1> QED BY <1>1, <1>5, <1>8, QuietStep

\* DeleteIf keeps the node, or goes to the next bucket, or ends.
LEMMA DeleteIfKeeps ==
  ASSUME TableInv, NEW t \in Threads, th[t].pc = "deleteIf",
         UNCHANGED <<buckets, sizes, nItems, refs>>,
         \/ NodeAt(t) # Nil /\ th' = [th EXCEPT ![t].prev = NodeAt(t)]
         \/ ~LastBucket(t) /\ NextBucket(t)
         \/ th' = [th EXCEPT ![t] = Idle]
  PROVE  TableInv'
<1> DEFINE w == th[t]
           s == buckets[w.b]
<1>1. /\ w \in ThreadType /\ Stance(w) /\ th \in [Threads -> ThreadType] /\ nBuckets \in Nat \ {0}
      /\ UNCHANGED <<buckets, sizes, nItems, refs>>
  BY DEF TableInv, TableTypes
<1>2. w.op = "none" /\ w.held = Nil /\ Visiting(w) /\ Owning(t)
  BY <1>1 DEF Stance, Owning
<1>3. /\ w.b \in 0 .. nBuckets - 1 /\ w.cur = Nil /\ Stands(w.prev, s)
      /\ s \in Seq(Records) /\ Distinct(s) /\ ToSet(s) \subseteq Records
  BY <1>2, BucketIsSorted DEF Visiting
<1>4. CASE NodeAt(t) # Nil /\ th' = [th EXCEPT ![t].prev = NodeAt(t)]
  <2>1. PICK n : n = After(s, w.prev)
    OBVIOUS
  <2>2. Stands(n, s) /\ n \in Records /\ NodeAt(t) = n
    BY <1>3, <1>4, <2>1, Standing DEF NodeAt, Stands
  <2>3. PICK v : v = [w EXCEPT !.prev = n]
    OBVIOUS
  <2>4. /\ v \in ThreadType /\ v.pc = "deleteIf" /\ v.op = "none" /\ v.b = w.b /\ v.cur = Nil
        /\ v.prev = n /\ v.held = Nil /\ th' = [th EXCEPT ![t] = v]
    BY <1>1, <1>2, <1>3, <1>4, <2>2, <2>3 DEF ThreadType
  <2>5. Quiet(t, v)
    BY <1>2, <2>4 DEF Quiet, Becomes, LockIsKept, Entering
  <2>6. Visiting(v)
    BY <1>3, <2>2, <2>4 DEF Visiting
  <2>7. Stance(v)
    BY <2>4, <2>6 DEF Stance, Entering, Adding
  <2> QED BY <1>1, <2>5, <2>7, QuietStep
<1>5. CASE ~LastBucket(t) /\ NextBucket(t)
  <2>1. PICK v : v = [w EXCEPT !.prev = Nil, !.b = w.b + 1]
    OBVIOUS
  <2>2. w.b + 1 \in 0 .. nBuckets - 1 /\ w.b + 1 \in Nat
    BY <1>1, <1>3, <1>5 DEF LastBucket
  <2>3. /\ v \in ThreadType /\ v.pc = "deleteIf" /\ v.op = "none" /\ v.b = w.b + 1 /\ v.cur = Nil
        /\ v.prev = Nil /\ v.held = Nil
    BY <1>1, <1>2, <1>3, <2>1, <2>2 DEF ThreadType
  <2>4. th' = [th EXCEPT ![t] = v]
    BY <1>1, <1>5, <2>1 DEF ThreadType, NextBucket
  <2>5. Quiet(t, v)
    BY <1>2, <2>3, <2>4 DEF Quiet, Becomes, LockIsKept, Entering
  <2>6. Visiting(v)
    BY <2>2, <2>3, BucketIsEntered
  <2>7. Stance(v)
    BY <2>3, <2>6 DEF Stance, Entering, Adding
  <2> QED BY <1>1, <2>5, <2>7, QuietStep
<1>6. CASE th' = [th EXCEPT ![t] = Idle]
  <2>1. PICK v : v = Idle
    OBVIOUS
  <2>2. v \in ThreadType /\ v.pc = "idle" /\ v.held = Nil /\ v.op = "none"
    BY <2>1 DEF Idle, ThreadType, ThreadPlaces
  <2>3. th' = [th EXCEPT ![t] = v]
    BY <1>6, <2>1
  <2>4. Quiet(t, v)
    BY <1>2, <2>2, <2>3 DEF Quiet, Becomes, LockIsKept, Entering
  <2>5. Stance(v)
    BY <2>1, <2>2 DEF Stance, Entering, Adding
  <2> QED BY <1>1, <2>4, <2>5, QuietStep
<1> QED BY <1>4, <1>5, <1>6

-----------------------------------------------------------------------------
(* The steps of whoever has the lock to itself.                            *)
Outside(w) == w.pc \in {"idle", "check", "rehash", "done"}

LEMMA OthersAreOutside ==
  ASSUME TableInv, NEW t \in Threads, Free \/ Owning(t)
  PROVE  \A u \in Threads : u # t \/ Free => Outside(th[u])
<1>1. ASSUME NEW u \in Threads, u # t \/ Free
      PROVE  ~Owning(u) /\ ~Sharing(u)
  BY <1>1 DEF TableInv, OwnerIsAlone, Free, NobodyOwns, NobodyShares
<1>2. \A u \in Threads : th[u].pc \in ThreadPlaces
  BY DEF TableInv, TableTypes, ThreadType
<1> QED BY <1>1, <1>2 DEF ThreadPlaces, Owning, Sharing, Outside

LEMMA StanceOutside ==
  ASSUME NEW w, Outside(w), Stance(w)
  PROVE  Stance(w)'
  BY DEF Outside, Stance, Entering, Adding

\* Nobody is between its exchange and its increment.
LEMMA NobodyAdds ==
  ASSUME TableInv, NEW t \in Threads, Free \/ Owning(t)
  PROVE  /\ \A u \in Threads : ~Adding(th[u])
         /\ nItems = Cardinality(Linked)
         /\ \A r : TableHas(r) <=> r \in Linked
<1>1. \A u \in Threads : ~Adding(th[u])
  BY OthersAreOutside DEF Outside, Owning, Adding
<1>2. {u \in Threads : th[u].pc \in {"own", "count"}} = {}
  BY <1>1 DEF Adding
<1>3. Cardinality(Linked) \in Nat
  BY InOrder, FS_CardinalityType
<1>4. nItems = Cardinality(Linked)
  <2>1. nItems = Cardinality(Linked) - Cardinality({u \in Threads : th[u].pc \in {"own", "count"}})
    BY DEF TableInv, CountIsRight
  <2>2. Cardinality({u \in Threads : th[u].pc \in {"own", "count"}}) = 0
    BY <1>2, FS_EmptySet
  <2> QED BY <1>3, <2>1, <2>2
<1> QED BY <1>1, <1>4 DEF TableHas, Adding

\* One chain gets or loses a node.
Changed(new, chains, b, s) == new = [chains EXCEPT ![b] = s]
Gets(chain, x, s) == ToSet(s) = ToSet(chain) \cup {x}
Loses(chain, x, s) == x \in ToSet(chain) /\ ToSet(s) = ToSet(chain) \ {x}

LEMMA NodesWith ==
  ASSUME NEW n \in Nat \ {0}, NEW chains \in [0 .. n - 1 -> Seq(Records)], NEW b \in 0 .. n - 1,
         NEW s \in Seq(Records), NEW x, Gets(chains[b], x, s),
         NEW new, Changed(new, chains, b, s)
  PROVE  /\ new \in [0 .. n - 1 -> Seq(Records)]
         /\ \A y : y \in Nodes(new) <=> y \in Nodes(chains) \cup {x}
<1>1. /\ new \in [0 .. n - 1 -> Seq(Records)]
      /\ DOMAIN new = 0 .. n - 1 /\ DOMAIN chains = 0 .. n - 1
      /\ new[b] = s /\ \A c \in 0 .. n - 1 : c # b => new[c] = chains[c]
  BY DEF Changed
<1>2. Nodes(new) = Nodes(chains) \cup {x}
  <2>1. \A y : y \in Nodes(new) <=> \E c \in 0 .. n - 1 : y \in ToSet(new[c])
    BY <1>1 DEF Nodes
  <2>2. \A y : y \in Nodes(chains) <=> \E c \in 0 .. n - 1 : y \in ToSet(chains[c])
    BY <1>1 DEF Nodes
  <2>3. ASSUME NEW y
        PROVE  y \in Nodes(new) <=> y \in Nodes(chains) \cup {x}
    <3>1. CASE y \in ToSet(s)
      BY <1>1, <2>1, <2>2, <3>1 DEF Gets
    <3>2. CASE y \notin ToSet(s)
      BY <1>1, <2>1, <2>2, <3>2 DEF Gets
    <3> QED BY <3>1, <3>2
  <2> QED BY <2>3
<1> QED BY <1>1, <1>2

LEMMA NodesWithout ==
  ASSUME NEW n \in Nat \ {0}, NEW chains \in [0 .. n - 1 -> Seq(Records)], NEW b \in 0 .. n - 1,
         NEW s \in Seq(Records), NEW x,
         Loses(chains[b], x, s), Ordered(chains, n),
         NEW new, Changed(new, chains, b, s)
  PROVE  /\ new \in [0 .. n - 1 -> Seq(Records)]
         /\ \A y : y \in Nodes(new) <=> y \in Nodes(chains) /\ y # x
<1>1. /\ new \in [0 .. n - 1 -> Seq(Records)]
      /\ DOMAIN new = 0 .. n - 1 /\ DOMAIN chains = 0 .. n - 1
      /\ new[b] = s /\ \A c \in 0 .. n - 1 : c # b => new[c] = chains[c]
  BY DEF Changed
<1>2. \A c \in 0 .. n - 1 : c # b => x \notin ToSet(chains[c])
  <2>1. \A c \in 0 .. n - 1 : Bucketed(chains[c], n, c)
    BY OrderedChains
  <2> QED BY <2>1 DEF Bucketed, Loses
<1>3. Nodes(new) = Nodes(chains) \ {x}
  BY <1>1, <1>2 DEF Nodes, Loses
<1> QED BY <1>1, <1>3

LEMMA OrderedWith ==
  ASSUME NEW n \in Nat \ {0}, NEW chains \in [0 .. n - 1 -> Seq(Records)], NEW b \in 0 .. n - 1,
         NEW s \in Seq(Records), Ordered(chains, n), Sorted(s), Bucketed(s, n, b),
         NEW new, Changed(new, chains, b, s)
  PROVE  Ordered(new, n)
<1>1. /\ new \in [0 .. n - 1 -> Seq(Records)] /\ new[b] = s
      /\ \A c \in 0 .. n - 1 : c # b => new[c] = chains[c]
  BY DEF Changed
<1>2. \A c \in 0 .. n - 1 : Sorted(chains[c]) /\ Bucketed(chains[c], n, c)
  BY OrderedChains
<1>3. \A c \in 0 .. n - 1 : Sorted(new[c]) /\ Bucketed(new[c], n, c)
  BY <1>1, <1>2
<1> QED BY <1>1, <1>3, OrderedChains

\* A node leaves a table that the deleting thread has to itself.
LEMMA UnlinkStep ==
  ASSUME TableInv, NEW t \in Threads, NEW b \in 0 .. nBuckets - 1, NEW i \in DOMAIN buckets[b],
         \/ Free
         \/ th[t].pc = "deleteIf" /\ (th[t].b = b => th[t].prev # buckets[b][i]),
         Unlink(b, i), UNCHANGED <<sizes, th>>
  PROVE  TableInv' /\ Linked' = Linked \ {buckets[b][i]}
<1> DEFINE s == buckets[b]
           r == s[i]
           new == RemoveAt(s, i)
<1>1. /\ nBuckets \in Nat \ {0} /\ buckets \in [0 .. nBuckets - 1 -> Seq(Records)]
      /\ Ordered(buckets, nBuckets) /\ th' = th /\ nBuckets' = nBuckets /\ grown' = grown
      /\ buckets' = [buckets EXCEPT ![b] = RemoveAt(@, i)]
      /\ nItems' = nItems - 1 /\ DeleteNodes({r}) /\ TableInv
  BY DEF TableInv, TableTypes, ChainsAreOrdered, sizes, Unlink
<1>2. Free \/ Owning(t)
  BY DEF Owning
<1>3. ~Grows /\ Linked = Nodes(buckets) /\ Nodes(grown) = {}
  <2>1. ~Grows
    BY <1>2, OthersAreOutside DEF Grows, Outside
  <2> QED BY <1>1, <2>1, InOrder
<1>4. /\ s \in Seq(Records) /\ Sorted(s) /\ Distinct(s) /\ Bucketed(s, nBuckets, b)
      /\ i \in 1 .. Len(s) /\ r \in ToSet(s) /\ r \in Records /\ r \in Linked
  BY <1>1, <1>3, InOrder, NodesAreRecords
<1>5. new \in Seq(Records) /\ Sorted(new) /\ ToSet(new) = ToSet(s) \ {r}
  BY <1>4, Removed, RemoveSorted, RemovedNodes
<1>6. Changed(buckets', buckets, b, new)
  BY <1>1 DEF Changed
<1> HIDE DEF new
<1>7. /\ buckets' \in [0 .. nBuckets - 1 -> Seq(Records)] /\ Nodes(buckets') = Nodes(buckets) \ {r}
      /\ Ordered(buckets', nBuckets)
  <2>1. Bucketed(new, nBuckets, b)
    BY <1>4, <1>5 DEF Bucketed
  <2>2. /\ nBuckets \in Nat \ {0} /\ buckets \in [0 .. nBuckets - 1 -> Seq(Records)]
        /\ b \in 0 .. nBuckets - 1 /\ new \in Seq(Records) 
        /\ Loses(buckets[b], r, new) /\ Ordered(buckets, nBuckets)
        /\ Sorted(new) /\ Bucketed(new, nBuckets, b)
    BY <1>1, <1>4, <1>5, <2>1 DEF Loses
  <2> HIDE DEF r, s
  <2>3. Ordered(buckets', nBuckets)
    BY ONLY <1>6, <2>2, OrderedWith
  <2>4. buckets' \in [0 .. nBuckets - 1 -> Seq(Records)] /\ Nodes(buckets') = Nodes(buckets) \ {r}
    <3>1. /\ buckets' \in [0 .. nBuckets - 1 -> Seq(Records)]
          /\ \A y : y \in Nodes(buckets') <=> y \in Nodes(buckets) /\ y # r
      BY ONLY <1>6, <2>2, NodesWithout
    <3> QED BY <3>1
  <2> QED BY <2>3, <2>4
<1>8. Linked' = Linked \ {r} /\ nNewBuckets' = nNewBuckets /\ Grows' = Grows
  BY <1>1, <1>3, <1>7 DEF Linked, nNewBuckets, Grows
<1>9. \A x \in Records : refs'[x] = IF x = r THEN refs[x] - 1 ELSE refs[x]
  BY <1>1 DEF DeleteNodes
<1>10. TableTypes'
  <2>1. refs' \in [Records -> Int]
    BY <1>1 DEF DeleteNodes, TableInv, TableTypes
  <2> QED BY <1>1, <1>7, <2>1 DEF TableInv, TableTypes
<1>11. GrownIsOurs'
  BY <1>1, <1>8 DEF TableInv, GrownIsOurs
<1>12. ChainsAreOrdered'
  BY <1>1, <1>3, <1>7, <1>8 DEF TableInv, ChainsAreOrdered
<1>13. /\ \A u \in Threads : ~Adding(th[u])
       /\ nItems = Cardinality(Linked)
       /\ \A x : TableHas(x) <=> x \in Linked
  BY <1>1, <1>2, NobodyAdds
<1>14. CountIsRight'
  <2>1. {u \in Threads : th'[u].pc \in {"own", "count"}} = {}
    BY <1>1, <1>13 DEF Adding
  <2>2. Cardinality({u \in Threads : th'[u].pc \in {"own", "count"}}) = 0
    BY <2>1, FS_EmptySet
  <2>3. Cardinality(Linked') = Cardinality(Linked) - 1 /\ Cardinality(Linked) \in Nat
    BY <1>1, <1>4, <1>8, InOrder, FS_RemoveElement, FS_CardinalityType
  <2> QED BY <1>1, <1>13, <2>2, <2>3 DEF CountIsRight
<1>15. Referenced'
  <2>1. ASSUME NEW x \in Records
        PROVE  refs'[x] = Cardinality(Holders(x)') + (IF TableHas(x)' THEN 1 ELSE 0)
    <3>1. Holders(x)' = Holders(x)
      BY <1>1 DEF Holders
    <3>2. TableHas(x)' <=> x \in Linked'
      BY <1>1, <1>13 DEF TableHas, Adding
    <3>3. refs[x] = Cardinality(Holders(x)) + (IF x \in Linked THEN 1 ELSE 0)
      BY <1>13 DEF TableInv, Referenced
    <3>4. Cardinality(Holders(x)) \in Nat
      BY FS_Subset, FS_CardinalityType, TableAssumption DEF Holders
    <3> QED BY <1>4, <1>8, <1>9, <3>1, <3>2, <3>3, <3>4
  <2> QED BY <2>1 DEF Referenced
<1>16. OwnerIsAlone' /\ OneInserts'
  BY <1>1 DEF TableInv, OwnerIsAlone, OneInserts, Owning, Sharing, Entering, Adding
<1>17. ASSUME NEW u \in Threads
       PROVE  Stance(th[u])'
  <2>1. PICK w : w = th[u] /\ w = th'[u]
    BY <1>1
  <2>2. Stance(w)
    BY <2>1 DEF TableInv
  <2>3. Stance(w)'
    <3>1. CASE Outside(w)
      BY <2>2, <3>1, StanceOutside
    <3>2. CASE ~Outside(w)
      <4>1. u = t /\ ~Free /\ w.pc = "deleteIf" /\ (w.b = b => w.prev # r)
        BY <1>2, <2>1, <3>2, OthersAreOutside
      <4>2. w.op = "none" /\ w.held = Nil /\ Visiting(w)
        BY <2>2, <4>1 DEF Stance
      <4>3. Visiting(w)'
        <5>1. w.b \in 0 .. nBuckets - 1 /\ w.cur = Nil /\ Stands(w.prev, buckets[w.b])
          BY <4>2 DEF Visiting
        <5>2. CASE w.b = b
          <6>1. buckets'[w.b] = new
            BY <1>1, <1>6, <5>2 DEF Changed
          <6>2. Stands(w.prev, new)
            BY <1>5, <4>1, <5>1, <5>2 DEF Stands
          <6> QED BY <1>1, <5>1, <6>1, <6>2 DEF Visiting
        <5>3. CASE w.b # b
          <6>1. buckets'[w.b] = buckets[w.b]
            BY <1>1, <5>1, <5>3
          <6> QED BY <1>1, <5>1, <6>1 DEF Visiting
        <5> QED BY <5>2, <5>3
      <4> QED BY <4>1, <4>2, <4>3 DEF Stance, Entering, Adding
    <3> QED BY <3>1, <3>2
  <2> QED BY <2>1, <2>3
<1> QED BY <1>8, <1>10, <1>11, <1>12, <1>14, <1>15, <1>16, <1>17 DEF TableInv

LEMMA DeleteKeyStep ==
  ASSUME TableInv, NEW t \in Threads, NEW k \in Keys, DeleteKey(t, k)
  PROVE  TableInv' /\ UNCHANGED th /\ \E S : Linked' = Linked \ S
<1>1. PICK i \in DOMAIN BucketOf(k) : Unlink(Bucket(k), i)
  BY DEF DeleteKey
<1>2. Bucket(k) \in 0 .. nBuckets - 1 /\ i \in DOMAIN buckets[Bucket(k)]
  BY <1>1, Buckets DEF BucketOf
<1>3. Free /\ UNCHANGED <<sizes, th>>
  BY DEF DeleteKey
<1> QED BY <1>1, <1>2, <1>3, UnlinkStep

LEMMA DeleteIfNextStep ==
  ASSUME TableInv, NEW t \in Threads, DeleteIfNext(t)
  PROVE  /\ TableInv'
         /\ \/ UNCHANGED th /\ \E S : Linked' = Linked \ S
            \/ /\ UNCHANGED <<buckets, sizes>>
               /\ \/ th' = [th EXCEPT ![t].prev = NodeAt(t)]
                  \/ NextBucket(t)
                  \/ th' = [th EXCEPT ![t] = Idle]
<1> DEFINE w == th[t]
           s == buckets[w.b]
<1>1. /\ w.pc = "deleteIf" /\ Stance(w) /\ UNCHANGED sizes
  BY DEF DeleteIfNext, TableInv
<1>2. CASE /\ NodeAt(t) # Nil /\ Unlink(w.b, Place(s, w.prev) + 1) /\ UNCHANGED th
  <2>1. /\ w.b \in 0 .. nBuckets - 1 /\ Stands(w.prev, s) /\ s \in Seq(Records) /\ Distinct(s)
    BY <1>1, BucketIsSorted DEF Stance, Visiting
  <2>2. PICK m \in 0 .. Len(s) :
             /\ Place(s, w.prev) = m /\ (m = 0 <=> w.prev = Nil) /\ (m > 0 => s[m] = w.prev)
             /\ After(s, w.prev) = s[m + 1] /\ m < Len(s)
    BY <1>2, <2>1, Standing DEF NodeAt
  <2>3. DOMAIN s = 1 .. Len(s) /\ Len(s) \in Nat /\ \A i \in 1 .. Len(s) : s[i] # Nil
    BY <2>1, NodesAreRecords, Hashes
  <2>4. m + 1 \in DOMAIN s
    BY <2>2, <2>3
  <2>5. w.prev # s[m + 1]
    <3>1. CASE m = 0
      BY <2>2, <2>3, <2>4, <3>1
    <3>2. CASE m > 0
      <4>1. m \in DOMAIN s /\ m # m + 1 /\ s[m] = w.prev
        BY <2>2, <2>3, <3>2
      <4> QED BY <2>1, <2>4, <4>1 DEF Distinct
    <3> QED BY <2>2, <3>1, <3>2
  <2>6. Unlink(w.b, m + 1)
    BY <1>2, <2>2
  <2>7. TableInv' /\ Linked' = Linked \ {s[m + 1]}
    BY <1>1, <1>2, <2>1, <2>4, <2>5, <2>6, UnlinkStep
  <2> QED BY <1>2, <2>7
<1>3. CASE /\ UNCHANGED <<buckets, nItems, refs>>
           /\ \/ NodeAt(t) # Nil /\ th' = [th EXCEPT ![t].prev = NodeAt(t)]
              \/ ~LastBucket(t) /\ NextBucket(t)
              \/ th' = [th EXCEPT ![t] = Idle]
  BY <1>1, <1>3, DeleteIfKeeps
<1> QED BY <1>2, <1>3 DEF DeleteIfNext

LEMMA ClearStep ==
  ASSUME TableInv, NEW t \in Threads, Clear(t)
  PROVE  TableInv' /\ Linked' = {}
<1>1. /\ nBuckets \in Nat \ {0} /\ th' = th /\ nBuckets' = nBuckets /\ grown' = grown
      /\ buckets' = [b \in 0 .. nBuckets - 1 |-> <<>>]
      /\ nItems' = 0 /\ DeleteNodes(Linked) /\ TableInv /\ Free
  BY DEF Clear, TableInv, TableTypes, sizes
<1>2. ~Grows /\ grown = <<>>
  BY <1>1, SharedTable DEF Free
<1>3. buckets' \in [0 .. nBuckets - 1 -> Seq(Records)]
  BY <1>1, EmptySeq
<1>4. Nodes(buckets') = {} /\ Nodes(grown') = {}
  BY <1>1, <1>2, NothingGrown DEF Nodes, ToSet
<1>5. Linked' = {} /\ nNewBuckets' = nNewBuckets /\ Grows' = Grows
  BY <1>1, <1>4 DEF Linked, nNewBuckets, Grows
<1>6. \A x \in Records : refs'[x] = IF x \in Linked THEN refs[x] - 1 ELSE refs[x]
  BY <1>1 DEF DeleteNodes
<1>7. TableTypes'
  <2>1. refs' \in [Records -> Int]
    BY <1>1 DEF DeleteNodes, TableInv, TableTypes
  <2> QED BY <1>1, <1>3, <2>1 DEF TableInv, TableTypes
<1>8. GrownIsOurs'
  BY <1>1, <1>2, <1>5 DEF GrownIsOurs
<1>9. ChainsAreOrdered'
  <2>1. Ordered(buckets', nBuckets)
    BY <1>1 DEF Ordered
  <2> QED BY <1>1, <1>2, <1>4, <2>1, NothingGrown DEF ChainsAreOrdered
<1>10. /\ \A u \in Threads : ~Adding(th[u])
       /\ \A x : TableHas(x) <=> x \in Linked
  BY <1>1, NobodyAdds
<1>11. CountIsRight'
  <2>1. {u \in Threads : th'[u].pc \in {"own", "count"}} = {}
    BY <1>1, <1>10 DEF Adding
  <2>2. Cardinality({u \in Threads : th'[u].pc \in {"own", "count"}}) = 0 /\ Cardinality(Linked') = 0
    BY <1>5, <2>1, FS_EmptySet
  <2> QED BY <1>1, <2>2 DEF CountIsRight
<1>12. Referenced'
  <2>1. ASSUME NEW x \in Records
        PROVE  refs'[x] = Cardinality(Holders(x)') + (IF TableHas(x)' THEN 1 ELSE 0)
    <3>1. Holders(x)' = Holders(x)
      BY <1>1 DEF Holders
    <3>2. ~ TableHas(x)'
      BY <1>5 DEF TableHas
    <3>3. refs[x] = Cardinality(Holders(x)) + (IF x \in Linked THEN 1 ELSE 0)
      BY <1>10 DEF TableInv, Referenced
    <3>4. Cardinality(Holders(x)) \in Nat
      BY FS_Subset, FS_CardinalityType, TableAssumption DEF Holders
    <3> QED BY <1>6, <3>1, <3>2, <3>3, <3>4
  <2> QED BY <2>1 DEF Referenced
<1>13. OwnerIsAlone' /\ OneInserts'
  BY <1>1 DEF TableInv, OwnerIsAlone, OneInserts, Owning, Sharing, Entering, Adding
<1>14. ASSUME NEW u \in Threads
       PROVE  Stance(th[u])'
  <2>1. PICK w : w = th[u] /\ w = th'[u]
    BY <1>1
  <2>2. Stance(w) /\ Outside(w)
    BY <1>1, <2>1, OthersAreOutside DEF TableInv
  <2> QED BY <2>1, <2>2, StanceOutside
<1> QED BY <1>5, <1>7, <1>8, <1>9, <1>11, <1>12, <1>13, <1>14 DEF TableInv

LEMMA GrowthBegins ==
  ASSUME TableInv, NEW t \in Threads, th[t].pc = "rehash", Free,
         grown' = [b \in 0 .. nNewBuckets - 1 |-> <<>>],
         GoesTo(t, "grow"),
         UNCHANGED <<buckets, nBuckets, nItems, refs>>
  PROVE  TableInv'
<1> DEFINE w == th[t]
<1>1. /\ TableInv /\ w \in ThreadType /\ Stance(w) /\ th \in [Threads -> ThreadType]
      /\ nBuckets \in Nat \ {0} /\ nNewBuckets \in Nat \ {0}
      /\ grown = <<>> /\ Linked = Nodes(buckets)
  BY SharedTable, NewSize DEF TableInv, TableTypes, Free
<1>2. PICK v : v = [w EXCEPT !.pc = "grow"]
  OBVIOUS
<1>3. /\ v \in ThreadType /\ v.pc = "grow" /\ v.op = w.op /\ v.held = w.held
      /\ v.key = w.key /\ th' = [th EXCEPT ![t] = v]
  BY <1>1, <1>2 DEF GoesTo, ThreadType, ThreadPlaces
<1>4. Becomes(t, v) /\ th'[t] = v /\ \A u \in Threads \ {t} : th'[u] = th[u]
  BY <1>1, <1>3 DEF Becomes
<1>5. nNewBuckets' = nNewBuckets
  BY DEF nNewBuckets
<1>6. Nodes(grown') = {} /\ grown' \in [0 .. nNewBuckets - 1 -> Seq(Records)]
  <2> HIDE DEF nNewBuckets
  <2> QED BY EmptySeq DEF Nodes, ToSet
<1>7. Linked' = Linked
  BY <1>1, <1>6 DEF Linked
<1>8. TableTypes'
  BY <1>1, <1>3 DEF TableInv, TableTypes
<1>9. GrownIsOurs'
  BY <1>3, <1>4, <1>5, <1>6 DEF GrownIsOurs, Grows
<1>10. ChainsAreOrdered'
  <2>1. Ordered(grown', nNewBuckets)
    BY DEF Ordered
  <2> QED BY <1>1, <1>5, <1>6, <2>1 DEF TableInv, ChainsAreOrdered
<1>11. CountIsRight' /\ Referenced'
  <2>1. Adding(v) <=> Adding(th[t])
    BY <1>3 DEF Adding
  <2> QED BY <1>3, <1>4, <1>7, <2>1, CountStays, ReferencesStay DEF TableInv
<1>12. OwnerIsAlone'
  <2>1. LockIsKept(t, v)
    BY <1>3 DEF LockIsKept
  <2> QED BY <1>4, <2>1, LockStep DEF TableInv
<1>13. OneInserts'
  <2>1. HoldsAlone(t, v)
    BY <1>3 DEF HoldsAlone, Entering, Adding, TableInv, OneInserts
  <2> QED BY <1>4, <2>1, HoldStep DEF TableInv
<1>14. ASSUME NEW u \in Threads
       PROVE  Stance(th[u])'
  <2>1. CASE u = t
    <3>1. Stance(v)'
      BY <1>1, <1>3 DEF Stance, Entering, Adding
    <3> QED BY <1>4, <2>1, <3>1
  <2>2. CASE u # t
    <3>1. PICK x : x = th[u] /\ x = th'[u]
      BY <1>4, <2>2
    <3>2. Stance(x) /\ Outside(x)
      BY <3>1, OthersAreOutside DEF TableInv
    <3> QED BY <3>1, <3>2, StanceOutside
  <2> QED BY <2>1, <2>2
<1> QED BY <1>8, <1>9, <1>10, <1>11, <1>12, <1>13, <1>14 DEF TableInv

LEMMA MoveNodeStep ==
  ASSUME TableInv, NEW t \in Threads, MoveNode(t)
  PROVE  TableInv' /\ Linked' = Linked
<1>0. PICK b \in DOMAIN buckets : buckets[b] # <<>> /\ MoveHead(b)
  BY DEF MoveNode
<1> DEFINE w == th[t]
           s == buckets[b]
           r == Head(s)
           h == HashR(r) % nNewBuckets
           chain == grown[h]
<1>1. /\ TableInv /\ w.pc = "grow" /\ Stance(w) /\ w \in ThreadType
      /\ nBuckets \in Nat \ {0} /\ nNewBuckets \in Nat \ {0}
      /\ buckets \in [0 .. nBuckets - 1 -> Seq(Records)]
      /\ Ordered(buckets, nBuckets) /\ Ordered(grown, nNewBuckets)
      /\ \A x \in Nodes(buckets), y \in Nodes(grown) : KeyOf[x] # KeyOf[y]
      /\ UNCHANGED <<nBuckets, nItems, refs, th>> /\ s # <<>>
      /\ buckets' = [buckets EXCEPT ![b] = Tail(s)]
  BY <1>0, NewSize DEF MoveNode, MoveHead, TableInv, TableTypes, ChainsAreOrdered
<1>2. /\ b \in 0 .. nBuckets - 1
      /\ Grows /\ grown \in [0 .. nNewBuckets - 1 -> Seq(Records)] /\ Owning(t)
  BY <1>1 DEF Stance, Grows, TableInv, GrownIsOurs, Owning
<1>3. PICK i \in 1 .. Len(chain) + 1 :
           /\ BehindEqual(chain, r, i) /\ grown' = [grown EXCEPT ![h] = InsertAt(chain, i, r)]
  BY <1>0 DEF MoveHead
<1> HIDE DEF nNewBuckets
<1>4. s \in Seq(Records) /\ Sorted(s) /\ Bucketed(s, nBuckets, b) /\ ToSet(s) \subseteq Nodes(buckets)
  BY <1>1, <1>2, InOrder
<1>5. /\ Tail(s) \in Seq(Records) /\ r \in Records /\ r \in ToSet(s)
      /\ Sorted(Tail(s)) /\ Loses(s, r, Tail(s))
  <2>1. s \in Seq(Records) /\ s # <<>> /\ Sorted(s)
    BY <1>1, <1>4
  <2> HIDE DEF s
  <2> QED BY <2>1, TailNodes, TailSorted DEF Loses
<1>6. h \in 0 .. nNewBuckets - 1
  BY <1>1, <1>5, Hashes, HashPlaces
<1> DEFINE left == Tail(s)
           longer == InsertAt(chain, i, r)
<1>7. /\ chain \in Seq(Records) /\ Sorted(chain) /\ Bucketed(chain, nNewBuckets, h)
      /\ ToSet(chain) \subseteq Nodes(grown)
  <2>1. /\ grown \in [0 .. nNewBuckets - 1 -> Seq(Records)] /\ nNewBuckets \in Nat \ {0}
        /\ Ordered(grown, nNewBuckets) /\ h \in 0 .. nNewBuckets - 1
    BY <1>1, <1>2, <1>6
  <2> HIDE DEF h
  <2>2. /\ \A c \in 0 .. nNewBuckets - 1 : Sorted(grown[c]) /\ Bucketed(grown[c], nNewBuckets, c)
        /\ \A c \in 0 .. nNewBuckets - 1 : ToSet(grown[c]) \subseteq Nodes(grown)
    BY ONLY <2>1, OrderedChains, NodesOf
  <2> QED BY <2>1, <2>2
<1>8. \A y \in ToSet(chain) : KeyOf[y] # KeyOf[r]
  BY <1>1, <1>4, <1>5, <1>7
<1>9. longer \in Seq(Records) /\ Sorted(longer) /\ Gets(chain, r, longer)
  <2>1. /\ chain \in Seq(Records) /\ Sorted(chain) /\ i \in 1 .. Len(chain) + 1 /\ r \in Records
        /\ BehindEqual(chain, r, i) /\ \A y \in ToSet(chain) : KeyOf[y] # KeyOf[r]
    BY <1>3, <1>5, <1>7, <1>8
  <2> HIDE DEF chain, r
  <2> QED BY ONLY <2>1, Inserted, InsertSorted, InsertedNodes DEF Gets
<1>10. Bucketed(left, nBuckets, b) /\ Bucketed(longer, nNewBuckets, h)
  BY <1>4, <1>5, <1>7, <1>9 DEF Bucketed, Loses, Gets
<1>11. Changed(buckets', buckets, b, left) /\ Changed(grown', grown, h, longer)
  BY <1>1, <1>3 DEF Changed
<1>12. /\ nBuckets \in Nat \ {0} /\ buckets \in [0 .. nBuckets - 1 -> Seq(Records)]
       /\ b \in 0 .. nBuckets - 1 /\ left \in Seq(Records) /\ Loses(buckets[b], r, left)
       /\ Ordered(buckets, nBuckets) /\ Sorted(left) /\ Bucketed(left, nBuckets, b)
  BY <1>1, <1>2, <1>5, <1>10
<1>13. /\ nNewBuckets \in Nat \ {0} /\ grown \in [0 .. nNewBuckets - 1 -> Seq(Records)]
       /\ h \in 0 .. nNewBuckets - 1 /\ longer \in Seq(Records) /\ Gets(grown[h], r, longer)
       /\ Ordered(grown, nNewBuckets) /\ Sorted(longer) /\ Bucketed(longer, nNewBuckets, h)
  BY <1>1, <1>2, <1>6, <1>9, <1>10
<1> HIDE DEF left, longer, h, chain, r
<1>14. /\ buckets' \in [0 .. nBuckets - 1 -> Seq(Records)]
       /\ \A y : y \in Nodes(buckets') <=> y \in Nodes(buckets) /\ y # r
  <2>1. Changed(buckets', buckets, b, left)
    BY <1>11
  <2> HIDE DEF w, s
  <2>2. buckets' \in [0 .. nBuckets - 1 -> Seq(Records)]
    BY ONLY <2>1, <1>12, NodesWithout
  <2>3. \A y : y \in Nodes(buckets') <=> y \in Nodes(buckets) /\ y # r
    BY ONLY <2>1, <1>12, NodesWithout
  <2> QED BY <2>2, <2>3
<1>15. /\ grown' \in [0 .. nNewBuckets - 1 -> Seq(Records)]
       /\ \A y : y \in Nodes(grown') <=> y \in Nodes(grown) \cup {r}
  <2>1. Changed(grown', grown, h, longer)
    BY <1>11
  <2> HIDE DEF w, s
  <2>2. grown' \in [0 .. nNewBuckets - 1 -> Seq(Records)]
    BY ONLY <2>1, <1>13, NodesWith
  <2>3. \A y : y \in Nodes(grown') <=> y \in Nodes(grown) \cup {r}
    BY ONLY <2>1, <1>13, NodesWith
  <2> QED BY <2>2, <2>3
<1>16. Ordered(buckets', nBuckets) /\ Ordered(grown', nNewBuckets)
  <2>1. Ordered(buckets', nBuckets)
    BY ONLY <1>11, <1>12, OrderedWith
  <2>2. Ordered(grown', nNewBuckets)
    BY ONLY <1>11, <1>13, OrderedWith
  <2> QED BY <2>1, <2>2
<1>17. r \in Nodes(buckets)
  BY <1>4, <1>5
<1>18. Linked' = Linked
  BY <1>14, <1>15, <1>17 DEF Linked
<1>19. nNewBuckets' = nNewBuckets /\ Grows' = Grows
  BY <1>1 DEF nNewBuckets, Grows
<1>20. TableTypes'
  BY <1>1, <1>14 DEF TableInv, TableTypes
<1>21. GrownIsOurs'
  BY <1>2, <1>15, <1>19 DEF GrownIsOurs
<1>22. ChainsAreOrdered'
  <2>1. \A x, y \in Linked : KeyOf[x] = KeyOf[y] => x = y
    BY <1>1, InOrder
  <2>2. ASSUME NEW x \in Nodes(buckets'), NEW y \in Nodes(grown')
        PROVE  KeyOf[x] # KeyOf[y]
    <3>1. x \in Nodes(buckets) /\ x # r
      BY <1>14
    <3>2. CASE y = r
      BY <1>17, <2>1, <3>1, <3>2 DEF Linked
    <3>3. CASE y \in Nodes(grown)
      BY <1>1, <3>1, <3>3
    <3> QED BY <1>15, <3>2, <3>3
  <2> QED BY <1>1, <1>16, <1>19, <2>2 DEF ChainsAreOrdered
<1>23. CountIsRight' /\ Referenced'
  BY <1>1, <1>18 DEF TableInv, CountIsRight, Referenced, Holders, TableHas
<1>24. OwnerIsAlone' /\ OneInserts'
  BY <1>1 DEF TableInv, OwnerIsAlone, OneInserts, Owning, Sharing, Entering, Adding
<1>25. ASSUME NEW u \in Threads
       PROVE  Stance(th[u])'
  <2>1. PICK x : x = th[u] /\ x = th'[u]
    BY <1>1
  <2>2. CASE u # t
    <3>1. Stance(x) /\ Outside(x)
      BY <1>1, <1>2, <2>1, <2>2, OthersAreOutside DEF TableInv
    <3> QED BY <2>1, <3>1, StanceOutside
  <2>3. CASE u = t
    <3>1. x.pc = "grow" /\ Stance(x)
      BY <1>1, <2>1, <2>3
    <3>2. Stance(x)'
      BY <1>1, <3>1 DEF Stance, Entering, Adding
    <3> QED BY <2>1, <3>2
  <2> QED BY <2>2, <2>3
<1> QED BY <1>18, <1>20, <1>21, <1>22, <1>23, <1>24, <1>25 DEF TableInv

LEMMA GrowStep ==
  ASSUME TableInv, NEW t \in Threads, Grow(t)
  PROVE  TableInv' /\ Linked' = Linked
<1> DEFINE w == th[t]
<1>1. /\ TableInv /\ w \in ThreadType /\ Stance(w) /\ th \in [Threads -> ThreadType]
      /\ w.pc = "grow" /\ nBuckets \in Nat \ {0} /\ nNewBuckets \in Nat \ {0}
      /\ \A c \in DOMAIN buckets : buckets[c] = <<>>
      /\ buckets' = grown /\ nBuckets' = nNewBuckets /\ grown' = <<>>
      /\ UNCHANGED <<nItems, refs>>
  BY NewSize DEF Grow, TableInv, TableTypes
<1>2. /\ Grows /\ grown \in [0 .. nNewBuckets - 1 -> Seq(Records)] /\ Owning(t)
  BY <1>1 DEF Grows, TableInv, GrownIsOurs, Owning
<1>3. PICK v : v = [w EXCEPT !.pc = "done"]
  OBVIOUS
<1>4. /\ v \in ThreadType /\ v.pc = "done" /\ v.op = w.op /\ v.held = w.held
      /\ v.key = w.key /\ th' = [th EXCEPT ![t] = v]
  BY <1>1, <1>3 DEF Grow, GoesTo, ThreadType, ThreadPlaces
<1>5. Becomes(t, v) /\ th'[t] = v /\ \A u \in Threads \ {t} : th'[u] = th[u]
  BY <1>1, <1>4 DEF Becomes
<1> HIDE DEF nNewBuckets
<1>6. Nodes(buckets) = {}
  <2>1. ToSet(<<>>) = {}
    BY DEF ToSet
  <2> QED BY <1>1, <2>1 DEF Nodes
<1>7. Linked' = Linked /\ Nodes(grown') = {}
  BY <1>1, <1>6, NothingGrown DEF Linked
<1>8. TableTypes'
  BY <1>1, <1>2, <1>4 DEF TableInv, TableTypes
<1>9. GrownIsOurs'
  <2>1. \A u \in Threads \ {t} : Outside(th[u])
    BY <1>1, <1>2, OthersAreOutside
  <2>2. ~Grows'
    BY <1>4, <1>5, <2>1 DEF Grows, Outside
  <2> QED BY <1>1, <2>2 DEF GrownIsOurs
<1>10. ChainsAreOrdered'
  BY <1>1, <1>7, NothingGrown DEF TableInv, ChainsAreOrdered
<1>11. CountIsRight' /\ Referenced'
  <2>1. Adding(v) <=> Adding(th[t])
    BY <1>1, <1>4 DEF Adding
  <2> QED BY <1>1, <1>4, <1>5, <1>7, <2>1, CountStays, ReferencesStay DEF TableInv
<1>12. OwnerIsAlone'
  <2>1. LockIsKept(t, v)
    BY <1>4 DEF LockIsKept
  <2> QED BY <1>1, <1>5, <2>1, LockStep DEF TableInv
<1>13. OneInserts'
  <2>1. HoldsAlone(t, v)
    BY <1>1, <1>4 DEF HoldsAlone, Entering, Adding, TableInv, OneInserts
  <2> QED BY <1>1, <1>5, <2>1, HoldStep DEF TableInv
<1>14. ASSUME NEW u \in Threads
       PROVE  Stance(th[u])'
  <2>1. CASE u = t
    <3>1. Stance(v)'
      BY <1>1, <1>4 DEF Stance, Entering, Adding
    <3> QED BY <1>5, <2>1, <3>1
  <2>2. CASE u # t
    <3>1. PICK x : x = th[u] /\ x = th'[u]
      BY <1>5, <2>2
    <3>2. Stance(x) /\ Outside(x)
      BY <1>1, <1>2, <2>2, <3>1, OthersAreOutside DEF TableInv
    <3> QED BY <3>1, <3>2, StanceOutside
  <2> QED BY <2>1, <2>2
<1> QED BY <1>7, <1>8, <1>9, <1>10, <1>11, <1>12, <1>13, <1>14 DEF TableInv

-----------------------------------------------------------------------------
(* The steps that change references or the count.                          *)
LEMMA TableIsKept ==
  ASSUME TableInv, NEW t \in Threads, NEW v, Becomes(t, v), LockIsKept(t, v), HoldsAlone(t, v),
         Stance(v), v.pc # "grow", th[t].pc # "grow", UNCHANGED <<buckets, sizes>>,
         nItems' \in Int, refs' \in [Records -> Int], CountIsRight', Referenced'
  PROVE  TableInv'
<1>1. th'[t] = v /\ \A u \in Threads \ {t} : th'[u] = th[u]
  BY ThreadStep DEF TableInv
<1>2. UNCHANGED <<buckets, nBuckets, grown>>
  BY DEF sizes
<1>3. Linked' = Linked /\ nNewBuckets' = nNewBuckets /\ Grows' = Grows
  BY <1>1, <1>2 DEF Linked, nNewBuckets, Grows
<1>4. TableTypes'
  BY <1>2, ThreadStep DEF TableInv, TableTypes
<1>5. GrownIsOurs' /\ ChainsAreOrdered'
  BY <1>2, <1>3 DEF TableInv, GrownIsOurs, ChainsAreOrdered
<1>6. OwnerIsAlone' /\ OneInserts'
  BY LockStep, HoldStep DEF TableInv
<1>7. ASSUME NEW u \in Threads
      PROVE  Stance(th[u])'
  <2>1. PICK w : w = th'[u]
    OBVIOUS
  <2>2. Stance(w)
    BY <1>1, <2>1 DEF TableInv
  <2> QED BY <1>2, <2>1, <2>2, StanceIsKept
<1> QED BY <1>4, <1>5, <1>6, <1>7 DEF TableInv

LEMMA HoldersAreFew ==
  ASSUME NEW x
  PROVE  IsFiniteSet(Holders(x)) /\ Cardinality(Holders(x)) \in Nat
  BY FS_Subset, FS_CardinalityType, TableAssumption DEF Holders

LEMMA InsertRecordStep ==
  ASSUME TableInv, NEW t \in Threads, NEW r \in Records, InsertRecord(t, r)
  PROVE  TableInv'
<1>1. /\ TableInv /\ TableTypes /\ th[t].pc = "idle" /\ NobodyOwns /\ refs[r] = 0
      /\ refs' = [refs EXCEPT ![r] = 1] /\ UNCHANGED <<buckets, sizes, nItems>>
      /\ UNCHANGED <<buckets, nBuckets, grown>>
      /\ refs \in [Records -> Int] /\ th \in [Threads -> ThreadType]
  BY DEF InsertRecord, TableInv, TableTypes, sizes
<1>2. th[t] = Idle /\ Idle.pc = "idle" /\ Idle.held = Nil
  BY <1>1 DEF TableInv, Stance, Idle
<1>3. PICK v : v = [Idle EXCEPT !.pc = "walk", !.op = "insert", !.key = KeyOf[r], !.held = r]
  OBVIOUS
<1>4. /\ v.pc = "walk" /\ v.op = "insert" /\ v.key = KeyOf[r] /\ v.held = r
      /\ v.prev = Nil /\ v.cur = Nil /\ KeyOf[r] \in Keys /\ r # Nil
      /\ v = [pc |-> "walk", op |-> "insert", key |-> KeyOf[r], prev |-> Nil, cur |-> Nil,
              held |-> r, due |-> {}, b |-> 0]
  BY <1>3, Hashes DEF Idle
<1>5. v \in ThreadType
  BY <1>4 DEF ThreadType, ThreadPlaces
<1>6. Becomes(t, v)
  BY <1>3, <1>5 DEF InsertRecord, Becomes
<1>7. th'[t] = v /\ \A u \in Threads \ {t} : th'[u] = th[u]
  BY <1>1, <1>6, ThreadStep
\* Free memory: nobody has a reference, and the table has none.
<1>8. Holders(r) = {} /\ ~TableHas(r)
  <2>1. refs[r] = Cardinality(Holders(r)) + (IF TableHas(r) THEN 1 ELSE 0)
    BY <1>1 DEF TableInv, Referenced
  <2>2. Cardinality(Holders(r)) = 0 /\ ~TableHas(r)
    BY <1>1, <2>1, HoldersAreFew
  <2> QED BY <2>2, HoldersAreFew, FS_EmptySet
<1>9. \A u \in Threads : th[u].held # r
  BY <1>8 DEF Holders
<1>10. r \notin Linked
  BY <1>8, <1>9 DEF TableHas
<1>11. Linked' = Linked
  BY <1>1 DEF Linked
<1>12. LockIsKept(t, v) /\ HoldsAlone(t, v)
  BY <1>1, <1>4, <1>9 DEF LockIsKept, HoldsAlone, Adding
<1>13. Walking(v)
  <2>1. \A i \in DOMAIN BucketOf(v.key) : BucketOf(v.key)[i] # Nil
    BY <1>1, <1>4, Buckets, NodesAreRecords, Hashes
  <2> QED BY <1>4, <2>1 DEF Walking, Stands, WalkedPast
<1>14. Stance(v)
  BY <1>4, <1>10, <1>13 DEF Stance, Entering, Adding
<1>15. CountIsRight'
  <2>1. Adding(v) <=> Adding(th[t])
    BY <1>1, <1>4 DEF Adding
  <2> QED BY <1>1, <1>6, <1>11, <2>1, CountStays DEF TableInv
<1>16. Referenced'
  <2>1. ASSUME NEW x \in Records
        PROVE  refs'[x] = Cardinality(Holders(x)') + (IF TableHas(x)' THEN 1 ELSE 0)
    <3>1. TableHas(x)' <=> TableHas(x)
      BY <1>1, <1>4, <1>7, <1>11 DEF TableHas
    <3>2. refs[x] = Cardinality(Holders(x)) + (IF TableHas(x) THEN 1 ELSE 0)
      BY <1>1 DEF TableInv, Referenced
    <3>3. CASE x = r
      <4>1. Holders(x)' = Holders(x) \cup {t} /\ t \notin Holders(x)
        BY <1>4, <1>7, <1>9, <3>3 DEF Holders
      <4>2. Cardinality(Holders(x)') = Cardinality(Holders(x)) + 1 /\ Cardinality(Holders(x)) = 0
        BY <1>8, <3>3, <4>1, HoldersAreFew, FS_AddElement, FS_EmptySet
      <4>3. refs'[x] = 1
        BY <1>1, <3>3
      <4> QED BY <1>8, <3>1, <3>3, <4>1, <4>2, <4>3
    <3>4. CASE x # r
      <4>1. Holders(x)' = Holders(x)
        BY <1>2, <1>4, <1>7, <2>1, <3>4, Hashes DEF Holders
      <4>2. refs'[x] = refs[x]
        BY <1>1, <3>4
      <4> QED BY <3>1, <3>2, <4>1, <4>2
    <3> QED BY <3>3, <3>4
  <2> QED BY <2>1 DEF Referenced
<1>17. nItems' \in Int /\ refs' \in [Records -> Int]
  BY <1>1 DEF TableTypes
<1> QED BY <1>1, <1>4, <1>6, <1>12, <1>14, <1>15, <1>16, <1>17, TableIsKept

LEMMA TakeReferenceStep ==
  ASSUME TableInv, NEW t \in Threads, TakeReference(t)
  PROVE  TableInv'
<1> DEFINE w == th[t]
           r == w.cur
<1>1. /\ TableInv /\ TableTypes /\ w.pc = "take" /\ w \in ThreadType /\ Stance(w)
      /\ refs' = [refs EXCEPT ![r] = refs[r] + 1] /\ UNCHANGED <<buckets, sizes, nItems>>
      /\ UNCHANGED <<buckets, nBuckets, grown>>
      /\ refs \in [Records -> Int] /\ th \in [Threads -> ThreadType]
  BY DEF TakeReference, TableInv, TableTypes, sizes
<1>2. w.op = "find" /\ w.prev = Nil /\ r \in Linked /\ w.held = Nil
  BY <1>1 DEF Stance
<1>3. r \in Records /\ r # Nil
  BY <1>1, <1>2, InOrder, Hashes
<1>4. PICK v : v = [w EXCEPT !.pc = "leave", !.held = r]
  OBVIOUS
<1>5. /\ v \in ThreadType /\ v.pc = "leave" /\ v.op = "find" /\ v.held = r
      /\ th' = [th EXCEPT ![t] = v]
  BY <1>1, <1>2, <1>3, <1>4 DEF TakeReference, ThreadType, ThreadPlaces
<1>6. Becomes(t, v) /\ th'[t] = v /\ \A u \in Threads \ {t} : th'[u] = th[u]
  BY <1>1, <1>5 DEF Becomes
<1>7. Linked' = Linked
  BY <1>1 DEF Linked
<1>8. LockIsKept(t, v)
  BY <1>1, <1>5 DEF LockIsKept, Sharing
<1>9. HoldsAlone(t, v)
  <2>1. \A u \in Threads : Entering(th[u]) => th[u].held # r
    BY <1>1, <1>2 DEF TableInv, Stance
  <2> QED BY <1>5, <2>1 DEF HoldsAlone, Adding, Entering
<1>10. Stance(v)
  BY <1>5 DEF Stance, Entering, Adding
<1>11. CountIsRight'
  <2>1. Adding(v) <=> Adding(th[t])
    BY <1>1, <1>5 DEF Adding
  <2> QED BY <1>1, <1>6, <1>7, <2>1, CountStays DEF TableInv
<1>12. Referenced'
  <2>1. ASSUME NEW x \in Records
        PROVE  refs'[x] = Cardinality(Holders(x)') + (IF TableHas(x)' THEN 1 ELSE 0)
    <3>1. TableHas(x)' <=> TableHas(x)
      BY <1>1, <1>5, <1>6, <1>7 DEF TableHas
    <3>2. refs[x] = Cardinality(Holders(x)) + (IF TableHas(x) THEN 1 ELSE 0)
      BY <1>1 DEF TableInv, Referenced
    <3>3. CASE x = r
      <4>1. Holders(x)' = Holders(x) \cup {t} /\ t \notin Holders(x)
        BY <1>2, <1>3, <1>5, <1>6, <3>3 DEF Holders
      <4>2. Cardinality(Holders(x)') = Cardinality(Holders(x)) + 1
        BY <4>1, HoldersAreFew, FS_AddElement
      <4>3. refs'[x] = refs[x] + 1
        BY <1>1, <3>3
      <4> HIDE DEF r
      <4> QED BY <3>1, <3>2, <4>2, <4>3, HoldersAreFew
    <3>4. CASE x # r
      <4>1. Holders(x)' = Holders(x)
        BY <1>2, <1>5, <1>6, <2>1, <3>4, Hashes DEF Holders
      <4>2. refs'[x] = refs[x]
        BY <1>1, <3>4
      <4> QED BY <3>1, <3>2, <4>1, <4>2
    <3> QED BY <3>3, <3>4
  <2> QED BY <2>1 DEF Referenced
<1>13. nItems' \in Int /\ refs' \in [Records -> Int]
  <2>1. refs[r] + 1 \in Int
    BY <1>1, <1>3
  <2> HIDE DEF r
  <2> QED BY <1>1, <2>1 DEF TableTypes
<1> QED BY <1>1, <1>5, <1>6, <1>8, <1>9, <1>10, <1>11, <1>12, <1>13, TableIsKept

LEMMA OwnReferenceStep ==
  ASSUME TableInv, NEW t \in Threads, OwnReference(t)
  PROVE  TableInv'
<1> DEFINE w == th[t]
           r == w.held
<1>1. /\ TableInv /\ TableTypes /\ w.pc = "own" /\ w \in ThreadType /\ Stance(w)
      /\ refs' = [refs EXCEPT ![r] = refs[r] + 1] /\ UNCHANGED <<buckets, sizes, nItems>>
      /\ UNCHANGED <<buckets, nBuckets, grown>>
      /\ refs \in [Records -> Int] /\ th \in [Threads -> ThreadType]
  BY DEF OwnReference, TableInv, TableTypes, sizes
<1>2. w.op = "insert" /\ r \in Linked /\ r \in Records /\ KeyOf[r] = w.key
  BY <1>1 DEF Stance, Adding
<1>3. PICK v : v = [w EXCEPT !.pc = "count"]
  OBVIOUS
<1>4. /\ v \in ThreadType /\ v.pc = "count" /\ v.op = "insert" /\ v.held = r /\ v.key = w.key
      /\ th' = [th EXCEPT ![t] = v]
  BY <1>1, <1>2, <1>3 DEF OwnReference, GoesTo, ThreadType, ThreadPlaces
<1>5. Becomes(t, v) /\ th'[t] = v /\ \A u \in Threads \ {t} : th'[u] = th[u]
  BY <1>1, <1>4 DEF Becomes
<1>6. Linked' = Linked
  BY <1>1 DEF Linked
<1>7. LockIsKept(t, v)
  BY <1>1, <1>4 DEF LockIsKept, Sharing
<1>8. HoldsAlone(t, v)
  BY <1>1, <1>4 DEF HoldsAlone, Adding, Entering, TableInv, OneInserts
<1>9. Stance(v)
  BY <1>2, <1>4 DEF Stance, Entering, Adding
<1>10. CountIsRight'
  <2>1. Adding(v) <=> Adding(th[t])
    BY <1>1, <1>4 DEF Adding
  <2> QED BY <1>1, <1>5, <1>6, <2>1, CountStays DEF TableInv
<1>11. Referenced'
  <2>1. ASSUME NEW x \in Records
        PROVE  refs'[x] = Cardinality(Holders(x)') + (IF TableHas(x)' THEN 1 ELSE 0)
    <3>1. Holders(x)' = Holders(x)
      BY <1>4, <1>5 DEF Holders
    <3>2. refs[x] = Cardinality(Holders(x)) + (IF TableHas(x) THEN 1 ELSE 0)
      BY <1>1 DEF TableInv, Referenced
    <3>3. CASE x = r
      <4>1. ~TableHas(x)
        BY <1>1, <3>3 DEF TableHas
      <4>2. TableHas(x)'
        <5>1. \A u \in Threads \ {t} : Adding(th[u]) => th[u].held # r
          BY <1>1 DEF Adding, TableInv, OneInserts
        <5> QED BY <1>2, <1>4, <1>5, <1>6, <3>3, <5>1 DEF TableHas, Adding
      <4>3. refs'[x] = refs[x] + 1
        BY <1>1, <3>3
      <4> HIDE DEF r
      <4> QED BY <3>1, <3>2, <4>1, <4>2, <4>3, HoldersAreFew
    <3>4. CASE x # r
      <4>1. TableHas(x)' <=> TableHas(x)
        BY <1>4, <1>5, <1>6, <3>4 DEF TableHas
      <4>2. refs'[x] = refs[x]
        BY <1>1, <3>4
      <4> QED BY <3>1, <3>2, <4>1, <4>2
    <3> QED BY <3>3, <3>4
  <2> QED BY <2>1 DEF Referenced
<1>12. nItems' \in Int /\ refs' \in [Records -> Int]
  <2>1. refs[r] + 1 \in Int
    BY <1>1, <1>2
  <2> HIDE DEF r
  <2> QED BY <1>1, <2>1 DEF TableTypes
<1> QED BY <1>1, <1>4, <1>5, <1>7, <1>8, <1>9, <1>10, <1>11, <1>12, TableIsKept

LEMMA AddersAreFew ==
  /\ IsFiniteSet({u \in Threads : th[u].pc \in {"own", "count"}})
  /\ Cardinality({u \in Threads : th[u].pc \in {"own", "count"}}) \in Nat
<1> DEFINE S == {u \in Threads : th[u].pc \in {"own", "count"}}
<1>1. S \in SUBSET Threads
  OBVIOUS
<1> HIDE DEF S
<1>2. IsFiniteSet(S) /\ Cardinality(S) \in Nat
  BY <1>1, FS_Subset, FS_CardinalityType, TableAssumption
<1> QED BY <1>2 DEF S

LEMMA CountItemStep ==
  ASSUME TableInv, NEW t \in Threads, CountItem(t)
  PROVE  TableInv'
<1> DEFINE w == th[t]
<1>1. /\ TableInv /\ TableTypes /\ w.pc = "count" /\ w \in ThreadType /\ Stance(w)
      /\ nItems' = nItems + 1 /\ nItems \in Int /\ UNCHANGED <<buckets, sizes, refs>>
      /\ UNCHANGED <<buckets, nBuckets, grown>>
      /\ refs \in [Records -> Int] /\ th \in [Threads -> ThreadType]
  BY DEF CountItem, TableInv, TableTypes, sizes
<1>2. w.op = "insert" /\ w.held \in Linked /\ w.held \in Records /\ KeyOf[w.held] = w.key
  BY <1>1 DEF Stance, Adding
<1>3. PICK v : v = [w EXCEPT !.pc = "leave", !.cur = w.held]
  OBVIOUS
<1>4. /\ v \in ThreadType /\ v.pc = "leave" /\ v.op = "insert" /\ v.held = w.held /\ v.key = w.key
      /\ th' = [th EXCEPT ![t] = v]
  BY <1>1, <1>2, <1>3 DEF CountItem, ThreadType, ThreadPlaces
<1>5. Becomes(t, v) /\ th'[t] = v /\ \A u \in Threads \ {t} : th'[u] = th[u]
  BY <1>1, <1>4 DEF Becomes
<1>6. Linked' = Linked
  BY <1>1 DEF Linked
<1>7. LockIsKept(t, v)
  BY <1>1, <1>4 DEF LockIsKept, Sharing
<1>8. HoldsAlone(t, v)
  BY <1>1, <1>4 DEF HoldsAlone, Adding, Entering, TableInv, OneInserts
<1>9. Stance(v)
  BY <1>2, <1>4 DEF Stance, Entering, Adding
<1>10. CountIsRight'
  <2> DEFINE S == {u \in Threads : th[u].pc \in {"own", "count"}}
             T == {u \in Threads : th'[u].pc \in {"own", "count"}}
  <2>1. T = S \ {t} /\ t \in S
    BY <1>1, <1>4, <1>5
  <2>2. nItems = Cardinality(Linked) - Cardinality(S)
    BY <1>1 DEF TableInv, CountIsRight
  <2>3. IsFiniteSet(S) /\ Cardinality(S) \in Nat /\ Cardinality(Linked) \in Nat
    BY <1>1, AddersAreFew, InOrder, FS_CardinalityType
  <2> HIDE DEF S, T
  <2>4. Cardinality(T) = Cardinality(S) - 1
    BY <2>1, <2>3, FS_RemoveElement
  <2>5. nItems' = Cardinality(Linked') - Cardinality(T)
    BY <1>1, <1>6, <2>2, <2>3, <2>4
  <2> QED BY <2>5 DEF CountIsRight, T
<1>11. Referenced'
  BY <1>1, <1>4, <1>5, <1>6, ReferencesStay DEF TableInv
<1>12. nItems' \in Int /\ refs' \in [Records -> Int]
  BY <1>1
<1> QED BY <1>1, <1>4, <1>5, <1>7, <1>8, <1>9, <1>10, <1>11, <1>12, TableIsKept

LEMMA ReturnStep ==
  ASSUME TableInv, NEW t \in Threads, Return(t)
  PROVE  TableInv'
<1> DEFINE w == th[t]
           r == w.held
<1>1. /\ TableInv /\ TableTypes /\ w.pc = "done" /\ Stance(w)
      /\ UNCHANGED <<buckets, sizes, nItems>> /\ UNCHANGED <<buckets, nBuckets, grown>>
      /\ refs' = [x \in Records |-> IF x = r THEN refs[x] - 1 ELSE refs[x]]
      /\ refs \in [Records -> Int] /\ th \in [Threads -> ThreadType]
      /\ th' = [th EXCEPT ![t] = Idle]
  BY DEF Return, TableInv, TableTypes, sizes
<1>2. PICK v : v = Idle
  OBVIOUS
<1>3. /\ v \in ThreadType /\ v.pc = "idle" /\ v.op = "none" /\ v.held = Nil
      /\ th' = [th EXCEPT ![t] = v]
  BY <1>1, <1>2 DEF Idle, ThreadType, ThreadPlaces
<1>4. Becomes(t, v) /\ th'[t] = v /\ \A u \in Threads \ {t} : th'[u] = th[u]
  BY <1>1, <1>3 DEF Becomes
<1>5. Linked' = Linked
  BY <1>1 DEF Linked
<1>6. LockIsKept(t, v)
  BY <1>3 DEF LockIsKept
<1>7. HoldsAlone(t, v)
  <2>1. \A u \in Threads : Entering(th[u]) => th[u].held # Nil
    BY <1>1, Hashes DEF TableInv, Stance, Entering
  <2> QED BY <1>3, <2>1 DEF HoldsAlone, Adding, Entering
<1>8. Stance(v)
  BY <1>2, <1>3 DEF Stance, Entering, Adding
<1>9. CountIsRight'
  <2>1. Adding(v) <=> Adding(th[t])
    BY <1>1, <1>3 DEF Adding
  <2> QED BY <1>1, <1>4, <1>5, <2>1, CountStays DEF TableInv
<1>10. Referenced'
  <2>1. ASSUME NEW x \in Records
        PROVE  refs'[x] = Cardinality(Holders(x)') + (IF TableHas(x)' THEN 1 ELSE 0)
    <3>1. TableHas(x)' <=> TableHas(x)
      BY <1>1, <1>3, <1>4, <1>5 DEF TableHas
    <3>2. refs[x] = Cardinality(Holders(x)) + (IF TableHas(x) THEN 1 ELSE 0)
      BY <1>1 DEF TableInv, Referenced
    <3>3. CASE x = r
      <4>1. Holders(x)' = Holders(x) \ {t} /\ t \in Holders(x)
        BY <1>3, <1>4, <2>1, <3>3, Hashes DEF Holders
      <4>2. Cardinality(Holders(x)') = Cardinality(Holders(x)) - 1
        BY <4>1, HoldersAreFew, FS_RemoveElement
      <4>3. refs'[x] = refs[x] - 1
        BY <1>1, <3>3
      <4> HIDE DEF r
      <4> QED BY <3>1, <3>2, <4>2, <4>3, HoldersAreFew
    <3>4. CASE x # r
      <4>1. Holders(x)' = Holders(x)
        BY <1>3, <1>4, <2>1, <3>4, Hashes DEF Holders
      <4>2. refs'[x] = refs[x]
        BY <1>1, <3>4
      <4> QED BY <3>1, <3>2, <4>1, <4>2
    <3> QED BY <3>3, <3>4
  <2> QED BY <2>1 DEF Referenced
<1>11. nItems' \in Int /\ refs' \in [Records -> Int]
  <2>1. \A x \in Records : refs[x] - 1 \in Int /\ refs[x] \in Int
    BY <1>1
  <2> QED BY <1>1, <2>1 DEF TableTypes
<1> QED BY <1>1, <1>3, <1>4, <1>6, <1>7, <1>8, <1>9, <1>10, <1>11, TableIsKept

-----------------------------------------------------------------------------
(* The exchange that puts a node in its place.                             *)

\* What everybody who shares the lock may go on relying on.
LEMMA StanceBehind ==
  ASSUME TableInv, NEW w \in ThreadType, Stance(w), NEW r \in Records,
         w.pc \notin {"deleteIf", "grow"}, Entering(w) => w.held # r,
         nBuckets' = nBuckets, Linked = Nodes(buckets),
         \A y : y \in Nodes(buckets') <=> y \in Nodes(buckets) \cup {r}, Linked' = Nodes(buckets'),
         \A b \in 0 .. nBuckets - 1 : \A p :
           Stands(p, buckets[b]) =>
             /\ Stands(p, buckets'[b])
             /\ \A k \in Keys : WalkedPast(buckets[b], p, k) => WalkedPast(buckets'[b], p, k)
             /\ \A S : S \subseteq Linked /\ Beyond(buckets[b], p, S) => Beyond(buckets'[b], p, S)
  PROVE  Stance(w)'
<1>1. Linked' = Linked \cup {r}
  OBVIOUS
<1>2. ASSUME Walking(w)
      PROVE  Walking(w)'
  <2>1. /\ w.op \in {"insert", "find"} /\ w.key \in Keys
        /\ Stands(w.prev, buckets[Bucket(w.key)]) /\ WalkedPast(buckets[Bucket(w.key)], w.prev, w.key)
    BY <1>2 DEF Walking, BucketOf
  <2>2. Bucket(w.key) \in 0 .. nBuckets - 1
    BY <2>1, Buckets
  <2>3. Bucket(w.key)' = Bucket(w.key)
    BY DEF Bucket
  <2>4. /\ Stands(w.prev, buckets'[Bucket(w.key)])
        /\ WalkedPast(buckets'[Bucket(w.key)], w.prev, w.key)
    BY <2>1, <2>2
  <2> QED BY <2>1, <2>3, <2>4 DEF Walking, BucketOf
<1>3. ASSUME w.key \in Keys, Stands(w.cur, BucketOf(w.key))
      PROVE  Stands(w.cur, BucketOf(w.key))'
  <2>1. Bucket(w.key) \in 0 .. nBuckets - 1 /\ Bucket(w.key)' = Bucket(w.key)
    BY <1>3, Buckets DEF Bucket
  <2>2. Stands(w.cur, buckets'[Bucket(w.key)])
    BY <1>3, <2>1 DEF BucketOf
  <2> QED BY <2>1, <2>2 DEF BucketOf
<1>4. ASSUME Visiting(w)
      PROVE  Visiting(w)'
  BY <1>4 DEF Visiting
<1>5. ASSUME Visiting(w), DueIsAhead(w)
      PROVE  DueIsAhead(w)'
  <2>1. /\ w.b \in 0 .. nBuckets - 1 /\ Stands(w.prev, buckets[w.b])
        /\ w.due \subseteq Linked /\ w.due \subseteq Nodes(buckets')
        /\ \A x \in w.due : HashR(x) % nBuckets' >= w.b
        /\ Beyond(buckets[w.b], w.prev, w.due)
    BY <1>5 DEF Visiting, DueIsAhead
  <2>2. Beyond(buckets'[w.b], w.prev, w.due)
    BY <2>1
  <2> QED BY <2>1, <2>2 DEF DueIsAhead
<1>6. CASE Outside(w)
  BY <1>6, StanceOutside
<1>7. CASE w.pc \in {"walk", "link"}
  <2>1. Walking(w) /\ Walking(w)' /\ w.key \in Keys
    BY <1>2, <1>7 DEF Stance, Walking
  <2>2. CASE w.pc = "walk"
    BY <1>1, <2>1, <2>2 DEF Stance, Entering, Adding
  <2>3. CASE w.pc = "link"
    <3>1. Stands(w.cur, BucketOf(w.key))'
      BY <1>3, <2>1, <2>3 DEF Stance
    <3> QED BY <1>1, <2>1, <2>3, <3>1 DEF Stance, Entering, Adding
  <2> QED BY <1>7, <2>2, <2>3
<1>8. CASE w.pc \in {"take", "own", "count", "leave"}
  BY <1>1, <1>8 DEF Stance, Entering, Adding
<1>9. CASE w.pc = "apply"
  <2>1. Visiting(w)' /\ DueIsAhead(w)'
    BY <1>4, <1>5, <1>9 DEF Stance
  <2> QED BY <1>9, <2>1 DEF Stance, Entering, Adding
<1>10. w.pc \in ThreadPlaces
  BY DEF ThreadType
<1> QED BY <1>6, <1>7, <1>8, <1>9, <1>10 DEF ThreadPlaces, Outside

LEMMA LinkStep ==
  ASSUME TableInv, NEW t \in Threads, Link(t)
  PROVE  TableInv' /\ Linked' = Linked \cup {th[t].held}
<1> DEFINE w == th[t]
           k == w.key
           r == w.held
           h == Bucket(k)
           s == buckets[h]
           i == Place(s, w.prev) + 1
           new == InsertAt(s, i, r)
<1>1. /\ TableInv /\ TableTypes /\ w.pc = "link" /\ w \in ThreadType /\ Stance(w) /\ Fits(t)
      /\ buckets' = [buckets EXCEPT ![h] = new]
      /\ nBuckets' = nBuckets /\ grown' = grown /\ nItems' = nItems /\ refs' = refs
      /\ nBuckets \in Nat \ {0} /\ buckets \in [0 .. nBuckets - 1 -> Seq(Records)]
      /\ Ordered(buckets, nBuckets) /\ th \in [Threads -> ThreadType]
  BY DEF Link, TableInv, TableTypes, ChainsAreOrdered, sizes
<1>2. /\ w.op = "insert" /\ k \in Keys /\ Stands(w.prev, s) /\ WalkedPast(s, w.prev, k)
      /\ r \in Records /\ KeyOf[r] = k /\ r \notin Linked /\ StopsAt(k, After(s, w.prev))
  BY <1>1 DEF Stance, Walking, BucketOf, Entering, Fits
<1>3. h \in 0 .. nBuckets - 1 /\ s \in Seq(Records) /\ Sorted(s) /\ Distinct(s)
  BY <1>1, <1>2, Buckets DEF BucketOf
<1>4. /\ i \in 1 .. Len(s) + 1 /\ BehindEqual(s, r, i) /\ \A y \in ToSet(s) : KeyOf[y] # KeyOf[r]
  <2>1. Place(s, w.prev) \in 0 .. Len(s) /\ Len(s) \in Nat
    BY <1>2, <1>3, Standing, NodesAreRecords
  <2>2. /\ \A y \in ToSet(s) : KeyOf[y] # k
        /\ \A y \in Records : KeyOf[y] = k => BehindEqual(s, y, Place(s, w.prev) + 1)
    <3>1. /\ s \in Seq(Records) /\ Sorted(s) /\ Stands(w.prev, s) /\ k \in Keys
          /\ WalkedPast(s, w.prev, k) /\ StopsAt(k, After(s, w.prev))
      BY <1>2, <1>3
    <3> HIDE DEF s, k
    <3> QED BY ONLY <3>1, NotThere
  <2> QED BY <1>2, <2>1, <2>2
<1>5. r \notin ToSet(s)
  BY <1>2, <1>4
<1>6. new \in Seq(Records) /\ Sorted(new) /\ Gets(s, r, new)
  <2>1. /\ s \in Seq(Records) /\ Sorted(s) /\ i \in 1 .. Len(s) + 1 /\ r \in Records
        /\ BehindEqual(s, r, i) /\ \A y \in ToSet(s) : KeyOf[y] # KeyOf[r]
    BY <1>2, <1>3, <1>4
  <2> HIDE DEF s, i, r
  <2> QED BY ONLY <2>1, Inserted, InsertSorted, InsertedNodes DEF Gets
<1>7. Bucketed(new, nBuckets, h)
  <2>1. Bucketed(s, nBuckets, h)
    BY <1>1, <1>3, InOrder
  <2>2. HashR(r) % nBuckets = h
    BY <1>2 DEF HashR, Bucket
  <2> HIDE DEF new, h
  <2> QED BY <1>6, <2>1, <2>2 DEF Bucketed, Gets
<1>8. Changed(buckets', buckets, h, new)
  BY <1>1 DEF Changed
<1>9. ~Grows /\ grown = <<>> /\ Linked = Nodes(buckets) /\ NobodyOwns /\ Sharing(t)
  BY <1>1, SharedTable DEF Sharing
<1>10. /\ nBuckets \in Nat \ {0} /\ buckets \in [0 .. nBuckets - 1 -> Seq(Records)]
       /\ h \in 0 .. nBuckets - 1 /\ new \in Seq(Records) /\ Gets(buckets[h], r, new)
       /\ Ordered(buckets, nBuckets) /\ Sorted(new) /\ Bucketed(new, nBuckets, h)
  BY <1>1, <1>3, <1>6, <1>7
<1>11. /\ buckets' \in [0 .. nBuckets - 1 -> Seq(Records)]
       /\ \A y : y \in Nodes(buckets') <=> y \in Nodes(buckets) \cup {r}
       /\ Ordered(buckets', nBuckets)
  <2> HIDE DEF w, k, r, h, s, i, new
  <2>1. buckets' \in [0 .. nBuckets - 1 -> Seq(Records)]
    BY ONLY <1>8, <1>10, NodesWith
  <2>2. \A y : y \in Nodes(buckets') <=> y \in Nodes(buckets) \cup {r}
    BY ONLY <1>8, <1>10, NodesWith
  <2>3. Ordered(buckets', nBuckets)
    BY ONLY <1>8, <1>10, OrderedWith
  <2> QED BY <2>1, <2>2, <2>3
<1>12. Linked' = Nodes(buckets') /\ Linked' = Linked \cup {r} /\ Nodes(grown') = {}
  BY <1>1, <1>9, <1>11, NothingGrown DEF Linked
<1> HIDE DEF s, i, new, h
<1>13. PICK v : v = [w EXCEPT !.pc = "own", !.prev = Nil, !.cur = Nil]
  OBVIOUS
<1>14. /\ v \in ThreadType /\ v.pc = "own" /\ v.op = "insert" /\ v.held = r /\ v.key = k
       /\ th' = [th EXCEPT ![t] = v]
  BY <1>1, <1>2, <1>13 DEF Link, ThreadType, ThreadPlaces
<1>15. Becomes(t, v) /\ th'[t] = v /\ \A u \in Threads \ {t} : th'[u] = th[u]
  BY <1>1, <1>14 DEF Becomes
<1>16. Entering(w) /\ \A u \in Threads \ {t} : th[u].held # r
  BY <1>1, <1>2 DEF Entering, TableInv, OneInserts
<1>17. TableTypes'
  BY <1>1, <1>11, <1>14 DEF TableTypes
<1>18. GrownIsOurs'
  <2>1. ~Grows'
    BY <1>9, <1>14, <1>15 DEF Grows
  <2> QED BY <1>1, <1>9, <2>1 DEF GrownIsOurs
<1>19. ChainsAreOrdered'
  BY <1>1, <1>9, <1>11, <1>12, NothingGrown DEF ChainsAreOrdered
<1>20. OwnerIsAlone' /\ OneInserts'
  <2>1. LockIsKept(t, v) /\ HoldsAlone(t, v)
    BY <1>9, <1>14, <1>16 DEF LockIsKept, HoldsAlone
  <2> QED BY <1>1, <1>15, <2>1, LockStep, HoldStep DEF TableInv
<1>21. CountIsRight'
  <2> DEFINE S == {u \in Threads : th[u].pc \in {"own", "count"}}
             T == {u \in Threads : th'[u].pc \in {"own", "count"}}
  <2>1. T = S \cup {t} /\ t \notin S
    BY <1>1, <1>14, <1>15
  <2>2. nItems = Cardinality(Linked) - Cardinality(S)
    BY <1>1 DEF TableInv, CountIsRight
  <2>3. /\ IsFiniteSet(S) /\ Cardinality(S) \in Nat
        /\ IsFiniteSet(Linked) /\ Cardinality(Linked) \in Nat
    BY <1>1, AddersAreFew, InOrder, FS_CardinalityType
  <2> HIDE DEF S, T
  <2>4. Cardinality(T) = Cardinality(S) + 1
    BY <2>1, <2>3, FS_AddElement
  <2>5. Cardinality(Linked') = Cardinality(Linked) + 1
    BY <1>2, <1>12, <2>3, FS_AddElement
  <2>6. nItems' = Cardinality(Linked') - Cardinality(T)
    BY <1>1, <2>2, <2>3, <2>4, <2>5
  <2> QED BY <2>6 DEF CountIsRight, T
<1>22. Referenced'
  <2>1. ASSUME NEW x \in Records
        PROVE  Holders(x)' = Holders(x) /\ (TableHas(x)' <=> TableHas(x))
    <3>1. Holders(x)' = Holders(x)
      BY <1>14, <1>15 DEF Holders
    <3>2. CASE x = r
      <4>1. ~TableHas(x)
        BY <1>2, <3>2 DEF TableHas
      <4>2. ~TableHas(x)'
        BY <1>14, <1>15, <3>2 DEF TableHas
      <4> QED BY <3>1, <4>1, <4>2
    <3>3. CASE x # r
      BY <1>1, <1>12, <1>14, <1>15, <3>1, <3>3 DEF TableHas
    <3> QED BY <3>1, <3>2, <3>3
  <2> QED BY <1>1, <2>1 DEF TableInv, Referenced
<1>23. ASSUME NEW b \in 0 .. nBuckets - 1, NEW p, Stands(p, buckets[b])
       PROVE  /\ Stands(p, buckets'[b])
              /\ \A x \in Keys : WalkedPast(buckets[b], p, x) => WalkedPast(buckets'[b], p, x)
              /\ \A S : S \subseteq Linked /\ Beyond(buckets[b], p, S) => Beyond(buckets'[b], p, S)
  <2>1. CASE b = h
    <3>1. buckets[b] = s /\ buckets'[b] = new
      BY <1>1, <1>3, <2>1 DEF s
    <3>2. /\ s \in Seq(Records) /\ Sorted(s) /\ i \in 1 .. Len(s) + 1 /\ r \in Records
          /\ BehindEqual(s, r, i) /\ r \notin ToSet(s) /\ Stands(p, s)
      BY <1>2, <1>3, <1>4, <1>5, <1>23, <3>1
    <3> HIDE DEF r
    <3>3. /\ Stands(p, new)
          /\ \A x \in Keys : WalkedPast(s, p, x) => WalkedPast(new, p, x)
          /\ \A S : Beyond(s, p, S) /\ r \notin S => Beyond(new, p, S)
      BY ONLY <3>2, InsertionIsBehind DEF new
    <3> QED BY <1>2, <3>1, <3>3
  <2>2. CASE b # h
    <3>1. buckets'[b] = buckets[b]
      BY <1>1, <1>3, <2>2
    <3> QED BY <1>23, <3>1
  <2> QED BY <2>1, <2>2
<1>24. ASSUME NEW u \in Threads
       PROVE  Stance(th[u])'
  <2>1. CASE u = t
    <3>1. Stance(v)'
      BY <1>2, <1>12, <1>14 DEF Stance, Entering, Adding
    <3> QED BY <1>15, <2>1, <3>1
  <2>2. CASE u # t
    <3>1. PICK x : x = th[u] /\ x = th'[u]
      BY <1>15, <2>2
    <3>2. /\ x \in ThreadType /\ Stance(x) /\ r \in Records /\ x.held # r
          /\ x.pc \notin {"deleteIf", "grow"}
      BY <1>1, <1>2, <1>9, <1>16, <2>2, <3>1 DEF TableInv, NobodyOwns, Owning
    <3>3. Stance(x)'
      <4> HIDE DEF r
      <4> QED BY <1>1, <1>9, <1>11, <1>12, <1>23, <3>2, StanceBehind
    <3> QED BY <3>1, <3>3
  <2> QED BY <2>1, <2>2
<1> QED BY <1>12, <1>17, <1>18, <1>19, <1>20, <1>21, <1>22, <1>24 DEF TableInv

-----------------------------------------------------------------------------
(* The theorems.                                                           *)
LEMMA InvBegins ==
  ASSUME TableInit
  PROVE  TableInv
<1>1. /\ nBuckets = Size /\ Size \in Nat \ {0} /\ grown = <<>> /\ nItems = 0
      /\ buckets = [b \in 0 .. Size - 1 |-> <<>>]
      /\ refs = [r \in Records |-> 0] /\ th = [t \in Threads |-> Idle]
  BY TableAssumption DEF TableInit
<1>2. Idle \in ThreadType /\ Idle.pc = "idle" /\ Idle.op = "none" /\ Idle.held = Nil
  BY DEF Idle, ThreadType, ThreadPlaces
<1>3. /\ th \in [Threads -> ThreadType]
      /\ \A t \in Threads : th[t] = Idle /\ th[t].pc = "idle" /\ th[t].held = Nil
  BY <1>1, <1>2
<1>4. buckets \in [0 .. nBuckets - 1 -> Seq(Records)]
  BY <1>1, EmptySeq
<1>5. Nodes(buckets) = {} /\ Nodes(grown) = {} /\ Linked = {}
  BY <1>1, NothingGrown DEF Nodes, ToSet, Linked
<1>6. TableTypes
  BY <1>1, <1>3, <1>4 DEF TableTypes
<1>7. GrownIsOurs
  BY <1>1, <1>3 DEF GrownIsOurs, Grows
<1>8. ChainsAreOrdered
  <2>1. Ordered(buckets, nBuckets)
    BY <1>1 DEF Ordered
  <2> QED BY <1>1, <1>5, <2>1, NothingGrown DEF ChainsAreOrdered
<1>9. CountIsRight
  <2>1. {t \in Threads : th[t].pc \in {"own", "count"}} = {}
    BY <1>3
  <2>2. Cardinality(Linked) = 0 /\ Cardinality({t \in Threads : th[t].pc \in {"own", "count"}}) = 0
    BY <1>5, <2>1, FS_EmptySet
  <2> QED BY <1>1, <2>2 DEF CountIsRight
<1>10. Referenced
  <2>1. ASSUME NEW r \in Records
        PROVE  refs[r] = Cardinality(Holders(r)) + (IF TableHas(r) THEN 1 ELSE 0)
    <3>1. Holders(r) = {}
      BY <1>3, Hashes DEF Holders
    <3>2. Cardinality(Holders(r)) = 0 /\ ~TableHas(r) /\ refs[r] = 0
      BY <1>1, <1>5, <3>1, FS_EmptySet DEF TableHas
    <3> QED BY <3>2
  <2> QED BY <2>1 DEF Referenced
<1>11. OwnerIsAlone /\ OneInserts
  BY <1>3 DEF OwnerIsAlone, OneInserts, Owning, Sharing, Entering, Adding
<1>12. ASSUME NEW t \in Threads
       PROVE  Stance(th[t])
  BY <1>2, <1>3 DEF Stance, Entering, Adding
<1> QED BY <1>6, <1>7, <1>8, <1>9, <1>10, <1>11, <1>12 DEF TableInv

LEMMA InvStays ==
  ASSUME TableInv, [TableNext]_tableVars
  PROVE  TableInv'
<1>1. CASE UNCHANGED tableVars
  <2>1. UNCHANGED <<buckets, nBuckets, grown, nItems, refs, th>>
    BY <1>1 DEF tableVars
  <2>2. Linked' = Linked /\ nNewBuckets' = nNewBuckets /\ Grows' = Grows
    BY <2>1 DEF Linked, nNewBuckets, Grows
  <2>3. TableTypes' /\ GrownIsOurs' /\ ChainsAreOrdered'
    BY <2>1, <2>2 DEF TableInv, TableTypes, GrownIsOurs, ChainsAreOrdered
  <2>4. CountIsRight' /\ Referenced'
    BY <2>1, <2>2 DEF TableInv, CountIsRight, Referenced, Holders, TableHas
  <2>5. OwnerIsAlone' /\ OneInserts'
    BY <2>1 DEF TableInv, OwnerIsAlone, OneInserts, Owning, Sharing, Entering, Adding
  <2>6. ASSUME NEW u \in Threads
        PROVE  Stance(th[u])'
    <3>1. PICK w : w = th[u] /\ w = th'[u]
      BY <2>1
    <3>2. Stance(w)
      BY <3>1 DEF TableInv
    <3> QED BY <2>1, <3>1, <3>2, StanceIsKept
  <2> QED BY <2>3, <2>4, <2>5, <2>6 DEF TableInv
<1>2. CASE \E t \in Threads, r \in Records : InsertRecord(t, r)
  BY <1>2, InsertRecordStep
<1>3. CASE \E t \in Threads, k \in Keys : FindKey(t, k) \/ DeleteKey(t, k)
  BY <1>3, FindKeyStep, DeleteKeyStep
<1>4. CASE \E t \in Threads : DeleteIf(t) \/ DeleteIfNext(t) \/ Clear(t) \/ Apply(t)
  BY <1>4, DeleteIfBegins, DeleteIfNextStep, ClearStep, ApplyStep
<1>5. ASSUME NEW t \in Threads, Proceed(t)
      PROVE  TableInv'
  <2>1. CASE FindNodeInternal(t) \/ TakeReference(t) \/ Link(t) \/ Retry(t)
    BY <2>1, WalkStep, TakeReferenceStep, LinkStep, RetryStep
  <2>2. CASE OwnReference(t) \/ CountItem(t) \/ ApplyNext(t)
    BY <2>2, OwnReferenceStep, CountItemStep, ApplyNextStep
  <2>3. CASE Leave(t)
    <3>1. PICK place : place = IF Succeeded(t) THEN "check" ELSE "done"
      OBVIOUS
    <3>2. /\ th[t].pc \in {"leave", "check", "rehash"} /\ place \in {"check", "rehash", "done"}
          /\ GoesTo(t, place) /\ (place = "done" \/ th[t].op # "apply")
          /\ UNCHANGED <<buckets, sizes, nItems, refs>>
      BY <2>3, <3>1 DEF Leave, Succeeded
    <3> QED BY <3>2, LeavingStep
  <2> QED BY <1>5, <2>1, <2>2, <2>3 DEF Proceed
<1>6. ASSUME NEW t \in Threads, CheckLoad(t)
      PROVE  TableInv'
  <2>1. PICK place : place = IF Crowded THEN "rehash" ELSE "done"
    OBVIOUS
  <2>2. th[t].op # "apply"
    BY <1>6 DEF CheckLoad, TableInv, Stance
  <2>3. /\ th[t].pc \in {"leave", "check", "rehash"} /\ place \in {"check", "rehash", "done"}
        /\ GoesTo(t, place) /\ UNCHANGED <<buckets, sizes, nItems, refs>>
    BY <1>6, <2>1 DEF CheckLoad
  <2> QED BY <2>2, <2>3, LeavingStep
<1>7. ASSUME NEW t \in Threads, Rehash(t)
      PROVE  TableInv'
  <2>1. th[t].pc = "rehash" /\ Free /\ UNCHANGED <<buckets, nBuckets, nItems, refs>>
    BY <1>7 DEF Rehash
  <2>2. CASE /\ grown' = [b \in 0 .. nNewBuckets - 1 |-> <<>>]
             /\ GoesTo(t, "grow")
    BY <2>1, <2>2, GrowthBegins
  <2>3. CASE UNCHANGED grown /\ GoesTo(t, "done")
    <3>1. UNCHANGED <<buckets, sizes, nItems, refs>>
      BY <2>1, <2>3 DEF sizes
    <3> QED BY <2>1, <2>3, <3>1, LeavingStep
  <2> QED BY <1>7, <2>2, <2>3 DEF Rehash
<1>8. CASE \E t \in Threads : MoveNode(t) \/ Grow(t) \/ Return(t)
  BY <1>8, MoveNodeStep, GrowStep, ReturnStep
<1> QED BY <1>1, <1>2, <1>3, <1>4, <1>5, <1>6, <1>7, <1>8 DEF TableNext

\* The inductive invariant of the table.
THEOREM TableInvHolds == TableSpec => []TableInv
<1>1. TableInit => TableInv
  BY InvBegins
<1>2. TableInv /\ [TableNext]_tableVars => TableInv'
  BY InvStays
<1> QED BY <1>1, <1>2, PTL DEF TableSpec

\* Every insertion between its exchange and its increment has a node of its own.
LEMMA AddersHaveNodes ==
  ASSUME TableInv
  PROVE  nItems \in 0 .. Cardinality(Records)
<1> DEFINE S == {u \in Threads : th[u].pc \in {"own", "count"}}
           f == [u \in S |-> th[u].held]
<1>1. \A u \in S : th[u].held \in Linked
  BY DEF TableInv, Stance, Adding
<1>2. \A u, x \in S : th[u].held = th[x].held => u = x
  BY DEF TableInv, OneInserts, Adding
<1>3. f \in Injection(S, Linked)
  BY <1>1, <1>2 DEF Injection, IsInjective
<1>4. IsFiniteSet(S) /\ Cardinality(S) \in Nat
  BY AddersAreFew
<1>5. IsFiniteSet(Linked) /\ Linked \in SUBSET Records
  BY InOrder
<1>6. nItems = Cardinality(Linked) - Cardinality(S)
  BY DEF TableInv, CountIsRight
<1> HIDE DEF S, f
<1>7. Cardinality(S) <= Cardinality(Linked)
  BY <1>3, <1>5, FS_Injection
<1>8. Cardinality(Linked) <= Cardinality(Records) /\ Cardinality(Linked) \in Nat
      /\ Cardinality(Records) \in Nat
  BY <1>5, FS_Subset, FS_CardinalityType, TableAssumption
<1> QED BY <1>4, <1>6, <1>7, <1>8

LEMMA InvIsSafe ==
  ASSUME TableInv
  PROVE  TableSafe
<1>1. \A t \in Threads : ThreadOK(th[t])
  BY DEF TableInv, TableTypes, ThreadType, ThreadPlaces, ThreadOK
<1>2. refs \in [Records -> 0 .. Cardinality(Threads) + 1]
  <2>1. ASSUME NEW r \in Records
        PROVE  refs[r] \in 0 .. Cardinality(Threads) + 1
    <3>1. Holders(r) \in SUBSET Threads
      BY DEF Holders
    <3>2. Cardinality(Holders(r)) <= Cardinality(Threads) /\ Cardinality(Threads) \in Nat
      BY <3>1, FS_Subset, FS_CardinalityType, TableAssumption
    <3>3. refs[r] = Cardinality(Holders(r)) + (IF TableHas(r) THEN 1 ELSE 0)
      BY DEF TableInv, Referenced
    <3> QED BY <3>2, <3>3, HoldersAreFew
  <2> QED BY <2>1 DEF TableInv, TableTypes
<1>3. TableTypeOK
  BY <1>1, <1>2, AddersHaveNodes DEF TableInv, TableTypes, GrownIsOurs, Grows, TableTypeOK
<1>4. ApplyMissesNothing
  BY DEF TableInv, Stance, ApplyMissesNothing
<1> QED BY <1>3, <1>4 DEF TableInv, TableSafe

\* The structure that lets insertions share the lock stays intact whatever
\* races: the types, the order of the chains, the count, and what Apply visits.
THEOREM TableSafeHolds == TableSpec => []TableSafe
<1>1. TableInv => TableSafe
  BY InvIsSafe
<1> QED BY <1>1, TableInvHolds, PTL

LEMMA InvKeepsRecords ==
  ASSUME TableInv
  PROVE  RecordsAreAlive
<1>1. \A r \in Records :
        refs[r] = Cardinality({t \in Threads : th[t].held = r})
                  + (IF r \in Linked /\ \A t \in Threads : th[t].pc = "own" => th[t].held # r
                     THEN 1 ELSE 0)
  BY DEF TableInv, Referenced, Holders, TableHas
<1>2. ASSUME NEW t \in Threads, th[t].pc \in {"walk", "take", "link", "apply", "deleteIf"}
      PROVE  {th[t].prev, th[t].cur} \ {Nil} \subseteq Linked
  <2>1. Stance(th[t])
    BY DEF TableInv
  <2>2. CASE th[t].pc \in {"walk", "link"}
    <3>1. /\ th[t].key \in Keys /\ Stands(th[t].prev, BucketOf(th[t].key))
          /\ th[t].cur = Nil \/ Stands(th[t].cur, BucketOf(th[t].key))
      BY <2>1, <2>2 DEF Stance, Walking
    <3>2. ToSet(BucketOf(th[t].key)) \subseteq Linked
      BY <3>1, Buckets DEF Linked
    <3> QED BY <3>1, <3>2 DEF Stands
  <2>3. CASE th[t].pc = "take"
    BY <2>1, <2>3 DEF Stance
  <2>4. CASE th[t].pc \in {"apply", "deleteIf"}
    <3>1. th[t].cur = Nil /\ th[t].b \in 0 .. nBuckets - 1 /\ Stands(th[t].prev, buckets[th[t].b])
      BY <2>1, <2>4 DEF Stance, Visiting
    <3>2. ToSet(buckets[th[t].b]) \subseteq Linked
      BY <3>1, BucketIsSorted
    <3> QED BY <3>1, <3>2 DEF Stands
  <2> QED BY <1>2, <2>2, <2>3, <2>4
<1> QED BY <1>1, <1>2 DEF RecordsAreAlive

\* The references to a record are those of its callers and the table's own, and
\* no thread stands on memory that has been freed.
THEOREM RecordsAreAliveHolds == TableSpec => []RecordsAreAlive
<1>1. TableInv => RecordsAreAlive
  BY InvKeepsRecords
<1> QED BY <1>1, TableInvHolds, PTL

-----------------------------------------------------------------------------
(* The table implements the map of records.                                *)
TheCalls == [t \in Threads |-> TheCall(th[t])]

LEMMA MapAt ==
  ASSUME TableInv, NEW k \in Keys
  PROVE  /\ \A r \in Linked : KeyOf[r] = k => TheMap[k] = r
         /\ (\A r \in Linked : KeyOf[r] # k) => TheMap[k] = Nil
<1>1. \A r, s \in Linked : KeyOf[r] = KeyOf[s] => r = s
  BY InOrder
<1>2. TheMap[k] = IF \E r \in Linked : KeyOf[r] = k
                  THEN CHOOSE r \in Linked : KeyOf[r] = k ELSE Nil
  BY DEF TheMap
<1>3. ASSUME NEW r \in Linked, KeyOf[r] = k
      PROVE  TheMap[k] = r
  <2>1. \A s \in Linked : KeyOf[s] = k => s = r
    BY <1>1, <1>3
  <2>2. (CHOOSE s \in Linked : KeyOf[s] = k) = r
    BY <1>3, <2>1
  <2> QED BY <1>2, <1>3, <2>2
<1> QED BY <1>2, <1>3

LEMMA MapIsKept ==
  ASSUME Linked' = Linked
  PROVE  TheMap' = TheMap
  BY DEF TheMap

LEMMA CallsAt ==
  ASSUME TableTypes, NEW t \in Threads, NEW v, Becomes(t, v)
  PROVE  /\ TheCalls' = [TheCalls EXCEPT ![t] = TheCall(v)]
         /\ TheCalls[t] = TheCall(th[t])
<1>1. th'[t] = v /\ \A u \in Threads \ {t} : th'[u] = th[u]
  BY ThreadStep
<1>2. TheCalls' = [u \in Threads |-> TheCall(th'[u])]
  BY DEF TheCalls
<1>3. \A u \in Threads : TheCall(th'[u]) = IF u = t THEN TheCall(v) ELSE TheCall(th[u])
  BY <1>1
<1> HIDE DEF TheCall
<1> QED BY <1>2, <1>3 DEF TheCalls

\* A step that a caller cannot see.
SameCall(v, w) ==
  \/ v.op \notin {"find", "insert"} /\ w.op \notin {"find", "insert"}
  \/ /\ v.op = w.op /\ v.key = w.key /\ (v.op = "insert" => v.held = w.held)
     /\ \/ Open(v) /\ Open(w)
        \/ ~Open(v) /\ ~Open(w) /\ Answer(v) = Answer(w)

LEMMA CallsAreTheSame ==
  ASSUME NEW v, NEW w, SameCall(v, w)
  PROVE  TheCall(v) = TheCall(w)
<1>1. CASE v.op \notin {"find", "insert"} /\ w.op \notin {"find", "insert"}
  BY <1>1 DEF TheCall
<1>2. CASE /\ v.op = w.op /\ v.key = w.key /\ (v.op = "insert" => v.held = w.held)
           /\ \/ Open(v) /\ Open(w)
              \/ ~Open(v) /\ ~Open(w) /\ Answer(v) = Answer(w)
  <2>1. Open(v) = Open(w) /\ Answer(v) = Answer(w)
    BY <1>2 DEF Open, Answer
  <2>2. (IF v.op = "insert" THEN v.held ELSE Nil) = IF w.op = "insert" THEN w.held ELSE Nil
    BY <1>2
  <2> QED BY <1>2, <2>1, <2>2, Zenon DEF TheCall
<1> QED BY <1>1, <1>2 DEF SameCall

LEMMA Unseen ==
  ASSUME NEW t \in Threads, Linked' = Linked,
         \A u \in Threads \ {t} : th'[u] = th[u], SameCall(th'[t], th[t])
  PROVE  UNCHANGED <<TheMap, TheCalls>>
<1>1. \A u \in Threads : TheCall(th'[u]) = TheCall(th[u])
  BY CallsAreTheSame
<1>2. TheCalls' = [u \in Threads |-> TheCall(th'[u])]
  BY DEF TheCalls
<1> HIDE DEF TheCall
<1>3. TheCalls' = TheCalls
  BY <1>1, <1>2 DEF TheCalls
<1> QED BY <1>3, MapIsKept

LEMMA Begins ==
  ASSUME TableInv, NEW t \in Threads, NEW v, Becomes(t, v), Linked' = Linked,
         th[t] = Idle, v.op \in {"find", "insert"}, v.pc = "walk", v.key \in Keys,
         v.op = "find" => v.held = Nil, v.op = "insert" => v.held \in Records
  PROVE  Map!Next
<1>1. TheCalls' = [TheCalls EXCEPT ![t] = TheCall(v)] /\ TheCalls[t] = TheCall(th[t])
  BY CallsAt DEF TableInv
<1>2. TheCalls[t] = Map!Quiet
  BY <1>1 DEF TheCall, Idle, Map!Quiet
<1>3. PICK r : r = IF v.op = "insert" THEN v.held ELSE Nil
  OBVIOUS
<1>4. TheCall(v) = [op |-> v.op, key |-> v.key, rec |-> r, open |-> TRUE, answer |-> Nil]
  BY <1>3 DEF TheCall, Open, Answer
<1>5. UNCHANGED TheMap
  BY MapIsKept
<1>6. Map!Begin(t, v.op, v.key, r)
  BY <1>1, <1>2, <1>4, <1>5 DEF Map!Begin, TheCalls
<1>7. (v.op = "find" /\ r = Nil) \/ (v.op = "insert" /\ r \in Records)
  BY <1>3
<1> QED BY <1>6, <1>7 DEF Map!Next

LEMMA MeetsOrEnters ==
  ASSUME TableInv, NEW t \in Threads, NEW v, Becomes(t, v),
         Open(th[t]), th[t].op \in {"find", "insert"}, ~Open(v),
         v.op = th[t].op, v.key = th[t].key, v.held = th[t].held, th[t].key \in Keys,
         \/ /\ Linked' = Linked /\ Answer(v) = TheMap[th[t].key]
            /\ v.op = "find" \/ TheMap[th[t].key] # Nil
         \/ /\ v.op = "insert" /\ TheMap[th[t].key] = Nil /\ Answer(v) = th[t].held
            /\ TheMap' = [TheMap EXCEPT ![th[t].key] = th[t].held]
  PROVE  Map!Next
<1> DEFINE w == th[t]
<1>1. TheCalls' = [TheCalls EXCEPT ![t] = TheCall(v)] /\ TheCalls[t] = TheCall(w)
  BY CallsAt DEF TableInv
<1>2. PICK r : r = IF w.op = "insert" THEN w.held ELSE Nil
  OBVIOUS
<1>3. PICK c : c = TheCalls[t]
  OBVIOUS
<1>4. c = [op |-> w.op, key |-> w.key, rec |-> r, open |-> TRUE, answer |-> Nil]
  BY <1>1, <1>2, <1>3 DEF TheCall, Open, Answer
<1>5. PICK d, a : d = TheCall(v) /\ a = Answer(v)
  OBVIOUS
<1>6. d = [op |-> w.op, key |-> w.key, rec |-> r, open |-> FALSE, answer |-> a]
  <2>1. Open(v) = FALSE
    BY DEF Open
  <2>2. d = [op |-> v.op, key |-> v.key, rec |-> IF v.op = "insert" THEN v.held ELSE Nil,
             open |-> Open(v), answer |-> a]
    BY <1>5 DEF TheCall
  <2>3. d = [op |-> w.op, key |-> w.key, rec |-> r, open |-> Open(v), answer |-> a]
    BY <1>2, <2>2
  <2> QED BY <2>1, <2>3, Zenon
<1>7. d = [c EXCEPT !.open = FALSE, !.answer = a]
  <2>1. PICK e : e = [c EXCEPT !.open = FALSE, !.answer = a]
    OBVIOUS
  <2>2. e = [op |-> w.op, key |-> w.key, rec |-> r, open |-> FALSE, answer |-> a]
    BY <1>4, <2>1
  <2> QED BY <1>6, <2>1, <2>2
<1>8. TheCalls' = [TheCalls EXCEPT ![t].open = FALSE, ![t].answer = a]
  BY <1>1, <1>3, <1>5, <1>7 DEF TheCalls
<1>9. /\ TheCalls[t].open /\ TheCalls[t].op = w.op /\ TheCalls[t].key = w.key
      /\ TheCalls[t].rec = r
  BY <1>3, <1>4
<1>10. CASE /\ Linked' = Linked /\ Answer(v) = TheMap[w.key]
            /\ v.op = "find" \/ TheMap[w.key] # Nil
  <2>1. UNCHANGED TheMap
    BY <1>10, MapIsKept
  <2>2. Map!Meet(t)
    BY <1>5, <1>8, <1>9, <1>10, <2>1 DEF Map!Meet, TheCalls
  <2> QED BY <2>2 DEF Map!Next
<1>11. CASE /\ v.op = "insert" /\ TheMap[w.key] = Nil /\ Answer(v) = w.held
            /\ TheMap' = [TheMap EXCEPT ![w.key] = w.held]
  <2>1. r = w.held
    BY <1>2, <1>11
  <2>2. a = r /\ TheMap' = [TheMap EXCEPT ![w.key] = r] /\ TheMap[w.key] = Nil /\ w.op = "insert"
    BY <1>5, <1>11, <2>1
  <2> HIDE DEF w
  <2>3. Map!Enter(t)
    BY <1>8, <1>9, <2>2 DEF Map!Enter, TheCalls
  <2> QED BY <2>3 DEF Map!Next
<1> QED BY <1>10, <1>11

LEMMA Removes ==
  ASSUME TableInv, TableInv', UNCHANGED th, NEW S, Linked' = Linked \ S
  PROVE  Map!Next
<1>1. TheCalls' = TheCalls
  BY DEF TheCalls
<1> DEFINE K == {k \in Keys : \E r \in Linked \cap S : KeyOf[r] = k}
<1>2. \A r, s \in Linked : KeyOf[r] = KeyOf[s] => r = s
  BY InOrder
<1>3. ASSUME NEW k \in Keys
      PROVE  TheMap'[k] = IF k \in K THEN Nil ELSE TheMap[k]
  <2>1. TheMap'[k] = IF \E r \in Linked' : KeyOf[r] = k
                     THEN CHOOSE r \in Linked' : KeyOf[r] = k ELSE Nil
    BY DEF TheMap
  <2>2. CASE k \in K
    <3>1. ~ \E r \in Linked' : KeyOf[r] = k
      BY <1>2, <2>2
    <3> QED BY <2>1, <2>2, <3>1
  <2>3. CASE k \notin K
    <3>1. \A r : (r \in Linked' /\ KeyOf[r] = k) <=> (r \in Linked /\ KeyOf[r] = k)
      BY <2>3
    <3>2. CASE \E r \in Linked : KeyOf[r] = k
      <4>1. PICK r \in Linked : KeyOf[r] = k
        BY <3>2
      <4>2. TheMap[k] = r
        BY <4>1, MapAt
      <4>3. \A s \in Linked' : KeyOf[s] = k => s = r
        BY <1>2, <3>1, <4>1
      <4>4. r \in Linked' /\ (CHOOSE s \in Linked' : KeyOf[s] = k) = r
        BY <3>1, <4>1, <4>3
      <4> QED BY <2>1, <2>3, <4>1, <4>2, <4>4
    <3>3. CASE \A r \in Linked : KeyOf[r] # k
      <4>1. TheMap[k] = Nil
        BY <3>3, MapAt
      <4> QED BY <2>1, <2>3, <3>1, <3>3, <4>1
    <3> QED BY <3>2, <3>3
  <2> QED BY <2>2, <2>3
<1>4. K \in SUBSET Keys
  OBVIOUS
<1>5. TheMap' = [k \in Keys |-> TheMap'[k]]
  BY DEF TheMap
<1> HIDE DEF K
<1>6. TheMap' = [k \in Keys |-> IF k \in K THEN Nil ELSE TheMap[k]]
  BY <1>3, <1>5
<1>7. Map!Remove(K)
  BY <1>1, <1>6 DEF Map!Remove, TheCalls
<1> QED BY <1>4, <1>7 DEF Map!Next

LEMMA ReturnIsSeen ==
  ASSUME TableInv, NEW t \in Threads, Return(t)
  PROVE  Map!Next \/ UNCHANGED <<TheMap, TheCalls>>
<1> DEFINE w == th[t]
<1>1. /\ TableTypes /\ w.pc = "done" /\ UNCHANGED <<buckets, sizes>> /\ th \in [Threads -> ThreadType]
      /\ th' = [th EXCEPT ![t] = Idle]
  BY DEF Return, TableInv, TableTypes
<1>2. PICK v : v = Idle
  OBVIOUS
<1>3. /\ v \in ThreadType /\ v.op = "none"
  BY <1>2 DEF Idle, ThreadType, ThreadPlaces
<1>4. Becomes(t, v) /\ th'[t] = v /\ \A u \in Threads \ {t} : th'[u] = th[u]
  BY <1>1, <1>2, <1>3 DEF Becomes
<1>5. Linked' = Linked
  BY <1>1 DEF Linked, sizes
<1>6. CASE w.op \notin {"find", "insert"}
  BY <1>3, <1>4, <1>5, <1>6, Unseen DEF SameCall
<1>7. CASE w.op \in {"find", "insert"}
  <2>1. TheCalls' = [TheCalls EXCEPT ![t] = TheCall(v)] /\ TheCalls[t] = TheCall(w)
    BY <1>1, <1>4, CallsAt
  <2>2. TheCall(v) = Map!Quiet
    BY <1>3 DEF TheCall, Map!Quiet
  <2>3. PICK c : c = TheCall(w)
    OBVIOUS
  <2>4. Open(w) = FALSE
    BY <1>1 DEF Open
  <2>5. c.op = w.op /\ c.open = Open(w)
    BY <1>7, <2>3 DEF TheCall
  <2>6. c # Map!Quiet /\ ~c.open
    BY <1>7, <2>4, <2>5 DEF Map!Quiet
  <2>7. UNCHANGED TheMap
    BY <1>5, MapIsKept
  <2>8. Map!End(t)
    BY <2>1, <2>2, <2>3, <2>6, <2>7 DEF Map!End, TheCalls
  <2> QED BY <2>8 DEF Map!Next
<1> QED BY <1>6, <1>7

LEMMA CallIsSeen ==
  ASSUME TableInv, NEW t \in Threads,
         (\E r \in Records : InsertRecord(t, r)) \/ (\E k \in Keys : FindKey(t, k))
  PROVE  Map!Next
<1>1. th[t] = Idle /\ th \in [Threads -> ThreadType] /\ UNCHANGED <<buckets, sizes>>
  BY DEF InsertRecord, FindKey, TableInv, TableTypes, Stance
<1>2. Linked' = Linked
  BY <1>1 DEF Linked, sizes
<1>3. ASSUME NEW r \in Records, InsertRecord(t, r)
      PROVE  Map!Next
  <2>1. PICK v : v = [Idle EXCEPT !.pc = "walk", !.op = "insert", !.key = KeyOf[r], !.held = r]
    OBVIOUS
  <2>2. /\ v.pc = "walk" /\ v.op = "insert" /\ v.key = KeyOf[r] /\ v.held = r /\ KeyOf[r] \in Keys
        /\ v = [pc |-> "walk", op |-> "insert", key |-> KeyOf[r], prev |-> Nil, cur |-> Nil,
                held |-> r, due |-> {}, b |-> 0]
    BY <2>1, Hashes DEF Idle
  <2>3. v \in ThreadType
    BY <2>2 DEF ThreadType, ThreadPlaces
  <2>4. Becomes(t, v)
    BY <1>3, <2>1, <2>3 DEF InsertRecord, Becomes
  <2> QED BY <1>1, <1>2, <2>2, <2>4, Begins
<1>4. ASSUME NEW k \in Keys, FindKey(t, k)
      PROVE  Map!Next
  <2>1. PICK v : v = [Idle EXCEPT !.pc = "walk", !.op = "find", !.key = k]
    OBVIOUS
  <2>2. /\ v \in ThreadType /\ v.pc = "walk" /\ v.op = "find" /\ v.key = k /\ v.held = Nil
    BY <2>1 DEF Idle, ThreadType, ThreadPlaces
  <2>3. Becomes(t, v)
    BY <1>4, <2>1, <2>2 DEF FindKey, Becomes
  <2> QED BY <1>1, <1>2, <2>2, <2>3, Begins
<1> QED BY <1>3, <1>4

\* A search ends where the key is or where it would be.
LEMMA WalkIsSeen ==
  ASSUME TableInv, NEW t \in Threads, FindNodeInternal(t)
  PROVE  Map!Next \/ UNCHANGED <<TheMap, TheCalls>>
<1> DEFINE w == th[t]
           node == After(BucketOf(w.key), w.prev)
           Hit == ~StopsAt(w.key, node) /\ KeyOf[node] = w.key
<1>1. /\ w \in ThreadType /\ Stance(w) /\ w.pc = "walk" /\ th \in [Threads -> ThreadType]
      /\ UNCHANGED <<buckets, sizes>>
  BY DEF FindNodeInternal, TableInv, TableTypes
<1>2. Walking(w) /\ w.op \in {"insert", "find"} /\ w.key \in Keys
  BY <1>1 DEF Stance, Walking
<1>3. Linked = Nodes(buckets) /\ Linked' = Linked
  BY <1>1, SharedTable DEF Sharing, Linked, sizes
<1>4. /\ BucketOf(w.key) \in Seq(Records) /\ Sorted(BucketOf(w.key)) /\ Distinct(BucketOf(w.key))
      /\ ToSet(BucketOf(w.key)) \subseteq Linked
      /\ \A r \in Linked : KeyOf[r] = w.key => r \in ToSet(BucketOf(w.key))
      /\ Stands(w.prev, BucketOf(w.key)) /\ WalkedPast(BucketOf(w.key), w.prev, w.key)
  BY <1>2, <1>3, Buckets DEF Walking
<1>5. Stands(node, BucketOf(w.key))
  BY <1>4, Standing
<1>6. Hit => node \in Linked /\ node # Nil /\ TheMap[w.key] = node
  <2>1. Hit => node \in Linked
    BY <1>4, <1>5 DEF Stands, StopsAt
  <2> QED BY <1>2, <2>1, MapAt, InOrder, Hashes
<1>7. StopsAt(w.key, node) => TheMap[w.key] = Nil
  <2>1. ASSUME StopsAt(w.key, node)
        PROVE  \A x \in ToSet(BucketOf(w.key)) : KeyOf[x] # w.key
    BY <1>2, <1>4, <2>1, NotThere
  <2> QED BY <1>2, <1>4, <2>1, MapAt
<1>8. PICK pc, prev, cur :
        /\ th' = [th EXCEPT ![t].pc = pc, ![t].prev = prev, ![t].cur = cur]
        /\ \/ pc = "walk"
           \/ Hit /\ w.op = "find" /\ pc = "take" /\ cur = node
           \/ Hit /\ w.op = "insert" /\ pc = "leave" /\ cur = node
           \/ StopsAt(w.key, node) /\ w.op = "find" /\ pc = "leave" /\ cur = Nil
           \/ pc = "link"
  BY DEF FindNodeInternal
<1>9. PICK v : v = [w EXCEPT !.pc = pc, !.prev = prev, !.cur = cur]
  OBVIOUS
<1>10. /\ th' = [th EXCEPT ![t] = v] /\ th'[t] = v /\ \A u \in Threads \ {t} : th'[u] = th[u]
       /\ v.pc = pc /\ v.cur = cur /\ v.op = w.op /\ v.key = w.key /\ v.held = w.held
  BY <1>1, <1>8, <1>9 DEF ThreadType
<1>11. CASE pc \in {"walk", "link"}
  <2>1. SameCall(v, w)
    BY <1>1, <1>10, <1>11 DEF SameCall, Open
  <2> QED BY <1>3, <1>10, <2>1, Unseen
<1>12. CASE pc \in {"take", "leave"}
  <2>1. Becomes(t, v)
    BY <1>10, WalkStep DEF TableInv, TableTypes, Becomes
  <2>2. Open(w) /\ ~Open(v) /\ Answer(v) = cur
    BY <1>1, <1>10, <1>12 DEF Open, Answer
  <2>3. cur = TheMap[w.key] /\ (v.op = "find" \/ TheMap[w.key] # Nil)
    <3>1. CASE Hit
      BY <1>6, <1>7, <1>8, <1>10, <1>12, <3>1
    <3>2. CASE ~Hit
      BY <1>6, <1>7, <1>8, <1>10, <1>12, <3>2
    <3> QED BY <3>1, <3>2
  <2> HIDE DEF node, Hit
  <2> QED BY <1>2, <1>3, <1>10, <2>1, <2>2, <2>3, MeetsOrEnters
<1> QED BY <1>8, <1>11, <1>12

\* The exchange is the moment of an insertion.
LEMMA LinkIsSeen ==
  ASSUME TableInv, NEW t \in Threads, Link(t)
  PROVE  Map!Next
<1> DEFINE w == th[t]
<1>1. /\ w \in ThreadType /\ Stance(w) /\ w.pc = "link" /\ th \in [Threads -> ThreadType] /\ Fits(t)
  BY DEF Link, TableInv, TableTypes
<1>2. /\ w.op = "insert" /\ w.key \in Keys /\ w.held \in Records /\ KeyOf[w.held] = w.key
      /\ StopsAt(w.key, After(BucketOf(w.key), w.prev))
      /\ Stands(w.prev, BucketOf(w.key)) /\ WalkedPast(BucketOf(w.key), w.prev, w.key)
  BY <1>1 DEF Stance, Walking, Fits
<1>3. Linked = Nodes(buckets)
  BY <1>1, SharedTable DEF Sharing
<1>4. /\ BucketOf(w.key) \in Seq(Records) /\ Sorted(BucketOf(w.key))
      /\ \A r \in Linked : KeyOf[r] = w.key => r \in ToSet(BucketOf(w.key))
  BY <1>2, <1>3, Buckets
<1>5. \A r \in Linked : KeyOf[r] # w.key
  <2>1. \A x \in ToSet(BucketOf(w.key)) : KeyOf[x] # w.key
    BY <1>2, <1>4, NotThere
  <2> QED BY <1>4, <2>1
<1>6. TableInv' /\ Linked' = Linked \cup {w.held}
  BY LinkStep
<1>7. PICK v : v = [w EXCEPT !.pc = "own", !.prev = Nil, !.cur = Nil]
  OBVIOUS
<1>8. /\ th' = [th EXCEPT ![t] = v] /\ th'[t] = v /\ v.pc = "own" /\ v.op = w.op /\ v.key = w.key
      /\ v.held = w.held
  BY <1>1, <1>7 DEF Link, ThreadType
<1>9. Becomes(t, v)
  BY <1>6, <1>8 DEF TableInv, TableTypes, Becomes
<1>10. Open(w) /\ ~Open(v) /\ Answer(v) = w.held
  BY <1>1, <1>8 DEF Open, Answer
<1>11. TheMap[w.key] = Nil
  BY <1>2, <1>5, MapAt
<1>12. TheMap' = [TheMap EXCEPT ![w.key] = w.held]
  <2>1. ASSUME NEW k \in Keys
        PROVE  TheMap'[k] = IF k = w.key THEN w.held ELSE TheMap[k]
    <3>1. TheMap'[k] = IF \E r \in Linked' : KeyOf[r] = k
                       THEN CHOOSE r \in Linked' : KeyOf[r] = k ELSE Nil
      BY DEF TheMap
    <3>2. CASE k = w.key
      <4>1. w.held \in Linked' /\ \A r \in Linked' : KeyOf[r] = k => r = w.held
        BY <1>5, <1>6, <3>2
      <4>2. (CHOOSE r \in Linked' : KeyOf[r] = k) = w.held
        BY <1>2, <3>2, <4>1
      <4> QED BY <1>2, <3>1, <3>2, <4>1, <4>2
    <3>3. CASE k # w.key
      <4>1. \A r : (r \in Linked' /\ KeyOf[r] = k) <=> (r \in Linked /\ KeyOf[r] = k)
        BY <1>2, <1>6, <3>3
      <4>2. CASE \E r \in Linked : KeyOf[r] = k
        <5>1. PICK r \in Linked : KeyOf[r] = k
          BY <4>2
        <5>2. TheMap[k] = r /\ \A s \in Linked : KeyOf[s] = k => s = r
          BY <5>1, MapAt, InOrder
        <5>3. r \in Linked' /\ \A s \in Linked' : KeyOf[s] = k => s = r
          BY <4>1, <5>1, <5>2
        <5>4. (CHOOSE s \in Linked' : KeyOf[s] = k) = r
          BY <5>1, <5>3
        <5> QED BY <3>1, <3>3, <5>1, <5>2, <5>3, <5>4
      <4>3. CASE \A r \in Linked : KeyOf[r] # k
        <5>1. TheMap[k] = Nil
          BY <4>3, MapAt
        <5> QED BY <3>1, <3>3, <4>1, <4>3, <5>1
      <4> QED BY <4>2, <4>3
    <3> QED BY <3>2, <3>3
  <2>2. TheMap' = [k \in Keys |-> TheMap'[k]] /\ TheMap = [k \in Keys |-> TheMap[k]]
    BY DEF TheMap
  <2> HIDE DEF w
  <2>3. PICK m, n : m = TheMap' /\ n = TheMap
    OBVIOUS
  <2>4. /\ m = [k \in Keys |-> m[k]] /\ n = [k \in Keys |-> n[k]]
        /\ \A k \in Keys : m[k] = IF k = w.key THEN w.held ELSE n[k]
    BY <2>1, <2>2, <2>3
  <2>5. m = [n EXCEPT ![w.key] = w.held]
    BY ONLY <2>4
  <2> QED BY <2>3, <2>5
<1> QED BY <1>2, <1>8, <1>9, <1>10, <1>11, <1>12, MeetsOrEnters

LEMMA OthersAreUnseen ==
  ASSUME TableInv, NEW t \in Threads,
         \/ TakeReference(t) \/ Retry(t) \/ OwnReference(t) \/ CountItem(t) \/ Leave(t)
         \/ CheckLoad(t) \/ Rehash(t) \/ MoveNode(t) \/ Grow(t)
         \/ Apply(t) \/ ApplyNext(t) \/ DeleteIf(t)
  PROVE  UNCHANGED <<TheMap, TheCalls>>
<1> DEFINE w == th[t]
<1>1. w \in ThreadType /\ Stance(w) /\ th \in [Threads -> ThreadType]
  BY DEF TableInv, TableTypes
<1>2. ASSUME UNCHANGED <<buckets, sizes>>
      PROVE  Linked' = Linked
  BY <1>2 DEF Linked, sizes
<1>3. CASE TakeReference(t)
  <2>1. /\ w.pc = "take" /\ w.op = "find" /\ Linked' = Linked
        /\ \A u \in Threads \ {t} : th'[u] = th[u]
        /\ th'[t].pc = "leave" /\ th'[t].op = w.op /\ th'[t].key = w.key /\ th'[t].cur = w.cur
    BY <1>1, <1>2, <1>3 DEF TakeReference, ThreadType, Stance
  <2> QED BY <2>1, Unseen DEF SameCall, Open, Answer
<1>4. CASE Retry(t)
  <2>1. /\ w.pc = "link" /\ Linked' = Linked /\ \A u \in Threads \ {t} : th'[u] = th[u]
        /\ th'[t].pc = "walk" /\ th'[t].op = w.op /\ th'[t].key = w.key /\ th'[t].held = w.held
    BY <1>1, <1>2, <1>4 DEF Retry, ThreadType
  <2> QED BY <2>1, Unseen DEF SameCall, Open
<1>5. CASE OwnReference(t)
  <2>1. /\ w.pc = "own" /\ Linked' = Linked /\ \A u \in Threads \ {t} : th'[u] = th[u]
        /\ th'[t].pc = "count" /\ th'[t].op = w.op /\ th'[t].key = w.key /\ th'[t].held = w.held
    BY <1>1, <1>2, <1>5 DEF OwnReference, GoesTo, ThreadType
  <2> QED BY <2>1, Unseen DEF SameCall, Open, Answer
<1>6. CASE CountItem(t)
  <2>1. /\ w.pc = "count" /\ Linked' = Linked /\ \A u \in Threads \ {t} : th'[u] = th[u]
        /\ th'[t].pc = "leave" /\ th'[t].op = w.op /\ th'[t].key = w.key /\ th'[t].held = w.held
        /\ th'[t].cur = w.held
    BY <1>1, <1>2, <1>6 DEF CountItem, ThreadType
  <2> QED BY <2>1, Unseen DEF SameCall, Open, Answer
<1>7. ASSUME Linked' = Linked, w.pc \in {"leave", "check", "rehash", "grow"},
             NEW place \in {"check", "rehash", "done", "grow"},
             GoesTo(t, place)
      PROVE  UNCHANGED <<TheMap, TheCalls>>
  <2>1. /\ \A u \in Threads \ {t} : th'[u] = th[u]
        /\ th'[t].pc = place
        /\ th'[t].op = w.op /\ th'[t].key = w.key /\ th'[t].held = w.held /\ th'[t].cur = w.cur
    BY <1>1, <1>7 DEF GoesTo, ThreadType
  <2>2. ~Open(w) /\ ~Open(th'[t]) /\ Answer(w) = w.cur /\ Answer(th'[t]) = th'[t].cur
    BY <1>7, <2>1 DEF Open, Answer
  <2> QED BY <1>7, <2>1, <2>2, Unseen DEF SameCall
<1>8. CASE Leave(t) \/ CheckLoad(t)
  <2>1. PICK place \in {"check", "rehash", "done"} : GoesTo(t, place)
    BY <1>8 DEF Leave, CheckLoad
  <2>2. Linked' = Linked /\ w.pc \in {"leave", "check", "rehash", "grow"}
    BY <1>2, <1>8 DEF Leave, CheckLoad
  <2> QED BY <1>7, <2>1, <2>2
<1>9. CASE Rehash(t)
  <2>1. /\ w.pc = "rehash" /\ buckets' = buckets /\ Free
    BY <1>9 DEF Rehash
  <2>2. CASE /\ grown' = [b \in 0 .. nNewBuckets - 1 |-> <<>>]
             /\ GoesTo(t, "grow")
    <3>1. Linked = Nodes(buckets)
      BY <2>1, SharedTable DEF Free
    <3>2. Nodes(grown') = {}
      <4> HIDE DEF nNewBuckets
      <4> QED BY <2>2 DEF Nodes, ToSet
    <3>3. Linked' = Linked
      BY <2>1, <3>1, <3>2 DEF Linked
    <3> QED BY <1>7, <2>1, <2>2, <3>3
  <2>3. CASE UNCHANGED grown /\ GoesTo(t, "done")
    <3>1. Linked' = Linked
      BY <2>1, <2>3 DEF Linked
    <3> QED BY <1>7, <2>1, <2>3, <3>1
  <2> QED BY <1>9, <2>2, <2>3 DEF Rehash
<1>10. CASE MoveNode(t)
  <2>1. Linked' = Linked
    BY <1>10, MoveNodeStep
  <2>2. th' = th
    BY <1>10 DEF MoveNode
  <2> QED BY <2>1, <2>2, MapIsKept DEF TheCalls
<1>11. CASE Grow(t)
  <2>1. Linked' = Linked
    BY <1>11, GrowStep
  <2>2. w.pc = "grow" /\ GoesTo(t, "done")
    BY <1>11 DEF Grow
  <2> QED BY <1>7, <2>1, <2>2
<1>12. CASE Apply(t) \/ ApplyNext(t) \/ DeleteIf(t)
  <2>1. UNCHANGED <<buckets, sizes>>
    BY <1>12 DEF Apply, ApplyNext, DeleteIf
  <2>2. w.op \in {"none", "apply"}
    BY <1>1, <1>12 DEF Apply, ApplyNext, DeleteIf, Stance, Idle
  <2>3. CASE Apply(t)
    <3>1. (\A u \in Threads \ {t} : th'[u] = th[u]) /\ th'[t].op = "apply"
      BY <1>1, <2>3 DEF Apply, Idle
    <3> QED BY <1>2, <2>1, <2>2, <3>1, Unseen DEF SameCall
  <2>4. CASE ApplyNext(t) \/ DeleteIf(t)
    <3>1. (\A u \in Threads \ {t} : th'[u] = th[u]) /\ th'[t].op = w.op
      BY <1>1, <2>4 DEF ApplyNext, DeleteIf, NextBucket, ThreadType
    <3> QED BY <1>2, <2>1, <2>2, <3>1, Unseen DEF SameCall
  <2> QED BY <1>12, <2>3, <2>4
<1> QED BY <1>3, <1>4, <1>5, <1>6, <1>8, <1>9, <1>10, <1>11, <1>12

\* Records leave the map when they leave the table.
LEMMA DeletionIsSeen ==
  ASSUME TableInv, NEW t \in Threads,
         (\E k \in Keys : DeleteKey(t, k)) \/ Clear(t) \/ DeleteIfNext(t)
  PROVE  Map!Next \/ UNCHANGED <<TheMap, TheCalls>>
<1> DEFINE w == th[t]
<1>1. CASE \E k \in Keys : DeleteKey(t, k)
  <2>1. TableInv' /\ UNCHANGED th /\ \E S : Linked' = Linked \ S
    BY <1>1, DeleteKeyStep
  <2> QED BY <2>1, Removes
<1>2. CASE Clear(t)
  <2>1. TableInv' /\ UNCHANGED th /\ Linked' = Linked \ Linked
    BY <1>2, ClearStep DEF Clear
  <2> QED BY <2>1, Removes
<1>3. CASE DeleteIfNext(t)
  <2>1. TableInv'
    BY <1>3, DeleteIfNextStep
  <2>2. w.op = "none" /\ w \in ThreadType /\ th \in [Threads -> ThreadType]
    BY <1>3 DEF DeleteIfNext, TableInv, TableTypes, Stance
  <2>3. CASE UNCHANGED th /\ \E S : Linked' = Linked \ S
    BY <2>1, <2>3, Removes
  <2>4. CASE /\ UNCHANGED <<buckets, sizes>>
             /\ \/ th' = [th EXCEPT ![t].prev = NodeAt(t)]
                \/ NextBucket(t)
                \/ th' = [th EXCEPT ![t] = Idle]
    <3>1. Linked' = Linked
      BY <2>4 DEF Linked, sizes
    <3>2. (\A u \in Threads \ {t} : th'[u] = th[u]) /\ th'[t].op = "none"
      BY <2>2, <2>4 DEF NextBucket, Idle, ThreadType
    <3> QED BY <2>2, <3>1, <3>2, Unseen DEF SameCall
  <2> QED BY <1>3, <2>3, <2>4, DeleteIfNextStep
<1> QED BY <1>1, <1>2, <1>3

LEMMA StepIsSeen ==
  ASSUME TableInv, [TableNext]_tableVars
  PROVE  [Map!Next]_(Map!vars)
<1>1. ASSUME Map!Next \/ UNCHANGED <<TheMap, TheCalls>>
      PROVE  [Map!Next]_(Map!vars)
  BY <1>1 DEF Map!vars, TheCalls
<1>2. CASE UNCHANGED tableVars
  <2>1. Linked' = Linked /\ th' = th
    BY <1>2 DEF tableVars, Linked
  <2> QED BY <1>1, <2>1, MapIsKept DEF TheCalls
<1>3. CASE \E t \in Threads : \/ \E r \in Records : InsertRecord(t, r)
                              \/ \E k \in Keys : FindKey(t, k)
  BY <1>1, <1>3, CallIsSeen
<1>4. CASE \E t \in Threads : \/ \E k \in Keys : DeleteKey(t, k)
                              \/ Clear(t) \/ DeleteIfNext(t)
  BY <1>1, <1>4, DeletionIsSeen
<1>5. CASE \E t \in Threads : FindNodeInternal(t) \/ Link(t) \/ Return(t)
  BY <1>1, <1>5, WalkIsSeen, LinkIsSeen, ReturnIsSeen
<1>6. CASE \E t \in Threads :
             \/ TakeReference(t) \/ Retry(t) \/ OwnReference(t) \/ CountItem(t) \/ Leave(t)
             \/ CheckLoad(t) \/ Rehash(t) \/ MoveNode(t) \/ Grow(t)
             \/ Apply(t) \/ ApplyNext(t) \/ DeleteIf(t)
  BY <1>1, <1>6, OthersAreUnseen
<1> QED BY <1>2, <1>3, <1>4, <1>5, <1>6 DEF TableNext, Proceed

LEMMA EmptyMap ==
  ASSUME TableInit
  PROVE  Map!Init
<1>1. /\ grown = <<>> /\ th = [t \in Threads |-> Idle]
      /\ buckets = [b \in 0 .. Size - 1 |-> <<>>]
  BY DEF TableInit
<1>2. Linked = {}
  BY <1>1, NothingGrown DEF Nodes, ToSet, Linked
<1>3. TheMap = [k \in Keys |-> Nil]
  BY <1>2 DEF TheMap
<1>4. TheCall(Idle) = Map!Quiet
  BY DEF TheCall, Idle, Map!Quiet
<1> HIDE DEF TheCall
<1>5. TheCalls = [t \in Threads |-> Map!Quiet]
  BY <1>1, <1>4 DEF TheCalls
<1> QED BY <1>3, <1>5 DEF Map!Init, TheCalls

\* FindKey and InsertRecord take effect at one moment each, between their call and
\* their return: the table implements the map of records.
THEOREM TableRefinement == TableSpec => ImplementsMap
<1>1. TableInit => Map!Init
  BY EmptyMap
<1>2. TableInv /\ [TableNext]_tableVars => [Map!Next]_(Map!vars)
  BY StepIsSeen
<1> QED BY <1>1, <1>2, TableInvHolds, PTL DEF TableSpec, ImplementsMap, Map!Spec
=============================================================================
