------------------------- MODULE ProcessManager_proofs -------------------------
(***************************************************************************)
(* Proofs, for any number of requests, slots and ports, that back-end      *)
(* processes are started one at a time, below the rapid-fail limit and     *)
(* into a free slot, that no SERVER_PROCESS is used after it was freed,    *)
(* and that no process is left running that nobody answers for.  GuardInv  *)
(* says who holds m_srwLock: a request from its second look at the list to *)
(* the label Finished of GetProcess, or the shutdown while it goes through *)
(* the list.  RefInv says who holds a reference to each object.            *)
(***************************************************************************)
EXTENDS ProcessManager, FiniteSetTheorems, TLAPS

StartPlaces == {"launch", "await", "watch_main", "watch_child", "watch_other",
                "match", "final", "connect", "store", "cleanup"}
LockPlaces == StartPlaces \cup {"recheck", "limit", "unready"}
FreePlaces == StartPlaces \cup {"limit"}

Places == LockPlaces \cup {"idle", "list", "crashed", "shared", "look", "again", "exclusive",
                           "delete", "got", "failed"}
HoldPlaces == {"signal", "await", "terminate", "release"}

Request == [pc : Places, slot : Slots, tries : Int, got : Requests \cup {Null}]

GuardTypes ==
  /\ list \in [Slots -> Requests \cup {Null}]
  /\ route \in Slots
  /\ fails \in Nat
  /\ req \in [Requests -> Request]
  /\ sd \in [pc : HoldPlaces \cup {"idle", "forget", "done"}, slot : Int]

GuardInv ==
  /\ GuardTypes
  /\ \A r \in Requests : req[r].pc \in LockPlaces => lock = r
  /\ sd.pc \in HoldPlaces => lock = "shutdown"
  /\ \A r \in Requests : req[r].pc \in FreePlaces => list[req[r].slot] = Null
  /\ \A r \in Requests : req[r].pc \in StartPlaces => fails <= RapidFails

guardVars == <<lock, list, route, fails, req, sd>>

(* What nobody touches stays as it was.                                    *)
LEMMA GuardUntouched == GuardInv /\ UNCHANGED guardVars => GuardInv'
  BY DEF GuardInv, GuardTypes, guardVars

(* Slots are finite, so the number of processes that share a port is a     *)
(* number.                                                                 *)
LEMMA SamePortCount == \A x : Cardinality(SamePort(x)) \in Nat
<1> TAKE x
<1>1. IsFiniteSet(Slots)
  BY FS_Interval, ManagerAssumption DEF Slots
<1>2. SamePort(x) \subseteq Slots
  BY DEF SamePort
<1> QED BY <1>1, <1>2, FS_Subset, FS_CardinalityType

LEMMA NextSlot == route \in Slots => (route + 1) % NSlots \in Slots
<1> SUFFICES ASSUME route \in Slots PROVE (route + 1) % NSlots \in Slots
  OBVIOUS
<1>1. \A a \in Nat, n \in Nat \ {0} : a % n \in 0 .. n - 1
  OBVIOUS
<1>2. route + 1 \in Nat /\ NSlots \in Nat \ {0}
  BY ManagerAssumption DEF Slots
<1> QED BY <1>1, <1>2 DEF Slots

(* ShutdownProcessNoLock only frees slots, and counts.                     *)
LEMMA ShutdownFrees ==
  ASSUME GuardTypes, NEW x, ShutdownProcessNoLock(x)
  PROVE  /\ list' \in [Slots -> Requests \cup {Null}]
         /\ fails' \in Nat
         /\ \A s \in SamePort(x) : list'[s] = Null
<1>1. list' = [s \in Slots |-> IF s \in SamePort(x) THEN Null ELSE list[s]]
  BY DEF ShutdownProcessNoLock
<1>2. fails' = fails + Cardinality(SamePort(x))
  BY DEF ShutdownProcessNoLock
<1>3. SamePort(x) \subseteq Slots
  BY DEF SamePort
<1> QED BY <1>1, <1>2, <1>3, SamePortCount DEF GuardTypes

-----------------------------------------------------------------------------
(* What a move of one request does to req, in the three forms it takes.    *)
Moved(r, pc) ==
  /\ req' \in [Requests -> Request]
  /\ req'[r].pc = pc /\ req'[r].slot = req[r].slot
  /\ \A q \in Requests \ {r} : req'[q] = req[q]

LEMMA MovesTo ==
  ASSUME GuardTypes, NEW r \in Requests, NEW pc \in Places, req' = [req EXCEPT ![r].pc = pc]
  PROVE  Moved(r, pc)
  BY DEF GuardTypes, Request, Moved

LEMMA MovesWithTries ==
  ASSUME GuardTypes, NEW r \in Requests, NEW pc \in Places, NEW n \in Int,
         req' = [req EXCEPT ![r].pc = pc, ![r].tries = n]
  PROVE  Moved(r, pc)
  BY DEF GuardTypes, Request, Moved

LEMMA MovesWithProcess ==
  ASSUME GuardTypes, NEW r \in Requests, NEW pc \in Places, NEW o \in Requests \cup {Null},
         req' = [req EXCEPT ![r].pc = pc, ![r].got = o]
  PROVE  Moved(r, pc)
  BY DEF GuardTypes, Request, Moved

(* A request that is not, and does not come, under the lock.               *)
LEMMA MovesOutside ==
  ASSUME GuardInv, NEW r \in Requests, NEW pc \in Places \ LockPlaces, Moved(r, pc),
         UNCHANGED <<lock, list, route, fails, sd>>
  PROVE  GuardInv'
<1>1. StartPlaces \subseteq LockPlaces /\ FreePlaces \subseteq LockPlaces
  BY DEF LockPlaces, FreePlaces
<1> QED BY <1>1 DEF GuardInv, GuardTypes, Moved

(* A request that holds the lock: nobody else is in a place of LockPlaces. *)
LEMMA Alone ==
  ASSUME GuardInv, NEW r \in Requests, req[r].pc \in LockPlaces
  PROVE  /\ lock = r
         /\ \A q \in Requests \ {r} : req[q].pc \notin LockPlaces
         /\ sd.pc \notin HoldPlaces
  BY ManagerAssumption DEF GuardInv

(* It gives the lock back, whatever becomes of the list and the count.     *)
LEMMA Unlocks ==
  ASSUME GuardInv, NEW r \in Requests, req[r].pc \in LockPlaces,
         NEW pc \in Places \ LockPlaces, Moved(r, pc), UNCHANGED <<route, sd>>,
         list' \in [Slots -> Requests \cup {Null}], fails' \in Nat
  PROVE  GuardInv'
<1>1. StartPlaces \subseteq LockPlaces /\ FreePlaces \subseteq LockPlaces
  BY DEF LockPlaces, FreePlaces
<1>2. \A q \in Requests : req'[q].pc \notin LockPlaces
  BY Alone DEF Moved
<1>3. sd'.pc \notin HoldPlaces
  BY Alone
<1>4. GuardTypes'
  BY DEF GuardInv, GuardTypes, Moved
<1> QED BY <1>1, <1>2, <1>3, <1>4 DEF GuardInv

(* It goes on under the lock, towards or in StartProcess.                  *)
LEMMA KeepsLock ==
  ASSUME GuardInv, NEW r \in Requests, req[r].pc \in LockPlaces,
         NEW pc \in LockPlaces, Moved(r, pc), UNCHANGED <<lock, route, sd>>,
         list' \in [Slots -> Requests \cup {Null}], fails' \in Nat,
         pc \in FreePlaces => list'[req[r].slot] = Null,
         pc \in StartPlaces => fails' <= RapidFails
  PROVE  GuardInv'
<1>1. StartPlaces \subseteq LockPlaces /\ FreePlaces \subseteq LockPlaces
  BY DEF LockPlaces, FreePlaces
<1>2. \A q \in Requests \ {r} : req'[q].pc \notin LockPlaces
  BY Alone DEF Moved
<1>3. lock' = r /\ sd'.pc \notin HoldPlaces
  BY Alone
<1>4. GuardTypes'
  BY DEF GuardInv, GuardTypes, Moved
<1> QED BY <1>1, <1>2, <1>3, <1>4 DEF GuardInv, Moved

-----------------------------------------------------------------------------
(* GetProcess up to the second look.                                       *)
LEMMA LookStep ==
  ASSUME GuardInv, NEW r \in Requests,
         \/ GetProcess(r) \/ AllocateList(r) \/ LookShared(r) \/ LookUnlocked(r)
         \/ ReadAgain(r) \/ LockForStart(r)
  PROVE  GuardInv'
<1> USE DEF GuardInv
<1>1. CASE LookShared(r)
  <2>1. UNCHANGED <<lock, list, fails, sd>> /\ route' \in Slots
    BY <1>1, NextSlot DEF LookShared, GuardTypes
  <2>2. route' = (route + 1) % NSlots /\ list[route'] \in Requests \cup {Null}
    BY <1>1, <2>1 DEF LookShared, GuardTypes
  <2>3. \/ req' = [req EXCEPT ![r].pc = "got", ![r].got = list[route'], ![r].slot = route']
        \/ req' = [req EXCEPT ![r].pc = "look", ![r].slot = route']
    BY <1>1, <2>2 DEF LookShared
  <2>4. {"got", "look"} \subseteq Places \ LockPlaces
    BY DEF Places, LockPlaces, StartPlaces
  <2>5. /\ req' \in [Requests -> Request]
        /\ req'[r].pc \notin LockPlaces
        /\ \A q \in Requests \ {r} : req'[q] = req[q]
    BY <2>1, <2>2, <2>3, <2>4 DEF GuardTypes, Request
  <2>6. StartPlaces \subseteq LockPlaces /\ FreePlaces \subseteq LockPlaces
    BY DEF LockPlaces, FreePlaces
  <2> QED BY <2>1, <2>5, <2>6 DEF GuardTypes
<1>2. CASE LockForStart(r)
  <2>1. /\ lock = Null /\ lock' = r /\ req' = [req EXCEPT ![r].pc = "recheck"]
        /\ UNCHANGED <<list, route, fails, sd>>
    BY <1>2 DEF LockForStart, Goto
  <2>2. /\ \A q \in Requests : req[q].pc \notin LockPlaces
        /\ sd.pc \notin HoldPlaces
    BY <2>1, ManagerAssumption
  <2>3. "recheck" \in Places /\ "recheck" \notin FreePlaces /\ "recheck" \notin StartPlaces
    BY DEF Places, LockPlaces, FreePlaces, StartPlaces
  <2>4. Moved(r, "recheck")
    BY <2>1, <2>3, MovesTo
  <2>5. StartPlaces \subseteq LockPlaces /\ FreePlaces \subseteq LockPlaces
    BY DEF LockPlaces, FreePlaces
  <2> QED BY <2>1, <2>2, <2>3, <2>4, <2>5 DEF GuardTypes, Moved
<1>3. CASE ReadAgain(r)
  <2>1. /\ UNCHANGED <<lock, list, route, fails, sd>>
        /\ req' = [req EXCEPT ![r].pc = "got", ![r].got = list[req[r].slot]]
    BY <1>3 DEF ReadAgain, Returns
  <2>2. list[req[r].slot] \in Requests \cup {Null} /\ "got" \in Places \ LockPlaces
    BY DEF GuardTypes, Request, Places, LockPlaces, StartPlaces
  <2>3. Moved(r, "got")
    BY <2>1, <2>2, MovesWithProcess
  <2> QED BY <2>1, <2>2, <2>3, MovesOutside
<1>4. CASE GetProcess(r) \/ AllocateList(r) \/ LookUnlocked(r)
  <2>1. UNCHANGED <<lock, list, route, fails, sd>>
    BY <1>4 DEF GetProcess, AllocateList, LookUnlocked
  <2>2. PICK pc \in {"list", "crashed", "shared", "again", "exclusive"} :
          req' = [req EXCEPT ![r].pc = pc]
    BY <1>4 DEF GetProcess, AllocateList, LookUnlocked, Goto
  <2>3. pc \in Places \ LockPlaces
    BY <2>2 DEF Places, LockPlaces, StartPlaces
  <2>4. Moved(r, pc)
    BY <2>2, <2>3, MovesTo
  <2> QED BY <2>1, <2>3, <2>4, MovesOutside
<1> QED BY <1>1, <1>2, <1>3, <1>4

(* The second look, the limit, and what ends a start.                      *)
LEMMA LockedStep ==
  ASSUME GuardInv, NEW r \in Requests,
         Recheck(r) \/ CheckRapidFails(r) \/ StoreProcess(r) \/ UnlockUnready(r)
  PROVE  GuardInv'
<1>1. req[r].pc \in LockPlaces
  BY DEF Recheck, CheckRapidFails, StoreProcess, UnlockUnready, LockPlaces, StartPlaces
<1>2. GuardTypes /\ req[r].slot \in Slots /\ list[req[r].slot] \in Requests \cup {Null}
  BY DEF GuardInv, GuardTypes, Request
<1>3. /\ {"got", "failed", "delete"} \subseteq Places \ LockPlaces
      /\ {"limit", "launch"} \subseteq FreePlaces
      /\ {"limit", "launch"} \subseteq LockPlaces
      /\ {"limit", "launch"} \subseteq Places
      /\ "limit" \notin StartPlaces
  BY DEF Places, LockPlaces, FreePlaces, StartPlaces
<1>4. CASE Recheck(r)
  <2>1. UNCHANGED <<route, sd>>
    BY <1>4 DEF Recheck
  <2>2. CASE FoundUnderLock(r)
    <3>1. /\ req' = [req EXCEPT ![r].pc = "got", ![r].got = list[req[r].slot]]
          /\ UNCHANGED <<list, fails>>
      BY <1>4, <2>2 DEF Recheck, Returns
    <3>2. Moved(r, "got")
      BY <1>2, <1>3, <3>1, MovesWithProcess
    <3>3. list' \in [Slots -> Requests \cup {Null}] /\ fails' \in Nat
      BY <1>2, <3>1 DEF GuardTypes
    <3> QED BY <1>1, <1>3, <2>1, <3>2, <3>3, Unlocks
  <2>3. CASE ~FoundUnderLock(r)
    <3>1. req' = [req EXCEPT ![r].pc = "limit"] /\ UNCHANGED lock
      BY <1>4, <2>3 DEF Recheck, Goto
    <3>2. /\ list' \in [Slots -> Requests \cup {Null}]
          /\ fails' \in Nat
          /\ list'[req[r].slot] = Null
      <4>1. CASE list[req[r].slot] = Null
        BY <1>2, <1>4, <2>3, <4>1 DEF Recheck, GuardTypes
      <4>2. CASE list[req[r].slot] # Null
        <5>1. ShutdownProcessNoLock(proc[list[req[r].slot]])
          BY <1>4, <2>3, <4>2 DEF Recheck
        <5>2. req[r].slot \in SamePort(proc[list[req[r].slot]])
          BY <1>2, <4>2 DEF SamePort
        <5> QED BY <1>2, <5>1, <5>2, ShutdownFrees
      <4> QED BY <4>1, <4>2
    <3>3. Moved(r, "limit")
      BY <1>2, <1>3, <3>1, MovesTo
    <3> QED BY <1>1, <1>3, <2>1, <3>1, <3>2, <3>3, KeepsLock
  <2> QED BY <2>2, <2>3
<1>5. CASE CheckRapidFails(r)
  <2>1. PICK minute \in BOOLEAN :
          LET count == IF minute THEN 0 ELSE fails IN
          /\ fails' = count
          /\ IF Exceeded(count)
             THEN req' = [req EXCEPT ![r].pc = "failed"] /\ lock' = Null
             ELSE req' = [req EXCEPT ![r].pc = "launch", ![r].tries = 2] /\ UNCHANGED lock
    BY <1>5 DEF CheckRapidFails, Goto
  <2>2. UNCHANGED <<list, route, sd>> /\ list[req[r].slot] = Null
    BY <1>3, <1>5 DEF CheckRapidFails, GuardInv
  <2>3. fails' \in Nat /\ list' \in [Slots -> Requests \cup {Null}]
    BY <1>2, <2>1, <2>2 DEF GuardTypes
  <2>4. CASE fails' > RapidFails
    <3>1. req' = [req EXCEPT ![r].pc = "failed"] /\ lock' = Null
      BY <2>1, <2>4 DEF Exceeded
    <3>2. Moved(r, "failed")
      BY <1>2, <1>3, <3>1, MovesTo
    <3> QED BY <1>1, <1>3, <2>2, <2>3, <3>2, Unlocks
  <2>5. CASE ~(fails' > RapidFails)
    <3>1. req' = [req EXCEPT ![r].pc = "launch", ![r].tries = 2] /\ UNCHANGED lock
      BY <2>1, <2>5 DEF Exceeded
    <3>2. fails' <= RapidFails /\ 2 \in Int
      BY <2>3, <2>5, ManagerAssumption
    <3>3. Moved(r, "launch")
      BY <1>2, <1>3, <3>1, <3>2, MovesWithTries
    <3> QED BY <1>1, <1>3, <2>2, <2>3, <3>1, <3>2, <3>3, KeepsLock
  <2> QED BY <2>4, <2>5
<1>6. CASE StoreProcess(r)
  <2>1. /\ list' = [list EXCEPT ![req[r].slot] = r]
        /\ req' = [req EXCEPT ![r].pc = "got", ![r].got = r]
        /\ UNCHANGED <<route, fails, sd>>
    BY <1>6 DEF StoreProcess, Returns
  <2>2. list' \in [Slots -> Requests \cup {Null}] /\ fails' \in Nat
    BY <1>2, <2>1 DEF GuardTypes
  <2>3. Moved(r, "got")
    BY <1>2, <1>3, <2>1, MovesWithProcess
  <2> QED BY <1>1, <1>3, <2>1, <2>2, <2>3, Unlocks
<1>7. CASE UnlockUnready(r)
  <2>1. req' = [req EXCEPT ![r].pc = "delete"] /\ UNCHANGED <<list, route, fails, sd>>
    BY <1>7 DEF UnlockUnready, Goto
  <2>2. Moved(r, "delete")
    BY <1>2, <1>3, <2>1, MovesTo
  <2>3. list' \in [Slots -> Requests \cup {Null}] /\ fails' \in Nat
    BY <1>2, <2>1 DEF GuardTypes
  <2> QED BY <1>1, <1>3, <2>1, <2>2, <2>3, Unlocks
<1> QED BY <1>4, <1>5, <1>6, <1>7

(* StartProcess stays under the lock, or ends at the label Finished.       *)
LEMMA StartingStep ==
  ASSUME GuardInv, NEW r \in Requests, StartStep(r)
  PROVE  GuardInv'
<1>1. UNCHANGED <<lock, list, route, fails, sd>>
  BY DEF StartStep, Launch, LaunchFails, PortComesUp, AwaitFails, WatchProcess, MatchChild,
     FinalCheck, Connect, ConnectFails, CleanUpAndRetry
<1>2. req[r].pc \in StartPlaces
  BY DEF StartStep, Launch, LaunchFails, PortComesUp, AwaitFails, WatchProcess, MatchChild,
     FinalCheck, Connect, ConnectFails, CleanUpAndRetry, StartPlaces
<1>3. GuardTypes /\ req[r].tries \in Int
  BY DEF GuardInv, GuardTypes, Request
<1>4. \E pc \in StartPlaces \cup {"unready"} :
        \/ req' = [req EXCEPT ![r].pc = pc]
        \/ \E n \in Int : req' = [req EXCEPT ![r].pc = pc, ![r].tries = n]
  <2>1. CASE Launch(r)
    <3>1. req' = [req EXCEPT ![r].pc = "await", ![r].tries = req[r].tries - 1]
      BY <1>3, <2>1 DEF Launch, GuardTypes, Request
    <3>2. req[r].tries - 1 \in Int /\ "await" \in StartPlaces
      BY <1>3 DEF StartPlaces
    <3> QED BY <3>1, <3>2
  <2>2. CASE LaunchFails(r)
    <3>1. PICK critical \in BOOLEAN :
            req' = [req EXCEPT ![r].pc = "cleanup",
                               ![r].tries = IF critical THEN 0 ELSE req[r].tries - 1]
      BY <1>3, <2>2 DEF LaunchFails, GuardTypes, Request
    <3>2. PICK n \in Int : n = IF critical THEN 0 ELSE req[r].tries - 1
      <4>1. 0 \in Int /\ req[r].tries - 1 \in Int
        BY <1>3
      <4> QED BY <4>1
    <3>3. "cleanup" \in StartPlaces
      BY DEF StartPlaces
    <3> QED BY <3>1, <3>2, <3>3
  <2>3. CASE \/ PortComesUp(r) \/ AwaitFails(r) \/ WatchProcess(r) \/ MatchChild(r)
             \/ FinalCheck(r) \/ Connect(r) \/ ConnectFails(r) \/ CleanUpAndRetry(r)
    BY <2>3 DEF PortComesUp, AwaitFails, WatchProcess, MatchChild, FinalCheck, Connect,
       ConnectFails, CleanUpAndRetry, Goto, StartPlaces
  <2> QED BY <2>1, <2>2, <2>3 DEF StartStep
<1>5. PICK pc \in StartPlaces \cup {"unready"} :
        \/ req' = [req EXCEPT ![r].pc = pc]
        \/ \E n \in Int : req' = [req EXCEPT ![r].pc = pc, ![r].tries = n]
  BY <1>4
<1>6. /\ pc \in Places /\ pc \in LockPlaces /\ req[r].pc \in LockPlaces
      /\ req[r].pc \in FreePlaces
      /\ pc \in FreePlaces => pc \in StartPlaces
  BY <1>2 DEF Places, LockPlaces, FreePlaces, StartPlaces
<1>7. Moved(r, pc)
  BY <1>3, <1>5, <1>6, MovesTo, MovesWithTries
<1>8. list'[req[r].slot] = Null /\ fails' <= RapidFails
  BY <1>1, <1>2, <1>6 DEF GuardInv
<1>9. list' \in [Slots -> Requests \cup {Null}] /\ fails' \in Nat
  BY <1>1, <1>3 DEF GuardTypes
<1> QED BY <1>1, <1>6, <1>7, <1>8, <1>9, KeepsLock

(* The wait thread changes the list only when nobody holds the lock.       *)
LEMMA WaitStep ==
  ASSUME GuardInv, WaitThreadStep
  PROVE  GuardInv'
<1>1. CASE ShutdownProcess
  <2>1. lock = Null /\ ShutdownProcessNoLock(proc[wt.obj]) /\ UNCHANGED <<lock, route, req, sd>>
    BY <1>1 DEF ShutdownProcess
  <2>2. list' \in [Slots -> Requests \cup {Null}] /\ fails' \in Nat
    BY <2>1, ShutdownFrees DEF GuardInv
  <2>3. \A q \in Requests : req[q].pc \notin LockPlaces
    BY <2>1, ManagerAssumption DEF GuardInv
  <2>4. sd.pc \notin HoldPlaces
    BY <2>1, ManagerAssumption DEF GuardInv
  <2> QED BY <2>1, <2>2, <2>3, <2>4 DEF GuardInv, GuardTypes, LockPlaces, FreePlaces
<1>2. CASE HandleProcessExit \/ WaitThreadDereferences
  BY <1>2, GuardUntouched DEF HandleProcessExit, WaitThreadDereferences, guardVars
<1> QED BY <1>1, <1>2 DEF WaitThreadStep

(* The shutdown takes the lock and keeps it until the list is empty.       *)
LEMMA ShutStep ==
  ASSUME GuardInv, ShutDown \/ ShutDownStep
  PROVE  GuardInv'
<1> DEFINE SdTypes == [pc : HoldPlaces \cup {"idle", "forget", "done"}, slot : Int]
<1>1. GuardTypes /\ sd \in SdTypes
  BY DEF GuardInv, GuardTypes
<1>2. StartPlaces \subseteq LockPlaces /\ FreePlaces \subseteq LockPlaces
  BY DEF LockPlaces, FreePlaces
<1>3. CASE ShutDown
  <2>1. /\ lock = Null /\ lock' = "shutdown" /\ UNCHANGED <<list, route, fails, req>>
        /\ sd' = [pc |-> "signal", slot |-> 0]
    BY <1>3 DEF ShutDown
  <2>2. \A q \in Requests : req[q].pc \notin LockPlaces
    BY <2>1, ManagerAssumption DEF GuardInv
  <2>3. sd' \in SdTypes
    BY <2>1 DEF HoldPlaces
  <2> QED BY <1>1, <1>2, <2>1, <2>2, <2>3 DEF GuardInv, GuardTypes
<1>4. CASE ReleaseProcess
  <2>1. sd.pc \in HoldPlaces
    BY <1>4 DEF ReleaseProcess, HoldPlaces
  <2>2. /\ lock = "shutdown" /\ UNCHANGED <<lock, route, fails, req>>
        /\ list' = [list EXCEPT ![sd.slot] = Null]
        /\ sd' = [pc |-> "signal", slot |-> sd.slot + 1]
    BY <1>4, <2>1 DEF ReleaseProcess, GuardInv
  <2>3. \A q \in Requests : req[q].pc \notin LockPlaces
    BY <2>2, ManagerAssumption DEF GuardInv
  <2>4. list' \in [Slots -> Requests \cup {Null}]
    BY <1>1, <2>2 DEF GuardTypes
  <2>5. sd' \in SdTypes
    BY <1>1, <2>2 DEF HoldPlaces
  <2> QED BY <1>1, <1>2, <2>2, <2>3, <2>4, <2>5 DEF GuardInv, GuardTypes
<1>5. CASE UnlockShutDown
  <2>1. sd.pc \in HoldPlaces
    BY <1>5 DEF UnlockShutDown, HoldPlaces
  <2>2. /\ lock = "shutdown" /\ UNCHANGED <<list, route, fails, req>>
        /\ sd' = [sd EXCEPT !.pc = "forget"]
    BY <1>5, <2>1 DEF UnlockShutDown, GuardInv
  <2>3. \A q \in Requests : req[q].pc \notin LockPlaces
    BY <2>2, ManagerAssumption DEF GuardInv
  <2>4. sd' \in SdTypes /\ sd'.pc \notin HoldPlaces
    BY <1>1, <2>2 DEF HoldPlaces
  <2> QED BY <1>1, <1>2, <2>2, <2>3, <2>4 DEF GuardInv, GuardTypes
<1>6. CASE SendSignal \/ ProcessEnded \/ ShutdownTimesOut \/ Terminate
  <2>1. UNCHANGED <<lock, list, route, fails, req>> /\ sd.pc \in HoldPlaces
    BY <1>6 DEF SendSignal, ProcessEnded, ShutdownTimesOut, Terminate, HoldPlaces
  <2>2. \/ sd' = [sd EXCEPT !.slot = sd.slot + 1]
        \/ \E pc \in {"await", "terminate", "release"} : sd' = [sd EXCEPT !.pc = pc]
    BY <1>1, <1>6 DEF SendSignal, ProcessEnded, ShutdownTimesOut, Terminate
  <2>3. sd' \in SdTypes
    BY <1>1, <2>2 DEF HoldPlaces
  <2>4. lock' = "shutdown"
    BY <2>1 DEF GuardInv
  <2> QED BY <1>1, <2>1, <2>3, <2>4 DEF GuardInv, GuardTypes
<1>7. CASE ForgetManager
  <2>1. UNCHANGED <<lock, list, route, fails, req>> /\ sd' = [sd EXCEPT !.pc = "done"]
    BY <1>7 DEF ForgetManager
  <2>2. sd' \in SdTypes /\ sd'.pc \notin HoldPlaces
    BY <1>1, <2>1 DEF HoldPlaces
  <2> QED BY <1>1, <2>1, <2>2 DEF GuardInv, GuardTypes
<1> QED BY <1>3, <1>4, <1>5, <1>6, <1>7 DEF ShutDownStep

LEMMA GuardStep == GuardInv /\ [Next]_vars => GuardInv'
<1> SUFFICES ASSUME GuardInv, [Next]_vars PROVE GuardInv'
  OBVIOUS
<1>1. ASSUME NEW r \in Requests, DeleteProcess(r) PROVE GuardInv'
  <2>1. UNCHANGED <<lock, list, route, fails, sd>> /\ req' = [req EXCEPT ![r].pc = "failed"]
    BY <1>1 DEF DeleteProcess, Goto
  <2>2. "failed" \in Places \ LockPlaces
    BY DEF Places, LockPlaces, StartPlaces
  <2>3. Moved(r, "failed")
    BY <2>1, <2>2, MovesTo DEF GuardInv
  <2> QED BY <2>1, <2>2, <2>3, MovesOutside
<1>2. ASSUME NEW o \in Requests,
             \/ ProcessHandleCallback(o) \/ SignalStep(o) \/ StartsListening(o) \/ ProcessEnds(o)
      PROVE  GuardInv'
  BY <1>2, GuardUntouched DEF ProcessHandleCallback, SignalStep, SignalStarts, SendShutDownSignal,
     SignalEnds, StartsListening, ProcessEnds, guardVars
<1>3. CASE UNCHANGED vars
  BY <1>3, GuardUntouched DEF vars, guardVars
<1> QED BY <1>1, <1>2, <1>3, LookStep, LockedStep, StartingStep, WaitStep, ShutStep
     DEF Next, GetProcessStep

(* No process is started while more have crashed within the minute than    *)
(* the limit allows, only by the thread that holds the lock, and only into *)
(* a free slot (PROCESS_MANAGER::GetProcess), however many requests,       *)
(* crashes, exit callbacks and shutdowns there are.                        *)
THEOREM GuardedStarts == Spec => []StartsAreGuarded
<1>1. Init => GuardInv
  <2> SUFFICES ASSUME Init PROVE GuardInv
    OBVIOUS
  <2>1. 0 \in Slots
    BY ManagerAssumption DEF Slots
  <2> QED BY <2>1 DEF Init, GuardInv, GuardTypes, Request, HoldPlaces, Places, LockPlaces, FreePlaces,
                       StartPlaces
<1>2. GuardInv => StartsAreGuarded
  BY DEF GuardInv, StartsAreGuarded, Starting, LockPlaces, FreePlaces, StartPlaces
<1> QED BY <1>1, <1>2, GuardStep, PTL DEF Spec

-----------------------------------------------------------------------------
(* References.  What a SERVER_PROCESS looks like, and what its record and  *)
(* those who hold it say together: x is the object, q the request that     *)
(* starts it, l whether it is in the list, w whether the callback has it,  *)
(* g what SendSignal does with it, and s its signal thread.                *)
Server ==
  [life : {"none", "alive", "freed"}, refs : Nat, ready : BOOLEAN, stopping : BOOLEAN,
   port : Ports \cup {Null}, main : {"none", "running", "dead"},
   child : {"none", "running", "dead"}, listener : {"none", "main", "child"},
   waitMain : {"none", "armed", "fired"}, waitChild : {"none", "armed", "fired"}]

EarlyPlaces == {"idle", "list", "crashed", "shared", "look", "again", "exclusive", "recheck",
                "limit"}
TryPlaces == {"await", "watch_main", "watch_child", "watch_other"}
SendPlaces == {"await", "terminate", "release"}

Armed(x) == Count(x.waitMain = "armed") + Count(x.waitChild = "armed")

(* A wait that fired has set m_lStopping, and what is freed runs nothing   *)
(* and waits for nothing.                                                  *)
WellFormed(x) ==
  /\ x \in Server
  /\ x.waitMain = "fired" => x.stopping
  /\ x.life # "alive" => x.main = "none" /\ x.waitMain = "none" /\ x.waitChild = "none"

(* The references of the waits that StartProcess has registered so far,    *)
(* given back or not: two for each of at most two tries.                   *)
Tried(q) ==
  CASE q.pc \in TryPlaces -> 2 * (1 - q.tries)
    [] q.pc = "match" -> 2 * (1 - q.tries) + 1
    [] q.pc \in {"launch", "cleanup", "final", "connect"} -> 2 * (2 - q.tries)
    [] OTHER -> 4

TriesLeft(q) ==
  /\ q.tries \in 0 .. 2
  /\ q.pc = "launch" => q.tries # 0
  /\ q.pc \in TryPlaces \cup {"match"} => q.tries # 2

Enough(x, q, l, w, g, s) ==
  x.life = "alive" =>
    x.refs >= Count(l = 1 \/ q.pc \in StartPlaces) + Armed(x) + w
              + Count(g \in SendPlaces) + Count(s \in {"running", "sent"})

NotTooMany(x, q, g, s) ==
  x.refs <= 1 + Tried(q) + Count(g \in SendPlaces)
              + Count(s \in {"running", "sent", "ended", "terminated"})

Lives(x, q, l, w, g, s) ==
  /\ l = 1 => x.life = "alive" /\ x.ready /\ q.pc = "got"
  /\ q.pc \in StartPlaces => x.life = "alive"
  /\ q.pc = "store" => x.ready
  /\ q.pc \in EarlyPlaces => x.life = "none"
  /\ x.life = "none" => w = 0 /\ s = "none"
  /\ g \in SendPlaces => l = 1
  /\ s # "none" => q.pc = "got"
  /\ s \in {"running", "sent"} => x.life = "alive"
  /\ w = 1 => x.life = "alive" \/ q.pc = "failed"

Owned(x, q, l, g) ==
  /\ x.main = "running" /\ ~x.stopping =>
       l = 1 \/ q.pc \in StartPlaces \cup {"unready", "delete"}
  /\ g = "release" => x.main # "running" \/ x.stopping

Held(x, q, l, w, g, s) ==
  /\ WellFormed(x)
  /\ TriesLeft(q)
  /\ Enough(x, q, l, w, g, s)
  /\ NotTooMany(x, q, g, s)
  /\ Lives(x, q, l, w, g, s)
  /\ Owned(x, q, l, g)

InList(o) == Count(Listed(o))
InCallback(o) == Count(wt.obj = o)
InSignal(o) == IF Signals(o) THEN sd.pc ELSE "no"

HeldInv == \A o \in Requests : Held(proc[o], req[o], InList(o), InCallback(o), InSignal(o), sig[o])

(* Every process crashes at most once out of the list.                     *)
Dropped == {o \in Requests : proc[o].life # "none" /\ ~Listed(o) /\ ~Starting(o)}

(* The slots whose processes the shutdown has not reached yet.             *)
Ahead(s) ==
  \/ sd.pc = "idle"
  \/ sd.pc = "signal" /\ s >= sd.slot
  \/ sd.pc \in SendPlaces /\ s > sd.slot

OtherTypes ==
  /\ manager \in BOOLEAN /\ listReady \in BOOLEAN
  /\ lock \in Requests \cup {Null, "shutdown"}
  /\ proc \in [Requests -> Server]
  /\ sig \in [Requests -> {"none", "created", "running", "sent", "ended", "terminated", "late"}]
  /\ wt \in [pc : {"idle", "check", "shutdown", "dereference"}, obj : Requests \cup {Null}]

RefInv ==
  /\ GuardInv
  /\ OtherTypes
  /\ wt.pc = "idle" <=> wt.obj = Null
  /\ sd.slot \in 0 .. NSlots
  /\ sd.pc \in SendPlaces => sd.slot \in Slots /\ list[sd.slot] # Null
  /\ sd.pc = "idle" => \A o \in Requests : sig[o] = "none"
  /\ \A s, t \in Slots : list[s] # Null /\ list[s] = list[t] => s = t
  /\ \A s \in Slots : list[s] # Null /\ Ahead(s) => sig[list[s]] = "none"
  /\ fails <= Cardinality(Dropped)
  /\ HeldInv

(* What the operators make of a record, field by field.                    *)
LEMMA EndedNeverRuns ==
  \A p \in {"none", "running", "dead"} :
    Ended(p) \in {"none", "dead"} /\ (p = "none" => Ended(p) = "none")
  BY DEF Ended

LEMMA CleanUpGives ==
  ASSUME NEW x \in Server, NEW y, y = CleanUp(x)
  PROVE  /\ y \in Server
         /\ y.main = "none" /\ y.waitMain = "none" /\ y.waitChild = "none"
         /\ y.life = x.life /\ y.refs = x.refs /\ y.stopping = x.stopping
         /\ y.ready = x.ready
  BY DEF CleanUp, Server

LEMMA FreedGives ==
  ASSUME NEW x \in Server, NEW y, y = Freed(x)
  PROVE  /\ y \in Server
         /\ y.life = "freed" /\ y.refs = 0
         /\ y.main = "none" /\ y.waitMain = "none" /\ y.waitChild = "none"
<1>1. NoProcess \in Server /\ NoProcess.refs = 0
  BY DEF NoProcess, Server
<1>2. PICK c : c = CleanUp(NoProcess)
  OBVIOUS
<1>3. /\ c \in Server /\ c.refs = 0
      /\ c.main = "none" /\ c.waitMain = "none" /\ c.waitChild = "none"
  BY <1>1, <1>2, CleanUpGives
<1>4. y = [c EXCEPT !.life = "freed", !.port = x.port]
  BY <1>2 DEF Freed
<1> QED BY <1>3, <1>4, ZenonT(60) DEF Server

LEMMA DereferenceGives ==
  ASSUME NEW x \in Server, NEW y, y = DereferenceServerProcess(x)
  PROVE  /\ y \in Server
         /\ x.refs <= 1 => /\ y.life = "freed" /\ y.refs = 0
                           /\ y.main = "none" /\ y.waitMain = "none" /\ y.waitChild = "none"
         /\ x.refs > 1 =>  /\ y.life = x.life /\ y.refs = x.refs - 1 /\ y.ready = x.ready
                           /\ y.stopping = x.stopping /\ y.main = x.main
                           /\ y.waitMain = x.waitMain /\ y.waitChild = x.waitChild
<1>1. CASE x.refs <= 1
  <2>1. y = Freed(x)
    BY <1>1 DEF DereferenceServerProcess
  <2>2. x.refs \in Nat
    BY DEF Server
  <2> QED BY <1>1, <2>1, <2>2, FreedGives
<1>2. CASE ~(x.refs <= 1)
  <2>1. y = [x EXCEPT !.refs = x.refs - 1]
    BY <1>2 DEF DereferenceServerProcess
  <2>2. x.refs - 1 \in Nat
    BY <1>2 DEF Server
  <2> QED BY <1>2, <2>1, <2>2 DEF Server
<1> QED BY <1>1, <1>2

LEMMA StopGives ==
  ASSUME NEW x \in Server, NEW y, y = StopProcess(x)
  PROVE  /\ y \in Server
         /\ y.main \in {"none", "dead"} /\ (x.main = "none" => y.main = "none")
         /\ y.life = x.life /\ y.refs = x.refs /\ y.stopping = x.stopping
         /\ y.waitMain = x.waitMain /\ y.waitChild = x.waitChild
  BY EndedNeverRuns DEF StopProcess, Killed, Server

LEMMA TerminateGives ==
  ASSUME NEW x, WellFormed(x), NEW y, y = TerminateBackendProcess(x)
  PROVE  /\ WellFormed(y)
         /\ \/ y = x
            \/ x.waitMain = "armed" /\ x.refs <= 1 /\ y.life = "freed" /\ y.refs = 0
            \/ /\ y.life = x.life /\ y.ready = x.ready /\ y.stopping
               /\ y.main # "running" /\ y.waitChild = x.waitChild
               /\ \/ x.waitMain = "none" /\ y.waitMain = "none" /\ y.refs = x.refs
                  \/ x.waitMain = "armed" /\ y.waitMain = "none" /\ y.refs = x.refs - 1
         /\ y.main # "running" \/ y.stopping
<1> USE DEF WellFormed
<1>1. CASE x.stopping
  <2>1. y = x
    BY <1>1 DEF TerminateBackendProcess
  <2> QED BY <1>1, <2>1, Zenon
<1>2. CASE ~x.stopping
  <2>1. PICK z : z = [x EXCEPT !.stopping = TRUE, !.main = Ended(x.main)]
    OBVIOUS
  <2>2. /\ z \in Server /\ z.stopping /\ z.main \in {"none", "dead"}
        /\ x.main = "none" => z.main = "none"
        /\ z.life = x.life /\ z.ready = x.ready /\ z.refs = x.refs
        /\ z.waitMain = x.waitMain /\ z.waitChild = x.waitChild
    BY <2>1, EndedNeverRuns DEF Server
  <2>3. y = IF z.waitMain = "none" THEN z
            ELSE DereferenceServerProcess([z EXCEPT !.waitMain = "none"])
    BY <1>2, <2>1 DEF TerminateBackendProcess
  <2>4. CASE x.waitMain = "none"
    BY <2>2, <2>3, <2>4
  <2>5. CASE x.waitMain # "none"
    <3>1. x.waitMain = "armed" /\ x.life = "alive"
      BY <1>2, <2>5 DEF Server
    <3>2. PICK v : v = [z EXCEPT !.waitMain = "none"]
      OBVIOUS
    <3>3. /\ v \in Server /\ v.stopping /\ v.main \in {"none", "dead"}
          /\ v.life = x.life /\ v.ready = x.ready /\ v.refs = x.refs
          /\ v.waitMain = "none" /\ v.waitChild = x.waitChild
      BY <2>2, <3>2 DEF Server
    <3>4. y = DereferenceServerProcess(v)
      BY <2>2, <2>3, <2>5, <3>2
    <3>5. x.refs \in Nat
      BY DEF Server
    <3> QED BY <3>1, <3>3, <3>4, <3>5, DereferenceGives
  <2> QED BY <2>4, <2>5
<1> QED BY <1>1, <1>2

-----------------------------------------------------------------------------
(* One object.  Its request moves.                                         *)
Places01 == {0, 1}
Signal == {"none", "created", "running", "sent", "ended", "terminated", "late"}
Stage == SendPlaces \cup {"no"}

LEMMA TriedBounds ==
  ASSUME NEW q \in Request, TriesLeft(q)
  PROVE  Tried(q) \in 0 .. 4
  BY DEF TriesLeft, Tried, Request, TryPlaces

LEMMA StartMoves ==
  ASSUME NEW x, NEW q \in Request, NEW l \in Places01, NEW w \in Places01, NEW g \in Stage,
         NEW s \in Signal, Held(x, q, l, w, g, s), q.pc \in StartPlaces,
         NEW p \in Request, p.pc \in StartPlaces \cup {"unready"}, p.pc # "store",
         TriesLeft(p), Tried(q) <= Tried(p)
  PROVE  Held(x, p, l, w, g, s)
<1>1. /\ l = 0 /\ g = "no" /\ p.pc \notin EarlyPlaces /\ x.life = "alive" /\ s = "none"
  BY DEF Held, Lives, Places01, StartPlaces, Stage, EarlyPlaces
<1>2. Enough(x, p, l, w, g, s)
  <2>1. Enough(x, q, l, w, g, s) /\ x.refs \in Nat /\ Armed(x) \in Nat
    BY DEF Held, WellFormed, Server, Armed, Count
  <2> QED BY <1>1, <2>1 DEF Enough, Count, Places01, SendPlaces
<1>3. NotTooMany(x, p, g, s)
  <2>1. Tried(q) \in 0 .. 4 /\ Tried(p) \in 0 .. 4 /\ x.refs \in Nat
    BY TriedBounds DEF Held, WellFormed, Server
  <2> QED BY <2>1 DEF Held, NotTooMany, Count
<1> QED BY <1>1, <1>2, <1>3 DEF Held, Lives, Owned, SendPlaces

LEMMA EarlyMoves ==
  ASSUME NEW x, NEW q \in Request, NEW l \in Places01, NEW w \in Places01, NEW g \in Stage,
         NEW s \in Signal, Held(x, q, l, w, g, s), q.pc \in EarlyPlaces,
         NEW p \in Request, p.pc \in EarlyPlaces \cup {"got", "failed"}, p.tries = q.tries
  PROVE  Held(x, p, l, w, g, s)
<1>1. x.life = "none" /\ l = 0 /\ g = "no"
  BY DEF Held, Lives, Places01, Stage
<1>2. Tried(p) = 4 /\ Tried(q) = 4
  BY DEF Tried, EarlyPlaces, TryPlaces
<1>3. p.pc \notin StartPlaces /\ TriesLeft(p) /\ p.pc # "store"
  BY DEF Held, TriesLeft, EarlyPlaces, StartPlaces, TryPlaces
<1> QED BY <1>1, <1>2, <1>3 DEF Held, Enough, NotTooMany, Lives, Owned, WellFormed, SendPlaces

(* UnlockUnready and DeleteProcess.                                        *)
LEMMA LateMoves ==
  ASSUME NEW x, NEW q \in Request, NEW l \in Places01, NEW w \in Places01, NEW g \in Stage,
         NEW s \in Signal, Held(x, q, l, w, g, s), q.pc = "unready",
         NEW p \in Request, p.pc = "delete", p.tries = q.tries
  PROVE  Held(x, p, l, w, g, s)
<1>1. l = 0 /\ g = "no"
  BY DEF Held, Lives, Places01, Stage
<1>2. Tried(p) = 4 /\ Tried(q) = 4
  BY DEF Tried, TryPlaces
<1>3. TriesLeft(p) /\ q.pc \notin StartPlaces /\ p.pc \notin StartPlaces \cup EarlyPlaces
  BY DEF Held, TriesLeft, EarlyPlaces, StartPlaces, TryPlaces
<1>4. Enough(x, p, l, w, g, s) /\ NotTooMany(x, p, g, s)
  BY <1>2, <1>3 DEF Held, Enough, NotTooMany
<1> QED BY <1>1, <1>3, <1>4 DEF Held, Lives, Owned, SendPlaces

LEMMA Deletes ==
  ASSUME NEW x, NEW q \in Request, NEW l \in Places01, NEW w \in Places01, NEW g \in Stage,
         NEW s \in Signal, Held(x, q, l, w, g, s), q.pc = "delete",
         NEW p \in Request, p.pc = "failed", p.tries = q.tries
  PROVE  Held(Freed(x), p, l, w, g, s)
<1>1. l = 0 /\ g = "no" /\ x \in Server
  BY DEF Held, Lives, Places01, Stage, WellFormed
<1>2. TriesLeft(p) /\ p.pc \notin StartPlaces \cup EarlyPlaces /\ Tried(p) = 4
  BY DEF Held, TriesLeft, EarlyPlaces, StartPlaces, TryPlaces, Tried
<1>3. PICK y : y = Freed(x)
  OBVIOUS
<1>4. /\ y \in Server /\ y.life = "freed" /\ y.refs = 0
      /\ y.main = "none" /\ y.waitMain = "none" /\ y.waitChild = "none"
  BY <1>1, <1>3, FreedGives
<1>5. Held(y, p, l, w, g, s)
  BY <1>1, <1>2, <1>4 DEF Held, WellFormed, Enough, NotTooMany, Lives, Owned, SendPlaces, Count
<1> QED BY <1>3, <1>5

(* CheckRapidFails creates the object, StartProcess works on it.           *)
LEMMA Creates ==
  ASSUME NEW x, NEW q \in Request, NEW l \in Places01, NEW w \in Places01, NEW g \in Stage,
         NEW s \in Signal, Held(x, q, l, w, g, s), q.pc = "limit",
         NEW p \in Request, p.pc = "launch", p.tries = 2,
         NEW y \in Server, y.life = "alive", y.refs = 1, y.main = "none",
         y.waitMain = "none", y.waitChild = "none"
  PROVE  Held(y, p, l, w, g, s)
<1>1. x.life = "none" /\ l = 0 /\ g = "no" /\ w = 0 /\ s = "none"
  BY DEF Held, Lives, Places01, Stage, EarlyPlaces
<1>2. Tried(p) = 0 /\ TriesLeft(p) /\ p.pc \in StartPlaces /\ p.pc \notin EarlyPlaces
  BY DEF Tried, TriesLeft, TryPlaces, StartPlaces, EarlyPlaces
<1> QED BY <1>1, <1>2 DEF Held, WellFormed, Enough, NotTooMany, Lives, Owned, SendPlaces, Count,
                       Armed

(* Nothing that counts is changed, but for the process.                    *)
LEMMA Runs ==
  ASSUME NEW x, NEW q \in Request, NEW l \in Places01, NEW w \in Places01, NEW g \in Stage,
         NEW s \in Signal, Held(x, q, l, w, g, s), q.pc \in StartPlaces, q.pc # "store",
         NEW y \in Server, y.life = x.life, y.refs = x.refs, y.stopping = x.stopping,
         y.waitMain = x.waitMain, y.waitChild = x.waitChild
  PROVE  Held(y, q, l, w, g, s)
<1>1. l = 0 /\ g = "no" /\ x.life = "alive"
  BY DEF Held, Lives, Places01, StartPlaces, Stage
<1> QED BY <1>1 DEF Held, WellFormed, Enough, NotTooMany, Lives, Owned, SendPlaces, Armed

LEMMA EndsOrListens ==
  ASSUME NEW x, NEW q \in Request, NEW l \in Places01, NEW w \in Places01, NEW g \in Stage,
         NEW s \in Signal, Held(x, q, l, w, g, s),
         NEW y \in Server, y.life = x.life, y.refs = x.refs, y.stopping = x.stopping,
         y.ready = x.ready, y.waitMain = x.waitMain, y.waitChild = x.waitChild,
         \/ y.main = x.main
         \/ y.main = "dead" /\ x.main = "running"
  PROVE  Held(y, q, l, w, g, s)
<1>1. WellFormed(y)
  BY DEF Held, WellFormed
<1>2. Owned(y, q, l, g)
  BY DEF Held, Owned
<1> QED BY <1>1, <1>2 DEF Held, Enough, NotTooMany, Lives, Armed

LEMMA Watches ==
  ASSUME NEW x, NEW q \in Request, NEW l \in Places01, NEW w \in Places01, NEW g \in Stage,
         NEW s \in Signal, Held(x, q, l, w, g, s), q.pc \in TryPlaces \cup {"match"},
         NEW p \in Request, p.tries = q.tries,
         q.pc = "match" => p.pc = "final",
         q.pc # "match" => p.pc \in {"connect", "match", "cleanup"},
         NEW y \in Server, y.life = x.life, y.refs = x.refs + 1, y.stopping = x.stopping,
         y.main = x.main,
         \/ y.waitMain = "armed" /\ y.waitChild = x.waitChild
         \/ y.waitChild = "armed" /\ y.waitMain = x.waitMain
  PROVE  Held(y, p, l, w, g, s)
<1>1. /\ l = 0 /\ g = "no" /\ x.life = "alive" /\ s = "none"
      /\ q.pc \in StartPlaces /\ p.pc \in StartPlaces /\ p.pc \notin EarlyPlaces
  BY DEF Held, Lives, Places01, StartPlaces, Stage, TryPlaces, EarlyPlaces
<1>2. TriesLeft(p) /\ Tried(q) + 1 <= Tried(p) /\ Tried(q) \in 0 .. 4 /\ Tried(p) \in 0 .. 4
  <2>1. TriesLeft(q)
    BY DEF Held
  <2>2. TriesLeft(p)
    BY <2>1 DEF TriesLeft, TryPlaces
  <2>3. CASE q.pc = "match"
    BY <2>1, <2>3 DEF TriesLeft, Tried, TryPlaces, Request
  <2>4. CASE q.pc # "match"
    BY <2>1, <2>4 DEF TriesLeft, Tried, TryPlaces, Request
  <2> QED BY <2>1, <2>2, <2>3, <2>4, TriedBounds
<1>3. x.refs \in Nat /\ Armed(x) \in Nat /\ Armed(y) <= Armed(x) + 1 /\ Armed(y) \in Nat
  BY DEF Held, WellFormed, Server, Armed, Count
<1>4. Enough(y, p, l, w, g, s)
  <2>1. x.refs >= 1 + Armed(x) + w + Count(g \in SendPlaces) + Count(s \in {"running", "sent"})
    BY <1>1 DEF Held, Enough, Count
  <2>2. /\ Count(g \in SendPlaces) \in Places01 /\ Count(s \in {"running", "sent"}) \in Places01
        /\ Count(l = 1 \/ p.pc \in StartPlaces) = 1
    BY <1>1 DEF Count, Places01
  <2> QED BY <1>3, <2>1, <2>2 DEF Enough, Places01
<1>5. NotTooMany(y, p, g, s)
  <2>1. x.refs <= 1 + Tried(q) + Count(g \in SendPlaces)
                    + Count(s \in {"running", "sent", "ended", "terminated"})
    BY DEF Held, NotTooMany
  <2>2. /\ Count(g \in SendPlaces) \in Places01
        /\ Count(s \in {"running", "sent", "ended", "terminated"}) \in Places01
    BY DEF Count, Places01
  <2> QED BY <1>2, <1>3, <2>1, <2>2 DEF NotTooMany, Places01
<1>6. WellFormed(y)
  BY <1>1 DEF Held, WellFormed
<1> QED BY <1>1, <1>2, <1>4, <1>5, <1>6 DEF Held, Lives, Owned, SendPlaces

LEMMA CleansUp ==
  ASSUME NEW x, NEW q \in Request, NEW l \in Places01, NEW w \in Places01, NEW g \in Stage,
         NEW s \in Signal, Held(x, q, l, w, g, s), q.pc = "cleanup"
  PROVE  Held(CleanUp(x), q, l, w, g, s)
<1>1. PICK y : y = CleanUp(x)
  OBVIOUS
<1>2. x \in Server /\ l = 0 /\ g = "no" /\ x.life = "alive" /\ q.pc \in StartPlaces
  BY DEF Held, Lives, WellFormed, Places01, StartPlaces, Stage
<1>3. /\ y \in Server
      /\ y.main = "none" /\ y.waitMain = "none" /\ y.waitChild = "none"
      /\ y.life = x.life /\ y.refs = x.refs /\ y.stopping = x.stopping
      /\ y.ready = x.ready
  BY <1>1, <1>2, CleanUpGives
<1>4. Armed(y) = 0 /\ Armed(x) \in Nat /\ x.refs \in Nat
  BY <1>2, <1>3 DEF Armed, Count, Server
<1>5. Enough(y, q, l, w, g, s)
  <2>1. /\ Count(g \in SendPlaces) \in Places01 /\ Count(s \in {"running", "sent"}) \in Places01
        /\ Count(l = 1 \/ q.pc \in StartPlaces) \in Places01
    BY DEF Count, Places01
  <2> QED BY <1>3, <1>4, <2>1 DEF Held, Enough, Places01
<1>6. Held(y, q, l, w, g, s)
  BY <1>2, <1>3, <1>5 DEF Held, WellFormed, NotTooMany, Lives, Owned, SendPlaces
<1> QED BY <1>1, <1>6

(* Connect and StoreProcess.                                               *)
LEMMA Connects ==
  ASSUME NEW x, NEW q \in Request, NEW l \in Places01, NEW w \in Places01, NEW g \in Stage,
         NEW s \in Signal, Held(x, q, l, w, g, s), q.pc = "connect",
         NEW p \in Request, p.pc = "store", p.tries = q.tries
  PROVE  Held([x EXCEPT !.ready = TRUE], p, l, w, g, s)
<1>1. PICK y : y = [x EXCEPT !.ready = TRUE]
  OBVIOUS
<1>2. x \in Server /\ l = 0 /\ g = "no" /\ x.life = "alive" /\ q.pc \in StartPlaces
  BY DEF Held, Lives, WellFormed, Places01, StartPlaces, Stage
<1>3. /\ y \in Server /\ y.ready
      /\ y.main = x.main /\ y.waitMain = x.waitMain /\ y.waitChild = x.waitChild
      /\ y.life = x.life /\ y.refs = x.refs /\ y.stopping = x.stopping
  BY <1>1, <1>2 DEF Server
<1>4. /\ TriesLeft(p) /\ p.pc \in StartPlaces /\ p.pc \notin EarlyPlaces
      /\ Tried(q) <= Tried(p) /\ Tried(p) = 4
  BY TriedBounds DEF Held, TriesLeft, StartPlaces, EarlyPlaces, TryPlaces, Tried
<1>5. Enough(y, p, l, w, g, s)
  BY <1>2, <1>3, <1>4 DEF Held, Enough, Armed
<1>6. NotTooMany(y, p, g, s)
  <2>1. Count(g \in SendPlaces) = 0
    BY <1>2 DEF Count, SendPlaces
  <2>2. /\ Count(s \in {"running", "sent", "ended", "terminated"}) \in Places01
        /\ x.refs \in Nat /\ Tried(q) \in 0 .. 4
    BY <1>2, TriedBounds DEF Count, Places01, Server, Held
  <2> QED BY <1>2, <1>3, <1>4, <2>1, <2>2 DEF Held, NotTooMany, Places01
<1>7. Held(y, p, l, w, g, s)
  BY <1>2, <1>3, <1>4, <1>5, <1>6 DEF Held, WellFormed, Lives, Owned, SendPlaces
<1> QED BY <1>1, <1>7

LEMMA Stores ==
  ASSUME NEW x, NEW q \in Request, NEW w \in Places01, NEW g \in Stage,
         NEW s \in Signal, Held(x, q, 0, w, g, s), q.pc = "store",
         NEW p \in Request, p.pc = "got", p.tries = q.tries
  PROVE  Held(x, p, 1, w, g, s)
<1>1. x.life = "alive" /\ g = "no" /\ q.pc \in StartPlaces
  BY DEF Held, Lives, StartPlaces, Stage
<1>2. Tried(p) = 4 /\ Tried(q) = 4 /\ TriesLeft(p) /\ p.pc \notin StartPlaces \cup EarlyPlaces
  BY DEF Tried, TryPlaces, Held, TriesLeft, StartPlaces, EarlyPlaces
<1>3. Enough(x, p, 1, w, g, s)
  BY <1>1, <1>2 DEF Held, Enough, Count
<1>4. NotTooMany(x, p, g, s)
  BY <1>2 DEF Held, NotTooMany
<1> QED BY <1>1, <1>2, <1>3, <1>4 DEF Held, Lives, Owned, SendPlaces

-----------------------------------------------------------------------------
(* One object, and the threads that do not belong to its request.          *)
LEMMA Numbers ==
  ASSUME NEW x, WellFormed(x), NEW q \in Request, TriesLeft(q), NEW l, NEW g, NEW s
  PROVE  /\ x.refs \in Nat /\ Armed(x) \in Nat /\ Tried(q) \in 0 .. 4
         /\ Count(g \in SendPlaces) \in {0, 1}
         /\ Count(l = 1 \/ q.pc \in StartPlaces) \in {0, 1}
         /\ Count(s \in {"running", "sent"}) \in {0, 1}
         /\ Count(s \in {"running", "sent", "ended", "terminated"}) \in {0, 1}
  BY TriedBounds DEF WellFormed, Server, Armed, Count

(* ProcessHandleCallback, whose wait turns from armed into fired; only the *)
(* first to set m_lStopping goes on with the reference of its wait.        *)
LEMMA Fires ==
  ASSUME NEW x, NEW q \in Request, NEW l \in Places01, NEW w \in Places01, NEW g \in Stage,
         NEW s \in Signal, Held(x, q, l, w, g, s),
         NEW y \in Server, y.life = x.life, y.refs = x.refs, y.stopping, y.ready = x.ready,
         y.main = x.main,
         \/ x.waitMain = "armed" /\ y.waitMain = "fired" /\ y.waitChild = x.waitChild
         \/ x.waitChild = "armed" /\ y.waitChild = "fired" /\ y.waitMain = x.waitMain,
         NEW v \in Places01, v = w \/ (v = 1 /\ w = 0)
  PROVE  Held(y, q, l, v, g, s)
<1>1. x.life = "alive"
  BY DEF Held, WellFormed
<1>2. WellFormed(y)
  BY <1>1 DEF WellFormed
<1>3. Armed(y) = Armed(x) - 1
  BY DEF Armed, Count
<1>4. Enough(y, q, l, v, g, s)
  <2>1. x.refs >= Count(l = 1 \/ q.pc \in StartPlaces) + Armed(x) + w
                  + Count(g \in SendPlaces) + Count(s \in {"running", "sent"})
    BY <1>1 DEF Held, Enough
  <2>2. WellFormed(x) /\ TriesLeft(q)
    BY DEF Held
  <2> QED BY <1>3, <2>1, <2>2, Numbers DEF Enough, Places01
<1>5. NotTooMany(y, q, g, s)
  BY DEF Held, NotTooMany
<1>6. Lives(y, q, l, v, g, s)
  BY <1>1 DEF Held, Lives
<1> QED BY <1>2, <1>4, <1>5, <1>6 DEF Held, Owned

(* WaitThreadDereferences.                                                 *)
LEMMA CallbackEnds ==
  ASSUME NEW x, NEW q \in Request, NEW l \in Places01, NEW g \in Stage,
         NEW s \in Signal, Held(x, q, l, 1, g, s)
  PROVE  Held(DereferenceServerProcess(x), q, l, 0, g, s)
<1>1. PICK y : y = DereferenceServerProcess(x)
  OBVIOUS
<1>2. WellFormed(x) /\ TriesLeft(q) /\ x \in Server
  BY DEF Held, WellFormed
<1>3. x.life # "none"
  BY DEF Held, Lives
<1>4. CASE x.refs <= 1
  <2>1. /\ y \in Server /\ y.life = "freed" /\ y.refs = 0
        /\ y.main = "none" /\ y.waitMain = "none" /\ y.waitChild = "none"
    BY <1>1, <1>2, <1>4, DereferenceGives
  <2>2. x.life = "alive" => l = 0 /\ q.pc \notin StartPlaces
    BY <1>2, <1>4, Numbers DEF Held, Enough, Count, Places01
  <2>3. l = 0 /\ q.pc \notin StartPlaces /\ q.pc \notin EarlyPlaces
    BY <1>3, <2>2 DEF Held, Lives, Places01
  <2>4. NotTooMany(y, q, g, s)
    BY <1>2, <2>1, Numbers DEF NotTooMany
  <2>5. q.pc # "store"
    BY <2>3 DEF StartPlaces
  <2>6. s \notin {"running", "sent"}
    <3> SUFFICES ASSUME s \in {"running", "sent"} PROVE FALSE
      OBVIOUS
    <3>1. x.life = "alive" /\ Count(s \in {"running", "sent"}) = 1
      BY DEF Held, Lives, Count
    <3> QED BY <1>2, <1>4, <3>1, Numbers DEF Held, Enough, Places01
  <2>7. Lives(y, q, l, 0, g, s)
    BY <2>1, <2>3, <2>5, <2>6 DEF Held, Lives
  <2> QED BY <1>1, <1>2, <2>1, <2>3, <2>4, <2>5, <2>7 DEF Held, WellFormed, Enough, Owned
<1>5. CASE ~(x.refs <= 1)
  <2>1. x.refs > 1
    BY <1>2, <1>5, Numbers
  <2>2. /\ y \in Server /\ y.life = x.life /\ y.refs = x.refs - 1 /\ y.ready = x.ready
        /\ y.stopping = x.stopping /\ y.main = x.main
        /\ y.waitMain = x.waitMain /\ y.waitChild = x.waitChild
    BY <1>1, <1>2, <2>1, DereferenceGives
  <2>3. Enough(y, q, l, 0, g, s)
    BY <1>2, <2>2, Numbers DEF Held, Enough, Armed
  <2>4. NotTooMany(y, q, g, s)
    BY <1>2, <2>2, Numbers DEF Held, NotTooMany
  <2>5. WellFormed(y) /\ Lives(y, q, l, 0, g, s) /\ Owned(y, q, l, g)
    BY <1>3, <2>2 DEF Held, WellFormed, Lives, Owned
  <2> QED BY <1>1, <1>2, <2>3, <2>4, <2>5 DEF Held
<1> QED BY <1>4, <1>5

(* ShutdownProcessNoLock, for a process of the list.                       *)
LEMMA Drops ==
  ASSUME NEW x, NEW q \in Request, NEW w \in Places01, NEW s \in Signal,
         Held(x, q, 1, w, "no", s)
  PROVE  /\ Held(DereferenceServerProcess(StopProcess(x)), q, 0, w, "no", s)
         /\ DereferenceServerProcess(StopProcess(x)).life # "none"
<1>1. PICK z : z = StopProcess(x)
  OBVIOUS
<1>2. PICK y : y = DereferenceServerProcess(z)
  OBVIOUS
<1>3. WellFormed(x) /\ TriesLeft(q) /\ x \in Server /\ x.life = "alive" /\ q.pc = "got"
  BY DEF Held, WellFormed, Lives
<1>4. /\ z \in Server /\ z.main \in {"none", "dead"}
      /\ z.life = x.life /\ z.refs = x.refs /\ z.stopping = x.stopping
      /\ z.waitMain = x.waitMain /\ z.waitChild = x.waitChild
  BY <1>1, <1>3, StopGives
<1>5. "got" \notin StartPlaces \cup EarlyPlaces
  BY DEF StartPlaces, EarlyPlaces
<1>6. CASE x.refs <= 1
  <2>1. /\ y \in Server /\ y.life = "freed" /\ y.refs = 0
        /\ y.main = "none" /\ y.waitMain = "none" /\ y.waitChild = "none"
    BY <1>2, <1>4, <1>6, DereferenceGives
  <2>2. NotTooMany(y, q, "no", s)
    BY <1>3, <2>1, Numbers DEF NotTooMany
  <2>a. w = 0 /\ s \notin {"running", "sent"}
    <3>1. Count(1 = 1 \/ q.pc \in StartPlaces) = 1 /\ (s \in {"running", "sent"} => Count(s \in {"running", "sent"}) = 1)
      BY DEF Count
    <3> QED BY <1>3, <1>6, <3>1, Numbers DEF Held, Enough, Places01
  <2>b. Lives(y, q, 0, w, "no", s)
    BY <1>3, <1>5, <2>1, <2>a DEF Held, Lives, SendPlaces
  <2>3. Held(y, q, 0, w, "no", s)
    BY <1>3, <1>5, <2>1, <2>2, <2>b DEF Held, WellFormed, Enough, Owned, SendPlaces
  <2> QED BY <1>1, <1>2, <2>1, <2>3
<1>7. CASE ~(x.refs <= 1)
  <2>1. x.refs > 1
    BY <1>3, <1>7, Numbers
  <2>2. /\ y \in Server /\ y.life = x.life /\ y.refs = x.refs - 1
        /\ y.stopping = x.stopping /\ y.main \in {"none", "dead"}
        /\ y.waitMain = x.waitMain /\ y.waitChild = x.waitChild
    BY <1>2, <1>4, <2>1, DereferenceGives
  <2>3. Enough(y, q, 0, w, "no", s)
    <3>1. Count(1 = 1 \/ q.pc \in StartPlaces) = 1 /\ Count(0 = 1 \/ q.pc \in StartPlaces) = 0
      BY <1>3, <1>5 DEF Count
    <3>2. Armed(y) = Armed(x)
      BY <2>2 DEF Armed
    <3>3. x.refs >= 1 + Armed(x) + w + Count("no" \in SendPlaces) + Count(s \in {"running", "sent"})
      BY <1>3, <3>1 DEF Held, Enough
    <3> QED BY <1>3, <2>2, <3>1, <3>2, <3>3, Numbers DEF Enough, Places01
  <2>4. NotTooMany(y, q, "no", s)
    BY <1>3, <2>2, Numbers DEF Held, NotTooMany
  <2>5. Held(y, q, 0, w, "no", s)
    BY <1>3, <1>5, <2>2, <2>3, <2>4 DEF Held, WellFormed, Lives, Owned, SendPlaces
  <2> QED BY <1>1, <1>2, <1>3, <2>2, <2>5
<1> QED BY <1>6, <1>7

(* SendSignal takes a reference, and a thread may be created to signal.    *)
LEMMA ReferenceGives ==
  ASSUME NEW x \in Server, NEW y, y = ReferenceServerProcess(x)
  PROVE  /\ y \in Server /\ y.life = x.life /\ y.refs = x.refs + 1 /\ y.ready = x.ready
         /\ y.stopping = x.stopping /\ y.main = x.main
         /\ y.waitMain = x.waitMain /\ y.waitChild = x.waitChild
  BY DEF ReferenceServerProcess, Server

LEMMA Sends ==
  ASSUME NEW x, NEW q \in Request, NEW w \in Places01, Held(x, q, 1, w, "no", "none"),
         NEW g \in {"await", "terminate"}, NEW s \in {"none", "created"}
  PROVE  Held(ReferenceServerProcess(x), q, 1, w, g, s)
<1>1. PICK y : y = ReferenceServerProcess(x)
  OBVIOUS
<1>2. WellFormed(x) /\ TriesLeft(q) /\ x \in Server /\ x.life = "alive"
  BY DEF Held, WellFormed, Lives
<1>3. /\ y \in Server /\ y.life = x.life /\ y.refs = x.refs + 1 /\ y.ready = x.ready
      /\ y.stopping = x.stopping /\ y.main = x.main
      /\ y.waitMain = x.waitMain /\ y.waitChild = x.waitChild
  BY <1>1, <1>2, ReferenceGives
<1>4. /\ Count(g \in SendPlaces) = 1 /\ Count("no" \in SendPlaces) = 0
      /\ Count("none" \in {"running", "sent"}) = 0 /\ Count(s \in {"running", "sent"}) = 0
      /\ Count("none" \in {"running", "sent", "ended", "terminated"}) = 0
      /\ Count(s \in {"running", "sent", "ended", "terminated"}) = 0
  BY DEF Count, SendPlaces
<1>5. Enough(y, q, 1, w, g, s)
  <2>1. Armed(y) = Armed(x)
    BY <1>3 DEF Armed
  <2>2. x.refs >= Count(1 = 1 \/ q.pc \in StartPlaces) + Armed(x) + w
    BY <1>2, <1>4, Numbers DEF Held, Enough, Places01
  <2> QED BY <1>2, <1>3, <1>4, <2>1, <2>2, Numbers DEF Enough, Places01
<1>6. NotTooMany(y, q, g, s)
  BY <1>2, <1>3, <1>4, Numbers DEF Held, NotTooMany
<1>7. Lives(y, q, 1, w, g, s) /\ Owned(y, q, 1, g) /\ WellFormed(y)
  BY <1>2, <1>3 DEF Held, Lives, Owned, WellFormed
<1> QED BY <1>1, <1>2, <1>5, <1>6, <1>7 DEF Held

(* ShutdownTimesOut terminates the signal thread, ProcessEnded goes on.    *)
LEMMA TimesOut ==
  ASSUME NEW x, NEW q \in Request, NEW l \in Places01, NEW w \in Places01,
         NEW s \in Signal, Held(x, q, l, w, "await", s),
         NEW v, v = IF s = "ended" THEN s ELSE "terminated"
  PROVE  Held(x, q, l, w, "terminate", v)
<1>1. WellFormed(x) /\ TriesLeft(q) /\ x.life = "alive"
  BY DEF Held, Lives, SendPlaces
<1>2. /\ Count("await" \in SendPlaces) = 1 /\ Count("terminate" \in SendPlaces) = 1
      /\ Count(v \in {"running", "sent"}) = 0
      /\ Count(v \in {"running", "sent", "ended", "terminated"}) = 1
  BY DEF Count, SendPlaces
<1>3. Enough(x, q, l, w, "terminate", v)
  BY <1>1, <1>2, Numbers DEF Held, Enough, Places01
<1>4. NotTooMany(x, q, "terminate", v)
  BY <1>1, <1>2, Numbers DEF Held, NotTooMany
<1> QED BY <1>1, <1>3, <1>4 DEF Held, Lives, Owned, SendPlaces

LEMMA EndSeen ==
  ASSUME NEW x, NEW q \in Request, NEW l \in Places01, NEW w \in Places01,
         NEW s \in Signal, Held(x, q, l, w, "await", s), x.main = "dead"
  PROVE  Held(x, q, l, w, "release", s)
<1>1. Count("await" \in SendPlaces) = 1 /\ Count("release" \in SendPlaces) = 1
  BY DEF Count, SendPlaces
<1> QED BY <1>1 DEF Held, Enough, NotTooMany, Lives, Owned, SendPlaces

(* Terminate and ReleaseProcess: the list and SendSignal hold the object.  *)
LEMMA Terminates ==
  ASSUME NEW x, NEW q \in Request, NEW l \in Places01, NEW w \in Places01,
         NEW s \in Signal, Held(x, q, l, w, "terminate", s)
  PROVE  Held(TerminateBackendProcess(x), q, l, w, "release", s)
<1>1. PICK y : y = TerminateBackendProcess(x)
  OBVIOUS
<1>2. WellFormed(x) /\ TriesLeft(q) /\ x.life = "alive" /\ l = 1
  BY DEF Held, Lives, SendPlaces
<1>3. /\ Count("terminate" \in SendPlaces) = 1 /\ Count("release" \in SendPlaces) = 1
      /\ Count(l = 1 \/ q.pc \in StartPlaces) = 1
  BY <1>2 DEF Count, SendPlaces
<1>4. x.refs >= 2
  BY <1>2, <1>3, Numbers DEF Held, Enough, Places01
<1>5. /\ WellFormed(y)
      /\ \/ y = x
         \/ /\ y.life = x.life /\ y.ready = x.ready /\ y.stopping
            /\ y.main # "running" /\ y.waitChild = x.waitChild
            /\ \/ x.waitMain = "none" /\ y.waitMain = "none" /\ y.refs = x.refs
               \/ x.waitMain = "armed" /\ y.waitMain = "none" /\ y.refs = x.refs - 1
      /\ y.main # "running" \/ y.stopping
  <2>1. ~(x.refs <= 1)
    BY <1>2, <1>4, Numbers
  <2> QED BY <1>1, <1>2, <2>1, TerminateGives
<1>6. y.life = x.life /\ y.ready = x.ready
  BY <1>5
<1>7. y.refs \in Nat /\ y.refs <= x.refs /\ y.refs - Armed(y) = x.refs - Armed(x)
  BY <1>2, <1>5, Numbers DEF Armed, Count
<1>8. Enough(y, q, l, w, "release", s)
  BY <1>2, <1>3, <1>6, <1>7, <1>5, Numbers DEF Held, Enough, Places01
<1>9. NotTooMany(y, q, "release", s)
  BY <1>2, <1>3, <1>7, Numbers DEF Held, NotTooMany
<1>10. Lives(y, q, l, w, "release", s)
  BY <1>2, <1>6 DEF Held, Lives
<1>11. Owned(y, q, l, "release")
  BY <1>2, <1>5 DEF Owned
<1> QED BY <1>1, <1>2, <1>5, <1>8, <1>9, <1>10, <1>11 DEF Held

LEMMA Releases ==
  ASSUME NEW x, NEW q \in Request, NEW w \in Places01,
         NEW s \in Signal, Held(x, q, 1, w, "release", s)
  PROVE  /\ Held(DereferenceServerProcess(DereferenceServerProcess(x)), q, 0, w, "no", s)
         /\ DereferenceServerProcess(DereferenceServerProcess(x)).life # "none"
<1>1. PICK z : z = DereferenceServerProcess(x)
  OBVIOUS
<1>2. PICK y : y = DereferenceServerProcess(z)
  OBVIOUS
<1>3. /\ WellFormed(x) /\ TriesLeft(q) /\ x \in Server /\ x.life = "alive" /\ q.pc = "got"
      /\ x.main # "running" \/ x.stopping
  BY DEF Held, WellFormed, Lives, Owned
<1>4. /\ Count("release" \in SendPlaces) = 1 /\ Count("no" \in SendPlaces) = 0
      /\ Count(1 = 1 \/ q.pc \in StartPlaces) = 1
      /\ q.pc \notin StartPlaces \cup EarlyPlaces
      /\ Count(0 = 1 \/ q.pc \in StartPlaces) = 0
  BY <1>3 DEF Count, SendPlaces, StartPlaces, EarlyPlaces
<1>5. x.refs >= 2 + Armed(x) + w + Count(s \in {"running", "sent"})
  BY <1>3, <1>4, Numbers DEF Held, Enough, Places01
<1>6. /\ z \in Server /\ z.life = x.life /\ z.refs = x.refs - 1 /\ z.refs >= 1
      /\ z.stopping = x.stopping /\ z.main = x.main
      /\ z.waitMain = x.waitMain /\ z.waitChild = x.waitChild
  <2>1. x.refs > 1
    BY <1>3, <1>5, Numbers DEF Places01
  <2> QED BY <1>1, <1>3, <2>1, DereferenceGives, Numbers
<1>7. CASE z.refs <= 1
  <2>1. /\ y \in Server /\ y.life = "freed" /\ y.refs = 0
        /\ y.main = "none" /\ y.waitMain = "none" /\ y.waitChild = "none"
    BY <1>2, <1>6, <1>7, DereferenceGives
  <2>2. NotTooMany(y, q, "no", s)
    BY <1>3, <2>1, Numbers DEF NotTooMany
  <2>a. w = 0 /\ s \notin {"running", "sent"}
    <3>1. s \in {"running", "sent"} => Count(s \in {"running", "sent"}) = 1
      BY DEF Count
    <3> QED BY <1>3, <1>5, <1>6, <1>7, <3>1, Numbers DEF Places01
  <2>b. Lives(y, q, 0, w, "no", s)
    BY <1>3, <1>4, <2>1, <2>a DEF Held, Lives, SendPlaces
  <2>3. Held(y, q, 0, w, "no", s)
    BY <1>3, <1>4, <2>1, <2>2, <2>b DEF Held, WellFormed, Enough, Owned, SendPlaces
  <2> QED BY <1>1, <1>2, <2>1, <2>3
<1>8. CASE ~(z.refs <= 1)
  <2>1. /\ y \in Server /\ y.life = x.life /\ y.refs = x.refs - 2
        /\ y.stopping = x.stopping /\ y.main = x.main
        /\ y.waitMain = x.waitMain /\ y.waitChild = x.waitChild
    BY <1>2, <1>3, <1>6, <1>8, DereferenceGives, Numbers
  <2>2. Enough(y, q, 0, w, "no", s)
    <3>1. Armed(y) = Armed(x)
      BY <2>1 DEF Armed
    <3> QED BY <1>3, <1>4, <1>5, <2>1, <3>1, Numbers DEF Enough, Places01
  <2>3. NotTooMany(y, q, "no", s)
    BY <1>3, <1>4, <2>1, Numbers DEF Held, NotTooMany
  <2>4. WellFormed(y) /\ Lives(y, q, 0, w, "no", s) /\ Owned(y, q, 0, "no")
    BY <1>3, <1>4, <2>1 DEF Held, WellFormed, Lives, Owned, SendPlaces
  <2> QED BY <1>1, <1>2, <1>3, <2>1, <2>2, <2>3, <2>4 DEF Held
<1> QED BY <1>7, <1>8

(* The signal thread holds a reference from its start to its end.          *)
LEMMA SignalBegins ==
  ASSUME NEW x, NEW q \in Request, NEW l \in Places01, NEW w \in Places01, NEW g \in Stage,
         Held(x, q, l, w, g, "created"), x.life # "freed"
  PROVE  Held(ReferenceServerProcess(x), q, l, w, g, "running")
<1>1. PICK y : y = ReferenceServerProcess(x)
  OBVIOUS
<1>2. WellFormed(x) /\ TriesLeft(q) /\ x \in Server
  BY DEF Held, WellFormed
<1>3. /\ y \in Server /\ y.life = x.life /\ y.refs = x.refs + 1 /\ y.ready = x.ready
      /\ y.stopping = x.stopping /\ y.main = x.main
      /\ y.waitMain = x.waitMain /\ y.waitChild = x.waitChild
  BY <1>1, <1>2, ReferenceGives
<1>4. /\ Count("created" \in {"running", "sent"}) = 0 /\ Count("running" \in {"running", "sent"}) = 1
      /\ Count("created" \in {"running", "sent", "ended", "terminated"}) = 0
      /\ Count("running" \in {"running", "sent", "ended", "terminated"}) = 1
  BY DEF Count
<1>5. Enough(y, q, l, w, g, "running")
  <2>1. Armed(y) = Armed(x)
    BY <1>3 DEF Armed
  <2> QED BY <1>2, <1>3, <1>4, <2>1, Numbers DEF Held, Enough, Places01
<1>6. NotTooMany(y, q, g, "running")
  BY <1>2, <1>3, <1>4, Numbers DEF Held, NotTooMany
<1>7. Lives(y, q, l, w, g, "running") /\ Owned(y, q, l, g) /\ WellFormed(y)
  <2>1. x.life = "alive"
    BY <1>2 DEF Held, Lives, Server
  <2> QED BY <1>2, <1>3, <2>1 DEF Held, Lives, Owned, WellFormed
<1> QED BY <1>1, <1>2, <1>5, <1>6, <1>7 DEF Held

(* It begins too late: the object is freed, and nothing more is known.      *)
LEMMA SignalLate ==
  ASSUME NEW x, NEW q \in Request, NEW l \in Places01, NEW w \in Places01, NEW g \in Stage,
         Held(x, q, l, w, g, "created")
  PROVE  Held(x, q, l, w, g, "late")
<1>1. /\ Count("created" \in {"running", "sent"}) = 0 /\ Count("late" \in {"running", "sent"}) = 0
      /\ Count("created" \in {"running", "sent", "ended", "terminated"}) = 0
      /\ Count("late" \in {"running", "sent", "ended", "terminated"}) = 0
  BY DEF Count
<1> QED BY <1>1 DEF Held, Enough, NotTooMany, Lives

LEMMA SignalSent ==
  ASSUME NEW x, NEW q \in Request, NEW l \in Places01, NEW w \in Places01, NEW g \in Stage,
         Held(x, q, l, w, g, "running"), NEW y, y \in {x, TerminateBackendProcess(x)}
  PROVE  Held(y, q, l, w, g, "sent")
<1>1. /\ Count("running" \in {"running", "sent"}) = 1 /\ Count("sent" \in {"running", "sent"}) = 1
      /\ Count("running" \in {"running", "sent", "ended", "terminated"}) = 1
      /\ Count("sent" \in {"running", "sent", "ended", "terminated"}) = 1
  BY DEF Count
<1>2. WellFormed(x) /\ TriesLeft(q)
  BY DEF Held
<1>3. Held(x, q, l, w, g, "sent")
  BY <1>1 DEF Held, Enough, NotTooMany, Lives
<1>4. CASE y = TerminateBackendProcess(x)
  <2>1. /\ WellFormed(y)
        /\ \/ y = x
           \/ /\ y.life = x.life /\ y.ready = x.ready /\ y.stopping
              /\ y.main # "running" /\ y.waitChild = x.waitChild
              /\ \/ x.waitMain = "none" /\ y.waitMain = "none" /\ y.refs = x.refs
                 \/ x.waitMain = "armed" /\ y.waitMain = "none" /\ y.refs = x.refs - 1
    <3>1. ~(x.waitMain = "armed" /\ x.refs <= 1)
      <4> SUFFICES ASSUME x.waitMain = "armed", x.refs <= 1 PROVE FALSE
        OBVIOUS
      <4>1. x.life = "alive" /\ Armed(x) >= 1
        BY <1>2 DEF WellFormed, Armed, Count
      <4> QED BY <1>1, <1>2, <4>1, Numbers DEF Held, Enough, Places01
    <3> QED BY <1>2, <1>4, <3>1, TerminateGives
  <2>2. CASE y = x
    BY <1>3, <2>2
  <2>3. CASE y # x
    <3>1. /\ y.life = x.life /\ y.ready = x.ready /\ y.stopping /\ y.main # "running"
          /\ y.refs \in Nat /\ y.refs <= x.refs /\ y.refs - Armed(y) = x.refs - Armed(x)
      BY <1>2, <2>1, <2>3, Numbers DEF Armed, Count
    <3>2. Enough(y, q, l, w, g, "sent")
      BY <1>2, <1>3, <2>1, <3>1, Numbers DEF Held, Enough, Places01
    <3>3. NotTooMany(y, q, g, "sent")
      BY <1>2, <1>3, <3>1, Numbers DEF Held, NotTooMany
    <3>4. Lives(y, q, l, w, g, "sent") /\ Owned(y, q, l, g)
      BY <1>3, <3>1 DEF Held, Lives, Owned
    <3> QED BY <1>2, <2>1, <3>2, <3>3, <3>4 DEF Held
  <2> QED BY <2>2, <2>3
<1> QED BY <1>3, <1>4

LEMMA SignalOver ==
  ASSUME NEW x, NEW q \in Request, NEW l \in Places01, NEW w \in Places01, NEW g \in Stage,
         Held(x, q, l, w, g, "sent")
  PROVE  /\ Held(DereferenceServerProcess(x), q, l, w, g, "ended")
         /\ DereferenceServerProcess(x).life # "none"
<1>1. PICK y : y = DereferenceServerProcess(x)
  OBVIOUS
<1>2. WellFormed(x) /\ TriesLeft(q) /\ x \in Server
  BY DEF Held, WellFormed
<1>3. x.life # "none"
  BY DEF Held, Lives
<1>4. /\ Count("sent" \in {"running", "sent"}) = 1 /\ Count("ended" \in {"running", "sent"}) = 0
      /\ Count("sent" \in {"running", "sent", "ended", "terminated"}) = 1
      /\ Count("ended" \in {"running", "sent", "ended", "terminated"}) = 1
  BY DEF Count
<1>5. CASE x.refs <= 1
  <2>1. /\ y \in Server /\ y.life = "freed" /\ y.refs = 0
        /\ y.main = "none" /\ y.waitMain = "none" /\ y.waitChild = "none"
    BY <1>1, <1>2, <1>5, DereferenceGives
  <2>2. x.life = "alive" => l = 0 /\ q.pc \notin StartPlaces
    BY <1>2, <1>4, <1>5, Numbers DEF Held, Enough, Count, Places01
  <2>3. l = 0 /\ q.pc \notin StartPlaces /\ q.pc \notin EarlyPlaces /\ g = "no"
    BY <1>3, <2>2 DEF Held, Lives, Places01, Stage
  <2>4. NotTooMany(y, q, g, "ended")
    BY <1>2, <2>1, Numbers DEF NotTooMany
  <2>5. q.pc # "store"
    BY <2>3 DEF StartPlaces
  <2>a. w = 0
    <3>1. x.life = "alive"
      BY DEF Held, Lives
    <3> QED BY <1>2, <1>4, <1>5, <3>1, Numbers DEF Held, Enough, Places01
  <2>b. Lives(y, q, l, w, g, "ended")
    BY <2>1, <2>3, <2>5, <2>a DEF Held, Lives, SendPlaces
  <2>6. Held(y, q, l, w, g, "ended")
    BY <1>2, <2>1, <2>3, <2>4, <2>5, <2>b DEF Held, WellFormed, Enough, Owned, SendPlaces
  <2> QED BY <1>1, <2>1, <2>6
<1>6. CASE ~(x.refs <= 1)
  <2>1. x.refs > 1
    BY <1>2, <1>6, Numbers
  <2>2. /\ y \in Server /\ y.life = x.life /\ y.refs = x.refs - 1 /\ y.ready = x.ready
        /\ y.stopping = x.stopping /\ y.main = x.main
        /\ y.waitMain = x.waitMain /\ y.waitChild = x.waitChild
    BY <1>1, <1>2, <2>1, DereferenceGives
  <2>3. Enough(y, q, l, w, g, "ended")
    <3>1. Armed(y) = Armed(x)
      BY <2>2 DEF Armed
    <3> QED BY <1>2, <1>4, <2>2, <3>1, Numbers DEF Held, Enough, Places01
  <2>4. NotTooMany(y, q, g, "ended")
    BY <1>2, <1>4, <2>2, Numbers DEF Held, NotTooMany
  <2>5. WellFormed(y) /\ Lives(y, q, l, w, g, "ended") /\ Owned(y, q, l, g)
    BY <1>3, <2>2 DEF Held, WellFormed, Lives, Owned
  <2> QED BY <1>1, <1>2, <1>3, <2>2, <2>3, <2>4, <2>5 DEF Held
<1> QED BY <1>5, <1>6

-----------------------------------------------------------------------------
(* The manager.  How the threads look at an object has its types, and      *)
(* depends on what they touch.                                             *)
LEMMA Views ==
  ASSUME RefInv, NEW o \in Requests
  PROVE  /\ InList(o) \in Places01 /\ InCallback(o) \in Places01 /\ InSignal(o) \in Stage
         /\ sig[o] \in Signal /\ req[o] \in Request /\ proc[o] \in Server
         /\ Held(proc[o], req[o], InList(o), InCallback(o), InSignal(o), sig[o])
  BY DEF RefInv, GuardInv, GuardTypes, OtherTypes, HeldInv, InList, InCallback, InSignal, Count,
     Places01, Stage, Signals, SendPlaces, Signal

LEMMA SameView ==
  ASSUME UNCHANGED <<list, wt, sd>>, NEW o \in Requests
  PROVE  InList(o)' = InList(o) /\ InCallback(o)' = InCallback(o) /\ InSignal(o)' = InSignal(o)
  BY DEF InList, Listed, Count, InCallback, InSignal, Signals, Signalled

LEMMA StartingIsAPlace == \A o \in Requests : Starting(o) <=> req[o].pc \in StartPlaces
  BY DEF Starting, StartPlaces

LEMMA DroppedGrows ==
  ASSUME Dropped \subseteq Dropped'
  PROVE  Cardinality(Dropped) \in Nat /\ Cardinality(Dropped) <= Cardinality(Dropped')
                                      /\ Cardinality(Dropped') \in Nat
<1>1. Dropped' \subseteq Requests
  BY DEF Dropped
<1>2. IsFiniteSet(Dropped')
  BY <1>1, FiniteRequests, FS_Subset
<1> QED BY <1>2, FS_Subset, FS_CardinalityType

(* One object, or its request, changes, and nobody else's view of it.      *)
LEMMA OneObject ==
  ASSUME RefInv, GuardInv', NEW r \in Requests, UNCHANGED <<list, wt, sd, sig>>,
         fails' = fails \/ fails' = 0,
         manager' \in BOOLEAN, listReady' \in BOOLEAN, lock' \in Requests \cup {Null, "shutdown"},
         proc' \in [Requests -> Server],
         \A o \in Requests \ {r} : proc'[o] = proc[o] /\ req'[o] = req[o],
         Held(proc'[r], req'[r], InList(r), InCallback(r), InSignal(r), sig[r]),
         proc[r].life # "none" =>
           proc'[r].life # "none" /\ (req'[r].pc \in StartPlaces => req[r].pc \in StartPlaces)
  PROVE  RefInv'
<1>1. HeldInv'
  <2> SUFFICES ASSUME NEW o \in Requests
               PROVE  Held(proc'[o], req'[o], InList(o)', InCallback(o)', InSignal(o)', sig'[o])
    BY DEF HeldInv
  <2>1. CASE o = r
    BY <2>1, SameView
  <2>2. CASE o # r
    <3>1. Held(proc[o], req[o], InList(o), InCallback(o), InSignal(o), sig[o])
      BY Views
    <3>2. proc'[o] = proc[o] /\ req'[o] = req[o] /\ sig'[o] = sig[o]
      BY <2>2
    <3> QED BY <3>1, <3>2, SameView
  <2> QED BY <2>1, <2>2
<1>2. fails' <= Cardinality(Dropped')
  <2>1. \A o \in Requests : Listed(o)' <=> Listed(o)
    BY DEF Listed
  <2>2. \A o \in Requests : proc[o].life # "none" /\ ~Starting(o) =>
                              proc'[o].life # "none" /\ ~Starting(o)'
    BY DEF Starting, StartPlaces
  <2>3. Dropped \subseteq Dropped'
    BY <2>1, <2>2 DEF Dropped
  <2>4. fails \in Nat /\ fails <= Cardinality(Dropped)
    BY DEF RefInv, GuardInv, GuardTypes
  <2> QED BY <2>3, <2>4, DroppedGrows
<1>3. OtherTypes'
  BY DEF RefInv, OtherTypes
<1>4. \A s \in Slots : Ahead(s)' <=> Ahead(s)
  BY DEF Ahead
<1> QED BY <1>1, <1>2, <1>3, <1>4 DEF RefInv

LEMMA Goes ==
  ASSUME RefInv, NEW r \in Requests, NEW pc \in Places, Goto(r, pc)
  PROVE  /\ req'[r] \in Request /\ req'[r].pc = pc /\ req'[r].tries = req[r].tries
         /\ \A o \in Requests \ {r} : req'[o] = req[o]
  BY DEF RefInv, GuardInv, GuardTypes, Request, Goto

LEMMA GoesWithTries ==
  ASSUME RefInv, NEW r \in Requests, NEW pc \in Places, NEW n \in Int,
         req' = [req EXCEPT ![r].pc = pc, ![r].tries = n]
  PROVE  /\ req'[r] \in Request /\ req'[r].pc = pc /\ req'[r].tries = n
         /\ \A o \in Requests \ {r} : req'[o] = req[o]
<1>1. req \in [Requests -> Request]
  BY DEF RefInv, GuardInv, GuardTypes
<1> QED BY <1>1 DEF Request

LEMMA LockTypes ==
  ASSUME RefInv, NEW r \in Requests
  PROVE  /\ manager \in BOOLEAN /\ listReady \in BOOLEAN
         /\ {lock, Null, r} \subseteq Requests \cup {Null, "shutdown"}
         /\ proc \in [Requests -> Server]
  BY DEF RefInv, OtherTypes

(* GetProcess before anything is started.                                  *)
LEMMA EarlyStep ==
  ASSUME RefInv, GuardInv', NEW r \in Requests,
         \/ GetProcess(r) \/ AllocateList(r) \/ LookShared(r) \/ LookUnlocked(r)
         \/ ReadAgain(r) \/ LockForStart(r)
  PROVE  RefInv'
<1>1. UNCHANGED <<manager, list, wt, sd, sig, fails, proc>> /\ req[r].pc \in EarlyPlaces
  BY DEF GetProcess, AllocateList, LookShared, LookUnlocked, ReadAgain, LockForStart, EarlyPlaces
<1>2. lock' \in {lock, r} /\ listReady' \in BOOLEAN
  BY LockTypes DEF GetProcess, AllocateList, LookShared, LookUnlocked, ReadAgain, LockForStart
<1>3. req'[r] \in Request
  BY DEF GuardInv, GuardTypes
<1>4. /\ req'[r].pc \in EarlyPlaces \cup {"got", "failed"} /\ req'[r].tries = req[r].tries
      /\ \A o \in Requests \ {r} : req'[o] = req[o]
  <2>1. req \in [Requests -> Request]
    BY DEF RefInv, GuardInv, GuardTypes
  <2> QED BY <2>1 DEF GetProcess, AllocateList, LookShared, LookUnlocked, ReadAgain, LockForStart,
             Goto, Returns, Request, EarlyPlaces
<1>5. Held(proc[r], req'[r], InList(r), InCallback(r), InSignal(r), sig[r])
  BY <1>1, <1>3, <1>4, Views, EarlyMoves
<1>6. req'[r].pc \notin StartPlaces
  BY <1>4 DEF EarlyPlaces, StartPlaces
<1> QED BY <1>1, <1>2, <1>4, <1>5, <1>6, LockTypes, OneObject

(* The limit, and what ends a start.                                       *)
LEMMA LimitStep ==
  ASSUME RefInv, GuardInv', NEW r \in Requests, CheckRapidFails(r)
  PROVE  RefInv'
<1>1. /\ UNCHANGED <<manager, listReady, list, wt, sd, sig>> /\ req[r].pc = "limit"
      /\ fails' = fails \/ fails' = 0
  BY DEF CheckRapidFails
<1>2. CASE Goto(r, "failed") /\ lock' = Null /\ UNCHANGED proc
  <2>1. "failed" \in Places /\ "failed" \notin StartPlaces /\ "limit" \in EarlyPlaces
    BY DEF Places, EarlyPlaces, StartPlaces
  <2>2. Held(proc[r], req'[r], InList(r), InCallback(r), InSignal(r), sig[r])
    BY <1>1, <1>2, <2>1, Views, EarlyMoves, Goes
  <2> QED BY <1>1, <1>2, <2>1, <2>2, Goes, LockTypes, OneObject
<1>3. CASE /\ req' = [req EXCEPT ![r].pc = "launch", ![r].tries = 2]
           /\ proc' = [proc EXCEPT ![r] = [NoProcess EXCEPT !.life = "alive", !.refs = 1]]
           /\ UNCHANGED lock
  <2>1. "launch" \in Places
    BY DEF Places, LockPlaces, StartPlaces
  <2>2. PICK y : y = [NoProcess EXCEPT !.life = "alive", !.refs = 1]
    OBVIOUS
  <2>3. /\ y \in Server /\ y.life = "alive" /\ y.refs = 1 /\ y.main = "none"
        /\ y.waitMain = "none" /\ y.waitChild = "none"
    BY <2>2 DEF NoProcess, Server
  <2>4. proc' = [proc EXCEPT ![r] = y]
    BY <1>3, <2>2
  <2>5. /\ proc' \in [Requests -> Server] /\ proc'[r] = y
        /\ \A o \in Requests \ {r} : proc'[o] = proc[o]
    BY <2>3, <2>4, LockTypes
  <2>8. /\ req'[r] \in Request /\ req'[r].pc = "launch" /\ req'[r].tries = 2
        /\ \A o \in Requests \ {r} : req'[o] = req[o]
    <3>1. PICK n : n = 2 /\ n \in Int
      OBVIOUS
    <3>2. req' = [req EXCEPT ![r].pc = "launch", ![r].tries = n]
      BY <1>3, <3>1
    <3> QED BY <2>1, <3>1, <3>2, GoesWithTries
  <2>6. Held(y, req'[r], InList(r), InCallback(r), InSignal(r), sig[r])
    BY <1>1, <2>3, <2>8, Views, Creates
  <2>7. proc[r].life = "none"
    BY <1>1, Views DEF Held, Lives, EarlyPlaces
  <2> QED BY <1>1, <1>3, <2>5, <2>6, <2>7, <2>8, LockTypes, OneObject
<1> QED BY <1>2, <1>3 DEF CheckRapidFails

LEMMA EndOfStartStep ==
  ASSUME RefInv, GuardInv', NEW r \in Requests, UnlockUnready(r) \/ DeleteProcess(r)
  PROVE  RefInv'
<1>1. CASE UnlockUnready(r)
  <2>1. /\ req[r].pc = "unready" /\ lock' = Null /\ Goto(r, "delete")
        /\ UNCHANGED <<manager, listReady, list, fails, proc, wt, sd, sig>>
    BY <1>1 DEF UnlockUnready
  <2>2. "delete" \in Places /\ "delete" \notin StartPlaces
    BY DEF Places, StartPlaces
  <2>3. Held(proc[r], req'[r], InList(r), InCallback(r), InSignal(r), sig[r])
    BY <2>1, <2>2, Views, LateMoves, Goes
  <2> QED BY <2>1, <2>2, <2>3, Goes, LockTypes, OneObject
<1>2. CASE DeleteProcess(r)
  <2>1. /\ req[r].pc = "delete" /\ Goto(r, "failed") /\ proc' = [proc EXCEPT ![r] = Freed(proc[r])]
        /\ UNCHANGED <<manager, lock, listReady, list, fails, wt, sd, sig>>
    BY <1>2 DEF DeleteProcess
  <2>2. "failed" \in Places /\ "failed" \notin StartPlaces
    BY DEF Places, StartPlaces
  <2>3. Freed(proc[r]) \in Server /\ Freed(proc[r]).life # "none"
    BY Views, FreedGives
  <2>4. /\ proc' \in [Requests -> Server] /\ proc'[r] = Freed(proc[r])
        /\ \A o \in Requests \ {r} : proc'[o] = proc[o]
    BY <2>1, <2>3, LockTypes
  <2>5. Held(Freed(proc[r]), req'[r], InList(r), InCallback(r), InSignal(r), sig[r])
    BY <2>1, <2>2, Views, Deletes, Goes
  <2> QED BY <2>1, <2>2, <2>3, <2>4, <2>5, Goes, LockTypes, OneObject
<1> QED BY <1>1, <1>2

(* StartProcess.                                                           *)
LEMMA PlacesOfStart == StartPlaces \subseteq Places /\ "unready" \in Places \ StartPlaces
  BY DEF Places, LockPlaces, StartPlaces

LEMMA StartMoveStep ==
  ASSUME RefInv, GuardInv', NEW r \in Requests,
         PortComesUp(r) \/ AwaitFails(r) \/ FinalCheck(r) \/ ConnectFails(r)
  PROVE  RefInv'
<1>1. /\ req[r].pc \in StartPlaces
      /\ UNCHANGED <<manager, lock, listReady, list, fails, proc, wt, sd, sig>>
  BY DEF PortComesUp, AwaitFails, FinalCheck, ConnectFails, StartPlaces
<1>2. PICK pc \in {"watch_main", "watch_child", "watch_other", "cleanup", "connect", "unready"} :
        /\ Goto(r, pc)
        /\ req[r].pc = "await" => pc \in TryPlaces \cup {"cleanup"}
        /\ req[r].pc \in {"await", "final", "connect"}
        /\ req[r].pc \in {"final", "connect"} => pc \in {"cleanup", "connect", "unready"}
  BY DEF PortComesUp, AwaitFails, FinalCheck, ConnectFails, TryPlaces
<1>3. pc \in Places /\ pc \in StartPlaces \cup {"unready"} /\ pc # "store"
  BY DEF Places, LockPlaces, StartPlaces
<1>4. /\ req'[r] \in Request /\ req'[r].pc = pc /\ req'[r].tries = req[r].tries
      /\ \A o \in Requests \ {r} : req'[o] = req[o]
  BY <1>2, <1>3, Goes
<1>5. TriesLeft(req'[r]) /\ Tried(req[r]) <= Tried(req'[r])
  <2>1. TriesLeft(req[r]) /\ req[r] \in Request
    BY Views DEF Held
  <2>2. TriesLeft(req'[r])
    BY <1>2, <1>4, <2>1 DEF TriesLeft, TryPlaces
  <2> QED BY <1>2, <1>4, <2>1 DEF Tried, TriesLeft, Request, TryPlaces
<1>6. Held(proc[r], req'[r], InList(r), InCallback(r), InSignal(r), sig[r])
  BY <1>1, <1>3, <1>4, <1>5, Views, StartMoves
<1> QED BY <1>1, <1>4, <1>6, LockTypes, OneObject

(* A step of StartProcess that works on the object.                        *)
LEMMA StartWorks ==
  ASSUME RefInv, GuardInv', NEW r \in Requests, req[r].pc \in StartPlaces,
         UNCHANGED <<manager, lock, listReady, list, fails, wt, sd, sig>>,
         \A o \in Requests \ {r} : req'[o] = req[o],
         NEW y \in Server, proc' = [proc EXCEPT ![r] = y], y.life = proc[r].life,
         Held(y, req'[r], InList(r), InCallback(r), InSignal(r), sig[r])
  PROVE  RefInv'
<1>1. /\ proc' \in [Requests -> Server] /\ proc'[r] = y
      /\ \A o \in Requests \ {r} : proc'[o] = proc[o]
  BY LockTypes
<1> QED BY <1>1, LockTypes, OneObject

LEMMA LaunchStep ==
  ASSUME RefInv, GuardInv', NEW r \in Requests, Launch(r) \/ LaunchFails(r)
  PROVE  RefInv'
<1> DEFINE x == proc[r]
           q == req[r]
<1>1. /\ q.pc = "launch" /\ UNCHANGED <<manager, lock, listReady, list, fails, wt, sd, sig>>
      /\ q.pc \in StartPlaces /\ q.pc # "store"
  BY DEF Launch, LaunchFails, StartPlaces
<1>2. Held(x, q, InList(r), InCallback(r), InSignal(r), sig[r]) /\ q \in Request /\ x \in Server
      /\ TriesLeft(q) /\ q.tries \in 1 .. 2
  BY <1>1, Views DEF Held, TriesLeft
<1>3. ASSUME NEW y \in Server, y.life = x.life, y.refs = x.refs, y.stopping = x.stopping,
             y.waitMain = x.waitMain, y.waitChild = x.waitChild,
             proc' = [proc EXCEPT ![r] = y],
             NEW pc \in {"await", "cleanup"}, NEW n \in Int, n = q.tries - 1 \/ (n = 0 /\ pc = "cleanup"),
             req' = [req EXCEPT ![r].pc = pc, ![r].tries = n]
      PROVE  RefInv'
  <2>1. Held(y, q, InList(r), InCallback(r), InSignal(r), sig[r])
    BY <1>1, <1>2, <1>3, Views, Runs
  <2>2. pc \in Places /\ pc \in StartPlaces /\ pc # "store"
    BY DEF Places, LockPlaces, StartPlaces
  <2>3. /\ req'[r] \in Request /\ req'[r].pc = pc /\ req'[r].tries = n
        /\ \A o \in Requests \ {r} : req'[o] = req[o]
    BY <1>3, <2>2, GoesWithTries
  <2>4. TriesLeft(req'[r]) /\ Tried(q) <= Tried(req'[r])
    <3>1. CASE pc = "await"
      <4>1. n = q.tries - 1 /\ n \in 0 .. 1
        BY <1>2, <1>3, <3>1
      <4> QED BY <1>1, <1>2, <2>3, <3>1, <4>1 DEF TriesLeft, Tried, TryPlaces
    <3>2. CASE pc = "cleanup"
      <4>1. n <= q.tries - 1 /\ n \in 0 .. 1
        BY <1>2, <1>3
      <4>2. TriesLeft(req'[r])
        BY <2>3, <3>2, <4>1 DEF TriesLeft, TryPlaces
      <4>3. Tried(q) = 2 * (2 - q.tries)
        BY <1>1 DEF Tried, TryPlaces
      <4>4. Tried(req'[r]) = 2 * (2 - n)
        BY <2>3, <3>2 DEF Tried, TryPlaces
      <4>5. 2 * (2 - q.tries) <= 2 * (2 - n)
        <5>1. PICK k : k = q.tries
          OBVIOUS
        <5>2. k \in Int /\ n \in Int /\ n <= k - 1
          BY <1>2, <4>1, <5>1
        <5>3. 2 * (2 - k) <= 2 * (2 - n)
          BY <5>2
        <5> QED BY <5>1, <5>3
      <4> QED BY <4>2, <4>3, <4>4, <4>5
    <3> QED BY <3>1, <3>2
  <2>5. Held(y, req'[r], InList(r), InCallback(r), InSignal(r), sig[r])
    BY <1>1, <1>2, <2>1, <2>2, <2>3, <2>4, Views, StartMoves
  <2> QED BY <1>1, <1>3, <2>3, <2>5, StartWorks
<1>6. req \in [Requests -> Request]
  BY DEF RefInv, GuardInv, GuardTypes
<1>4. CASE Launch(r)
  <2>1. PICK p \in SetupListenPort :
          proc' = [proc EXCEPT ![r].port = p, ![r].main = "running",
                               ![r].child = "none", ![r].listener = "none"]
    BY <1>4 DEF Launch
  <2>2. p \in Ports
    BY <2>1 DEF SetupListenPort
  <2>3. PICK y : y = [x EXCEPT !.port = p, !.main = "running", !.child = "none",
                               !.listener = "none"]
    OBVIOUS
  <2>4. /\ y \in Server /\ y.life = x.life /\ y.refs = x.refs /\ y.stopping = x.stopping
        /\ y.waitMain = x.waitMain /\ y.waitChild = x.waitChild
    BY <1>2, <2>2, <2>3 DEF Server
  <2>5. proc' = [proc EXCEPT ![r] = y]
    BY <2>1, <2>3
  <2>6. req' = [req EXCEPT ![r].pc = "await", ![r].tries = q.tries - 1]
    BY <1>4, <1>6 DEF Launch, Request
  <2>7. q.tries - 1 \in Int
    BY <1>2
  <2>8. PICK n \in Int :
          n = q.tries - 1 /\ req' = [req EXCEPT ![r].pc = "await", ![r].tries = n]
    BY <2>6, <2>7
  <2> QED BY <1>3, <2>4, <2>5, <2>8
<1>5. CASE LaunchFails(r)
  <2>1. PICK y : y = [x EXCEPT !.port = Null]
    OBVIOUS
  <2>2. /\ y \in Server /\ y.life = x.life /\ y.refs = x.refs /\ y.stopping = x.stopping
        /\ y.waitMain = x.waitMain /\ y.waitChild = x.waitChild
    BY <1>2, <2>1 DEF Server
  <2>3. proc' = [proc EXCEPT ![r] = y]
    BY <1>5, <2>1 DEF LaunchFails
  <2>4. PICK n \in {0, q.tries - 1} : req' = [req EXCEPT ![r].pc = "cleanup", ![r].tries = n]
    BY <1>5, <1>6 DEF LaunchFails, Request
  <2>5. n \in Int /\ (n = q.tries - 1 \/ n = 0)
    BY <1>2
  <2> QED BY <1>3, <2>2, <2>3, <2>4, <2>5
<1> QED BY <1>4, <1>5

LEMMA WatchStep ==
  ASSUME RefInv, GuardInv', NEW r \in Requests, WatchProcess(r) \/ MatchChild(r)
  PROVE  RefInv'
<1> DEFINE x == proc[r]
           q == req[r]
<1>1. /\ q.pc \in TryPlaces \cup {"match"} /\ q.pc \in StartPlaces /\ q.pc # "await"
      /\ UNCHANGED <<manager, lock, listReady, list, fails, wt, sd, sig>>
  BY DEF WatchProcess, MatchChild, TryPlaces, StartPlaces
<1>2. Held(x, q, InList(r), InCallback(r), InSignal(r), sig[r]) /\ q \in Request /\ x \in Server
      /\ TriesLeft(q)
  BY Views DEF Held
<1>3. CASE WatchProcess(r)
  <2>1. PICK pc \in {"connect", "match", "cleanup"} : Goto(r, pc)
    BY <1>3 DEF WatchProcess
  <2>2. pc \in Places
    BY DEF Places, LockPlaces, StartPlaces
  <2>3. PICK z : z = ReferenceServerProcess(x)
    OBVIOUS
  <2>4. /\ z \in Server /\ z.life = x.life /\ z.refs = x.refs + 1
        /\ z.stopping = x.stopping /\ z.main = x.main
        /\ z.waitMain = x.waitMain /\ z.waitChild = x.waitChild
    BY <1>2, <2>3, ReferenceGives
  <2>5. PICK y : y = [z EXCEPT !.waitMain = "armed"]
    OBVIOUS
  <2>6. /\ y \in Server /\ y.life = x.life /\ y.refs = x.refs + 1
        /\ y.stopping = x.stopping /\ y.main = x.main
        /\ y.waitMain = "armed" /\ y.waitChild = x.waitChild
    BY <2>4, <2>5 DEF Server
  <2>7. proc' = [proc EXCEPT ![r] = y]
    BY <1>3, <2>3, <2>5 DEF WatchProcess, RegisterProcessWait
  <2>8. q.pc # "match"
    BY <1>3 DEF WatchProcess
  <2>9. Held(y, req'[r], InList(r), InCallback(r), InSignal(r), sig[r])
    BY <1>1, <1>2, <2>1, <2>2, <2>6, <2>8, Goes, Views, Watches
  <2> QED BY <1>1, <2>1, <2>2, <2>6, <2>7, <2>9, Goes, StartWorks
<1>4. CASE MatchChild(r) /\ UNCHANGED proc
  <2>1. PICK pc \in {"cleanup", "connect", "final"} : Goto(r, pc)
    BY <1>4 DEF MatchChild
  <2>2. pc \in Places /\ pc \in StartPlaces /\ pc # "store"
    BY DEF Places, LockPlaces, StartPlaces
  <2>3. /\ req'[r] \in Request /\ req'[r].pc = pc /\ req'[r].tries = q.tries
        /\ \A o \in Requests \ {r} : req'[o] = req[o]
    BY <2>1, <2>2, Goes
  <2>4. q.pc = "match"
    BY <1>4 DEF MatchChild
  <2>5. TriesLeft(req'[r]) /\ Tried(q) <= Tried(req'[r])
    BY <1>2, <2>3, <2>4 DEF TriesLeft, Tried, TryPlaces, Request
  <2>6. Held(x, req'[r], InList(r), InCallback(r), InSignal(r), sig[r])
    BY <1>1, <1>2, <2>2, <2>3, <2>5, Views, StartMoves
  <2> QED BY <1>1, <1>4, <2>3, <2>6, LockTypes, OneObject
<1>5. CASE /\ Goto(r, "final")
           /\ proc' = [proc EXCEPT ![r].refs = @ + 1, ![r].waitChild = "armed"]
           /\ q.pc = "match"
  <2>1. PICK y : y = [x EXCEPT !.refs = x.refs + 1, !.waitChild = "armed"]
    OBVIOUS
  <2>2. /\ y \in Server /\ y.life = x.life /\ y.refs = x.refs + 1
        /\ y.stopping = x.stopping /\ y.main = x.main
        /\ y.waitMain = x.waitMain /\ y.waitChild = "armed"
    <3>1. x.refs + 1 \in Nat
      BY <1>2 DEF Server
    <3> QED BY <1>2, <2>1, <3>1 DEF Server
  <2>3. proc' = [proc EXCEPT ![r] = y]
    BY <1>5, <2>1
  <2>4. "final" \in Places
    BY DEF Places, LockPlaces, StartPlaces
  <2>5. Held(y, req'[r], InList(r), InCallback(r), InSignal(r), sig[r])
    BY <1>1, <1>2, <1>5, <2>2, <2>4, Goes, Views, Watches, SMTT(30)
  <2> QED BY <1>1, <1>5, <2>2, <2>3, <2>4, <2>5, Goes, StartWorks
<1> QED BY <1>3, <1>4, <1>5, Zenon DEF MatchChild

LEMMA ConnectStep ==
  ASSUME RefInv, GuardInv', NEW r \in Requests, Connect(r) \/ CleanUpAndRetry(r)
  PROVE  RefInv'
<1> DEFINE x == proc[r]
           q == req[r]
<1>1. Held(x, q, InList(r), InCallback(r), InSignal(r), sig[r]) /\ q \in Request /\ x \in Server
      /\ TriesLeft(q)
  BY Views DEF Held
<1>2. CASE Connect(r)
  <2>1. /\ q.pc = "connect" /\ Goto(r, "store")
        /\ UNCHANGED <<manager, lock, listReady, list, fails, wt, sd, sig>>
        /\ proc' = [proc EXCEPT ![r] = [x EXCEPT !.ready = TRUE]]
    BY <1>2 DEF Connect
  <2>2. [x EXCEPT !.ready = TRUE] \in Server /\ [x EXCEPT !.ready = TRUE].life = x.life
    BY <1>1 DEF Server
  <2>3. "store" \in Places /\ "connect" \in StartPlaces
    BY DEF Places, LockPlaces, StartPlaces
  <2>4. Held([x EXCEPT !.ready = TRUE], req'[r], InList(r), InCallback(r), InSignal(r), sig[r])
    BY <1>1, <2>1, <2>3, Goes, Views, Connects
  <2> QED BY <2>1, <2>2, <2>3, <2>4, Goes, StartWorks
<1>3. CASE CleanUpAndRetry(r)
  <2>1. /\ q.pc = "cleanup" /\ Goto(r, IF TriesAgain(r) THEN "launch" ELSE "unready")
        /\ UNCHANGED <<manager, lock, listReady, list, fails, wt, sd, sig>>
        /\ proc' = [proc EXCEPT ![r] = CleanUp(x)]
    BY <1>3 DEF CleanUpAndRetry
  <2>2. CleanUp(x) \in Server /\ CleanUp(x).life = x.life
    BY <1>1, CleanUpGives
  <2>3. "cleanup" \in StartPlaces
    BY DEF StartPlaces
  <2>4. Held(CleanUp(x), q, InList(r), InCallback(r), InSignal(r), sig[r])
    BY <1>1, <2>1, Views, CleansUp
  <2>5. PICK pc \in {"launch", "unready"} : Goto(r, pc) /\ (pc = "launch" => q.tries # 0)
    BY <1>1, <2>1 DEF TriesAgain, Request
  <2>6. pc \in Places /\ pc \in StartPlaces \cup {"unready"} /\ pc # "store"
    BY DEF Places, LockPlaces, StartPlaces
  <2>7. /\ req'[r] \in Request /\ req'[r].pc = pc /\ req'[r].tries = q.tries
        /\ \A o \in Requests \ {r} : req'[o] = req[o]
    BY <2>5, <2>6, Goes
  <2>8. TriesLeft(req'[r]) /\ Tried(q) <= Tried(req'[r])
    BY <1>1, <2>1, <2>5, <2>7 DEF TriesLeft, Tried, TryPlaces, Request
  <2>9. Held(CleanUp(x), req'[r], InList(r), InCallback(r), InSignal(r), sig[r])
    BY <1>1, <2>1, <2>3, <2>4, <2>6, <2>7, <2>8, Views, StartMoves
  <2> QED BY <2>1, <2>2, <2>3, <2>7, <2>9, StartWorks
<1> QED BY <1>2, <1>3

-----------------------------------------------------------------------------
(* The list.                                                               *)
LEMMA NoSignals ==
  ASSUME RefInv, sd.pc \notin HoldPlaces, NEW o \in Requests
  PROVE  InSignal(o) = "no" /\ (sd' = sd => InSignal(o)' = "no")
  BY DEF InSignal, Signals, HoldPlaces

LEMMA StoreStep ==
  ASSUME RefInv, GuardInv', NEW r \in Requests, StoreProcess(r)
  PROVE  RefInv'
<1> DEFINE k == req[r].slot
<1>1. /\ req[r].pc = "store" /\ list' = [list EXCEPT ![k] = r] /\ lock' = Null
      /\ req' = [req EXCEPT ![r].pc = "got", ![r].got = r]
      /\ UNCHANGED <<manager, listReady, fails, proc, wt, sd, sig>>
  BY DEF StoreProcess, Returns
<1>2. /\ "store" \in StartPlaces /\ "store" \in FreePlaces /\ "store" \in LockPlaces
      /\ "got" \in Places \ StartPlaces
  BY DEF StartPlaces, FreePlaces, LockPlaces, Places
<1>3. k \in Slots /\ list[k] = Null /\ list \in [Slots -> Requests \cup {Null}]
  BY <1>1, <1>2 DEF RefInv, GuardInv, GuardTypes, Request
<1>4. sd.pc \notin HoldPlaces
  BY <1>1, <1>2, Alone DEF RefInv
<1>5. /\ req'[r] \in Request /\ req'[r].pc = "got" /\ req'[r].tries = req[r].tries
      /\ \A o \in Requests \ {r} : req'[o] = req[o]
  <2>1. req \in [Requests -> Request]
    BY DEF RefInv, GuardInv, GuardTypes
  <2> QED BY <1>1, <1>2, <2>1 DEF Request
<1>6. ~Listed(r)
  BY <1>1, Views DEF Held, Lives, InList, Count
<1>7. /\ Listed(r)'
      /\ \A o \in Requests \ {r} : Listed(o)' <=> Listed(o)
  BY <1>1, <1>3, ManagerAssumption DEF Listed
<1>8. HeldInv'
  <2> SUFFICES ASSUME NEW o \in Requests
               PROVE  Held(proc'[o], req'[o], InList(o)', InCallback(o)', InSignal(o)', sig'[o])
    BY DEF HeldInv
  <2>1. /\ InSignal(o)' = InSignal(o) /\ InCallback(o)' = InCallback(o)
        /\ proc'[o] = proc[o] /\ sig'[o] = sig[o]
    BY <1>1, <1>4, NoSignals DEF InCallback
  <2>2. CASE o = r
    <3>1. InList(o) = 0 /\ InList(o)' = 1
      BY <1>6, <1>7, <2>2 DEF InList, Count
    <3>2. Held(proc[r], req[r], 0, InCallback(r), InSignal(r), sig[r])
      BY <2>2, <3>1, Views
    <3>3. Held(proc[r], req'[r], 1, InCallback(r), InSignal(r), sig[r])
      BY <1>1, <1>5, <3>2, Views, Stores
    <3> QED BY <2>1, <2>2, <3>1, <3>3
  <2>3. CASE o # r
    <3>1. InList(o)' = InList(o)
      BY <1>7, <2>3 DEF InList, Count
    <3> QED BY <1>5, <2>1, <2>3, <3>1, Views
  <2> QED BY <2>2, <2>3
<1>9. fails' <= Cardinality(Dropped')
  <2>1. \A o \in Requests \ {r} : Starting(o)' <=> Starting(o)
    BY <1>5 DEF Starting
  <2>2. Starting(r)
    BY <1>1 DEF Starting
  <2>3. Dropped \subseteq Dropped'
    BY <1>1, <1>7, <2>1, <2>2 DEF Dropped
  <2> QED BY <1>1, <2>3, DroppedGrows DEF RefInv, GuardInv, GuardTypes
<1>10. \A s \in Slots : list'[s] # Null /\ Ahead(s)' => sig'[list'[s]] = "none"
  <2>1. sd.pc \notin SendPlaces \cup {"signal"}
    BY <1>4 DEF HoldPlaces, SendPlaces
  <2>2. SUFFICES ASSUME NEW s \in Slots, list'[s] # Null, sd.pc = "idle"
                 PROVE  sig[list'[s]] = "none"
    BY <1>1, <2>1 DEF Ahead
  <2>3. list'[s] \in Requests
    BY <1>1, <1>3, <2>2
  <2> QED BY <2>2, <2>3 DEF RefInv
<1>11. \A s, t \in Slots : list'[s] # Null /\ list'[s] = list'[t] => s = t
  <2>1. \A s \in Slots : list[s] # r
    BY <1>6 DEF Listed
  <2> QED BY <1>1, <1>3, <2>1 DEF RefInv
<1>12. OtherTypes'
  BY <1>1 DEF RefInv, OtherTypes
<1>13. sd'.pc \notin SendPlaces
  BY <1>1, <1>4 DEF HoldPlaces, SendPlaces
<1> QED BY <1>1, <1>8, <1>9, <1>10, <1>11, <1>12, <1>13 DEF RefInv

(* ShutdownProcessNoLock: as many objects go as there are slots.           *)
Gone(x) == {list[s] : s \in SamePort(x)}

LEMMA GoneCount ==
  ASSUME RefInv, NEW x
  PROVE  /\ Gone(x) \subseteq Requests /\ IsFiniteSet(Gone(x))
         /\ Cardinality(SamePort(x)) \in Nat /\ Cardinality(Gone(x)) \in Nat
         /\ Cardinality(SamePort(x)) <= Cardinality(Gone(x))
         /\ \A o \in Gone(x) : Listed(o)
<1>1. /\ SamePort(x) \subseteq Slots /\ list \in [Slots -> Requests \cup {Null}]
      /\ \A s \in SamePort(x) : list[s] # Null
  BY DEF SamePort, RefInv, GuardInv, GuardTypes
<1>2. Gone(x) \subseteq Requests /\ \A o \in Gone(x) : Listed(o)
  BY <1>1 DEF Gone, Listed
<1>3. IsFiniteSet(Gone(x)) /\ Cardinality(Gone(x)) \in Nat
  BY <1>2, FiniteRequests, FS_Subset, FS_CardinalityType
<1>4. PICK f : f = [s \in SamePort(x) |-> list[s]]
  OBVIOUS
<1>5. f \in Injection(SamePort(x), Gone(x))
  <2>1. f \in [SamePort(x) -> Gone(x)]
    BY <1>4 DEF Gone
  <2>2. \A s, t \in SamePort(x) : f[s] = f[t] => s = t
    BY <1>1, <1>4 DEF RefInv
  <2> QED BY <2>1, <2>2 DEF Injection, IsInjective
<1>6. Cardinality(SamePort(x)) <= Cardinality(Gone(x))
  BY <1>3, <1>5, FS_Injection
<1> QED BY <1>2, <1>3, <1>6, SamePortCount

LEMMA Shuts ==
  ASSUME RefInv, GuardInv', NEW x, ShutdownProcessNoLock(x), sd.pc \notin HoldPlaces,
         UNCHANGED <<manager, listReady, sd, sig>>,
         lock' \in Requests \cup {Null, "shutdown"},
         wt' \in [pc : {"idle", "check", "shutdown", "dereference"}, obj : Requests \cup {Null}],
         wt'.obj = wt.obj, wt'.pc = "idle" <=> wt.pc = "idle",
         \A o \in Requests :
           /\ req'[o] \in Request
           /\ Held(proc[o], req'[o], InList(o), InCallback(o), InSignal(o), sig[o])
           /\ req'[o].pc \in StartPlaces => req[o].pc \in StartPlaces
  PROVE  RefInv'
<1>1. /\ \A o \in Requests : proc'[o] = IF o \in Gone(x)
                               THEN DereferenceServerProcess(StopProcess(proc[o])) ELSE proc[o]
      /\ list' = [s \in Slots |-> IF s \in SamePort(x) THEN Null ELSE list[s]]
      /\ fails' = fails + Cardinality(SamePort(x))
      /\ proc' = [o \in Requests |-> proc'[o]]
  BY DEF ShutdownProcessNoLock, Gone
<1>2. list \in [Slots -> Requests \cup {Null}] /\ fails \in Nat
  BY DEF RefInv, GuardInv, GuardTypes
<1>3. \A o \in Requests : Listed(o)' <=> Listed(o) /\ o \notin Gone(x)
  <2> SUFFICES ASSUME NEW o \in Requests PROVE Listed(o)' <=> Listed(o) /\ o \notin Gone(x)
    OBVIOUS
  <2>1. o # Null
    BY ManagerAssumption
  <2>2. \A s, t \in Slots : list[s] # Null /\ list[s] = list[t] => s = t
    BY DEF RefInv
  <2> QED BY <1>1, <1>2, <2>1, <2>2 DEF Listed, Gone, SamePort
<1>4. \A o \in Requests : /\ InSignal(o) = "no" /\ InSignal(o)' = "no"
                          /\ InCallback(o)' = InCallback(o) /\ sig'[o] = sig[o]
  BY NoSignals DEF InCallback
<1>5. ASSUME NEW o \in Requests
      PROVE  /\ Held(proc'[o], req'[o], InList(o)', InCallback(o)', InSignal(o)', sig'[o])
             /\ proc'[o] \in Server
             /\ proc[o].life # "none" => proc'[o].life # "none"
  <2>1. CASE o \in Gone(x)
    <3>1. InList(o) = 1 /\ InList(o)' = 0
      BY <1>3, <2>1, GoneCount DEF InList, Count
    <3>2. /\ Held(DereferenceServerProcess(StopProcess(proc[o])), req'[o], 0, InCallback(o), "no", sig[o])
          /\ DereferenceServerProcess(StopProcess(proc[o])).life # "none"
      BY <1>4, <3>1, Views, Drops
    <3>3. proc'[o] = DereferenceServerProcess(StopProcess(proc[o]))
      BY <1>1, <2>1
    <3> QED BY <1>4, <3>1, <3>2, <3>3 DEF Held, WellFormed
  <2>2. CASE o \notin Gone(x)
    <3>1. InList(o)' = InList(o)
      BY <1>3, <2>2 DEF InList, Count
    <3>2. proc'[o] = proc[o]
      BY <1>1, <2>2
    <3> QED BY <1>4, <3>1, <3>2, Views
  <2> QED BY <2>1, <2>2
<1>6. HeldInv'
  BY <1>5 DEF HeldInv
<1>7. fails' <= Cardinality(Dropped')
  <2>1. Dropped \cup Gone(x) \subseteq Dropped'
    <3>1. ASSUME NEW o \in Gone(x) PROVE o \in Dropped'
      <4>1. o \in Requests /\ Listed(o)
        BY GoneCount
      <4>2. proc[o].life # "none" /\ req[o].pc \notin StartPlaces
        BY <4>1, Views DEF Held, Lives, InList, Count, StartPlaces
      <4> QED BY <1>3, <1>5, <4>1, <4>2 DEF Dropped, Starting, StartPlaces
    <3>2. ASSUME NEW o \in Dropped PROVE o \in Dropped'
      BY <1>3, <1>5 DEF Dropped, Starting, StartPlaces
    <3> QED BY <3>1, <3>2
  <2>2. Dropped \cap Gone(x) = {}
    BY GoneCount DEF Dropped
  <2>3. IsFiniteSet(Dropped) /\ IsFiniteSet(Dropped')
    <3>1. Dropped \subseteq Requests /\ Dropped' \subseteq Requests
      BY DEF Dropped
    <3> QED BY <3>1, FiniteRequests, FS_Subset
  <2>4. Cardinality(Dropped \cup Gone(x)) = Cardinality(Dropped) + Cardinality(Gone(x))
    <3>1. Cardinality(Dropped) \in Nat /\ Cardinality(Gone(x)) \in Nat
      BY <2>3, GoneCount, FS_CardinalityType
    <3>2. Cardinality(Dropped \cap Gone(x)) = 0
      BY <2>2, FS_EmptySet
    <3>3. Cardinality(Dropped \cup Gone(x)) =
            Cardinality(Dropped) + Cardinality(Gone(x)) - Cardinality(Dropped \cap Gone(x))
      BY <2>3, GoneCount, FS_Union
    <3> QED BY <3>1, <3>2, <3>3
  <2>5. Cardinality(Dropped \cup Gone(x)) <= Cardinality(Dropped')
    BY <2>1, <2>3, FS_Subset
  <2>6. fails <= Cardinality(Dropped)
    BY DEF RefInv
  <2>7. /\ Cardinality(Dropped) \in Nat /\ Cardinality(Dropped') \in Nat
    BY <2>3, FS_CardinalityType
  <2> QED BY <1>1, <1>2, <2>4, <2>5, <2>6, <2>7, GoneCount
<1>8. OtherTypes'
  <2>1. proc' \in [Requests -> Server]
    BY <1>1, <1>5
  <2> QED BY <2>1 DEF RefInv, OtherTypes
<1>9. /\ \A s, t \in Slots : list'[s] # Null /\ list'[s] = list'[t] => s = t
      /\ \A s \in Slots : list'[s] # Null /\ Ahead(s)' => sig'[list'[s]] = "none"
  BY <1>1, <1>2 DEF RefInv, Ahead
<1>10. sd'.pc \notin SendPlaces
  BY DEF HoldPlaces, SendPlaces
<1> QED BY <1>6, <1>7, <1>8, <1>9, <1>10 DEF RefInv

LEMMA RecheckStep ==
  ASSUME RefInv, GuardInv', NEW r \in Requests, Recheck(r)
  PROVE  RefInv'
<1>1. /\ req[r].pc = "recheck" /\ UNCHANGED <<manager, listReady, wt, sd, sig>>
      /\ "recheck" \in EarlyPlaces /\ "recheck" \in LockPlaces
  BY DEF Recheck, EarlyPlaces, LockPlaces
<1>2. sd.pc \notin HoldPlaces
  BY <1>1, Alone DEF RefInv
<1>3. req \in [Requests -> Request]
  BY DEF RefInv, GuardInv, GuardTypes
<1>4. CASE FoundUnderLock(r)
  <2>1. /\ UNCHANGED <<list, fails, proc>> /\ lock' = Null
        /\ req' = [req EXCEPT ![r].pc = "got", ![r].got = list[req[r].slot]]
    BY <1>4, Zenon DEF Recheck, Returns
  <2>2. req'[r] \in Request
    BY DEF GuardInv, GuardTypes
  <2>3. /\ req'[r].pc = "got" /\ req'[r].tries = req[r].tries
        /\ \A o \in Requests \ {r} : req'[o] = req[o]
    BY <1>3, <2>1 DEF Request
  <2>4. Held(proc[r], req'[r], InList(r), InCallback(r), InSignal(r), sig[r])
    BY <1>1, <2>2, <2>3, Views, EarlyMoves
  <2>5. "got" \notin StartPlaces
    BY DEF StartPlaces
  <2> QED BY <1>1, <2>1, <2>3, <2>4, <2>5, LockTypes, OneObject
<1>5. CASE ~FoundUnderLock(r)
  <2>1. Goto(r, "limit") /\ UNCHANGED lock
    BY <1>5, Zenon DEF Recheck
  <2>2. "limit" \in Places /\ "limit" \in EarlyPlaces /\ "limit" \notin StartPlaces
    BY DEF Places, LockPlaces, EarlyPlaces, StartPlaces
  <2>3. /\ req'[r] \in Request /\ req'[r].pc = "limit" /\ req'[r].tries = req[r].tries
        /\ \A o \in Requests \ {r} : req'[o] = req[o]
    BY <2>1, <2>2, Goes
  <2>4. Held(proc[r], req'[r], InList(r), InCallback(r), InSignal(r), sig[r])
    BY <1>1, <2>2, <2>3, Views, EarlyMoves
  <2>5. CASE list[req[r].slot] = Null
    <3>1. UNCHANGED <<list, fails, proc>>
      BY <1>5, <2>5, Zenon DEF Recheck
    <3> QED BY <1>1, <2>1, <2>2, <2>3, <2>4, <3>1, LockTypes, OneObject
  <2>6. CASE list[req[r].slot] # Null
    <3>1. ShutdownProcessNoLock(proc[list[req[r].slot]])
      BY <1>5, <2>6, Zenon DEF Recheck
    <3>2. ASSUME NEW o \in Requests
          PROVE  /\ req'[o] \in Request
                 /\ Held(proc[o], req'[o], InList(o), InCallback(o), InSignal(o), sig[o])
                 /\ req'[o].pc \in StartPlaces => req[o].pc \in StartPlaces
      <4>1. CASE o = r
        BY <2>2, <2>3, <2>4, <4>1
      <4>2. CASE o # r
        BY <2>3, <4>2, Views
      <4> QED BY <4>1, <4>2
    <3>3. /\ lock' \in Requests \cup {Null, "shutdown"}
          /\ wt' \in [pc : {"idle", "check", "shutdown", "dereference"}, obj : Requests \cup {Null}]
      BY <1>1, <2>1 DEF RefInv, OtherTypes
    <3> QED BY <1>1, <1>2, <3>1, <3>2, <3>3, Shuts
  <2> QED BY <2>5, <2>6
<1> QED BY <1>4, <1>5

-----------------------------------------------------------------------------
(* The wait thread.  Of the objects only o changes, and of the views only  *)
(* the one of the callback.                                                *)
LEMMA DereferenceLives ==
  ASSUME NEW x \in Server, x.life # "none"
  PROVE  DereferenceServerProcess(x) \in Server /\ DereferenceServerProcess(x).life # "none"
<1>1. PICK y : y = DereferenceServerProcess(x)
  OBVIOUS
<1>2. x.refs <= 1 \/ x.refs > 1
  BY DEF Server
<1> QED BY <1>1, <1>2, DereferenceGives

LEMMA OneThread ==
  ASSUME RefInv, GuardInv', NEW o \in Requests, UNCHANGED <<manager, lock, listReady, list, fails, req>>,
         \A p \in Requests \ {o} :
           /\ proc'[p] = proc[p] /\ sig'[p] = sig[p]
           /\ InCallback(p)' = InCallback(p) /\ InSignal(p)' = InSignal(p),
         proc' \in [Requests -> Server], proc[o].life # "none" => proc'[o].life # "none",
         sig' \in [Requests -> Signal],
         wt' \in [pc : {"idle", "check", "shutdown", "dereference"}, obj : Requests \cup {Null}],
         wt'.pc = "idle" <=> wt'.obj = Null,
         Held(proc'[o], req[o], InList(o), InCallback(o)', InSignal(o)', sig'[o]),
         sd'.slot \in 0 .. NSlots,
         sd'.pc \in SendPlaces => sd'.slot \in Slots /\ list[sd'.slot] # Null,
         sd'.pc = "idle" => \A p \in Requests : sig'[p] = "none",
         \A s \in Slots : list[s] # Null /\ Ahead(s)' => sig'[list[s]] = "none"
  PROVE  RefInv'
<1>1. HeldInv'
  <2> SUFFICES ASSUME NEW p \in Requests
               PROVE  Held(proc'[p], req'[p], InList(p)', InCallback(p)', InSignal(p)', sig'[p])
    BY DEF HeldInv
  <2>1. InList(p)' = InList(p)
    BY DEF InList, Listed, Count
  <2>2. CASE p = o
    BY <2>1, <2>2
  <2>3. CASE p # o
    BY <2>1, <2>3, Views
  <2> QED BY <2>2, <2>3
<1>2. fails' <= Cardinality(Dropped')
  <2>1. Dropped \subseteq Dropped'
    BY DEF Dropped, Listed, Starting
  <2> QED BY <2>1, DroppedGrows DEF RefInv, GuardInv, GuardTypes
<1>3. OtherTypes'
  BY DEF RefInv, OtherTypes, Signal
<1>4. \A s, t \in Slots : list'[s] # Null /\ list'[s] = list'[t] => s = t
  BY DEF RefInv
<1> QED BY <1>1, <1>2, <1>3, <1>4 DEF RefInv

LEMMA Kept ==
  ASSUME RefInv
  PROVE  /\ sig \in [Requests -> Signal] /\ proc \in [Requests -> Server]
         /\ wt \in [pc : {"idle", "check", "shutdown", "dereference"}, obj : Requests \cup {Null}]
         /\ wt.pc = "idle" <=> wt.obj = Null
         /\ sd.slot \in 0 .. NSlots
         /\ sd.pc \in SendPlaces => sd.slot \in Slots /\ list[sd.slot] # Null
         /\ sd.pc = "idle" => \A p \in Requests : sig[p] = "none"
         /\ \A s \in Slots : list[s] # Null /\ Ahead(s) => sig[list[s]] = "none"
         /\ \A s \in Slots : list[s] \in Requests \cup {Null}
  BY DEF RefInv, GuardInv, GuardTypes, OtherTypes, Signal

LEMMA SdKept ==
  ASSUME RefInv, UNCHANGED <<list, sd>>
  PROVE  /\ \A p \in Requests : InSignal(p)' = InSignal(p)
         /\ \A s \in Slots : Ahead(s)' <=> Ahead(s)
         /\ wt' = wt => \A p \in Requests : InCallback(p)' = InCallback(p)
  BY DEF InSignal, Signals, Signalled, Ahead, InCallback

LEMMA CallbackStep ==
  ASSUME RefInv, GuardInv', NEW o \in Requests, ProcessHandleCallback(o)
  PROVE  RefInv'
<1> DEFINE x == proc[o]
<1>1. /\ wt.pc = "idle" /\ UNCHANGED <<manager, lock, listReady, list, fails, req, sd, sig>>
      /\ wt' = IF x.stopping THEN wt ELSE [pc |-> "check", obj |-> o]
  BY DEF ProcessHandleCallback
<1>2. Held(x, req[o], InList(o), InCallback(o), InSignal(o), sig[o]) /\ x \in Server
  BY Views
<1>3. PICK y \in Server :
        /\ proc' = [proc EXCEPT ![o] = y]
        /\ y.life = x.life /\ y.refs = x.refs /\ y.stopping /\ y.ready = x.ready /\ y.main = x.main
        /\ \/ x.waitMain = "armed" /\ y.waitMain = "fired" /\ y.waitChild = x.waitChild
           \/ x.waitChild = "armed" /\ y.waitChild = "fired" /\ y.waitMain = x.waitMain
  <2>1. CASE /\ x.waitMain = "armed"
             /\ proc' = [proc EXCEPT ![o]["waitMain"] = "fired", ![o].stopping = TRUE]
    <3>1. PICK y : y = [x EXCEPT !.waitMain = "fired", !.stopping = TRUE]
      OBVIOUS
    <3>2. proc' = [proc EXCEPT ![o] = y]
      BY <2>1, <3>1
    <3>3. /\ y \in Server /\ y.life = x.life /\ y.refs = x.refs /\ y.stopping /\ y.ready = x.ready
          /\ y.main = x.main /\ y.waitMain = "fired" /\ y.waitChild = x.waitChild
      BY <1>2, <3>1 DEF Server
    <3> QED BY <2>1, <3>2, <3>3
  <2>2. CASE /\ x.waitChild = "armed"
             /\ proc' = [proc EXCEPT ![o]["waitChild"] = "fired", ![o].stopping = TRUE]
    <3>1. PICK y : y = [x EXCEPT !.waitChild = "fired", !.stopping = TRUE]
      OBVIOUS
    <3>2. proc' = [proc EXCEPT ![o] = y]
      BY <2>2, <3>1
    <3>3. /\ y \in Server /\ y.life = x.life /\ y.refs = x.refs /\ y.stopping /\ y.ready = x.ready
          /\ y.main = x.main /\ y.waitChild = "fired" /\ y.waitMain = x.waitMain
      BY <1>2, <3>1 DEF Server
    <3> QED BY <2>2, <3>2, <3>3
  <2>3. PICK w \in Waits :
          /\ x[w[1]] = "armed"
          /\ proc' = [proc EXCEPT ![o][w[1]] = "fired", ![o].stopping = TRUE]
    BY DEF ProcessHandleCallback
  <2>4. CASE w = <<"waitMain", "main">>
    <3>1. w[1] = "waitMain"
      BY <2>4
    <3> QED BY <2>1, <2>3, <3>1
  <2>5. CASE w = <<"waitChild", "child">>
    <3>1. w[1] = "waitChild"
      BY <2>5
    <3> QED BY <2>2, <2>3, <3>1
  <2> QED BY <2>4, <2>5 DEF Waits
<1>4. InCallback(o) = 0 /\ o # Null
  BY <1>1, Kept, ManagerAssumption DEF InCallback, Count
<1>5. /\ InCallback(o)' \in Places01
      /\ wt' \in [pc : {"idle", "check", "shutdown", "dereference"}, obj : Requests \cup {Null}]
      /\ wt'.pc = "idle" <=> wt'.obj = Null
      /\ \A p \in Requests \ {o} : InCallback(p)' = InCallback(p)
  <2>1. CASE x.stopping
    BY <1>1, <2>1, Kept DEF InCallback, Count, Places01
  <2>2. CASE ~x.stopping
    <3>1. wt' = [pc |-> "check", obj |-> o]
      BY <1>1, <2>2
    <3>2. \A p \in Requests : wt.obj # p
      BY <1>1, Kept, ManagerAssumption
    <3> QED BY <1>4, <3>1, <3>2 DEF InCallback, Count, Places01
  <2> QED BY <2>1, <2>2
<1>6. Held(y, req[o], InList(o), InCallback(o)', InSignal(o), sig[o])
  BY <1>2, <1>3, <1>4, <1>5, Views, Fires DEF Places01
<1>7. /\ proc' \in [Requests -> Server] /\ proc'[o] = y
      /\ \A p \in Requests \ {o} : proc'[p] = proc[p]
  BY <1>3, Kept
<1> QED BY <1>1, <1>3, <1>5, <1>6, <1>7, Kept, SdKept, OneThread

LEMMA WaitThreadKeeps ==
  ASSUME RefInv, GuardInv', WaitThreadStep
  PROVE  RefInv'
<1>1. CASE HandleProcessExit
  <2>1. /\ wt.pc = "check" /\ UNCHANGED <<manager, lock, listReady, list, fails, proc, req, sd, sig>>
    BY <1>1 DEF HandleProcessExit
  <2>2. PICK pc \in {"dereference", "shutdown"} : wt' = [wt EXCEPT !.pc = pc]
    BY <1>1 DEF HandleProcessExit
  <2>3. /\ wt' \in [pc : {"idle", "check", "shutdown", "dereference"}, obj : Requests \cup {Null}]
        /\ wt'.pc # "idle" /\ wt'.obj = wt.obj /\ wt.obj \in Requests
    BY <2>1, <2>2, Kept
  <2>4. \A p \in Requests : InCallback(p)' = InCallback(p)
    BY <2>3 DEF InCallback
  <2>5. wt'.obj # Null
    BY <2>3, ManagerAssumption
  <2> QED BY <2>1, <2>3, <2>4, <2>5, Views, Kept, SdKept, OneThread
<1>2. CASE ShutdownProcess
  <2>1. /\ wt.pc = "shutdown" /\ lock = Null /\ ShutdownProcessNoLock(proc[wt.obj])
        /\ wt' = [wt EXCEPT !.pc = "dereference"]
        /\ UNCHANGED <<manager, lock, listReady, req, sd, sig>>
    BY <1>2 DEF ShutdownProcess
  <2>2. /\ wt' \in [pc : {"idle", "check", "shutdown", "dereference"}, obj : Requests \cup {Null}]
        /\ wt'.pc # "idle" /\ wt'.obj = wt.obj /\ wt.pc # "idle"
    BY <2>1, Kept
  <2>3. sd.pc \notin HoldPlaces
    BY <2>1, ManagerAssumption DEF RefInv, GuardInv
  <2>4. lock' \in Requests \cup {Null, "shutdown"}
    BY <2>1
  <2>5. PICK x : x = proc[wt.obj]
    OBVIOUS
  <2> QED BY <2>1, <2>2, <2>3, <2>4, <2>5, Views, Shuts
<1>3. CASE WaitThreadDereferences
  <2>1. /\ wt.pc = "dereference" /\ UNCHANGED <<manager, lock, listReady, list, fails, req, sd, sig>>
        /\ wt' = [pc |-> "idle", obj |-> Null]
    BY <1>3 DEF WaitThreadDereferences
  <2>2. PICK o \in Requests : o = wt.obj
    BY <2>1, Kept
  <2>3. proc' = [proc EXCEPT ![o] = DereferenceServerProcess(proc[o])]
    BY <1>3, <2>2 DEF WaitThreadDereferences
  <2>4. InCallback(o) = 1 /\ InCallback(o)' = 0
    BY <2>1, <2>2, ManagerAssumption DEF InCallback, Count
  <2>5. \A p \in Requests \ {o} : InCallback(p)' = InCallback(p)
    BY <2>1, <2>2, ManagerAssumption DEF InCallback, Count
  <2>6. Held(proc[o], req[o], InList(o), 1, InSignal(o), sig[o])
    BY <2>4, Views
  <2>7. Held(DereferenceServerProcess(proc[o]), req[o], InList(o), 0, InSignal(o), sig[o])
    BY <2>6, Views, CallbackEnds
  <2>8. DereferenceServerProcess(proc[o]) \in Server /\ DereferenceServerProcess(proc[o]).life # "none"
    BY <2>6, Views, DereferenceLives DEF Held, Lives
  <2>9. /\ proc' \in [Requests -> Server] /\ proc'[o] = DereferenceServerProcess(proc[o])
        /\ \A p \in Requests \ {o} : proc'[p] = proc[p]
    BY <2>3, <2>8, Kept
  <2>10. /\ wt' \in [pc : {"idle", "check", "shutdown", "dereference"}, obj : Requests \cup {Null}]
         /\ wt'.pc = "idle" <=> wt'.obj = Null
    BY <2>1
  <2> QED BY <2>1, <2>4, <2>5, <2>7, <2>8, <2>9, <2>10, Kept, SdKept, OneThread
<1> QED BY <1>1, <1>2, <1>3 DEF WaitThreadStep

(* The processes themselves, and their signal threads.                     *)
LEMMA ProcessStep ==
  ASSUME RefInv, GuardInv', NEW o \in Requests, StartsListening(o) \/ ProcessEnds(o)
  PROVE  RefInv'
<1> DEFINE x == proc[o]
<1>1. UNCHANGED <<manager, lock, listReady, list, fails, req, wt, sd, sig>>
  BY DEF StartsListening, ProcessEnds
<1>2. Held(x, req[o], InList(o), InCallback(o), InSignal(o), sig[o]) /\ x \in Server
  BY Views
<1>3. PICK y \in Server :
        /\ proc' = [proc EXCEPT ![o] = y]
        /\ y.life = x.life /\ y.refs = x.refs /\ y.stopping = x.stopping /\ y.ready = x.ready
        /\ y.waitMain = x.waitMain /\ y.waitChild = x.waitChild
        /\ \/ y.main = x.main
           \/ y.main = "dead" /\ x.main = "running"
  <2>1. CASE proc' = [proc EXCEPT ![o].listener = "main"]
    <3>1. PICK y : y = [x EXCEPT !.listener = "main"]
      OBVIOUS
    <3>2. proc' = [proc EXCEPT ![o] = y]
      BY <2>1, <3>1
    <3>3. /\ y \in Server /\ y.life = x.life /\ y.refs = x.refs /\ y.stopping = x.stopping
          /\ y.ready = x.ready /\ y.main = x.main
          /\ y.waitMain = x.waitMain /\ y.waitChild = x.waitChild
      BY <1>2, <3>1 DEF Server
    <3> QED BY <3>2, <3>3
  <2>2. CASE proc' = [proc EXCEPT ![o].listener = "child", ![o].child = "running"]
    <3>1. PICK y : y = [x EXCEPT !.listener = "child", !.child = "running"]
      OBVIOUS
    <3>2. proc' = [proc EXCEPT ![o] = y]
      BY <2>2, <3>1
    <3>3. /\ y \in Server /\ y.life = x.life /\ y.refs = x.refs /\ y.stopping = x.stopping
          /\ y.ready = x.ready /\ y.main = x.main
          /\ y.waitMain = x.waitMain /\ y.waitChild = x.waitChild
      BY <1>2, <3>1 DEF Server
    <3> QED BY <3>2, <3>3
  <2>3. CASE x.main = "running" /\ proc' = [proc EXCEPT ![o]["main"] = "dead"]
    <3>1. PICK y : y = [x EXCEPT !.main = "dead"]
      OBVIOUS
    <3>2. proc' = [proc EXCEPT ![o] = y]
      BY <2>3, <3>1
    <3>3. /\ y \in Server /\ y.life = x.life /\ y.refs = x.refs /\ y.stopping = x.stopping
          /\ y.ready = x.ready /\ y.main = "dead"
          /\ y.waitMain = x.waitMain /\ y.waitChild = x.waitChild
      BY <1>2, <3>1 DEF Server
    <3> QED BY <2>3, <3>2, <3>3
  <2>4. CASE proc' = [proc EXCEPT ![o]["child"] = "dead"]
    <3>1. PICK y : y = [x EXCEPT !.child = "dead"]
      OBVIOUS
    <3>2. proc' = [proc EXCEPT ![o] = y]
      BY <2>4, <3>1
    <3>3. /\ y \in Server /\ y.life = x.life /\ y.refs = x.refs /\ y.stopping = x.stopping
          /\ y.ready = x.ready /\ y.main = x.main
          /\ y.waitMain = x.waitMain /\ y.waitChild = x.waitChild
      BY <1>2, <3>1 DEF Server
    <3> QED BY <3>2, <3>3
  <2> QED BY <2>1, <2>2, <2>3, <2>4 DEF StartsListening, ProcessEnds
<1>4. Held(y, req[o], InList(o), InCallback(o), InSignal(o), sig[o])
  BY <1>2, <1>3, Views, EndsOrListens
<1>5. /\ proc' \in [Requests -> Server] /\ proc'[o] = y
      /\ \A p \in Requests \ {o} : proc'[p] = proc[p]
  BY <1>3, Kept
<1> QED BY <1>1, <1>3, <1>4, <1>5, Kept, SdKept, OneThread

LEMMA SignalKeeps ==
  ASSUME RefInv, GuardInv', NEW o \in Requests, SignalStep(o)
  PROVE  RefInv'
<1> DEFINE x == proc[o]
<1>1. UNCHANGED <<manager, lock, listReady, list, fails, req, wt, sd>>
  BY DEF SignalStep, SignalStarts, SendShutDownSignal, SignalEnds
<1>2. /\ Held(x, req[o], InList(o), InCallback(o), InSignal(o), sig[o]) /\ x \in Server
      /\ proc \in [Requests -> Server] /\ sig \in [Requests -> Signal]
  BY Views, Kept
<1>3. sig[o] # "none"
  BY DEF SignalStep, SignalStarts, SendShutDownSignal, SignalEnds
<1>4. \E y, v : /\ proc' = [proc EXCEPT ![o] = y] /\ sig' = [sig EXCEPT ![o] = v]
                /\ v \in Signal /\ (x.life # "none" => y.life # "none")
                /\ Held(y, req[o], InList(o), InCallback(o), InSignal(o), v)
  <2>0. CASE SignalStarts(o) /\ x.life = "freed"
    <3>1. /\ sig[o] = "created" /\ proc' = [proc EXCEPT ![o] = x]
          /\ sig' = [sig EXCEPT ![o] = "late"] /\ "late" \in Signal
      BY <1>2, <2>0 DEF SignalStarts, Signal
    <3>2. Held(x, req[o], InList(o), InCallback(o), InSignal(o), "late")
      BY <1>2, <3>1, Views, SignalLate
    <3> QED BY <3>1, <3>2
  <2>1. CASE SignalStarts(o) /\ x.life # "freed"
    <3>1. PICK y : y = ReferenceServerProcess(x)
      OBVIOUS
    <3>2. /\ sig[o] = "created" /\ proc' = [proc EXCEPT ![o] = y]
          /\ sig' = [sig EXCEPT ![o] = "running"]
      BY <2>1, <3>1 DEF SignalStarts
    <3>3. Held(y, req[o], InList(o), InCallback(o), InSignal(o), "running")
      BY <1>2, <2>1, <3>1, <3>2, Views, SignalBegins
    <3>4. x.life # "none" => y.life # "none"
      BY <1>2, <3>1, ReferenceGives
    <3>5. "running" \in Signal
      BY DEF Signal
    <3> QED BY <3>2, <3>3, <3>4, <3>5
  <2>2. CASE SendShutDownSignal(o)
    <3>1. sig[o] = "running" /\ sig' = [sig EXCEPT ![o] = "sent"]
      BY <2>2 DEF SendShutDownSignal
    <3>2. PICK y \in {x, TerminateBackendProcess(x)} : proc' = [proc EXCEPT ![o] = y]
      <4>1. \/ proc' = proc
            \/ proc' = [proc EXCEPT ![o] = TerminateBackendProcess(x)]
        BY <2>2 DEF SendShutDownSignal
      <4>2. proc = [proc EXCEPT ![o] = x]
        BY <1>2
      <4> QED BY <4>1, <4>2
    <3>3. Held(y, req[o], InList(o), InCallback(o), InSignal(o), "sent")
      BY <1>2, <3>1, <3>2, Views, SignalSent
    <3>4. x.life # "none" => y.life # "none"
      <4>1. WellFormed(x)
        BY <1>2 DEF Held
      <4> QED BY <3>2, <4>1, TerminateGives
    <3>5. "sent" \in Signal
      BY DEF Signal
    <3> QED BY <3>1, <3>2, <3>3, <3>4, <3>5
  <2>3. CASE SignalEnds(o)
    <3>1. PICK y : y = DereferenceServerProcess(x)
      OBVIOUS
    <3>2. /\ sig[o] = "sent" /\ proc' = [proc EXCEPT ![o] = y]
          /\ sig' = [sig EXCEPT ![o] = "ended"]
      BY <2>3, <3>1 DEF SignalEnds
    <3>3. Held(y, req[o], InList(o), InCallback(o), InSignal(o), "ended") /\ y.life # "none"
      BY <1>2, <3>1, <3>2, Views, SignalOver
    <3>4. "ended" \in Signal
      BY DEF Signal
    <3> QED BY <3>2, <3>3, <3>4
  <2> QED BY <2>0, <2>1, <2>2, <2>3 DEF SignalStep
<1>5. PICK y, v : /\ proc' = [proc EXCEPT ![o] = y] /\ sig' = [sig EXCEPT ![o] = v]
                  /\ v \in Signal /\ (x.life # "none" => y.life # "none")
                  /\ Held(y, req[o], InList(o), InCallback(o), InSignal(o), v)
  BY <1>4
<1>6. y \in Server
  BY <1>5 DEF Held, WellFormed
<1>7. /\ proc' \in [Requests -> Server] /\ proc'[o] = y
      /\ sig' \in [Requests -> Signal] /\ sig'[o] = v
      /\ \A p \in Requests \ {o} : proc'[p] = proc[p] /\ sig'[p] = sig[p]
  BY <1>2, <1>5, <1>6
<1>8. sd.pc # "idle"
  BY <1>3, Kept
<1>9. \A s \in Slots : list[s] # Null /\ Ahead(s) => sig'[list[s]] = "none"
  BY <1>3, <1>7, Kept
<1> QED BY <1>1, <1>5, <1>7, <1>8, <1>9, Kept, SdKept, OneThread

-----------------------------------------------------------------------------
(* The thread in ShutDown.  Between the slots it holds no object.          *)
LEMMA ShutDownMoves ==
  ASSUME RefInv, GuardInv', UNCHANGED <<listReady, list, fails, proc, req, wt, sig>>,
         manager' \in BOOLEAN, lock' \in Requests \cup {Null, "shutdown"},
         sd.pc \notin SendPlaces, sd'.pc \notin SendPlaces \cup {"idle"},
         sd'.slot \in 0 .. NSlots,
         \A s \in Slots : Ahead(s)' => Ahead(s)
  PROVE  RefInv'
<1>1. \A o \in Requests : InSignal(o) = "no" /\ InSignal(o)' = "no"
  BY DEF InSignal, Signals, SendPlaces
<1>2. HeldInv'
  <2> SUFFICES ASSUME NEW p \in Requests
               PROVE  Held(proc'[p], req'[p], InList(p)', InCallback(p)', InSignal(p)', sig'[p])
    BY DEF HeldInv
  <2>1. InList(p)' = InList(p) /\ InCallback(p)' = InCallback(p)
    BY DEF InList, Listed, Count, InCallback
  <2> QED BY <1>1, <2>1, Views
<1>3. fails' <= Cardinality(Dropped')
  <2>1. Dropped' = Dropped
    BY DEF Dropped, Listed, Starting
  <2> QED BY <2>1 DEF RefInv
<1>4. OtherTypes'
  BY DEF RefInv, OtherTypes
<1> QED BY <1>2, <1>3, <1>4, Kept DEF RefInv

LEMMA Signalling ==
  ASSUME RefInv, sd.pc \in SendPlaces
  PROVE  /\ sd.slot \in Slots /\ Signalled \in Requests /\ InSignal(Signalled) = sd.pc
         /\ InList(Signalled) = 1
         /\ \A p \in Requests \ {Signalled} : InSignal(p) = "no"
  BY Kept DEF InSignal, Signals, Signalled, SendPlaces, InList, Listed, Count

LEMMA SlotKept ==
  ASSUME RefInv, list' = list, sd'.pc \in SendPlaces, sd'.slot = sd.slot, sd.slot \in Slots,
         NEW o \in Requests, o = Signalled
  PROVE  /\ InSignal(o)' = sd'.pc
         /\ \A p \in Requests \ {o} : InSignal(p)' = "no"
         /\ \A s \in Slots : Ahead(s)' => s > sd.slot
<1>1. Signalled' = o
  BY DEF Signalled
<1>2. sd'.pc \notin {"idle", "signal"}
  BY DEF SendPlaces
<1> QED BY <1>1, <1>2 DEF InSignal, Signals, SendPlaces, Ahead

LEMMA NotAhead ==
  ASSUME RefInv, sd.slot \in Slots, Signalled # Null, sd.pc \in SendPlaces \cup {"signal"},
         NEW s \in Slots, s > sd.slot, list[s] # Null
  PROVE  list[s] \in Requests \ {Signalled} /\ sig[list[s]] = "none"
<1>1. s # sd.slot /\ s >= sd.slot
  BY DEF Slots
<1>2. list[s] # Signalled
  BY <1>1 DEF RefInv, Signalled
<1>3. sig[list[s]] = "none"
  BY <1>1, Kept DEF Ahead
<1> QED BY <1>2, <1>3, Kept

(* What one slot takes: a reference, the signal, the wait, the end.        *)
LEMMA SignalledMoves ==
  ASSUME RefInv, GuardInv', UNCHANGED <<manager, lock, listReady, list, fails, req, wt>>,
         sd.pc \in SendPlaces \cup {"signal"}, sd.slot \in Slots, NEW o \in Requests, o = Signalled,
         NEW y \in Server, proc' = [proc EXCEPT ![o] = y], proc[o].life # "none" => y.life # "none",
         NEW v \in Signal, sig' = [sig EXCEPT ![o] = v],
         NEW pc \in SendPlaces, sd' = [sd EXCEPT !.pc = pc],
         Held(y, req[o], InList(o), InCallback(o), pc, v)
  PROVE  RefInv'
<1>1. sd'.pc = pc /\ sd'.slot = sd.slot
  BY DEF RefInv, GuardInv, GuardTypes
<1>2. /\ proc' \in [Requests -> Server] /\ proc'[o] = y
      /\ sig' \in [Requests -> Signal] /\ sig'[o] = v
      /\ \A p \in Requests \ {o} : proc'[p] = proc[p] /\ sig'[p] = sig[p]
  BY Kept
<1>3. /\ InSignal(o)' = pc
      /\ \A p \in Requests \ {o} : InSignal(p)' = "no"
      /\ \A s \in Slots : Ahead(s)' => s > sd.slot
  <2>1. list' = list /\ sd'.pc \in SendPlaces
    BY <1>1
  <2> QED BY <1>1, <2>1, SlotKept
<1>4. o # Null
  BY ManagerAssumption
<1>5. \A p \in Requests \ {o} : InSignal(p) = "no"
  BY DEF InSignal, Signals, SendPlaces
<1>6. \A s \in Slots : list[s] # Null /\ Ahead(s)' => sig'[list[s]] = "none"
  BY <1>2, <1>3, <1>4, NotAhead
<1>7. pc # "idle" /\ sd'.slot \in 0 .. NSlots /\ list[sd'.slot] # Null
  BY <1>1, <1>4, Kept DEF SendPlaces, Signalled
<1>8. \A p \in Requests : InCallback(p)' = InCallback(p)
  BY DEF InCallback
<1>9. Held(proc'[o], req[o], InList(o), InCallback(o)', InSignal(o)', sig'[o])
  BY <1>2, <1>3, <1>8
<1> QED BY <1>1, <1>2, <1>3, <1>5, <1>6, <1>7, <1>8, <1>9, Kept, OneThread

LEMMA SignalsSlot ==
  ASSUME RefInv, GuardInv', SendSignal \/ ProcessEnded \/ ShutdownTimesOut \/ Terminate
  PROVE  RefInv'
<1>1. CASE SendSignal /\ Signalled = Null
  <2>1. /\ sd.pc = "signal" /\ sd.slot < NSlots /\ sd' = [sd EXCEPT !.slot = sd.slot + 1]
        /\ UNCHANGED <<manager, lock, listReady, list, fails, proc, req, wt, sig>>
    BY <1>1 DEF SendSignal
  <2>2. sd'.pc = "signal" /\ sd'.slot = sd.slot + 1 /\ sd.slot \in 0 .. NSlots /\ NSlots \in Nat
    BY <2>1, ManagerAssumption DEF RefInv, GuardInv, GuardTypes
  <2>3. "signal" \notin SendPlaces \cup {"idle"}
    BY DEF SendPlaces
  <2>4. sd'.slot \in 0 .. NSlots
    BY <2>1, <2>2
  <2>5. \A s \in Slots : Ahead(s)' => Ahead(s)
    BY <2>1, <2>2, <2>3 DEF Ahead, Slots
  <2>6. manager' \in BOOLEAN /\ lock' \in Requests \cup {Null, "shutdown"}
    BY <2>1 DEF RefInv, OtherTypes
  <2> QED BY <2>1, <2>2, <2>3, <2>4, <2>5, <2>6, ShutDownMoves
<1>2. CASE SendSignal /\ Signalled # Null
  <2>1. /\ sd.pc = "signal" /\ sd.slot < NSlots
        /\ UNCHANGED <<manager, lock, listReady, list, fails, req, wt>>
        /\ proc' = [proc EXCEPT ![Signalled] = ReferenceServerProcess(proc[Signalled])]
    BY <1>2, Zenon DEF SendSignal
  <2>2. sd.slot \in Slots
    BY <2>1, Kept, ManagerAssumption DEF Slots
  <2>3. PICK o \in Requests : o = Signalled
    BY <1>2, <2>2, Kept DEF Signalled
  <2>4. PICK opened \in BOOLEAN :
          /\ sd' = [sd EXCEPT !.pc = IF opened THEN "await" ELSE "terminate"]
          /\ sig' = IF opened THEN [sig EXCEPT ![Signalled] = "created"] ELSE sig
    BY <1>2, Zenon DEF SendSignal
  <2>5. PICK g, v : /\ g \in {"await", "terminate"} /\ v \in {"none", "created"}
                    /\ sd' = [sd EXCEPT !.pc = g] /\ sig' = [sig EXCEPT ![o] = v]
    <3>1. sig[o] = "none"
      <4>1. Ahead(sd.slot)
        BY <2>1, <2>2 DEF Ahead, Slots
      <4> QED BY <1>2, <2>2, <2>3, <4>1, Kept DEF Signalled
    <3>2. sig = [sig EXCEPT ![o] = "none"]
      BY <3>1, Kept
    <3>3. CASE opened
      BY <2>3, <2>4, <3>3
    <3>4. CASE ~opened
      BY <2>4, <3>2, <3>4
    <3> QED BY <3>3, <3>4
  <2>6. /\ InSignal(o) = "no" /\ InList(o) = 1 /\ sig[o] = "none"
    <3>1. Ahead(sd.slot)
      BY <2>1, <2>2 DEF Ahead, Slots
    <3>2. InSignal(o) = "no"
      BY <2>1 DEF InSignal, Signals
    <3>3. InList(o) = 1
      BY <2>2, <2>3 DEF InList, Listed, Signalled, Count
    <3> QED BY <1>2, <2>2, <2>3, <3>1, <3>2, <3>3, Kept DEF Signalled
  <2>7. Held(proc[o], req[o], 1, InCallback(o), "no", "none") /\ proc[o] \in Server
    BY <2>6, Views
  <2>8. PICK y : y = ReferenceServerProcess(proc[o])
    OBVIOUS
  <2>9. Held(y, req[o], 1, InCallback(o), g, v)
    BY <2>5, <2>7, <2>8, Views, Sends
  <2>10. y \in Server /\ (proc[o].life # "none" => y.life # "none")
    BY <2>7, <2>8, ReferenceGives
  <2>11. g \in SendPlaces /\ v \in Signal /\ proc' = [proc EXCEPT ![o] = y]
    BY <2>1, <2>3, <2>5, <2>8 DEF SendPlaces, Signal
  <2> QED BY <2>1, <2>2, <2>3, <2>5, <2>6, <2>9, <2>10, <2>11, SignalledMoves
<1>3. CASE ProcessEnded \/ ShutdownTimesOut \/ Terminate
  <2>1. /\ sd.pc \in SendPlaces /\ UNCHANGED <<manager, lock, listReady, list, fails, req, wt>>
    BY <1>3 DEF ProcessEnded, ShutdownTimesOut, Terminate, SendPlaces
  <2>2. PICK o \in Requests : o = Signalled
    BY <2>1, Signalling
  <2>3. /\ sd.slot \in Slots
        /\ Held(proc[o], req[o], InList(o), InCallback(o), sd.pc, sig[o]) /\ proc[o] \in Server
        /\ proc = [proc EXCEPT ![o] = proc[o]] /\ sig = [sig EXCEPT ![o] = sig[o]]
    BY <2>1, <2>2, Views, Kept, Signalling
  <2>4. {"terminate", "release"} \subseteq SendPlaces
    BY DEF SendPlaces
  <2>5. CASE ProcessEnded
    <3>1. /\ sd.pc = "await" /\ proc[o].main = "dead" /\ sd' = [sd EXCEPT !.pc = "release"]
          /\ UNCHANGED <<proc, sig>>
      BY <2>2, <2>5 DEF ProcessEnded
    <3>2. Held(proc[o], req[o], InList(o), InCallback(o), "release", sig[o])
      BY <2>3, <3>1, Views, EndSeen
    <3> QED BY <2>1, <2>2, <2>3, <2>4, <3>1, <3>2, Views, SignalledMoves
  <2>6. CASE ShutdownTimesOut
    <3>1. PICK v : v = IF sig[o] = "ended" THEN sig[o] ELSE "terminated"
      OBVIOUS
    <3>2. /\ sd.pc = "await" /\ sd' = [sd EXCEPT !.pc = "terminate"] /\ UNCHANGED proc
          /\ sig' = [sig EXCEPT ![o] = v]
      BY <2>2, <2>6, <3>1 DEF ShutdownTimesOut
    <3>3. Held(proc[o], req[o], InList(o), InCallback(o), "terminate", v)
      BY <2>3, <3>1, <3>2, Views, TimesOut
    <3>4. v \in Signal
      BY <3>1 DEF Signal
    <3> QED BY <2>1, <2>2, <2>3, <2>4, <3>2, <3>3, <3>4, Views, SignalledMoves
  <2>7. CASE Terminate
    <3>1. PICK y : y = TerminateBackendProcess(proc[o])
      OBVIOUS
    <3>2. /\ sd.pc = "terminate" /\ sd' = [sd EXCEPT !.pc = "release"] /\ UNCHANGED sig
          /\ proc' = [proc EXCEPT ![o] = y]
      BY <2>2, <2>7, <3>1 DEF Terminate
    <3>3. Held(y, req[o], InList(o), InCallback(o), "release", sig[o])
      BY <2>3, <3>1, <3>2, Views, Terminates
    <3>4. y \in Server /\ y.life # "none"
      <4>1. WellFormed(proc[o]) /\ proc[o].life # "none"
        BY <2>1, <2>3 DEF Held, Lives
      <4> QED BY <3>1, <4>1, TerminateGives DEF WellFormed
    <3> QED BY <2>1, <2>2, <2>3, <2>4, <3>2, <3>3, <3>4, Views, SignalledMoves
  <2> QED BY <1>3, <2>5, <2>6, <2>7
<1> QED BY <1>1, <1>2, <1>3

(* ReleaseProcess gives back two references and takes o off the list.      *)
LEMMA ReleaseStep ==
  ASSUME RefInv, GuardInv', ReleaseProcess
  PROVE  RefInv'
<1>1. /\ sd.pc = "release" /\ sd' = [pc |-> "signal", slot |-> sd.slot + 1]
      /\ list' = [list EXCEPT ![sd.slot] = Null]
      /\ UNCHANGED <<manager, lock, listReady, fails, req, wt, sig>>
  BY DEF ReleaseProcess
<1>2. sd.pc \in SendPlaces
  BY <1>1 DEF SendPlaces
<1>3. PICK o \in Requests : o = Signalled
  BY <1>2, Signalling
<1>4. PICK y : y = DereferenceServerProcess(DereferenceServerProcess(proc[o]))
  OBVIOUS
<1>5. proc' = [proc EXCEPT ![o] = y]
  BY <1>3, <1>4 DEF ReleaseProcess
<1>6. /\ sd.slot \in Slots /\ o = list[sd.slot] /\ o # Null
      /\ InList(o) = 1 /\ InSignal(o) = "release"
      /\ \A p \in Requests \ {o} : InSignal(p) = "no"
      /\ list \in [Slots -> Requests \cup {Null}]
  BY <1>1, <1>2, <1>3, Signalling, ManagerAssumption DEF Signalled, RefInv, GuardInv, GuardTypes
<1>7. \A s, t \in Slots : list[s] # Null /\ list[s] = list[t] => s = t
  BY DEF RefInv
<1>8. ~Listed(o)' /\ \A p \in Requests \ {o} : Listed(p)' <=> Listed(p)
  <2>1. \A s \in Slots : list'[s] = IF s = sd.slot THEN Null ELSE list[s]
    BY <1>1, <1>6
  <2>2. \A p \in Requests : p # Null
    BY ManagerAssumption
  <2> QED BY <1>6, <1>7, <2>1, <2>2 DEF Listed
<1>9. /\ Held(y, req[o], 0, InCallback(o), "no", sig[o]) /\ y.life # "none" /\ y \in Server
      /\ proc[o].life = "alive" /\ req[o].pc = "got"
  <2>1. Held(proc[o], req[o], 1, InCallback(o), "release", sig[o])
    BY <1>6, Views
  <2>2. Held(y, req[o], 0, InCallback(o), "no", sig[o]) /\ y.life # "none"
    BY <1>4, <2>1, Views, Releases
  <2> QED BY <2>1, <2>2 DEF Held, Lives, WellFormed
<1>10. sd'.pc = "signal" /\ sd'.slot = sd.slot + 1 /\ sd'.slot \in 0 .. NSlots
  BY <1>1, <1>6, ManagerAssumption DEF Slots
<1>11. /\ proc' \in [Requests -> Server] /\ proc'[o] = y
       /\ \A p \in Requests \ {o} : proc'[p] = proc[p]
  BY <1>5, <1>9, Kept
<1>12. HeldInv'
  <2> SUFFICES ASSUME NEW p \in Requests
               PROVE  Held(proc'[p], req'[p], InList(p)', InCallback(p)', InSignal(p)', sig'[p])
    BY DEF HeldInv
  <2>1. InSignal(p)' = "no" /\ InCallback(p)' = InCallback(p)
    BY <1>1, <1>10 DEF InSignal, Signals, InCallback
  <2>2. CASE p = o
    <3>1. InList(p)' = 0
      BY <1>8, <2>2 DEF InList, Count
    <3> QED BY <1>1, <1>9, <1>11, <2>1, <2>2, <3>1
  <2>3. CASE p # o
    <3>1. InList(p)' = InList(p)
      BY <1>8, <2>3 DEF InList, Count
    <3>2. InSignal(p) = "no" /\ proc'[p] = proc[p] /\ sig'[p] = sig[p] /\ req'[p] = req[p]
      BY <1>1, <1>6, <1>11, <2>3
    <3> QED BY <2>1, <3>1, <3>2, Views
  <2> QED BY <2>2, <2>3
<1>13. fails' <= Cardinality(Dropped')
  <2>1. \A p \in Requests : Starting(p)' <=> Starting(p)
    BY <1>1 DEF Starting
  <2>2. Listed(o)
    BY <1>6 DEF Listed
  <2>3. Dropped \subseteq Dropped'
    BY <1>8, <1>11, <2>1, <2>2 DEF Dropped
  <2> QED BY <1>1, <2>3, DroppedGrows DEF RefInv, GuardInv, GuardTypes
<1>14. \A s \in Slots : list'[s] # Null /\ Ahead(s)' => sig'[list'[s]] = "none"
  <2> SUFFICES ASSUME NEW s \in Slots, list'[s] # Null, Ahead(s)' PROVE sig[list'[s]] = "none"
    BY <1>1
  <2>1. s > sd.slot
    BY <1>6, <1>10 DEF Ahead, Slots, SendPlaces
  <2>2. list'[s] = list[s]
    BY <1>1, <1>6, <2>1 DEF Slots
  <2> QED BY <1>2, <1>3, <1>6, <2>1, <2>2, NotAhead
<1>15. \A s, t \in Slots : list'[s] # Null /\ list'[s] = list'[t] => s = t
  BY <1>1, <1>6, <1>7
<1>16. OtherTypes'
  BY <1>1, <1>11 DEF RefInv, OtherTypes
<1>17. sd'.pc \notin SendPlaces \cup {"idle"}
  BY <1>10 DEF SendPlaces
<1>18. wt'.pc = "idle" <=> wt'.obj = Null
  BY <1>1, Kept
<1> QED BY <1>10, <1>12, <1>13, <1>14, <1>15, <1>16, <1>17, <1>18 DEF RefInv

LEMMA ShutDownKeeps ==
  ASSUME RefInv, GuardInv', ShutDown \/ ShutDownStep
  PROVE  RefInv'
<1>1. manager \in BOOLEAN /\ 0 \in 0 .. NSlots /\ sd.slot \in 0 .. NSlots
  BY ManagerAssumption DEF RefInv, OtherTypes
<1>2. {"signal", "forget", "done"} \cap (SendPlaces \cup {"idle"}) = {}
  BY DEF SendPlaces
<1>3. CASE ShutDown
  <2>1. /\ sd.pc = "idle" /\ lock' = "shutdown" /\ sd' = [pc |-> "signal", slot |-> 0]
        /\ UNCHANGED <<manager, listReady, list, fails, proc, req, wt, sig>>
    BY <1>3 DEF ShutDown
  <2>2. sd'.pc = "signal" /\ sd'.slot = 0 /\ sd.pc \notin SendPlaces
    BY <2>1 DEF SendPlaces
  <2>3. \A s \in Slots : Ahead(s)
    BY <2>1 DEF Ahead
  <2> QED BY <1>1, <1>2, <2>1, <2>2, <2>3, ShutDownMoves
<1>4. CASE UnlockShutDown
  <2>1. /\ sd.pc = "signal" /\ lock' = Null /\ sd' = [sd EXCEPT !.pc = "forget"]
        /\ UNCHANGED <<manager, listReady, list, fails, proc, req, wt, sig>>
    BY <1>4 DEF UnlockShutDown
  <2>2. sd'.pc = "forget" /\ sd'.slot = sd.slot
    BY <2>1 DEF RefInv, GuardInv, GuardTypes
  <2>3. \A s \in Slots : ~Ahead(s)'
    BY <2>2 DEF Ahead, SendPlaces
  <2> QED BY <1>1, <1>2, <2>1, <2>2, <2>3, ShutDownMoves
<1>5. CASE ForgetManager
  <2>1. /\ sd.pc = "forget" /\ manager' = FALSE /\ sd' = [sd EXCEPT !.pc = "done"]
        /\ UNCHANGED <<lock, listReady, list, fails, proc, req, wt, sig>>
    BY <1>5 DEF ForgetManager
  <2>2. sd'.pc = "done" /\ sd'.slot = sd.slot
    BY <2>1 DEF RefInv, GuardInv, GuardTypes
  <2>3. \A s \in Slots : ~Ahead(s)'
    BY <2>2 DEF Ahead, SendPlaces
  <2>4. lock' \in Requests \cup {Null, "shutdown"}
    BY <2>1 DEF RefInv, OtherTypes
  <2> QED BY <1>1, <1>2, <2>1, <2>2, <2>3, <2>4, ShutDownMoves
<1> QED BY <1>3, <1>4, <1>5, ReleaseStep, SignalsSlot DEF ShutDownStep

LEMMA RefStep == RefInv /\ [Next]_vars => RefInv'
<1> SUFFICES ASSUME RefInv, [Next]_vars PROVE RefInv'
  OBVIOUS
<1>1. GuardInv'
  BY GuardStep DEF RefInv
<1>2. CASE UNCHANGED vars
  <2>1. \A o \in Requests : InSignal(o)' = InSignal(o) /\ InCallback(o)' = InCallback(o)
                            /\ InList(o)' = InList(o)
    BY <1>2 DEF vars, InSignal, Signals, Signalled, InCallback, InList, Listed
  <2>2. HeldInv'
    BY <1>2, <2>1 DEF vars, HeldInv, RefInv
  <2>3. Dropped' = Dropped
    BY <1>2 DEF vars, Dropped, Listed, Starting
  <2>4. \A s \in Slots : Ahead(s)' <=> Ahead(s)
    BY <1>2 DEF vars, Ahead
  <2>5. OtherTypes'
    BY <1>2 DEF vars, RefInv, OtherTypes
  <2> QED BY <1>1, <1>2, <2>2, <2>3, <2>4, <2>5 DEF vars, RefInv
<1>3. ASSUME NEW r \in Requests, GetProcess(r) \/ GetProcessStep(r) PROVE RefInv'
  BY <1>1, <1>3, EarlyStep, RecheckStep, LimitStep, StoreStep, EndOfStartStep DEF GetProcessStep
<1>4. ASSUME NEW r \in Requests, StartStep(r) PROVE RefInv'
  BY <1>1, <1>4, StartMoveStep, LaunchStep, WatchStep, ConnectStep DEF StartStep
<1>5. ASSUME NEW o \in Requests,
             \/ ProcessHandleCallback(o) \/ SignalStep(o) \/ StartsListening(o) \/ ProcessEnds(o)
      PROVE  RefInv'
  BY <1>1, <1>5, CallbackStep, SignalKeeps, ProcessStep
<1> QED BY <1>1, <1>2, <1>3, <1>4, <1>5, WaitThreadKeeps, ShutDownKeeps DEF Next

LEMMA RefInit == Init => RefInv
<1> SUFFICES ASSUME Init PROVE RefInv
  OBVIOUS
<1>1. GuardInv
  <2>1. 0 \in Slots
    BY ManagerAssumption DEF Slots
  <2> QED BY <2>1 DEF Init, GuardInv, GuardTypes, Request, HoldPlaces, Places, LockPlaces, FreePlaces,
                       StartPlaces
<1>2. NoProcess \in Server /\ NoProcess.life = "none" /\ NoProcess.refs = 0 /\ NoProcess.main = "none"
      /\ NoProcess.waitMain = "none" /\ NoProcess.waitChild = "none"
  BY DEF NoProcess, Server
<1>3. OtherTypes
  BY <1>2 DEF Init, OtherTypes
<1>4. \A s \in Slots : list[s] = Null
  BY DEF Init
<1>5. HeldInv
  <2> SUFFICES ASSUME NEW o \in Requests
               PROVE  Held(proc[o], req[o], InList(o), InCallback(o), InSignal(o), sig[o])
    BY DEF HeldInv
  <2>1. /\ proc[o] = NoProcess /\ req[o] = [pc |-> "idle", slot |-> 0, tries |-> 0, got |-> Null]
        /\ sig[o] = "none" /\ o # Null
    BY ManagerAssumption DEF Init
  <2>2. InList(o) = 0 /\ InCallback(o) = 0 /\ InSignal(o) = "no"
    BY <1>4, <2>1 DEF Init, InList, Listed, InCallback, InSignal, Signals, Count
  <2>3. req[o].pc = "idle" /\ req[o].tries = 0 /\ req[o] \in Request
    BY <1>1, <2>1 DEF GuardInv, GuardTypes
  <2>4. TriesLeft(req[o]) /\ Tried(req[o]) = 4
    BY <2>3 DEF TriesLeft, Tried, TryPlaces
  <2>5. NotTooMany(proc[o], req[o], "no", "none")
    <3>1. Count("no" \in SendPlaces) = 0
          /\ Count("none" \in {"running", "sent", "ended", "terminated"}) = 0
      BY DEF Count, SendPlaces
    <3> QED BY <1>2, <2>1, <2>4, <3>1 DEF NotTooMany
  <2>6. "idle" \notin StartPlaces /\ "no" \notin SendPlaces
    BY DEF StartPlaces, SendPlaces
  <2> QED BY <1>2, <2>1, <2>2, <2>3, <2>4, <2>5, <2>6 DEF Held, WellFormed, Enough, Lives, Owned
<1>6. fails <= Cardinality(Dropped)
  <2>1. IsFiniteSet(Dropped)
    <3>1. Dropped \subseteq Requests
      BY DEF Dropped
    <3> QED BY <3>1, FiniteRequests, FS_Subset
  <2> QED BY <2>1, FS_CardinalityType DEF Init
<1>7. sd.pc = "idle" /\ sd.slot = 0 /\ wt.pc = "idle" /\ wt.obj = Null
      /\ \A o \in Requests : sig[o] = "none"
  BY DEF Init
<1>8. sd.pc \notin SendPlaces /\ 0 \in 0 .. NSlots
  BY <1>7, ManagerAssumption DEF SendPlaces
<1> QED BY <1>1, <1>3, <1>4, <1>5, <1>6, <1>7, <1>8 DEF RefInv

LEMMA RefGives ==
  ASSUME RefInv
  PROVE  ReferencesHold /\ NoOrphan
<1>1. /\ manager \in BOOLEAN /\ listReady \in BOOLEAN
      /\ lock \in Requests \cup {Null, "shutdown"}
      /\ list \in [Slots -> Requests \cup {Null}] /\ route \in Slots /\ fails \in Nat
      /\ \A s, t \in Slots : list[s] # Null /\ list[s] = list[t] => s = t
  BY DEF RefInv, OtherTypes, GuardInv, GuardTypes
<1>2. Cardinality(Requests) \in Nat /\ fails <= Cardinality(Requests)
  <2>1. Dropped \subseteq Requests
    BY DEF Dropped
  <2>2. IsFiniteSet(Dropped) /\ Cardinality(Dropped) <= Cardinality(Requests)
    BY <2>1, FiniteRequests, FS_Subset
  <2>3. Cardinality(Dropped) \in Nat /\ Cardinality(Requests) \in Nat
    BY <2>2, FiniteRequests, FS_CardinalityType
  <2>4. fails <= Cardinality(Dropped)
    BY DEF RefInv
  <2> QED BY <1>1, <2>2, <2>3, <2>4
<1>3. ASSUME NEW o \in Requests
      PROVE  /\ proc[o].refs \in 0 .. 7 /\ proc[o].port \in Ports \cup {Null}
             /\ req[o].tries \in 0 .. 2 /\ req[o].got \in Requests \cup {Null}
  <2>1. /\ Held(proc[o], req[o], InList(o), InCallback(o), InSignal(o), sig[o])
        /\ req[o] \in Request /\ proc[o] \in Server
    BY Views
  <2>2. WellFormed(proc[o]) /\ TriesLeft(req[o]) /\ NotTooMany(proc[o], req[o], InSignal(o), sig[o])
    BY <2>1 DEF Held
  <2>3. proc[o].refs <= 7 /\ proc[o].refs \in Nat
    BY <2>1, <2>2, Numbers DEF NotTooMany
  <2>4. req[o].tries \in 0 .. 2
    BY <2>2 DEF TriesLeft
  <2>5. proc[o].port \in Ports \cup {Null}
    BY <2>1 DEF Server
  <2>6. req[o].got \in Requests \cup {Null}
    BY <2>1 DEF Request
  <2> QED BY <2>3, <2>4, <2>5, <2>6
<1>4. TypeOK
  BY <1>1, <1>2, <1>3 DEF TypeOK
<1>5. ReferencesCover
  <2> SUFFICES ASSUME NEW o \in Requests, proc[o].life = "alive"
               PROVE  proc[o].refs >= Holders(o)
    BY DEF ReferencesCover
  <2>1. Enough(proc[o], req[o], InList(o), InCallback(o), InSignal(o), sig[o])
    BY Views DEF Held
  <2>2. Count(InList(o) = 1 \/ req[o].pc \in StartPlaces) = Count(Listed(o) \/ Starting(o))
    BY StartingIsAPlace DEF InList, Count
  <2>3. Count(InSignal(o) \in SendPlaces) = Count(Signals(o))
    BY DEF InSignal, Signals, SendPlaces, Count
  <2>4. /\ Armed(proc[o]) = Count(proc[o].waitMain = "armed") + Count(proc[o].waitChild = "armed")
        /\ InCallback(o) = Count(wt.obj = o)
    BY DEF Armed, InCallback
  <2>5. /\ Count(Listed(o) \/ Starting(o)) \in Nat /\ Count(proc[o].waitMain = "armed") \in Nat
        /\ Count(proc[o].waitChild = "armed") \in Nat /\ Count(wt.obj = o) \in Nat
        /\ Count(Signals(o)) \in Nat /\ Count(sig[o] \in {"running", "sent"}) \in Nat
        /\ proc[o].refs \in Nat
    BY Views DEF Count, Server
  <2>6. proc[o].refs >= Count(Listed(o) \/ Starting(o))
          + (Count(proc[o].waitMain = "armed") + Count(proc[o].waitChild = "armed"))
          + Count(wt.obj = o) + Count(Signals(o)) + Count(sig[o] \in {"running", "sent"})
    BY <2>1, <2>2, <2>3, <2>4 DEF Enough
  <2> QED BY <2>5, <2>6 DEF Holders
<1>6. ListedAreAlive
  <2> SUFFICES ASSUME NEW s \in Slots, list[s] # Null
               PROVE  /\ proc[list[s]].life = "alive" /\ proc[list[s]].ready
                      /\ \A t \in Slots : list[t] = list[s] => t = s
    BY DEF ListedAreAlive
  <2>1. PICK o \in Requests : o = list[s]
    BY <1>1
  <2>2. InList(o) = 1
    BY <2>1 DEF InList, Listed, Count
  <2>3. proc[o].life = "alive" /\ proc[o].ready
    BY <2>2, Views DEF Held, Lives
  <2> QED BY <1>1, <2>1, <2>3
<1>8. HeldAreAlive
  <2> SUFFICES ASSUME NEW o \in Requests
               PROVE  /\ \/ Listed(o) \/ Starting(o) \/ Signals(o)
                         \/ proc[o].waitMain = "armed" \/ proc[o].waitChild = "armed"
                         \/ sig[o] \in {"running", "sent"}
                         => proc[o].life = "alive"
                      /\ wt.obj = o => proc[o].life = "alive" \/ DeletedUnderCallback(o)
    BY DEF HeldAreAlive
  <2>1. Held(proc[o], req[o], InList(o), InCallback(o), InSignal(o), sig[o])
    BY Views
  <2>2. /\ Listed(o) => InList(o) = 1
        /\ Signals(o) => InSignal(o) \in SendPlaces
        /\ wt.obj = o => InCallback(o) = 1
    BY DEF InList, InSignal, InCallback, Count, Signals, SendPlaces
  <2>3. Starting(o) => req[o].pc \in StartPlaces
    BY StartingIsAPlace
  <2>4. proc[o].life \in {"none", "alive", "freed"}
    BY Views DEF Server
  <2> QED BY <2>1, <2>2, <2>3, <2>4 DEF Held, Lives, WellFormed, DeletedUnderCallback
<1>7. NoOrphan
  <2> SUFFICES ASSUME NEW o \in Requests, proc[o].main = "running", ~proc[o].stopping
               PROVE  proc[o].life = "alive" /\ InHands(o)
    BY DEF NoOrphan
  <2>1. proc[o].life = "alive"
    BY Views DEF Held, WellFormed
  <2>2. InList(o) = 1 \/ req[o].pc \in StartPlaces \cup {"unready", "delete"}
    BY Views DEF Held, Owned
  <2>3. InList(o) = 1 => Listed(o)
    BY DEF InList, Count
  <2> QED BY <2>1, <2>2, <2>3, StartingIsAPlace DEF InHands
<1> QED BY <1>4, <1>5, <1>6, <1>7, <1>8 DEF ReferencesHold

(* Whatever requests, exits, shutdown and signal threads do, and in which  *)
(* order: no SERVER_PROCESS is freed while the list, a wait or a thread    *)
(* has a reference of it (DereferenceServerProcess), nor while an exit     *)
(* callback has one unless GetProcess deletes what did not start, its      *)
(* count never passes seven, and what the list names is alive, ready and   *)
(* in one slot.                                                            *)
THEOREM NoUseAfterFree == Spec => []ReferencesHold
<1>1. RefInv => ReferencesHold
  BY RefGives
<1> QED BY <1>1, RefInit, RefStep, PTL DEF Spec

(* A back-end process that runs and whose m_lStopping no exit or signal    *)
(* has set is listed, being started, or being shut down: StopProcess,      *)
(* CleanUp and TerminateBackendProcess leave none behind.  One that runs   *)
(* although m_lStopping is set may be (UnresponsiveIsTerminated).          *)
THEOREM NoneLeftRunning == Spec => []NoOrphan
<1>1. RefInv => NoOrphan
  BY RefGives
<1> QED BY <1>1, RefInit, RefStep, PTL DEF Spec

=============================================================================
