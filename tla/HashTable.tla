------------------------------ MODULE HashTable ------------------------------
(***************************************************************************)
(* HASH_TABLE of IISLib: chained buckets under a reader-writer lock, where *)
(* an insertion holds the lock shared only.  The nodes of a bucket are     *)
(* kept in the order of their hashes, so two insertions that want the same *)
(* place compete for the same pointer and the interlocked exchange lets    *)
(* one of them win.  Deletions and the growth of the table hold the lock   *)
(* exclusively; nothing but the size and the count (hints, tested again    *)
(* under the lock) is read without the lock.  DeleteIf and the growth go   *)
(* node by node.                                                           *)
(*                                                                         *)
(* A node is named by its record.  A bucket is the sequence of its nodes,  *)
(* and the address of a _pNext by the node that has it, Nil standing for  *)
(* the head of the bucket.                                                 *)
(***************************************************************************)
EXTENDS Integers, FiniteSets, SequencesExt

CONSTANTS
  Threads, Keys, Records, Nil,
  KeyOf,        \* ExtractKey: the key of each record
  HashOf,       \* CalcKeyHash: the hash of each key
  Size          \* the number of buckets given to Initialize

ASSUME TableAssumption ==
  /\ IsFiniteSet(Threads) /\ IsFiniteSet(Records)
  /\ KeyOf \in [Records -> Keys] /\ HashOf \in [Keys -> Nat]
  /\ Size \in Nat \ {0}
  /\ Nil \notin Records \cup Keys \cup Threads

VARIABLES
  buckets,      \* _ppBuckets
  nBuckets,     \* _nBuckets
  grown,        \* the buckets of the larger table while nodes move to it
  nItems,       \* _nItems
  refs,         \* the references to each record, 0 when it is free memory
  th            \* where each thread is in the table's functions

sizes == <<nBuckets, grown>>
tableVars == <<buckets, nBuckets, grown, nItems, refs, th>>

\* A thread: its place, the operation, the key and record it is about, the
\* address it has walked to and the node that address held.  held is the
\* record the thread has a reference to; due is history: the records that
\* were in the table when an Apply began and have not been visited.
Idle == [pc |-> "idle", op |-> "none", key |-> Nil, prev |-> Nil, cur |-> Nil,
         held |-> Nil, due |-> {}, b |-> 0]

HashR(r) == HashOf[KeyOf[r]]

(***************************************************************************)
(* Chains.                                                                 *)
(***************************************************************************)
Nodes(chains) == UNION {ToSet(chains[b]) : b \in DOMAIN chains}
Linked == Nodes(buckets) \cup Nodes(grown)
Bucket(k) == HashOf[k] % nBuckets
BucketOf(k) == buckets[Bucket(k)]

\* The position of the node that holds the pointer p; 0 is the head.
Place(chain, p) == IF p = Nil THEN 0 ELSE CHOOSE i \in DOMAIN chain : chain[i] = p
\* *p: the node after it.
After(chain, p) ==
  IF Place(chain, p) < Len(chain) THEN chain[Place(chain, p) + 1] ELSE Nil

\* Where a rehash puts a node: behind those whose hash is not greater than its own.
BehindEqual(chain, r, i) ==
  /\ \A j \in 1 .. i - 1 : HashR(chain[j]) <= HashR(r)
  /\ i <= Len(chain) => HashR(chain[i]) > HashR(r)

g_Primes ==
  {3, 7, 11, 17, 23, 29, 37, 47, 59, 71, 89, 107, 131, 163, 197, 239, 293, 353, 431, 521, 631,
   761, 919, 1103, 1327, 1597, 1931, 2333, 2801, 3371, 4049, 4861, 5839, 7013, 8419, 10103,
   12143, 14591, 17519, 21023, 25229, 30293, 36353, 43627, 52361, 62851, 75431, 90523, 108631,
   130363, 156437, 187751, 225307, 270371, 324449, 389357, 467237, 560689, 672827, 807403,
   968897, 1162687, 1395263, 1674319, 2009191, 2411033, 2893249, 3471899, 4166287, 4999559,
   5999471, 7199369, 7849369, 8649369, 9249369, 10049369}
MAXDWORD == 2 ^ 32 - 1

IsPrime(n) == n % 2 = 1 /\ \A d \in 3 .. n - 1 : d % 2 = 1 /\ d * d <= n => n % d # 0

\* The least prime of the table, or the least there is, that is not below n.
GetPrime(n) ==
  LET Least(S) == CHOOSE p \in S : \A q \in S : p <= q
      known == {p \in g_Primes : p >= n}
      others == {p \in Nat : n <= p /\ p < MAXDWORD /\ IsPrime(p)}
  IN IF known # {} THEN Least(known) ELSE IF others # {} THEN Least(others) ELSE n

nNewBuckets == GetPrime(2 * nBuckets)
Crowded == nItems > nNewBuckets

(***************************************************************************)
(* The lock: _tableLock.                                                   *)
(***************************************************************************)
\* Mutant: FindKey releases the lock before it takes its reference.
TakesLate(t) == th[t].pc \in {"walk", "link", "own", "count", "leave", "apply"}

Sharing(t) == th[t].pc \in {"walk", "take", "link", "own", "count", "leave", "apply"}
Owning(t) == th[t].pc \in {"deleteIf", "grow"}
NobodyOwns == \A t \in Threads : ~Owning(t)
NobodyShares == \A t \in Threads : ~Sharing(t)
Free == NobodyOwns /\ NobodyShares

GoesTo(t, place) == th' = [th EXCEPT ![t].pc = place]

(***************************************************************************)
(* InsertRecord and FindKey.  The caller of InsertRecord has just made the *)
(* record and has a reference to it.                                       *)
(***************************************************************************)
InsertRecord(t, r) ==
  /\ th[t].pc = "idle" /\ NobodyOwns
  /\ refs[r] = 0
  /\ refs' = [refs EXCEPT ![r] = 1]
  /\ th' = [th EXCEPT ![t] = [Idle EXCEPT !.pc = "walk", !.op = "insert",
                                          !.key = KeyOf[r], !.held = r]]
  /\ UNCHANGED <<sizes, buckets, nItems>>

FindKey(t, k) ==
  /\ th[t].pc = "idle" /\ NobodyOwns
  /\ th' = [th EXCEPT ![t] = [Idle EXCEPT !.pc = "walk", !.op = "find", !.key = k]]
  /\ UNCHANGED <<sizes, buckets, nItems, refs>>

\* Mutant: the search gives up at the first node with its own hash.
StopsAtEqual(k, node) == node # Nil => HashR(node) >= HashOf[k]

\* One turn of the loop of FindNodeInternal: read the next pointer, and stop
\* at the key, at a greater hash or at the end.
StopsAt(k, node) == node # Nil => HashR(node) > HashOf[k]

FindNodeInternal(t) ==
  LET w == th[t]
      node == After(BucketOf(w.key), w.prev)
      Found == ~StopsAt(w.key, node) /\ KeyOf[node] = w.key
      Set(pc, prev, cur) ==
        th' = [th EXCEPT ![t].pc = pc, ![t].prev = prev, ![t].cur = cur]
  IN /\ w.pc = "walk"
     /\ \/ ~StopsAt(w.key, node) /\ ~Found /\ Set("walk", node, Nil)
        \/ Found /\ w.op = "find" /\ Set("take", Nil, node)
        \/ Found /\ w.op = "insert" /\ Set("leave", Nil, node)
        \/ StopsAt(w.key, node) /\ w.op = "find" /\ Set("leave", Nil, Nil)
        \/ StopsAt(w.key, node) /\ w.op = "insert" /\ Set("link", w.prev, node)
     /\ UNCHANGED <<sizes, buckets, nItems, refs>>

TakeReference(t) ==
  /\ th[t].pc = "take"
  /\ refs' = [refs EXCEPT ![th[t].cur] = @ + 1]
  /\ th' = [th EXCEPT ![t].pc = "leave", ![t].held = th[t].cur]
  /\ UNCHANGED <<sizes, buckets, nItems>>

\* The interlocked exchange: it fails, and the search starts again, when the
\* pointer no longer holds what the search read.
Fits(t) == After(BucketOf(th[t].key), th[t].prev) = th[t].cur

\* Mutant: the node goes to the head of its bucket.
LinkFirst(t) ==
  LET h == Bucket(th[t].key)
  IN /\ th[t].pc = "link" /\ Fits(t)
     /\ buckets' = [buckets EXCEPT ![h] = <<th[t].held>> \o @]
     /\ th' = [th EXCEPT ![t].pc = "own", ![t].prev = Nil, ![t].cur = Nil]
     /\ UNCHANGED <<sizes, nItems, refs>>

Link(t) ==
  LET h == Bucket(th[t].key)
      at == Place(buckets[h], th[t].prev)
  IN /\ th[t].pc = "link" /\ Fits(t)
     /\ buckets' = [buckets EXCEPT ![h] = InsertAt(@, at + 1, th[t].held)]
     /\ th' = [th EXCEPT ![t].pc = "own", ![t].prev = Nil, ![t].cur = Nil]
     /\ UNCHANGED <<sizes, nItems, refs>>

\* Mutant: only the exchange is tried again.
RetryExchange(t) ==
  /\ th[t].pc = "link" /\ ~Fits(t)
  /\ GoesTo(t, "link")
  /\ UNCHANGED <<sizes, buckets, nItems, refs>>

Retry(t) ==
  /\ th[t].pc = "link" /\ ~Fits(t)
  /\ th' = [th EXCEPT ![t].pc = "walk", ![t].prev = Nil, ![t].cur = Nil]
  /\ UNCHANGED <<sizes, buckets, nItems, refs>>

OwnReference(t) ==
  /\ th[t].pc = "own"
  /\ refs' = [refs EXCEPT ![th[t].held] = @ + 1]
  /\ GoesTo(t, "count")
  /\ UNCHANGED <<sizes, buckets, nItems>>

CountItem(t) ==
  /\ th[t].pc = "count"
  /\ nItems' = nItems + 1
  /\ th' = [th EXCEPT ![t].pc = "leave", ![t].cur = th[t].held]
  /\ UNCHANGED <<sizes, buckets, refs>>

\* SharedRelease.  An insertion that succeeded looks at the load next.
Succeeded(t) == th[t].op = "insert" /\ th[t].cur = th[t].held

Leave(t) ==
  /\ th[t].pc = "leave"
  /\ GoesTo(t, IF Succeeded(t) THEN "check" ELSE "done")
  /\ UNCHANGED <<sizes, buckets, nItems, refs>>

(***************************************************************************)
(* RehashTableIfNeeded.  The allocation of the new buckets may fail.       *)
(***************************************************************************)
CheckLoad(t) ==
  /\ th[t].pc = "check"
  /\ GoesTo(t, IF Crowded THEN "rehash" ELSE "done")
  /\ UNCHANGED <<sizes, buckets, nItems, refs>>

\* The larger table is made of empty buckets.
Rehash(t) ==
  /\ th[t].pc = "rehash" /\ Free
  /\ \/ /\ Crowded
        /\ grown' = [b \in 0 .. nNewBuckets - 1 |-> <<>>]
        /\ GoesTo(t, "grow")
     \/ UNCHANGED grown /\ GoesTo(t, "done")
  /\ UNCHANGED <<buckets, nBuckets, nItems, refs>>

\* The first node of a bucket moves to its place in the larger table.
MoveHead(b) ==
  LET r == Head(buckets[b])
      h == HashR(r) % nNewBuckets
  IN /\ buckets' = [buckets EXCEPT ![b] = Tail(@)]
     /\ \E i \in 1 .. Len(grown[h]) + 1 :
          /\ BehindEqual(grown[h], r, i)
          /\ grown' = [grown EXCEPT ![h] = InsertAt(@, i, r)]

\* Node by node, the first bucket that still has any.
MoveNode(t) ==
  /\ th[t].pc = "grow"
  /\ \E b \in DOMAIN buckets :
       /\ buckets[b] # <<>> /\ \A c \in 0 .. b - 1 : buckets[c] = <<>>
       /\ MoveHead(b)
  /\ UNCHANGED <<nBuckets, nItems, refs, th>>

\* The larger table takes the place of the old one.
Grow(t) ==
  /\ th[t].pc = "grow" /\ \A b \in DOMAIN buckets : buckets[b] = <<>>
  /\ buckets' = grown /\ nBuckets' = nNewBuckets /\ grown' = <<>>
  /\ GoesTo(t, "done")
  /\ UNCHANGED <<nItems, refs>>

\* The caller lets go of its record when it likes.
Return(t) ==
  /\ th[t].pc = "done"
  /\ refs' = [r \in Records |-> IF r = th[t].held THEN refs[r] - 1 ELSE refs[r]]
  /\ th' = [th EXCEPT ![t] = Idle]
  /\ UNCHANGED <<sizes, buckets, nItems>>

(***************************************************************************)
(* DeleteKey, DeleteIf and Clear.                                          *)
(***************************************************************************)
DeleteNodes(S) == refs' = [r \in Records |-> IF r \in S THEN refs[r] - 1 ELSE refs[r]]

\* The i-th node of the bucket leaves the table.
Unlink(b, i) ==
  /\ buckets' = [buckets EXCEPT ![b] = RemoveAt(@, i)]
  /\ DeleteNodes({buckets[b][i]})
  /\ nItems' = nItems - 1

DeleteKey(t, k) ==
  /\ th[t].pc = "idle" /\ Free
  /\ \E i \in DOMAIN BucketOf(k) : KeyOf[BucketOf(k)[i]] = k /\ Unlink(Bucket(k), i)
  /\ UNCHANGED <<sizes, th>>

Clear(t) ==
  /\ th[t].pc = "idle" /\ Free
  /\ buckets' = [b \in 0 .. nBuckets - 1 |-> <<>>]
  /\ DeleteNodes(Linked)
  /\ nItems' = 0
  /\ UNCHANGED <<sizes, th>>

\* Where a walk through all the buckets stands.
NodeAt(t) == After(buckets[th[t].b], th[t].prev)
LastBucket(t) == th[t].b + 1 = nBuckets
NextBucket(t) == th' = [th EXCEPT ![t].prev = Nil, ![t].b = @ + 1]

DeleteIf(t) ==
  /\ th[t].pc = "idle" /\ Free
  /\ th' = [th EXCEPT ![t].pc = "deleteIf"]
  /\ UNCHANGED <<sizes, buckets, nItems, refs>>

\* The caller's function says which records are to go.
DeleteIfNext(t) ==
  /\ th[t].pc = "deleteIf"
  /\ \/ /\ NodeAt(t) # Nil
        /\ Unlink(th[t].b, Place(buckets[th[t].b], th[t].prev) + 1)
        /\ UNCHANGED th
     \/ /\ NodeAt(t) # Nil
        /\ th' = [th EXCEPT ![t].prev = NodeAt(t)]
        /\ UNCHANGED <<buckets, nItems, refs>>
     \/ /\ NodeAt(t) = Nil
        /\ IF LastBucket(t) THEN th' = [th EXCEPT ![t] = Idle] ELSE NextBucket(t)
        /\ UNCHANGED <<buckets, nItems, refs>>
  /\ UNCHANGED sizes

(***************************************************************************)
(* Apply: the callback is given every node of every bucket in turn.        *)
(***************************************************************************)
Apply(t) ==
  /\ th[t].pc = "idle" /\ NobodyOwns
  /\ th' = [th EXCEPT ![t] = [Idle EXCEPT !.pc = "apply", !.op = "apply", !.due = Linked]]
  /\ UNCHANGED <<sizes, buckets, nItems, refs>>

ApplyNext(t) ==
  /\ th[t].pc = "apply"
  /\ \/ /\ NodeAt(t) # Nil
        /\ th' = [th EXCEPT ![t].prev = NodeAt(t), ![t].due = @ \ {NodeAt(t)}]
     \/ NodeAt(t) = Nil /\ ~LastBucket(t) /\ NextBucket(t)
     \/ /\ NodeAt(t) = Nil /\ LastBucket(t)
        /\ th' = [th EXCEPT ![t].pc = "leave", ![t].prev = Nil, ![t].b = 0]
  /\ UNCHANGED <<sizes, buckets, nItems, refs>>

(***************************************************************************)
(* Initialize, and the behaviours.                                         *)
(***************************************************************************)
TableInit ==
  /\ nBuckets = Size /\ grown = <<>>
  /\ buckets = [b \in 0 .. Size - 1 |-> <<>>]
  /\ nItems = 0
  /\ refs = [r \in Records |-> 0]
  /\ th = [t \in Threads |-> Idle]

Proceed(t) ==
  \/ FindNodeInternal(t) \/ TakeReference(t) \/ Link(t) \/ Retry(t)
  \/ OwnReference(t) \/ CountItem(t) \/ ApplyNext(t) \/ Leave(t)

TableNext ==
  \/ \E t \in Threads, r \in Records : InsertRecord(t, r)
  \/ \E t \in Threads, k \in Keys : FindKey(t, k)
  \/ \E t \in Threads, k \in Keys : DeleteKey(t, k)
  \/ \E t \in Threads : DeleteIf(t) \/ DeleteIfNext(t)
  \/ \E t \in Threads : Clear(t)
  \/ \E t \in Threads : Apply(t)
  \/ \E t \in Threads : Proceed(t)
  \/ \E t \in Threads : CheckLoad(t)
  \/ \E t \in Threads : Rehash(t) \/ MoveNode(t) \/ Grow(t)
  \/ \E t \in Threads : Return(t)

\* A thread that holds the lock shared never waits: it runs on.
TableFairness == \A t \in Threads : WF_tableVars(Proceed(t))

TableSpec == TableInit /\ [][TableNext]_tableVars /\ TableFairness

(***************************************************************************)
(* Properties.                                                             *)
(***************************************************************************)
ThreadOK(w) ==
  /\ w.pc \in {"idle", "walk", "take", "link", "own", "count", "leave", "check",
               "rehash", "grow", "done", "apply", "deleteIf"}
  /\ w.op \in {"none", "insert", "find", "apply"}
  /\ w.key \in Keys \cup {Nil} /\ w.b \in Nat /\ w.due \subseteq Records
  /\ {w.prev, w.cur, w.held} \subseteq Records \cup {Nil}

\* Type invariant of the table.
TableTypeOK ==
  /\ nBuckets \in Nat \ {0} /\ buckets \in [0 .. nBuckets - 1 -> Seq(Records)]
  /\ IF \E t \in Threads : th[t].pc = "grow"
     THEN grown \in [0 .. nNewBuckets - 1 -> Seq(Records)]
     ELSE grown = <<>>
  /\ nItems \in 0 .. Cardinality(Records)
  /\ refs \in [Records -> 0 .. Cardinality(Threads) + 1]
  /\ \A t \in Threads : ThreadOK(th[t])

\* Every bucket of a table with n of them has the nodes of its own hashes in the order
\* of the hashes, and no key twice.
Ordered(chains, n) ==
  \A b \in DOMAIN chains : \A i \in DOMAIN chains[b] :
    /\ HashR(chains[b][i]) % n = b
    /\ \A j \in 1 .. i - 1 : /\ HashR(chains[b][j]) <= HashR(chains[b][i])
                             /\ KeyOf[chains[b][j]] # KeyOf[chains[b][i]]

\* The order that lets insertions run under a shared lock: it holds whatever races, in
\* the table and in the larger one that a rehash builds, and no key is in both.
ChainsAreOrdered ==
  /\ Ordered(buckets, nBuckets) /\ Ordered(grown, nNewBuckets)
  /\ \A r \in Nodes(buckets), s \in Nodes(grown) : KeyOf[r] # KeyOf[s]

\* The references to a record are exactly those of its callers and the
\* table's, and a thread that walks stands on nodes of the table only: the
\* table's reference, taken after the node is visible, never comes too late,
\* and FindKey never takes its own of a record that has been freed.
RecordsAreAlive ==
  /\ \A r \in Records :
       refs[r] = Cardinality({t \in Threads : th[t].held = r})
                 + (IF r \in Linked /\ \A t \in Threads : th[t].pc = "own" => th[t].held # r
                    THEN 1 ELSE 0)
  /\ \A t \in Threads : th[t].pc \in {"walk", "take", "link", "apply", "deleteIf"} =>
       {th[t].prev, th[t].cur} \ {Nil} \subseteq Linked

\* Count differs from the number of nodes only by the insertions that are
\* between their exchange and their increment, none of them while somebody
\* has the lock exclusively.
CountIsRight ==
  nItems = Cardinality(Linked) - Cardinality({t \in Threads : th[t].pc \in {"own", "count"}})

\* Apply gives its callback every record that was in the table when it began.
ApplyMissesNothing ==
  \A t \in Threads : th[t].op = "apply" /\ th[t].pc \in {"leave", "done"} => th[t].due = {}

\* The structure that lets insertions share the lock stays intact.
TableSafe == TableTypeOK /\ ChainsAreOrdered /\ CountIsRight /\ ApplyMissesNothing

\* An insertion or a search that holds the lock comes to an end: an insertion
\* cannot lose the race for its place for ever.
SharingEnds == \A t \in Threads : Sharing(t) ~> ~Sharing(t)

\* What a call has come to: the record of its key, or none.
Open(w) == w.pc \in {"walk", "link"}
Answer(w) ==
  CASE Open(w) -> Nil
    [] w.pc \in {"own", "count"} -> w.held
    [] OTHER -> w.cur

TheMap ==
  [k \in Keys |-> IF \E r \in Linked : KeyOf[r] = k
                  THEN CHOOSE r \in Linked : KeyOf[r] = k ELSE Nil]
TheCall(w) ==
  IF w.op \in {"find", "insert"}
  THEN [op |-> w.op, key |-> w.key, rec |-> IF w.op = "insert" THEN w.held ELSE Nil,
        open |-> Open(w), answer |-> Answer(w)]
  ELSE [op |-> "none", key |-> Nil, rec |-> Nil, open |-> FALSE, answer |-> Nil]

Map == INSTANCE RecordMap WITH map <- TheMap, call <- [t \in Threads |-> TheCall(th[t])]

\* The table implements the map of records: FindKey and InsertRecord take
\* effect at one moment between call and return, however they interleave.
ImplementsMap == Map!Spec
=============================================================================
