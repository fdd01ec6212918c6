------------------------------- MODULE RequestIO -------------------------------
(***************************************************************************)
(* What the I/O engine of a request promises the methods that use it       *)
(* (IAsyncIOEngine as implemented by AsyncIOEngine): operations are        *)
(* answered in the order they were issued, one is in progress and one      *)
(* waits, a write or a flush never answers "aborted" unless the engine was *)
(* disposed, and a read does so only when something was waiting behind it. *)
(*                                                                         *)
(* Locks, continuations, pooled objects and pinned buffers are not visible *)
(* here; AsyncIOEngine implements this module, and IISHttpContext is built *)
(* on it.                                                                  *)
(***************************************************************************)
EXTENDS Integers

CONSTANTS
  Clients,    (* the asynchronous methods that use the engine              *)
  Nobody,     (* no client                                                 *)
  MayFail,    (* the kinds of calls that IIS may fail                      *)
  MaxBytes    (* the most bytes one read returns                           *)

Kinds == {"read", "write", "flush"}

Aborted == -1
Failed  == -2
Unset   == -3
Outcome == Unset..MaxBytes

VARIABLES
  stopped,   (* the engine was disposed                                    *)
  op,        (* per client: the kind of its operation, or "none"           *)
  first,     (* whose operation is in progress                             *)
  second,    (* whose operation waits for it                               *)
  canceled,  (* the operation in progress may end as aborted               *)
  answer,    (* per client: the outcome it has not taken yet               *)
  got        (* per client: the outcome it took last                       *)

ioVars == <<stopped, op, first, second, canceled, answer, got>>

Init ==
  /\ stopped = FALSE
  /\ op = [c \in Clients |-> "none"]
  /\ first = Nobody
  /\ second = Nobody
  /\ canceled = FALSE
  /\ answer = [c \in Clients |-> Unset]
  /\ got = [c \in Clients |-> Unset]

(* A read returns bytes, a write or a flush nothing.                       *)
Outcomes(k) ==
  (IF k = "read" THEN 0..MaxBytes ELSE {0})
  \union (IF k \in MayFail THEN {Failed} ELSE {})

(* Asking for an operation that the engine throws out.                     *)
Refuse(c) ==
  /\ op[c] = "none"
  /\ stopped \/ second # Nobody
  /\ got' = [got EXCEPT ![c] = Failed]
  /\ UNCHANGED <<stopped, op, first, second, canceled, answer>>

Accept(c, k) ==
  /\ op[c] = "none"
  /\ ~stopped
  /\ op' = [op EXCEPT ![c] = k]
  /\ got' = [got EXCEPT ![c] = Unset]

(* It is answered before the call returns.                                 *)
AnswerAtOnce(c, k) ==
  /\ Accept(c, k)
  /\ first = Nobody
  /\ \E oc \in Outcomes(k) : answer' = [answer EXCEPT ![c] = oc]
  /\ UNCHANGED <<stopped, first, second, canceled>>

Start(c, k) ==
  /\ Accept(c, k)
  /\ first = Nobody
  /\ first' = c
  /\ UNCHANGED <<stopped, second, canceled, answer>>

(* It waits, and a read in front of it is cancelled unless its completion  *)
(* is already on the way.                                                  *)
Queue(c, k) ==
  /\ Accept(c, k)
  /\ first # Nobody
  /\ second = Nobody
  /\ second' = c
  /\ canceled' \in IF op[first] = "read" THEN BOOLEAN ELSE {canceled}
  /\ canceled => canceled'
  /\ UNCHANGED <<stopped, first, answer>>

Submit(c, k) == AnswerAtOnce(c, k) \/ Start(c, k) \/ Queue(c, k)

(* The operation in progress is answered and the next one takes its place. *)
Finish ==
  /\ first # Nobody
  /\ \E oc \in Outcomes(op[first]) \union (IF canceled \/ stopped THEN {Aborted} ELSE {}) :
       answer' = [answer EXCEPT ![first] = oc]
  /\ first' = second
  /\ second' = Nobody
  /\ canceled' = FALSE
  /\ UNCHANGED <<stopped, op, got>>

(* The client goes on with the result.                                     *)
Take(c) ==
  /\ answer[c] # Unset
  /\ got' = [got EXCEPT ![c] = answer[c]]
  /\ answer' = [answer EXCEPT ![c] = Unset]
  /\ op' = [op EXCEPT ![c] = "none"]
  /\ UNCHANGED <<stopped, first, second, canceled>>

(* The engine is disposed when only reads are left.                        *)
WritesDrained == \A c \in Clients : op[c] \in {"none", "read"}

Close ==
  /\ stopped' = TRUE
  /\ canceled' \in IF first # Nobody THEN BOOLEAN ELSE {canceled}
  /\ canceled => canceled'
  /\ UNCHANGED <<op, first, second, answer, got>>

Next ==
  \/ \E c \in Clients : Refuse(c) \/ Take(c) \/ \E k \in Kinds : Submit(c, k)
  \/ Finish
  \/ ~stopped /\ WritesDrained /\ Close

Spec == Init /\ [][Next]_ioVars

=============================================================================
