------------------------------ MODULE RecordMap ------------------------------
(***************************************************************************)
(* What HASH_TABLE promises to its callers: one record for each key.  An   *)
(* insertion or a search that is under way takes effect in one step        *)
(* between its call and its return.  Records leave the map in one step     *)
(* too, several at once for Clear and DeleteIf.                            *)
(***************************************************************************)
EXTENDS Naturals

CONSTANTS Threads, Keys, Records, Nil

VARIABLES
  map,      \* the record of each key, Nil if there is none
  call      \* what each thread has asked for and been answered

vars == <<map, call>>

Quiet == [op |-> "none", key |-> Nil, rec |-> Nil, open |-> FALSE, answer |-> Nil]

Init == /\ map = [k \in Keys |-> Nil]
        /\ call = [t \in Threads |-> Quiet]

Begin(t, o, k, r) ==
  /\ call[t] = Quiet
  /\ call' = [call EXCEPT ![t] = [op |-> o, key |-> k, rec |-> r,
                                 open |-> TRUE, answer |-> Nil]]
  /\ UNCHANGED map

\* A search is answered with the record of the key or with none, an
\* insertion that comes too late with the record that was there first.
Meet(t) ==
  /\ call[t].open
  /\ call[t].op = "find" \/ map[call[t].key] # Nil
  /\ call' = [call EXCEPT ![t].open = FALSE, ![t].answer = map[call[t].key]]
  /\ UNCHANGED map

Enter(t) ==
  /\ call[t].op = "insert" /\ call[t].open
  /\ map[call[t].key] = Nil
  /\ map' = [map EXCEPT ![call[t].key] = call[t].rec]
  /\ call' = [call EXCEPT ![t].open = FALSE, ![t].answer = call[t].rec]

End(t) ==
  /\ call[t] # Quiet /\ ~call[t].open
  /\ call' = [call EXCEPT ![t] = Quiet]
  /\ UNCHANGED map

Remove(S) ==
  /\ map' = [k \in Keys |-> IF k \in S THEN Nil ELSE map[k]]
  /\ UNCHANGED call

Next ==
  \/ \E t \in Threads, k \in Keys :
       \/ Begin(t, "find", k, Nil)
       \/ \E r \in Records : Begin(t, "insert", k, r)
  \/ \E t \in Threads : Meet(t) \/ Enter(t) \/ End(t)
  \/ \E S \in SUBSET Keys : Remove(S)

Spec == Init /\ [][Next]_vars
=============================================================================
