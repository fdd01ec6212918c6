----------------------------- MODULE MCHashTable -----------------------------
\* A table of one bucket, five records with four keys: two records share a key
\* and two keys a hash.  The table grows with the fourth item.
EXTENDS HashTable

MCKeys == 1 .. 4
MCRecords == 11 .. 15
MCKeyOf == [r \in MCRecords |-> IF r = 15 THEN 1 ELSE r - 10]
MCHashOf == [k \in MCKeys |-> CASE k = 1 -> 5 [] k = 2 -> 5 [] k = 3 -> 2 [] k = 4 -> 3]
=============================================================================
