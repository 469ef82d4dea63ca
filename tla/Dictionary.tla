----------------------------- MODULE Dictionary -----------------------------
(***************************************************************************)
(* What the interface of SQLite's hash table (hash.h) promises its users:  *)
(* a map from names, compared without regard to case, to data.  The key of *)
(* an entry is the caller's string, which is not copied, so which spelling *)
(* is stored matters to the caller: it must stay alive.                    *)
(***************************************************************************)
CONSTANTS Keys,      \* the strings used as keys
          Data,      \* the pointers stored
          Same(_),   \* the name a key stands for: its lower-case form
          NULL

VARIABLES map,       \* [name -> [key, data]] for the names present
          result     \* what the last call returned

Dict == <<map, result>>

Names == { Same(k) : k \in Keys }
Has(k) == Same(k) \in DOMAIN map
DataOf(k) == IF Has(k) THEN map[Same(k)].data ELSE NULL

Put(k, d) == [ n \in DOMAIN map \cup { Same(k) } |->
                 IF n = Same(k) THEN [key |-> k, data |-> d] ELSE map[n] ]
Without(k) == [ n \in DOMAIN map \ { Same(k) } |-> map[n] ]

Init == /\ map = [ n \in {} |-> NULL ]
        /\ result = NULL

\* sqlite3HashInsert with data: replaces, and returns what was there.
Insert(k, d) == /\ map' = Put(k, d)
                /\ result' = DataOf(k)

\* No memory for a new entry: the data come back and nothing changes.
Refuse(k, d) == /\ ~ Has(k)
                /\ result' = d
                /\ UNCHANGED map

\* sqlite3HashInsert with NULL: removes.
Delete(k) == /\ map' = Without(k)
             /\ result' = DataOf(k)

Find(k) == /\ result' = DataOf(k)
           /\ UNCHANGED map

Clear == /\ map' = [ n \in {} |-> NULL ]
         /\ UNCHANGED result

Next == \/ \E k \in Keys, d \in Data : Insert(k, d) \/ Refuse(k, d)
        \/ \E k \in Keys : Delete(k) \/ Find(k)
        \/ Clear

Spec == Init /\ [][Next]_Dict
=============================================================================
