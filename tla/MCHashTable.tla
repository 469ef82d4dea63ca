---------------------------- MODULE MCHashTable ----------------------------
(* Keys for seven names, one of them with two spellings and two data. The hashes
   make names share a bucket, in a table of two buckets and of three: it grows at
   the first element and at the fifth, and from the seventh on it is overfull. To
   keep the orders of the list few, "e", "f" and "g" only join a table that has all
   the names before them, and leave it first. *)
EXTENDS HashTable
CONSTANTS d1, d2

MCKeys == {"a", "A", "b", "c", "d", "e", "f", "g"}
MCLower == [k \in MCKeys |-> IF k = "A" THEN "a" ELSE k]
MCHash == [n \in MCKeys \ {"A"} |->
             CASE n = "a" -> 5 [] n = "b" -> 2 [] n = "c" -> 14
               [] n = "d" -> 3 [] n = "e" -> 8 [] n = "f" -> 6 [] n = "g" -> 7]

Fewer(e, n) == /\ e.key \in {"a", "A"} \/ e.data = d1
               /\ e.key = "e" => n >= 5
               /\ e.key = "f" => n >= 6
               /\ e.key = "g" => n = 7
MCNext == Next /\ \A i \in DOMAIN first' : Fewer(first'[i], count')
MCSpec == Init /\ [][MCNext]_vars
=============================================================================
