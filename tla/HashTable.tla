------------------------------ MODULE HashTable ------------------------------
(***************************************************************************)
(* hash.c of SQLite, the table that trigger_hashtable.c fills: one list of *)
(* all elements and, once there are enough of them, buckets that point     *)
(* into the list.  A bucket owns the elements from its chain on, count of  *)
(* them; nothing in the list itself marks where a bucket ends.             *)
(*                                                                         *)
(* The doubly linked list is a sequence of elements; a pointer to an       *)
(* element is its name, which is unique in the table.                      *)
(***************************************************************************)
EXTENDS Integers, Sequences, SequencesExt

CONSTANTS Keys, Data, NULL,
          Lower,        \* sqlite3UpperToLower applied to a key: its name
          strHash,      \* the hash of a name, before the modulo
          Threshold,    \* the count from which buckets are used, 10 in the code
          SoftLimit     \* SQLITE_MALLOC_SOFT_LIMIT / sizeof(struct _ht), 64 in the code

ASSUME HashAssumption ==
  /\ Threshold \in Nat \ {0} /\ SoftLimit \in Nat \ {0}
  /\ Keys \subseteq DOMAIN Lower
  /\ \A k \in Keys : strHash[Lower[k]] \in Nat
  /\ NULL \notin Data

VARIABLES first,    \* the list: a sequence of [key, data]
          ht,       \* buckets, a sequence of [count, chain]; empty when not allocated
          count,
          result,   \* returned by the last call
          full      \* history: the last call wanted to grow the table and could not

vars == <<first, ht, count, result, full>>

Name(e) == Lower[e.key]
htsize == Len(ht)

\* The bucket of a name, counted from 1, in a table of n buckets.
Hash(name, n) == 1 + (strHash[name] % n)

\* Following a pointer: the place of an element in the list, 0 if it has gone.
Position(list, name) == SelectInSeq(list, LAMBDA e : Name(e) = name)

EmptyBucket == [count |-> 0, chain |-> NULL]

\* insertElement: at the head of its bucket's run, or of the list. t is a
\* table [list, ht], b a bucket of it, or 0 when there are none.
insertElement(t, b, e) ==
  [ list |-> IF b # 0 /\ t.ht[b].count > 0
             THEN InsertAt(t.list, Position(t.list, t.ht[b].chain), e)
             ELSE <<e>> \o t.list,
    ht   |-> IF b = 0 THEN t.ht
             ELSE [t.ht EXCEPT ![b] = [count |-> @.count + 1, chain |-> Name(e)]] ]

\* rehash: the elements are put, in list order, into n new buckets.
NewSize(wanted) == IF wanted > SoftLimit THEN SoftLimit ELSE wanted
rehash(list, n) ==
  LET put[i \in 0 .. Len(list)] ==
        IF i = 0 THEN [list |-> <<>>, ht |-> [b \in 1 .. n |-> EmptyBucket]]
        ELSE insertElement(put[i - 1], Hash(Name(list[i]), n), list[i])
  IN  put[Len(list)]

\* findElementWithHash: the elements that are compared with the key.
Start(name) == IF ht = <<>> THEN 1
               ELSE Position(first, ht[Hash(name, htsize)].chain)
Tests(name) == IF ht = <<>> THEN count ELSE ht[Hash(name, htsize)].count
Compared(name) ==
  IF Tests(name) = 0 THEN {} ELSE Start(name) .. Start(name) + Tests(name) - 1

\* (A bug for the checks: keys are compared with regard to case.)
findElement_by_case(k) ==
  LET found == { i \in Compared(Lower[k]) : first[i].key = k }
  IN  IF found = {} THEN 0 ELSE CHOOSE i \in found : TRUE

findElement(k) ==
  LET found == { i \in Compared(Lower[k]) : Name(first[i]) = Lower[k] }
  IN  IF found = {} THEN 0 ELSE CHOOSE i \in found : \A j \in found : i <= j
DataAt(i) == IF i = 0 THEN NULL ELSE first[i].data

Empty == /\ first' = <<>> /\ ht' = <<>> /\ count' = 0

\* sqlite3HashInit
Init == /\ first = <<>> /\ ht = <<>> /\ count = 0
        /\ result = NULL /\ full = FALSE

\* sqlite3HashInsert of a key that is there: the element takes the new key
\* and the new data where it stands.
Replace(k, d) ==
  LET i == findElement(k) IN
  /\ i # 0
  /\ result' = first[i].data
  /\ first' = [first EXCEPT ![i] = [key |-> k, data |-> d]]
  /\ UNCHANGED <<ht, count, full>>

\* sqlite3HashInsert of a new key; grown says whether rehash, if it is
\* called, gets its memory.
\* (A bug for the checks: the new element is not counted.)
Wanted_before == count + 1 >= Threshold /\ count > 2 * htsize

Wanted == count + 1 >= Threshold /\ count + 1 > 2 * htsize
Grows == Wanted /\ NewSize(2 * (count + 1)) # htsize

Insert(k, d, grown) ==
  /\ findElement(k) = 0
  /\ grown => Grows
  /\ LET old == [list |-> first, ht |-> ht]
         t   == IF grown THEN rehash(first, NewSize(2 * (count + 1))) ELSE old
         b   == IF t.ht = <<>> THEN 0 ELSE Hash(Lower[k], Len(t.ht))
         new == insertElement(t, b, [key |-> k, data |-> d])
     IN  first' = new.list /\ ht' = new.ht
  /\ count' = count + 1
  /\ result' = NULL
  /\ full' = (Grows /\ ~ grown)

\* No memory for the element.
Refuse(k, d) ==
  /\ findElement(k) = 0
  /\ result' = d
  /\ UNCHANGED <<first, ht, count, full>>

\* (A bug for the checks: the chain still starts with the freed element's place.)
removeElement_keeps_chain(i) ==
  LET name == Name(first[i]) IN
  IF count = 1 THEN Empty
  ELSE /\ first' = RemoveAt(first, i)
       /\ count' = count - 1
       /\ ht' = IF ht = <<>> THEN ht
                ELSE [ht EXCEPT ![Hash(name, htsize)].count = @ - 1]

\* removeElementGivenHash: a bucket that loses its last element keeps a chain
\* that points outside it. The last element of the table takes the buckets
\* with it.
removeElement(i) ==
  LET name == Name(first[i])
      next == IF i = Len(first) THEN NULL ELSE Name(first[i + 1])
  IN  IF count = 1 THEN Empty
      ELSE /\ first' = RemoveAt(first, i)
           /\ count' = count - 1
           /\ ht' = IF ht = <<>> THEN ht
                    ELSE [ht EXCEPT ![Hash(name, htsize)] =
                           [ count |-> @.count - 1,
                             chain |-> IF @.chain = name THEN next ELSE @.chain ]]

\* sqlite3HashInsert of NULL.
Delete(k) ==
  LET i == findElement(k) IN
  /\ result' = DataAt(i)
  /\ IF i = 0 THEN UNCHANGED <<first, ht, count>> ELSE removeElement(i)
  /\ UNCHANGED full

\* sqlite3HashFind
Find(k) == /\ result' = DataAt(findElement(k))
           /\ UNCHANGED <<first, ht, count, full>>

\* sqlite3HashClear
Clear == Empty /\ full' = FALSE /\ UNCHANGED result

Next == \/ \E k \in Keys, d \in Data :
             \/ Replace(k, d)
             \/ Refuse(k, d)
             \/ \E grown \in BOOLEAN : Insert(k, d, grown)
        \/ \E k \in Keys : Delete(k) \/ Find(k)
        \/ Clear

Spec == Init /\ [][Next]_vars

-----------------------------------------------------------------------------
(* Properties. *)

\* The runs of the buckets (hash.h: the element pointed to and the next
\* count - 1) partition the list by hash: every element is in the run of its
\* own bucket and in no other. The list carries no bucket marks, so an insertion,
\* a removal or a rehash that is off by one element hands elements of one bucket
\* to its neighbour.
Run(b) == IF ht[b].count = 0 THEN {}
          ELSE LET p == Position(first, ht[b].chain)
               IN  p .. p + ht[b].count - 1
BucketsPartition ==
  \A b \in 1 .. htsize :
    Run(b) = { i \in 1 .. Len(first) : Hash(Name(first[i]), htsize) = b }

\* A lookup compares the average bucket's worth of elements: the table has half as
\* many buckets as elements or more, unless it is too small to have any, at
\* the limit of an allocation, or has just been refused memory; a refused
\* growth is tried again by the next insertion.
LoadBounded ==
  count >= Threshold /\ count > 2 * htsize =>
    htsize = SoftLimit \/ full

\* The table is the map its interface promises, whatever order the elements
\* are in and whichever calls run out of memory.
Elements == [ n \in { Name(first[i]) : i \in 1 .. Len(first) } |->
                first[Position(first, n)] ]
NameOf(k) == Lower[k]
Abstract == INSTANCE Dictionary WITH map <- Elements, Same <- NameOf
IsDictionary == Abstract!Spec

=============================================================================
