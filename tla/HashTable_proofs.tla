-------------------------- MODULE HashTable_proofs --------------------------
(***************************************************************************)
(* The hash table is a dictionary whatever the keys, the hash function and *)
(* the limits are.                                                         *)
(*                                                                         *)
(* The argument is about proper tables: a list without two elements of one *)
(* name, and for every bucket the run that its count and chain describe    *)
(* is the set of places whose elements hash to it.  Inserting at the head  *)
(* of a run, rehashing (by induction over the list), replacing and         *)
(* removing keep a table proper; what findElement returns and the map the  *)
(* table stands for are then functions of the set of its elements.         *)
(***************************************************************************)
EXTENDS HashTable, SequenceTheorems, WellFoundedInduction, TLAPS

(* The types of elements, buckets and tables.                              *)
Elem == [key : Keys, data : Data]
Names == { Lower[k] : k \in Keys }
Buckets == [count : Nat, chain : Names \cup {NULL}]
Tables == [list : Seq(Elem), ht : Seq(Buckets)]

(* No two elements of one name.                                            *)
Unique(list) == \A i, j \in 1 .. Len(list) : Name(list[i]) = Name(list[j]) => i = j

(* The places of the run of bucket b, and those of the elements it owns.    *)
RunIn(t, b) == IF t.ht[b].count = 0 THEN {}
               ELSE LET p == Position(t.list, t.ht[b].chain)
                    IN  p .. p + t.ht[b].count - 1
Owned(t, b) == { i \in 1 .. Len(t.list) : Hash(Name(t.list[i]), Len(t.ht)) = b }

(* A table whose buckets are in order.                                      *)
Proper(t) == /\ t \in Tables
             /\ Unique(t.list)
             /\ \A b \in 1 .. Len(t.ht) : RunIn(t, b) = Owned(t, b)

(* Following a pointer to an element that is there.                        *)
LEMMA PositionIs ==
  ASSUME NEW list \in Seq(Elem), NEW i \in 1 .. Len(list),
         \A j \in 1 .. Len(list) : Name(list[j]) = Name(list[i]) => j = i
  PROVE  Position(list, Name(list[i])) = i
<1> DEFINE I == { j \in 1 .. Len(list) : Name(list[j]) = Name(list[i]) }
<1>1. I = {i}
  OBVIOUS
<1>2. Position(list, Name(list[i])) = IF I # {} THEN Min(I) ELSE 0
  BY DEF Position, SelectInSeq
<1>3. Min({i}) = i
  BY DEF Min
<1> QED
  BY <1>1, <1>2, <1>3

(* A pointer to an element that has gone.                                  *)
LEMMA PositionNone ==
  ASSUME NEW list, NEW name, \A j \in 1 .. Len(list) : Name(list[j]) # name
  PROVE  Position(list, name) = 0
BY DEF Position, SelectInSeq

(* A pointer that leads somewhere leads to the element of that name.       *)
LEMMA PositionFound ==
  ASSUME NEW list \in Seq(Elem), NEW name, Position(list, name) # 0,
         \A i, j \in 1 .. Len(list) : Name(list[i]) = Name(list[j]) => i = j
  PROVE  /\ Position(list, name) \in 1 .. Len(list)
         /\ Name(list[Position(list, name)]) = name
<1>1. PICK j \in 1 .. Len(list) : Name(list[j]) = name
  BY PositionNone
<1>2. Position(list, name) = j
  BY <1>1, PositionIs
<1> QED
  BY <1>1, <1>2

(* The list with an element inserted, place by place.                      *)
LEMMA InsertAtIs ==
  ASSUME NEW S, NEW s \in Seq(S), NEW e \in S, NEW i \in 1 .. Len(s) + 1
  PROVE  /\ InsertAt(s, i, e) \in Seq(S)
         /\ Len(InsertAt(s, i, e)) = Len(s) + 1
         /\ \A j \in 1 .. Len(s) + 1 :
              InsertAt(s, i, e)[j] = IF j < i THEN s[j] ELSE IF j = i THEN e ELSE s[j - 1]
<1> DEFINE n == Len(s)
           a == SubSeq(s, 1, i - 1)
           y == a \o <<e>>
           z == SubSeq(s, i, n)
<1>0. n \in Nat /\ i \in Nat /\ i >= 1 /\ i <= n + 1
  OBVIOUS
<1>1. /\ a \in Seq(S) /\ Len(a) = i - 1
      /\ \A j \in 1 .. i - 1 : a[j] = s[j]
  OBVIOUS
<1>2. /\ z \in Seq(S) /\ Len(z) = n - i + 1
      /\ \A j \in 1 .. n - i + 1 : z[j] = s[i + j - 1]
  OBVIOUS
<1>3. InsertAt(s, i, e) = y \o z
  BY DEF InsertAt
<1> HIDE DEF a, z, n
<1>4. /\ y \in Seq(S) /\ Len(y) = i
      /\ \A j \in 1 .. i : y[j] = IF j < i THEN s[j] ELSE e
  BY <1>0, <1>1
<1> HIDE DEF y
<1>5. /\ y \o z \in Seq(S) /\ Len(y \o z) = Len(y) + Len(z)
      /\ \A j \in 1 .. Len(y) + Len(z) :
           (y \o z)[j] = IF j <= Len(y) THEN y[j] ELSE z[j - Len(y)]
  BY <1>2, <1>4, ConcatProperties
<1>6. Len(y) + Len(z) = n + 1
  BY <1>0, <1>2, <1>4
<1>7. ASSUME NEW j \in 1 .. n + 1
      PROVE  (y \o z)[j] = IF j < i THEN s[j] ELSE IF j = i THEN e ELSE s[j - 1]
  <2>1. (y \o z)[j] = IF j <= i THEN y[j] ELSE z[j - i]
    BY <1>4, <1>5, <1>6
  <2>2. CASE j <= i
    BY <1>0, <2>2, <1>4, <2>1
  <2>3. CASE j > i
    <3>1. j - i \in 1 .. n - i + 1 /\ i + (j - i) - 1 = j - 1
      BY <1>0, <2>3
    <3>2. z[j - i] = s[j - 1]
      BY <1>2, <3>1
    <3> QED
      BY <1>0, <2>3, <2>1, <3>2
  <2>4. j <= i \/ j > i
    BY <1>0
  <2> QED
    BY <2>2, <2>3, <2>4
<1> QED
  BY <1>3, <1>5, <1>6, <1>7 DEF n

(* The list with an element removed, place by place.                       *)
LEMMA RemoveAtIs ==
  ASSUME NEW S, NEW s \in Seq(S), NEW i \in 1 .. Len(s)
  PROVE  /\ RemoveAt(s, i) \in Seq(S)
         /\ Len(RemoveAt(s, i)) = Len(s) - 1
         /\ \A j \in 1 .. Len(s) - 1 :
              RemoveAt(s, i)[j] = IF j < i THEN s[j] ELSE s[j + 1]
<1> DEFINE a == SubSeq(s, 1, i - 1)
           z == SubSeq(s, i + 1, Len(s))
           n == Len(s)
<1>0. n \in Nat /\ i \in Nat /\ i >= 1 /\ i <= n
  OBVIOUS
<1>1. /\ a \in Seq(S) /\ Len(a) = i - 1
      /\ \A j \in 1 .. i - 1 : a[j] = s[j]
  OBVIOUS
<1>2. /\ z \in Seq(S) /\ Len(z) = n - i
      /\ \A j \in 1 .. n - i : z[j] = s[i + j]
  OBVIOUS
<1>3. RemoveAt(s, i) = a \o z
  BY DEF RemoveAt
<1> HIDE DEF a, z, n
<1>4. /\ a \o z \in Seq(S) /\ Len(a \o z) = Len(a) + Len(z)
      /\ \A j \in 1 .. Len(a) + Len(z) :
           (a \o z)[j] = IF j <= Len(a) THEN a[j] ELSE z[j - Len(a)]
  BY <1>1, <1>2, ConcatProperties
<1>5. Len(a) + Len(z) = n - 1
  BY <1>0, <1>1, <1>2
<1>6. ASSUME NEW j \in 1 .. n - 1
      PROVE  (a \o z)[j] = IF j < i THEN s[j] ELSE s[j + 1]
  <2>1. (a \o z)[j] = IF j <= i - 1 THEN a[j] ELSE z[j - (i - 1)]
    BY <1>1, <1>4, <1>5
  <2>2. CASE j < i
    BY <1>0, <2>2, <1>1, <2>1
  <2>3. CASE j >= i
    <3>1. j - (i - 1) \in 1 .. n - i /\ i + (j - (i - 1)) = j + 1
      BY <1>0, <2>3
    <3>2. z[j - (i - 1)] = s[j + 1]
      BY <1>2, <3>1
    <3> QED
      BY <1>0, <2>3, <2>1, <3>2
  <2>4. j < i \/ j >= i
    BY <1>0
  <2> QED
    BY <2>2, <2>3, <2>4
<1> QED
  BY <1>3, <1>4, <1>5, <1>6 DEF n
(* A name is in one of the buckets.                                        *)
LEMMA HashRange ==
  ASSUME NEW e \in Elem, NEW n \in Nat \ {0}
  PROVE  Hash(Name(e), n) \in 1 .. n
<1>1. strHash[Name(e)] \in Nat
  BY HashAssumption DEF Elem, Name
<1> QED
  BY <1>1 DEF Hash

(* The parts of a proper table.                                            *)
LEMMA ProperParts ==
  ASSUME NEW t, Proper(t)
  PROVE  /\ t.list \in Seq(Elem) /\ t.ht \in Seq(Buckets)
         /\ Len(t.list) \in Nat /\ Len(t.ht) \in Nat
         /\ t = [list |-> t.list, ht |-> t.ht]
         /\ \A i \in 1 .. Len(t.list) : t.list[i] \in Elem
         /\ \A b \in 1 .. Len(t.ht) :
              t.ht[b] \in Buckets /\ t.ht[b].count \in Nat
         /\ Unique(t.list)
<1>1. /\ t.list \in Seq(Elem) /\ t.ht \in Seq(Buckets)
      /\ t = [list |-> t.list, ht |-> t.ht]
  BY DEF Proper, Tables
<1>2. /\ Len(t.list) \in Nat /\ Len(t.ht) \in Nat
      /\ \A i \in 1 .. Len(t.list) : t.list[i] \in Elem
      /\ \A b \in 1 .. Len(t.ht) : t.ht[b] \in Buckets
  BY <1>1
<1>3. \A x \in Buckets : x.count \in Nat
  BY DEF Buckets
<1> QED
  BY <1>1, <1>2, <1>3 DEF Proper

(* The run of a bucket that is not empty.                                  *)
LEMMA RunStarts ==
  ASSUME NEW t, Proper(t), NEW b \in 1 .. Len(t.ht), t.ht[b].count > 0
  PROVE  LET p == Position(t.list, t.ht[b].chain)
         IN  /\ p \in 1 .. Len(t.list)
             /\ p + t.ht[b].count - 1 \in 1 .. Len(t.list)
             /\ Name(t.list[p]) = t.ht[b].chain
             /\ Owned(t, b) = p .. p + t.ht[b].count - 1
<1> DEFINE p == Position(t.list, t.ht[b].chain)
           c == t.ht[b].count
<1>1. t.list \in Seq(Elem) /\ c \in Nat \ {0}
  BY ProperParts
<1>2. Owned(t, b) = p .. p + c - 1
  <2>1. RunIn(t, b) = Owned(t, b)
    BY DEF Proper
  <2>2. c # 0
    BY <1>1
  <2>3. RunIn(t, b) = p .. p + c - 1
    BY <2>2, Zenon DEF RunIn
  <2> QED
    BY <2>1, <2>3
<1>3. p \in Int
  <2>1. CASE p = 0
    BY <2>1
  <2>2. CASE p # 0
    BY <1>1, <2>2, PositionFound DEF Proper, Unique
  <2> QED
    BY <2>1, <2>2
<1> HIDE DEF p, c
<1>4. p \in p .. p + c - 1 /\ p + c - 1 \in p .. p + c - 1
  BY <1>1, <1>3
<1>5. p \in 1 .. Len(t.list) /\ p + c - 1 \in 1 .. Len(t.list)
  BY <1>2, <1>4 DEF Owned
<1>6. Name(t.list[p]) = t.ht[b].chain
  <2>1. \A i, j \in 1 .. Len(t.list) : Name(t.list[i]) = Name(t.list[j]) => i = j
    BY ProperParts DEF Unique
  <2>2. Position(t.list, t.ht[b].chain) # 0
    BY <1>5 DEF p
  <2> QED
    BY <1>1, <2>1, <2>2, PositionFound DEF p
<1> QED
  BY <1>2, <1>5, <1>6, Zenon DEF p, c

(* The bucket that insertElement is given.                                 *)
BucketOf(t, e) == IF t.ht = <<>> THEN 0 ELSE Hash(Name(e), Len(t.ht))
With(t, e) == insertElement(t, BucketOf(t, e), e)

(* The place where insertElement puts e.                                   *)
PlaceOf(t, e) ==
  IF BucketOf(t, e) # 0 /\ t.ht[BucketOf(t, e)].count > 0
  THEN Position(t.list, t.ht[BucketOf(t, e)].chain) ELSE 1

(* The bucket of an element is one of the table's, if it has any.          *)
LEMMA BucketOfIs ==
  ASSUME NEW t, Proper(t), NEW e \in Elem
  PROVE  /\ BucketOf(t, e) = 0 <=> t.ht = <<>>
         /\ BucketOf(t, e) # 0 => BucketOf(t, e) \in 1 .. Len(t.ht)
<1>1. t.ht \in Seq(Buckets)
  BY ProperParts
<1>2. CASE t.ht = <<>>
  BY <1>2 DEF BucketOf
<1>3. CASE t.ht # <<>>
  <2>1. Len(t.ht) \in Nat \ {0}
    BY <1>1, <1>3
  <2>2. Hash(Name(e), Len(t.ht)) \in 1 .. Len(t.ht)
    BY <2>1, HashRange
  <2> QED
    BY <1>3, <2>1, <2>2 DEF BucketOf
<1> QED
  BY <1>2, <1>3

(* insertElement puts the element at one of the places of the new list.    *)
LEMMA PlaceOfIs ==
  ASSUME NEW t, Proper(t), NEW e \in Elem
  PROVE  PlaceOf(t, e) \in 1 .. Len(t.list) + 1
<1>1. Len(t.list) \in Nat
  BY ProperParts
<1> DEFINE b == BucketOf(t, e)
<1>2. CASE b # 0 /\ t.ht[b].count > 0
  <2>1. Position(t.list, t.ht[b].chain) \in 1 .. Len(t.list)
    BY <1>2, BucketOfIs, RunStarts
  <2> QED
    BY <1>1, <1>2, <2>1 DEF PlaceOf
<1>3. CASE ~ (b # 0 /\ t.ht[b].count > 0)
  BY <1>1, <1>3 DEF PlaceOf
<1> QED
  BY <1>2, <1>3

(* The list after insertElement, place by place.                           *)
LEMMA WithList ==
  ASSUME NEW t, Proper(t), NEW e \in Elem
  PROVE  LET l == With(t, e).list
             p == PlaceOf(t, e)
         IN  /\ l \in Seq(Elem) /\ Len(l) = Len(t.list) + 1
             /\ \A j \in 1 .. Len(t.list) + 1 :
                  l[j] = IF j < p THEN t.list[j]
                         ELSE IF j = p THEN e ELSE t.list[j - 1]
<1> DEFINE b == BucketOf(t, e)
           l == With(t, e).list
           s == t.list
           p == PlaceOf(t, e)
           filled == b # 0 /\ t.ht[b].count > 0
<1>1. s \in Seq(Elem) /\ p \in 1 .. Len(s) + 1
  BY ProperParts, PlaceOfIs
<1>2. l = IF filled THEN InsertAt(s, p, e) ELSE <<e>> \o s
  BY DEF With, insertElement, PlaceOf
<1>3. ~ filled => p = 1
  BY DEF PlaceOf
<1> SUFFICES /\ l \in Seq(Elem) /\ Len(l) = Len(s) + 1
             /\ \A j \in 1 .. Len(s) + 1 :
                  l[j] = IF j < p THEN s[j] ELSE IF j = p THEN e ELSE s[j - 1]
  OBVIOUS
<1> HIDE DEF l, s, p, filled
<1>4. CASE filled
  <2>1. l = InsertAt(s, p, e) /\ e \in Elem
    BY <1>2, <1>4
  <2>2. /\ InsertAt(s, p, e) \in Seq(Elem)
        /\ Len(InsertAt(s, p, e)) = Len(s) + 1
        /\ \A j \in 1 .. Len(s) + 1 :
             InsertAt(s, p, e)[j] = IF j < p THEN s[j] ELSE IF j = p THEN e ELSE s[j - 1]
    <3>1. s \in Seq(Elem) /\ e \in Elem /\ p \in 1 .. Len(s) + 1
      BY <1>1
    <3>2. InsertAt(s, p, e) \in Seq(Elem)
      BY ONLY <3>1, InsertAtIs
    <3>3. Len(InsertAt(s, p, e)) = Len(s) + 1
      BY ONLY <3>1, InsertAtIs
    <3>4. ASSUME NEW j \in 1 .. Len(s) + 1
          PROVE InsertAt(s, p, e)[j] = IF j < p THEN s[j] ELSE IF j = p THEN e ELSE s[j - 1]
      BY ONLY <3>1, <3>4, InsertAtIs
    <3> QED
      BY <3>2, <3>3, <3>4
  <2> QED
    BY <2>1, <2>2
<1>5. CASE ~ filled
  <2>1. l = <<e>> \o s /\ p = 1
    BY <1>2, <1>3, <1>5
  <2>2. /\ l \in Seq(Elem) /\ Len(l) = Len(s) + 1
        /\ \A j \in 1 .. Len(s) + 1 : l[j] = IF j = 1 THEN e ELSE s[j - 1]
    BY <1>1, <2>1
  <2>3. \A j \in 1 .. Len(s) + 1 :
          l[j] = IF j < p THEN s[j] ELSE IF j = p THEN e ELSE s[j - 1]
    BY <2>1, <2>2
  <2> QED
    BY <2>2, <2>3
<1> QED
  BY <1>4, <1>5

Shift(p, i) == IF i < p THEN i ELSE i + 1

(* Where an element of the old table, and where the new one is.            *)
LEMMA WithPlaces ==
  ASSUME NEW t, Proper(t), NEW e \in Elem,
         \A j \in 1 .. Len(t.list) : Name(t.list[j]) # Name(e)
  PROVE  LET l == With(t, e).list
             p == PlaceOf(t, e)
         IN  /\ Unique(l)
             /\ Position(l, Name(e)) = p
             /\ \A i \in 1 .. Len(t.list) :
                  Position(l, Name(t.list[i])) = Shift(p, i)
<1> DEFINE l == With(t, e).list
           s == t.list
           p == PlaceOf(t, e)
<1> SUFFICES /\ Unique(l)
             /\ Position(l, Name(e)) = p
             /\ \A i \in 1 .. Len(s) : Position(l, Name(s[i])) = Shift(p, i)
  OBVIOUS
<1>1. s \in Seq(Elem) /\ p \in 1 .. Len(s) + 1 /\ Unique(s) /\ Len(s) \in Nat
  BY ProperParts, PlaceOfIs
<1>2. /\ l \in Seq(Elem) /\ Len(l) = Len(s) + 1
      /\ \A j \in 1 .. Len(s) + 1 :
           l[j] = IF j < p THEN s[j] ELSE IF j = p THEN e ELSE s[j - 1]
  BY WithList
<1>3. \A j \in 1 .. Len(s) : Name(s[j]) # Name(e)
  OBVIOUS
<1> DEFINE n == Len(s)
<1> HIDE DEF l, s, p, n
<1>4. /\ l[p] = e
      /\ \A j \in 1 .. n + 1 : j < p => j \in 1 .. n /\ l[j] = s[j]
      /\ \A j \in 1 .. n + 1 : j > p => j - 1 \in 1 .. n /\ l[j] = s[j - 1]
  BY <1>1, <1>2 DEF n
<1>5. \A i, j \in 1 .. n : Name(s[i]) = Name(s[j]) => i = j
  BY <1>1 DEF Unique, n
<1>6. ASSUME NEW i \in 1 .. n + 1, NEW j \in 1 .. n + 1, Name(l[i]) = Name(l[j])
      PROVE  i = j
  <2>1. n \in Nat /\ p \in 1 .. n + 1
    BY <1>1 DEF n
  <2>2. CASE i = p \/ j = p
    BY <1>3, <1>4, <1>6, <2>1, <2>2 DEF n
  <2>3. CASE i # p /\ j # p
    <3> DEFINE u == IF i < p THEN i ELSE i - 1
               v == IF j < p THEN j ELSE j - 1
    <3>1. u \in 1 .. n /\ l[i] = s[u] /\ v \in 1 .. n /\ l[j] = s[v]
      BY <1>4, <2>1, <2>3
    <3>2. u = v
      BY <1>5, <1>6, <3>1
    <3> QED
      BY <2>1, <2>3, <3>2
  <2> QED
    BY <2>2, <2>3
<1>7. Unique(l)
  BY <1>2, <1>6 DEF Unique, n
<1>8. \A i \in 1 .. Len(l) : Position(l, Name(l[i])) = i
  BY <1>2, <1>7, PositionIs DEF Unique
<1>9. Position(l, Name(e)) = p
  BY <1>1, <1>2, <1>4, <1>8
<1>10. ASSUME NEW i \in 1 .. Len(s)
       PROVE  Position(l, Name(s[i])) = Shift(p, i)
  <2>1. Shift(p, i) \in 1 .. n + 1 /\ l[Shift(p, i)] = s[i]
    BY <1>1, <1>2 DEF Shift, n
  <2> QED
    BY <1>2, <1>8, <2>1 DEF n
<1> QED
  BY <1>7, <1>9, <1>10

(* The buckets after insertElement: only the element's own one has         *)
(* changed.                                                                *)
LEMMA WithBuckets ==
  ASSUME NEW t, Proper(t), NEW e \in Elem
  PROVE  LET h == With(t, e).ht
             b == BucketOf(t, e)
         IN  /\ h \in Seq(Buckets) /\ Len(h) = Len(t.ht)
             /\ With(t, e) = [list |-> With(t, e).list, ht |-> h]
             /\ \A c \in 1 .. Len(t.ht) :
                  h[c] = IF c = b THEN [count |-> t.ht[c].count + 1, chain |-> Name(e)]
                         ELSE t.ht[c]
<1> DEFINE h == With(t, e).ht
           b == BucketOf(t, e)
<1>1. t.ht \in Seq(Buckets) /\ (b # 0 => b \in 1 .. Len(t.ht)) /\ Len(t.ht) \in Nat
  BY ProperParts, BucketOfIs
<1>2. With(t, e) = [list |-> With(t, e).list, ht |-> h]
  BY DEF With, insertElement
<1>3. h = IF b = 0 THEN t.ht
          ELSE [t.ht EXCEPT ![b] = [count |-> @.count + 1, chain |-> Name(e)]]
  BY DEF With, insertElement
<1>4. \A c \in 1 .. Len(t.ht) :
        [count |-> t.ht[c].count + 1, chain |-> Name(e)] \in Buckets
  <2>1. Name(e) \in Names
    BY DEF Elem, Name, Names
  <2>2. \A c \in 1 .. Len(t.ht) : t.ht[c].count + 1 \in Nat
    BY ProperParts
  <2> QED
    BY <2>1, <2>2 DEF Buckets
<1> HIDE DEF h, b
<1>5. CASE b = 0
  <2>1. t.ht = <<>>
    BY <1>5, BucketOfIs DEF b
  <2>2. h = t.ht
    BY <1>3, <1>5
  <2> QED
    BY <1>1, <1>2, <2>1, <2>2 DEF h, b
<1>6. CASE b # 0
  <2>1. h = [t.ht EXCEPT ![b] = [count |-> t.ht[b].count + 1, chain |-> Name(e)]]
    BY <1>3, <1>6
  <2>2. h \in Seq(Buckets) /\ Len(h) = Len(t.ht)
    BY <1>1, <1>4, <1>6, <2>1
  <2>3. \A c \in 1 .. Len(t.ht) :
          h[c] = IF c = b THEN [count |-> t.ht[c].count + 1, chain |-> Name(e)]
                 ELSE t.ht[c]
    BY <1>1, <1>6, <2>1
  <2> QED
    BY <1>2, <2>2, <2>3 DEF h, b
<1> QED
  BY <1>5, <1>6

(* insertElement keeps the table in order, and adds the element.           *)
LEMMA WithProper ==
  ASSUME NEW t, Proper(t), NEW e \in Elem,
         \A j \in 1 .. Len(t.list) : Name(t.list[j]) # Name(e)
  PROVE  Proper(With(t, e))
<1> DEFINE r == With(t, e)
           l == r.list
           h == r.ht
           s == t.list
           p == PlaceOf(t, e)
           b == BucketOf(t, e)
           n == Len(s)
           m == Len(t.ht)
<1>1. /\ s \in Seq(Elem) /\ p \in 1 .. n + 1 /\ n \in Nat /\ m \in Nat
      /\ \A c \in 1 .. m : t.ht[c].count \in Nat
  BY ProperParts, PlaceOfIs
<1>2. /\ l \in Seq(Elem) /\ Len(l) = n + 1
      /\ \A j \in 1 .. n + 1 :
           l[j] = IF j < p THEN s[j] ELSE IF j = p THEN e ELSE s[j - 1]
  BY WithList
<1>3. /\ h \in Seq(Buckets) /\ Len(h) = m /\ r = [list |-> l, ht |-> h]
      /\ \A c \in 1 .. m :
           h[c] = IF c = b THEN [count |-> t.ht[c].count + 1, chain |-> Name(e)]
                  ELSE t.ht[c]
  BY WithBuckets
<1>4. /\ Unique(l) /\ Position(l, Name(e)) = p
      /\ \A i \in 1 .. n : Position(l, Name(s[i])) = Shift(p, i)
  BY WithPlaces
<1>5. r \in Tables
  BY <1>2, <1>3 DEF Tables
<1>6. \A c \in 1 .. m : \A i \in 1 .. n : i \in Owned(t, c) <=> Hash(Name(s[i]), m) = c
  BY DEF Owned
<1>7. \A c \in 1 .. m : \A j : j \in Owned(r, c) <=>
           j \in 1 .. n + 1 /\ Hash(Name(l[j]), m) = c
  BY <1>2, <1>3 DEF Owned
<1>8. m > 0 => b \in 1 .. m /\ b = Hash(Name(e), m)
  BY BucketOfIs, ProperParts DEF BucketOf
<1>9. \A c \in 1 .. m : t.ht[c].count > 0 =>
        LET q == Position(s, t.ht[c].chain)
        IN  /\ q \in 1 .. n /\ q + t.ht[c].count - 1 \in 1 .. n
            /\ Name(s[q]) = t.ht[c].chain
            /\ Owned(t, c) = q .. q + t.ht[c].count - 1
  BY RunStarts
<1>10. \A c \in 1 .. m : t.ht[c].count = 0 => Owned(t, c) = {}
  BY DEF Proper, RunIn
<1>11. b # 0 /\ t.ht[b].count > 0 => p = Position(s, t.ht[b].chain)
  BY DEF PlaceOf
<1>12. b = 0 \/ ~ (t.ht[b].count > 0) => p = 1
  BY DEF PlaceOf
<1>13. \A c \in 1 .. m : RunIn(r, c) = IF h[c].count = 0 THEN {}
            ELSE Position(l, h[c].chain) .. Position(l, h[c].chain) + h[c].count - 1
  BY DEF RunIn
<1> HIDE DEF r, l, h, s, p, b, n, m
<1>14. ASSUME NEW c \in 1 .. m
       PROVE  RunIn(r, c) = Owned(r, c)
  <2> DEFINE k == t.ht[c].count
             q == Position(s, t.ht[c].chain)
  <2>0. k \in Nat /\ n \in Nat /\ p \in 1 .. n + 1 /\ m > 0
    BY <1>1
  <2>b. b \in 1 .. m /\ b = Hash(Name(e), m)
    BY <1>8, <2>0
  <2>1. \A j \in 1 .. n + 1 :
           j \in Owned(r, c) <=> IF j < p THEN j \in Owned(t, c)
                                ELSE IF j = p THEN c = b ELSE j - 1 \in Owned(t, c)
    <3> TAKE j \in 1 .. n + 1
    <3>1. CASE j < p
      <4>1. j \in 1 .. n /\ l[j] = s[j]
        BY <1>2, <2>0, <3>1
      <4> QED
        BY <1>6, <1>7, <3>1, <4>1
    <3>2. CASE j = p
      BY <1>2, <1>7, <2>0, <2>b, <3>2
    <3>3. CASE j > p
      <4>1. j - 1 \in 1 .. n /\ l[j] = s[j - 1]
        BY <1>2, <2>0, <3>3
      <4> QED
        BY <1>6, <1>7, <2>0, <3>3, <4>1
    <3> QED
      BY <2>0, <3>1, <3>2, <3>3
  <2>2. \A j : j \in Owned(r, c) => j \in 1 .. n + 1
    BY <1>7
  <2>3. CASE c = b
    <3>1. h[c].count = k + 1 /\ h[c].chain = Name(e)
      BY <1>3, <2>3
    <3>2. RunIn(r, c) = p .. p + k
      <4>1. h[c].count # 0
        BY <3>1, <2>0
      <4>2. RunIn(r, c) = Position(l, h[c].chain) .. Position(l, h[c].chain) + h[c].count - 1
        BY <1>13, <4>1, Zenon
      <4>3. Position(l, h[c].chain) = p
        BY <1>4, <3>1, Zenon
      <4>4. RunIn(r, c) = p .. p + h[c].count - 1
        BY <4>2, <4>3, Zenon
      <4>5. h[c].count - 1 = k /\ p + h[c].count - 1 = p + k
        BY <3>1, <2>0
      <4> QED
        BY <4>4, <4>5, Zenon
    <3>3. CASE k = 0
      <4>1. p = 1 /\ Owned(t, c) = {}
        BY <1>10, <1>12, <2>3, <3>3
      <4>2. \A j \in 1 .. n + 1 : j \in Owned(r, c) <=> j = p
        BY <2>1, <2>3, <4>1, <2>0
      <4>3. RunIn(r, c) = {p}
        BY <2>0, <3>2, <3>3
      <4>4. Owned(r, c) = {p}
        BY <2>0, <2>2, <4>2
      <4> QED
        BY <4>3, <4>4
    <3>4. CASE k > 0
      <4>a. p = q
        BY <1>11, <2>3, <3>4, <2>b
      <4>b. /\ q \in 1 .. n /\ q + k - 1 \in 1 .. n
            /\ Owned(t, c) = q .. q + k - 1
        BY <1>9, <3>4
      <4>1. /\ p = q /\ q \in 1 .. n /\ q + k - 1 \in 1 .. n
            /\ Owned(t, c) = q .. q + k - 1
        BY <4>a, <4>b
      <4> HIDE DEF k, q
      <4>2. \A j \in 1 .. n + 1 : j \in Owned(r, c) <=> p <= j /\ j <= p + k
        BY <2>0, <2>1, <2>3, <4>1, <3>4
      <4>3. \A j \in p .. p + k : j \in 1 .. n + 1 /\ p <= j /\ j <= p + k
        BY <2>0, <4>1
      <4>4. \A j \in 1 .. n + 1 : p <= j /\ j <= p + k => j \in p .. p + k
        BY <2>0, <4>1
      <4> HIDE DEF k, q
      <4> QED
        BY <2>2, <3>2, <4>2, <4>3, <4>4
    <3> QED
      BY <2>0, <3>3, <3>4
  <2>4. CASE c # b
    <3>1. h[c] = t.ht[c]
      BY <1>3, <2>4
    <3>2. CASE k = 0
      <4>1. RunIn(r, c) = {} /\ Owned(t, c) = {}
        BY <1>10, <1>13, <3>1, <3>2
      <4> QED
        BY <2>1, <2>2, <2>4, <4>1
    <3>3. CASE k > 0
      <4>1. /\ q \in 1 .. n /\ q + k - 1 \in 1 .. n
            /\ Name(s[q]) = t.ht[c].chain
            /\ Owned(t, c) = q .. q + k - 1
        BY <1>9, <3>3
      <4>2. Position(l, h[c].chain) = Shift(p, q)
        BY <1>4, <3>1, <4>1
      <4>3. RunIn(r, c) = Shift(p, q) .. Shift(p, q) + k - 1
        <5>1. h[c].count = k /\ h[c].count # 0
          BY <3>1, <3>3, <2>0
        <5>2. RunIn(r, c) = Position(l, h[c].chain) .. Position(l, h[c].chain) + h[c].count - 1
          BY <1>13, <5>1, Zenon
        <5> QED
          BY <4>2, <5>1, <5>2, Zenon
      <4>4. ~ (q < p /\ p <= q + k - 1)
        <5>1. CASE t.ht[b].count > 0
          <6>1. p \in 1 .. n /\ p \in Owned(t, b)
            <7> DEFINE bk == t.ht[b].count
            <7>1. /\ p \in 1 .. n /\ p + bk - 1 \in 1 .. n
                  /\ Owned(t, b) = p .. p + bk - 1
              BY <1>9, <1>11, <2>b, <5>1
            <7>2. bk \in Nat /\ bk > 0
              BY <1>1, <2>b, <5>1
            <7> HIDE DEF bk
            <7> QED
              BY <7>1, <7>2
          <6>2. p \notin Owned(t, c)
            BY <1>6, <2>b, <2>4, <6>1
          <6> HIDE DEF k, q
          <6> QED
            BY <2>0, <4>1, <6>1, <6>2
        <5>2. CASE ~ (t.ht[b].count > 0)
          BY <1>12, <4>1, <5>2
        <5> QED
          BY <5>1, <5>2
      <4> HIDE DEF k, q
      <4>5. \A j \in 1 .. n + 1 : j \in Owned(r, c) <=>
               Shift(p, q) <= j /\ j <= Shift(p, q) + k - 1
        BY <2>0, <2>1, <2>4, <4>1, <4>4, <3>3 DEF Shift
      <4> DEFINE z == Shift(p, q)
      <4>6. /\ \A j \in z .. z + k - 1 : j \in 1 .. n + 1 /\ z <= j /\ j <= z + k - 1
            /\ \A j \in 1 .. n + 1 : z <= j /\ j <= z + k - 1 => j \in z .. z + k - 1
        BY <2>0, <4>1, <3>3 DEF Shift
      <4> HIDE DEF z
      <4>7. \A j : j \in z .. z + k - 1 <=> j \in Owned(r, c)
        BY <2>2, <4>5, <4>6 DEF z
      <4> QED
        BY <4>3, <4>7 DEF z
    <3> QED
      BY <2>0, <3>2, <3>3
  <2> QED
    BY <2>3, <2>4
<1>15. l = r.list /\ h = r.ht /\ Len(h) = m
  BY <1>3 DEF l, h
<1> QED
  BY <1>4, <1>5, <1>14, <1>15 DEF Proper, r

(* Induction over numbers, as its principle of the least counterexample.   *)
LEMMA LeastNumber ==
  ASSUME NEW T \in SUBSET Nat, T # {}
  PROVE  \E x \in T : \A y \in T : x <= y
<1> DEFINE R == OpToRel(<, Nat)
<1>1. IsWellFoundedOn(R, Nat)
  BY NatLessThanWellFounded
<1>2. \A x, y \in Nat : <<y, x>> \in R <=> y < x
  BY DEF OpToRel
<1> HIDE DEF R
<1>3. \E x \in T : \A y \in T : ~ (<<y, x>> \in R)
  BY <1>1, WFMin
<1>4. PICK x \in T : \A y \in T : ~ (<<y, x>> \in R)
  BY <1>3
<1>5. \A y \in T : ~ (y < x)
  BY <1>2, <1>4
<1>6. \A y \in T : x <= y
  BY <1>5
<1> QED
  BY <1>6

Elems(list) == { list[i] : i \in 1 .. Len(list) }

(* insertElement adds the element to those of the table.                   *)
LEMMA WithElems ==
  ASSUME NEW t, Proper(t), NEW e \in Elem
  PROVE  Elems(With(t, e).list) = Elems(t.list) \cup {e}
<1> DEFINE l == With(t, e).list
           s == t.list
           p == PlaceOf(t, e)
           n == Len(s)
<1>1. p \in 1 .. n + 1 /\ n \in Nat
  BY ProperParts, PlaceOfIs
<1>2. /\ Len(l) = n + 1
      /\ \A j \in 1 .. n + 1 :
           l[j] = IF j < p THEN s[j] ELSE IF j = p THEN e ELSE s[j - 1]
  BY WithList
<1> HIDE DEF l, s, p, n
<1>3. ASSUME NEW j \in 1 .. n + 1
      PROVE  l[j] = e \/ \E i \in 1 .. n : l[j] = s[i]
  <2>1. CASE j < p
    BY <1>1, <1>2, <2>1
  <2>2. CASE j = p
    BY <1>1, <1>2, <2>2
  <2>3. CASE j > p
    <3>1. j - 1 \in 1 .. n /\ l[j] = s[j - 1]
      BY <1>1, <1>2, <2>3
    <3> QED
      BY <3>1
  <2> QED
    BY <1>1, <2>1, <2>2, <2>3
<1>4. ASSUME NEW i \in 1 .. n
      PROVE  \E j \in 1 .. n + 1 : l[j] = s[i]
  <2>1. Shift(p, i) \in 1 .. n + 1 /\ l[Shift(p, i)] = s[i]
    BY <1>1, <1>2 DEF Shift
  <2> QED
    BY <2>1
<1>5. l[p] = e
  BY <1>1, <1>2
<1>6. Elems(l) = Elems(s) \cup {e}
  BY <1>1, <1>2, <1>3, <1>4, <1>5 DEF Elems, n
<1> QED
  BY <1>6 DEF l, s

-----------------------------------------------------------------------------
(* rehash.                                                                 *)
Blank(n) == [list |-> <<>>, ht |-> [b \in 1 .. n |-> EmptyBucket]]
Put(list, n, g, i) == IF i = 0 THEN Blank(n)
                      ELSE insertElement(g[i - 1], Hash(Name(list[i]), n), list[i])
IsPut(list, n, m, g) == g = [i \in 0 .. m |-> Put(list, n, g, i)]

(* The recursive function of rehash exists.                                *)
LEMMA PutExists ==
  ASSUME NEW list, NEW n \in Nat, NEW k \in Nat
  PROVE  \E g : IsPut(list, n, k, g)
<1> DEFINE T == { m \in Nat : ~ \E g : IsPut(list, n, m, g) }
<1> SUFFICES ASSUME T # {} PROVE FALSE
  OBVIOUS
<1>1. PICK m \in T : \A y \in T : m <= y
  BY LeastNumber
<1>2. CASE m = 0
  <2> DEFINE g == [i \in 0 .. m |-> Blank(n)]
  <2>1. \A i \in 0 .. m : Put(list, n, g, i) = Blank(n)
    BY <1>2 DEF Put
  <2>2. IsPut(list, n, m, g)
    BY <2>1 DEF IsPut
  <2> QED
    BY <1>1, <2>2
<1>3. CASE m # 0
  <2>1. m \in Nat /\ m - 1 \in Nat /\ m - 1 \notin T
    BY <1>1, <1>3
  <2>2. PICK g : IsPut(list, n, m - 1, g)
    BY <2>1
  <2> DEFINE h == [i \in 0 .. m |-> IF i = m THEN Put(list, n, g, m) ELSE g[i]]
  <2>a. \A i \in 0 .. m - 1 : g[i] = Put(list, n, g, i)
    BY <2>2 DEF IsPut
  <2>b. \A i \in 0 .. m - 1 : i \in 0 .. m /\ i # m
    BY <2>1
  <2>3. \A i \in 0 .. m - 1 : h[i] = g[i] /\ g[i] = Put(list, n, g, i)
    BY <2>a, <2>b
  <2>4. ASSUME NEW i \in 0 .. m
        PROVE  Put(list, n, g, i) = Put(list, n, h, i)
    <3>1. CASE i = 0
      BY <3>1 DEF Put
    <3>2. CASE i # 0
      <4>1. i - 1 \in 0 .. m - 1
        BY <2>1, <3>2
      <4>2. h[i - 1] = g[i - 1]
        BY <2>3, <4>1
      <4> HIDE DEF h
      <4> QED
        BY <3>2, <4>2 DEF Put
    <3> QED
      BY <3>1, <3>2
  <2>5. ASSUME NEW i \in 0 .. m
        PROVE  h[i] = Put(list, n, h, i)
    <3>1. CASE i = m
      BY <2>4, <3>1
    <3>2. CASE i # m
      <4>1. i \in 0 .. m - 1
        BY <2>1, <3>2
      <4> QED
        BY <2>3, <2>4, <4>1
    <3> QED
      BY <3>1, <3>2
  <2>6. h = [i \in 0 .. m |-> Put(list, n, h, i)]
    BY <2>5
  <2>7. IsPut(list, n, m, h)
    BY <2>6 DEF IsPut
  <2> QED
    BY <1>1, <2>7
<1> QED
  BY <1>2, <1>3

(* What rehash returns is the last value of that function.                 *)
LEMMA RehashUnfolds ==
  ASSUME NEW list \in Seq(Elem), NEW n \in Nat
  PROVE  \E g : IsPut(list, n, Len(list), g) /\ rehash(list, n) = g[Len(list)]
<1>1. Len(list) \in Nat
  OBVIOUS
<1> DEFINE c == CHOOSE g : g = [i \in 0 .. Len(list) |-> Put(list, n, g, i)]
<1>2. c = [i \in 0 .. Len(list) |-> Put(list, n, c, i)]
  BY <1>1, PutExists DEF IsPut
<1>3. rehash(list, n) = c[Len(list)]
  BY DEF rehash, Put, Blank
<1> QED
  BY <1>2, <1>3 DEF IsPut

(* What rehash returns: the same elements in n proper buckets.             *)
LEMMA RehashIs ==
  ASSUME NEW list \in Seq(Elem), Unique(list), NEW n \in Nat \ {0}
  PROVE  LET r == rehash(list, n)
         IN  /\ Proper(r)
             /\ Len(r.ht) = n
             /\ Len(r.list) = Len(list)
             /\ Elems(r.list) = Elems(list)
<1> DEFINE N == Len(list)
<1>1. PICK g : IsPut(list, n, N, g) /\ rehash(list, n) = g[N]
  BY RehashUnfolds
<1>2. \A i \in 0 .. N : g[i] = Put(list, n, g, i)
  BY <1>1 DEF IsPut
<1>3. N \in Nat /\ \A i \in 1 .. N : list[i] \in Elem
  OBVIOUS
<1>4. \A i, j \in 1 .. N : Name(list[i]) = Name(list[j]) => i = j
  BY DEF Unique
<1> DEFINE Good(i) == /\ Proper(g[i])
                      /\ Len(g[i].ht) = n
                      /\ Len(g[i].list) = i
                      /\ Elems(g[i].list) = { list[j] : j \in 1 .. i }
<1>5. Good(0)
  <2>1. g[0] = Blank(n)
    BY <1>2, <1>3 DEF Put
  <2> DEFINE t == Blank(n)
  <2>2. t.list = <<>> /\ t.ht = [b \in 1 .. n |-> EmptyBucket]
    BY DEF Blank
  <2>3. /\ t.ht \in Seq(Buckets) /\ Len(t.ht) = n
        /\ \A b \in 1 .. n : t.ht[b].count = 0
    <3>1. EmptyBucket \in Buckets /\ EmptyBucket.count = 0
      BY DEF EmptyBucket, Buckets
    <3> QED
      BY <2>2, <3>1
  <2>4. t \in Tables
    BY <2>2, <2>3 DEF Tables, Blank
  <2>5. Unique(t.list)
    BY <2>2 DEF Unique
  <2>6. \A b \in 1 .. n : RunIn(t, b) = {} /\ Owned(t, b) = {}
    BY <2>2, <2>3 DEF RunIn, Owned
  <2>7. Proper(t)
    BY <2>3, <2>4, <2>5, <2>6 DEF Proper
  <2>8. Len(t.list) = 0 /\ Elems(t.list) = {}
    BY <2>2 DEF Elems
  <2> HIDE DEF t
  <2> QED
    BY <2>1, <2>3, <2>7, <2>8 DEF t
<1>6. ASSUME NEW i \in 1 .. N, Good(i - 1)
      PROVE  Good(i)
  <2> DEFINE t == g[i - 1]
             e == list[i]
  <2>1. g[i] = insertElement(t, Hash(Name(e), n), e)
    <3>1. i \in 0 .. N /\ i # 0
      BY <1>3
    <3>2. g[i] = Put(list, n, g, i)
      BY <1>2, <3>1
    <3> QED
      BY <3>1, <3>2 DEF Put
  <2>2. e \in Elem /\ Proper(t)
    BY <1>3, <1>6
  <2>3. BucketOf(t, e) = Hash(Name(e), n)
    <3>1. Len(t.ht) = n /\ n # 0
      BY <1>6
    <3>2. t.ht # <<>>
      BY <3>1
    <3> QED
      BY <3>1, <3>2 DEF BucketOf
  <2>4. g[i] = With(t, e)
    BY <2>1, <2>3 DEF With
  <2>5. \A j \in 1 .. Len(t.list) : Name(t.list[j]) # Name(e)
    <3> TAKE j \in 1 .. Len(t.list)
    <3>1. t.list[j] \in Elems(t.list)
      BY DEF Elems
    <3>2. PICK k \in 1 .. i - 1 : t.list[j] = list[k]
      BY <1>6, <3>1
    <3>3. k \in 1 .. N /\ k # i
      BY <1>3, <3>2
    <3> QED
      BY <1>4, <3>2, <3>3
  <2> HIDE DEF t
  <2>6. Proper(g[i])
    BY <2>2, <2>4, <2>5, WithProper
  <2>7. Len(g[i].ht) = Len(t.ht)
    BY <2>2, <2>4, WithBuckets
  <2>8. Len(g[i].list) = Len(t.list) + 1
    BY <2>2, <2>4, WithList
  <2>9. Elems(g[i].list) = Elems(t.list) \cup {e}
    BY <2>2, <2>4, WithElems
  <2>10. { list[j] : j \in 1 .. i } = { list[j] : j \in 1 .. i - 1 } \cup {list[i]}
    <3>1. \A j \in 1 .. i : j = i \/ j \in 1 .. i - 1
      BY <1>3
    <3>2. i \in 1 .. i /\ \A j \in 1 .. i - 1 : j \in 1 .. i
      BY <1>3
    <3> QED
      BY <3>1, <3>2
  <2>11. Len(t.ht) = n /\ Len(t.list) = i - 1 /\ Elems(t.list) = { list[j] : j \in 1 .. i - 1 }
    BY <1>6 DEF t
  <2>12. Len(g[i].list) = i
    BY <1>3, <2>8, <2>11
  <2> QED
    BY <2>6, <2>7, <2>9, <2>10, <2>11, <2>12
<1> DEFINE T == { m \in 0 .. N : ~ Good(m) }
<1> HIDE DEF Good
<1>7. T = {}
  <2> SUFFICES ASSUME T # {} PROVE FALSE
    OBVIOUS
  <2>1. T \in SUBSET Nat
    BY <1>3
  <2>2. PICK m \in T : \A y \in T : m <= y
    BY <2>1, LeastNumber
  <2>3. m # 0
    BY <1>5, <2>2
  <2>4. m \in 1 .. N /\ m - 1 \in 0 .. N /\ m - 1 < m
    BY <1>3, <2>2, <2>3
  <2>5. Good(m - 1)
    BY <2>2, <2>4
  <2> QED
    BY <1>6, <2>2, <2>4, <2>5
<1>8. Good(N)
  BY <1>3, <1>7
<1> QED
  BY <1>1, <1>8 DEF Good, Elems

-----------------------------------------------------------------------------
(* removeElement.                                                          *)
(* The table without the element at place i.                                *)
NextName(t, i) == IF i = Len(t.list) THEN NULL ELSE Name(t.list[i + 1])
Removed(t, i) ==
  [ list |-> RemoveAt(t.list, i),
    ht |-> IF t.ht = <<>> THEN t.ht
           ELSE [t.ht EXCEPT ![BucketOf(t, t.list[i])] =
                  [ count |-> @.count - 1,
                    chain |-> IF @.chain = Name(t.list[i]) THEN NextName(t, i)
                              ELSE @.chain ]] ]
Down(i, j) == IF j < i THEN j ELSE j - 1

(* The list after removeElement, and where its elements are.               *)
LEMMA RemovedPlaces ==
  ASSUME NEW t, Proper(t), NEW i \in 1 .. Len(t.list)
  PROVE  LET l == Removed(t, i).list
         IN  /\ l \in Seq(Elem) /\ Len(l) = Len(t.list) - 1
             /\ \A j \in 1 .. Len(t.list) - 1 :
                  l[j] = IF j < i THEN t.list[j] ELSE t.list[j + 1]
             /\ Unique(l)
             /\ \A j \in 1 .. Len(t.list) :
                  j # i => Position(l, Name(t.list[j])) = Down(i, j)
             /\ Elems(l) = Elems(t.list) \ {t.list[i]}
<1> DEFINE l == Removed(t, i).list
           s == t.list
           n == Len(s)
<1> SUFFICES /\ l \in Seq(Elem) /\ Len(l) = n - 1
             /\ \A j \in 1 .. n - 1 : l[j] = IF j < i THEN s[j] ELSE s[j + 1]
             /\ Unique(l)
             /\ \A j \in 1 .. n : j # i => Position(l, Name(s[j])) = Down(i, j)
             /\ Elems(l) = Elems(s) \ {s[i]}
  OBVIOUS
<1>1. s \in Seq(Elem) /\ Unique(s) /\ n \in Nat /\ i \in 1 .. n
  BY ProperParts
<1>2. l = RemoveAt(s, i)
  BY DEF Removed
<1> HIDE DEF l, s
<1>3. /\ l \in Seq(Elem) /\ Len(l) = n - 1
      /\ \A j \in 1 .. n - 1 : l[j] = IF j < i THEN s[j] ELSE s[j + 1]
  BY <1>1, <1>2, RemoveAtIs
<1> HIDE DEF n
<1>4. /\ \A j \in 1 .. n - 1 : j < i => j \in 1 .. n /\ l[j] = s[j]
      /\ \A j \in 1 .. n - 1 : j >= i => j + 1 \in 1 .. n /\ l[j] = s[j + 1]
  BY <1>1, <1>3
<1>5. \A j, k \in 1 .. n : Name(s[j]) = Name(s[k]) => j = k
  BY <1>1 DEF Unique, n
<1>6. ASSUME NEW j \in 1 .. n - 1, NEW k \in 1 .. n - 1, Name(l[j]) = Name(l[k])
      PROVE  j = k
  <2> DEFINE u == IF j < i THEN j ELSE j + 1
             v == IF k < i THEN k ELSE k + 1
  <2>1. u \in 1 .. n /\ l[j] = s[u] /\ v \in 1 .. n /\ l[k] = s[v]
    BY <1>1, <1>4
  <2>2. u = v
    BY <1>5, <1>6, <2>1
  <2> QED
    BY <1>1, <2>2
<1>7. Unique(l)
  BY <1>3, <1>6 DEF Unique
<1>8. \A j \in 1 .. n - 1 : Position(l, Name(l[j])) = j
  BY <1>3, <1>7, PositionIs DEF Unique
<1>9. ASSUME NEW j \in 1 .. n, j # i
      PROVE  Position(l, Name(s[j])) = Down(i, j) /\ \E k \in 1 .. n - 1 : l[k] = s[j]
  <2>1. Down(i, j) \in 1 .. n - 1 /\ l[Down(i, j)] = s[j]
    BY <1>1, <1>3, <1>9 DEF Down
  <2> QED
    BY <1>8, <2>1
<1>10. ASSUME NEW j \in 1 .. n - 1
       PROVE  \E k \in 1 .. n : k # i /\ l[j] = s[k]
  <2> DEFINE u == IF j < i THEN j ELSE j + 1
  <2>1. u \in 1 .. n /\ u # i /\ l[j] = s[u]
    BY <1>1, <1>4
  <2> QED
    BY <2>1
<1>11. \A k \in 1 .. n : k # i => s[k] # s[i]
  BY <1>1, <1>5
<1>12. Elems(l) = Elems(s) \ {s[i]}
  <2>1. Elems(l) = { l[j] : j \in 1 .. n - 1 } /\ Elems(s) = { s[j] : j \in 1 .. n }
    BY <1>3 DEF Elems, n
  <2>2. \A j \in 1 .. n - 1 : l[j] \in Elems(s) \ {s[i]}
    BY <2>1, <1>10, <1>11
  <2>3. \A k \in 1 .. n : s[k] # s[i] => s[k] \in Elems(l)
    BY <2>1, <1>9
  <2>4. Elems(l) \subseteq Elems(s) \ {s[i]}
    BY <2>1, <2>2
  <2>5. Elems(s) \ {s[i]} \subseteq Elems(l)
    BY <2>1, <2>3
  <2> QED
    BY <2>4, <2>5
<1> QED
  BY <1>3, <1>7, <1>9, <1>12

(* removeElement keeps the table in order.                                 *)
LEMMA RemovedProper ==
  ASSUME NEW t, Proper(t), NEW i \in 1 .. Len(t.list)
  PROVE  Proper(Removed(t, i)) /\ Len(Removed(t, i).ht) = Len(t.ht)
<1> DEFINE r == Removed(t, i)
           l == r.list
           h == r.ht
           s == t.list
           b == BucketOf(t, s[i])
           n == Len(s)
           m == Len(t.ht)
<1>1. /\ s \in Seq(Elem) /\ n \in Nat /\ m \in Nat /\ i \in 1 .. n
      /\ t.ht \in Seq(Buckets) /\ s[i] \in Elem
      /\ \A c \in 1 .. m : t.ht[c] \in Buckets /\ t.ht[c].count \in Nat
      /\ \A j, k \in 1 .. n : Name(s[j]) = Name(s[k]) => j = k
  BY ProperParts DEF Unique
<1>2. /\ l \in Seq(Elem) /\ Len(l) = n - 1
      /\ \A j \in 1 .. n - 1 : l[j] = IF j < i THEN s[j] ELSE s[j + 1]
      /\ Unique(l)
      /\ \A j \in 1 .. n : j # i => Position(l, Name(s[j])) = Down(i, j)
  BY RemovedPlaces
<1>3. \A c \in 1 .. m : \A j \in 1 .. n : j \in Owned(t, c) <=> Hash(Name(s[j]), m) = c
  BY DEF Owned
<1>4. m > 0 => b \in 1 .. m /\ b = Hash(Name(s[i]), m)
  BY <1>1, BucketOfIs DEF BucketOf
<1>5. \A c \in 1 .. m : t.ht[c].count > 0 =>
        LET q == Position(s, t.ht[c].chain)
        IN  /\ q \in 1 .. n /\ q + t.ht[c].count - 1 \in 1 .. n
            /\ Name(s[q]) = t.ht[c].chain
            /\ Owned(t, c) = q .. q + t.ht[c].count - 1
  BY RunStarts
<1>6. \A c \in 1 .. m : t.ht[c].count = 0 => Owned(t, c) = {}
  BY DEF Proper, RunIn
<1>7. m > 0 => t.ht[b].count > 0
  BY <1>1, <1>3, <1>4, <1>6
<1>8. m > 0 => h = [t.ht EXCEPT ![b] =
                     [ count |-> t.ht[b].count - 1,
                       chain |-> IF t.ht[b].chain = Name(s[i]) THEN NextName(t, i)
                                 ELSE t.ht[b].chain ]]
  BY <1>1, <1>4 DEF Removed
<1>9. m = 0 => h = t.ht
  BY <1>1 DEF Removed
<1>10. r = [list |-> l, ht |-> h]
  BY DEF Removed
<1>11. m > 0 => [ count |-> t.ht[b].count - 1,
                  chain |-> IF t.ht[b].chain = Name(s[i]) THEN NextName(t, i)
                            ELSE t.ht[b].chain ] \in Buckets
  <2> SUFFICES ASSUME m > 0
               PROVE  [ count |-> t.ht[b].count - 1,
                        chain |-> IF t.ht[b].chain = Name(s[i]) THEN NextName(t, i)
                                  ELSE t.ht[b].chain ] \in Buckets
    OBVIOUS
  <2>1. t.ht[b].count - 1 \in Nat
    BY <1>1, <1>4, <1>7
  <2>2. t.ht[b].chain \in Names \cup {NULL}
    BY <1>1, <1>4 DEF Buckets
  <2>3. NextName(t, i) \in Names \cup {NULL}
    <3>1. CASE i = n
      BY <3>1 DEF NextName
    <3>2. CASE i # n
      <4>1. i + 1 \in 1 .. n
        BY <1>1, <3>2
      <4>2. s[i + 1] \in Elem
        BY <1>1, <4>1
      <4>3. Name(s[i + 1]) \in Names
        BY <4>2 DEF Elem, Name, Names
      <4> QED
        BY <3>2, <4>3 DEF NextName
    <3> QED
      BY <3>1, <3>2
  <2> QED
    BY <2>1, <2>2, <2>3 DEF Buckets
<1>12. \A c \in 1 .. m : RunIn(r, c) = IF h[c].count = 0 THEN {}
            ELSE Position(l, h[c].chain) .. Position(l, h[c].chain) + h[c].count - 1
  BY DEF RunIn
<1>13. i < n => NextName(t, i) = Name(s[i + 1])
  BY <1>1 DEF NextName
<1>14. l = r.list /\ h = r.ht
  OBVIOUS
<1> SUFFICES Proper(r) /\ Len(h) = m
  OBVIOUS
<1> HIDE DEF r, l, h, s, b, n, m
<1>15. h \in Seq(Buckets) /\ Len(h) = m
  <2>1. CASE m = 0
    <3>1. h = t.ht
      BY <1>9, <2>1
    <3> QED
      BY <1>1, <3>1 DEF m
  <2>2. CASE m > 0
    <3> DEFINE x == [ count |-> t.ht[b].count - 1,
                      chain |-> IF t.ht[b].chain = Name(s[i]) THEN NextName(t, i)
                                ELSE t.ht[b].chain ]
    <3>1. x \in Buckets /\ h = [t.ht EXCEPT ![b] = x]
      BY <1>8, <1>11, <2>2
    <3> HIDE DEF x
    <3>2. t.ht \in Seq(Buckets) /\ m = Len(t.ht) /\ b \in 1 .. Len(t.ht)
      BY <1>1, <1>4, <2>2 DEF m
    <3>3. h \in Seq(Buckets)
      BY <3>1, <3>2, ExceptSeq
    <3>4. Len(h) = m
      BY <3>1, <3>2
    <3> QED
      BY <3>3, <3>4
  <2> QED
    BY <1>1, <2>1, <2>2
<1>16. r \in Tables
  BY <1>2, <1>10, <1>15 DEF Tables
<1>17. \A c \in 1 .. m : \A j : j \in Owned(r, c) <=>
           j \in 1 .. n - 1 /\ Hash(Name(l[j]), m) = c
  BY <1>2, <1>14, <1>15 DEF Owned
<1>18. ASSUME NEW c \in 1 .. m
       PROVE  RunIn(r, c) = Owned(r, c)
  <2> DEFINE k == t.ht[c].count
             q == Position(s, t.ht[c].chain)
  <2>0. k \in Nat /\ n \in Nat /\ i \in 1 .. n /\ m > 0
    BY <1>1
  <2>b. b \in 1 .. m /\ b = Hash(Name(s[i]), m) /\ t.ht[b].count > 0
    BY <1>4, <1>7, <2>0
  <2>1. \A j \in 1 .. n - 1 :
           j \in Owned(r, c) <=> IF j < i THEN j \in Owned(t, c)
                                ELSE j + 1 \in Owned(t, c)
    <3> TAKE j \in 1 .. n - 1
    <3>1. CASE j < i
      <4>1. j \in 1 .. n /\ l[j] = s[j]
        BY <1>2, <2>0, <3>1
      <4> QED
        BY <1>3, <1>17, <3>1, <4>1
    <3>2. CASE j >= i
      <4>1. j + 1 \in 1 .. n /\ l[j] = s[j + 1] /\ ~ (j < i)
        BY <1>2, <2>0, <3>2
      <4> QED
        BY <1>3, <1>17, <4>1
    <3> QED
      BY <2>0, <3>1, <3>2
  <2>2. \A j : j \in Owned(r, c) => j \in 1 .. n - 1
    BY <1>17
  <2>3. CASE c = b
    <3>1. /\ h[c].count = k - 1
          /\ h[c].chain = IF t.ht[c].chain = Name(s[i]) THEN NextName(t, i)
                          ELSE t.ht[c].chain
      BY <1>1, <1>8, <2>0, <2>3 DEF m
    <3>2. /\ q \in 1 .. n /\ q + k - 1 \in 1 .. n
          /\ Name(s[q]) = t.ht[c].chain
          /\ Owned(t, c) = q .. q + k - 1
          /\ k > 0
      BY <1>5, <2>b, <2>3
    <3>3. i \in q .. q + k - 1
      BY <1>3, <2>b, <2>3, <2>0, <3>2
    <3>4. CASE k = 1
      <4>1. RunIn(r, c) = {}
        BY <1>12, <3>1, <3>4
      <4>2. q = i
        BY <3>3, <3>4, <3>2, <2>0
      <4> HIDE DEF k, q
      <4>3. \A j \in 1 .. n - 1 : j \notin Owned(r, c)
        BY <2>0, <2>1, <3>2, <3>4, <4>2
      <4> QED
        BY <2>2, <4>1, <4>3
    <3>5. CASE k > 1
      <4>1. Position(l, h[c].chain) = q
        <5>1. CASE q = i
          <6>1. t.ht[c].chain = Name(s[i]) /\ i < n
            BY <2>0, <3>2, <3>5, <5>1
          <6>2. h[c].chain = Name(s[i + 1]) /\ i + 1 \in 1 .. n /\ i + 1 # i
            BY <1>13, <2>0, <3>1, <6>1
          <6>3. Position(l, h[c].chain) = Down(i, i + 1)
            BY <1>2, <6>2
          <6> QED
            BY <2>0, <5>1, <6>3 DEF Down
        <5>2. CASE q # i
          <6>1. t.ht[c].chain # Name(s[i])
            BY <1>1, <2>0, <3>2, <5>2
          <6>2. Position(l, h[c].chain) = Down(i, q)
            BY <1>2, <3>1, <3>2, <5>2, <6>1
          <6> HIDE DEF k, q
          <6>3. q < i
            BY <2>0, <3>2, <3>3, <5>2
          <6> QED
            BY <6>2, <6>3 DEF Down
        <5> QED
          BY <5>1, <5>2
      <4>2. RunIn(r, c) = q .. q + k - 2
        <5>1. RunIn(r, c) = q .. q + (k - 1) - 1
          BY <1>12, <3>1, <3>5, <4>1, <2>0
        <5>2. q + (k - 1) - 1 = q + k - 2
          BY <2>0, <3>2
        <5> QED
          BY <5>1, <5>2
      <4> HIDE DEF k, q
      <4>3. \A j \in 1 .. n - 1 : j \in Owned(r, c) <=> q <= j /\ j <= q + k - 2
        BY <2>0, <2>1, <3>2, <3>3, <3>5
      <4>4. /\ \A j \in q .. q + k - 2 : j \in 1 .. n - 1 /\ q <= j /\ j <= q + k - 2
            /\ \A j \in 1 .. n - 1 : q <= j /\ j <= q + k - 2 => j \in q .. q + k - 2
        BY <2>0, <3>2, <3>5
      <4> QED
        BY <2>2, <4>2, <4>3, <4>4
    <3> QED
      BY <2>0, <3>2, <3>4, <3>5
  <2>4. CASE c # b
    <3>1. h[c] = t.ht[c]
      BY <1>1, <1>8, <2>0, <2>4 DEF m
    <3>2. CASE k = 0
      <4>1. RunIn(r, c) = {} /\ Owned(t, c) = {}
        BY <1>6, <1>12, <3>1, <3>2
      <4> QED
        BY <2>1, <2>2, <4>1
    <3>3. CASE k > 0
      <4>1. /\ q \in 1 .. n /\ q + k - 1 \in 1 .. n
            /\ Name(s[q]) = t.ht[c].chain
            /\ Owned(t, c) = q .. q + k - 1
        BY <1>5, <3>3
      <4>2. i \notin Owned(t, c)
        BY <1>3, <2>0, <2>b, <2>4
      <4>3. q # i
        BY <2>0, <3>3, <4>1, <4>2
      <4>4. Position(l, h[c].chain) = Down(i, q)
        BY <1>2, <3>1, <4>1, <4>3
      <4>5. RunIn(r, c) = Down(i, q) .. Down(i, q) + k - 1
        BY <1>12, <3>1, <3>3, <4>4, <2>0
      <4> HIDE DEF k, q
      <4>6. q + k - 1 < i \/ i < q
        BY <2>0, <4>1, <4>2
      <4> DEFINE z == Down(i, q)
      <4>7. \A j \in 1 .. n - 1 : j \in Owned(r, c) <=> z <= j /\ j <= z + k - 1
        BY <2>0, <2>1, <4>1, <4>6, <3>3 DEF Down
      <4>8. /\ \A j \in z .. z + k - 1 : j \in 1 .. n - 1 /\ z <= j /\ j <= z + k - 1
            /\ \A j \in 1 .. n - 1 : z <= j /\ j <= z + k - 1 => j \in z .. z + k - 1
        BY <2>0, <4>1, <4>6, <3>3 DEF Down
      <4> HIDE DEF z
      <4>9. \A j : j \in z .. z + k - 1 <=> j \in Owned(r, c)
        BY <2>2, <4>7, <4>8
      <4> QED
        BY <4>5, <4>9 DEF z
    <3> QED
      BY <2>0, <3>2, <3>3
  <2> QED
    BY <2>3, <2>4
<1> QED
  BY <1>2, <1>14, <1>15, <1>16, <1>18 DEF Proper

-----------------------------------------------------------------------------
(* An element that is replaced where it stands.                            *)
LEMMA ReplacedProper ==
  ASSUME NEW t, Proper(t), NEW i \in 1 .. Len(t.list),
         NEW e \in Elem, Name(e) = Name(t.list[i])
  PROVE  LET r == [list |-> [t.list EXCEPT ![i] = e], ht |-> t.ht]
         IN  /\ Proper(r) /\ Len(r.list) = Len(t.list)
             /\ Elems(r.list) = (Elems(t.list) \ {t.list[i]}) \cup {e}
<1> DEFINE s == t.list
           l == [s EXCEPT ![i] = e]
           r == [list |-> l, ht |-> t.ht]
           n == Len(s)
<1>1. /\ s \in Seq(Elem) /\ n \in Nat /\ t.ht \in Seq(Buckets) /\ i \in 1 .. n
      /\ \A j, k \in 1 .. n : Name(s[j]) = Name(s[k]) => j = k
  BY ProperParts DEF Unique
<1>2. /\ l \in Seq(Elem) /\ Len(l) = n
      /\ \A j \in 1 .. n : l[j] = IF j = i THEN e ELSE s[j]
  BY <1>1, ExceptSeq
<1>3. r.list = l /\ r.ht = t.ht /\ r \in Tables
  BY <1>1, <1>2 DEF Tables
<1> HIDE DEF l
<1>4. \A j \in 1 .. n : Name(l[j]) = Name(s[j])
  BY <1>2
<1>5. Unique(l)
  BY <1>1, <1>2, <1>4 DEF Unique
<1>6. \A name : Position(l, name) = Position(s, name)
  <2> TAKE name
  <2>1. { j \in 1 .. Len(l) : Name(l[j]) = name } = { j \in 1 .. Len(s) : Name(s[j]) = name }
    BY <1>2, <1>4
  <2> QED
    BY <2>1 DEF Position, SelectInSeq
<1>7. \A b \in 1 .. Len(t.ht) : Owned(r, b) = Owned(t, b)
  BY <1>2, <1>3, <1>4 DEF Owned
<1>8. \A b \in 1 .. Len(t.ht) : RunIn(r, b) = RunIn(t, b)
  BY <1>3, <1>6 DEF RunIn
<1>9. \A b \in 1 .. Len(t.ht) : RunIn(t, b) = Owned(t, b)
  BY DEF Proper
<1>10. Proper(r)
  BY <1>3, <1>5, <1>7, <1>8, <1>9 DEF Proper
<1>11. Elems(l) = (Elems(s) \ {s[i]}) \cup {e}
  <2>1. Elems(l) = { l[j] : j \in 1 .. n } /\ Elems(s) = { s[j] : j \in 1 .. n }
    BY <1>2 DEF Elems
  <2>2. \A j \in 1 .. n : j # i => s[j] # s[i]
    BY <1>1
  <2>3. \A j \in 1 .. n : l[j] \in (Elems(s) \ {s[i]}) \cup {e}
    BY <1>2, <2>1, <2>2
  <2>4. \A j \in 1 .. n : s[j] # s[i] => s[j] \in Elems(l)
    BY <1>2, <2>1
  <2>5. e \in Elems(l)
    BY <1>1, <1>2, <2>1
  <2>6. Elems(l) \subseteq (Elems(s) \ {s[i]}) \cup {e}
    BY <2>1, <2>3
  <2>7. (Elems(s) \ {s[i]}) \cup {e} \subseteq Elems(l)
    BY <2>1, <2>4, <2>5
  <2> QED
    BY <2>6, <2>7
<1> QED
  BY <1>2, <1>3, <1>10, <1>11 DEF l

-----------------------------------------------------------------------------
(* The inductive invariant: a proper table that has been counted.          *)
Table == [list |-> first, ht |-> ht]
IInv == Proper(Table) /\ count = Len(first) /\ full \in BOOLEAN

(* The parts of the invariant that the calls use.                          *)
LEMMA TableParts ==
  ASSUME IInv
  PROVE  /\ first \in Seq(Elem) /\ Len(first) \in Nat
         /\ ht \in Seq(Buckets) /\ htsize \in Nat
         /\ Table.list = first /\ Table.ht = ht /\ count = Len(first) /\ Proper(Table)
         /\ \A i \in 1 .. Len(first) : first[i] \in Elem
         /\ \A i, j \in 1 .. Len(first) : Name(first[i]) = Name(first[j]) => i = j
<1>1. Table.list = first /\ Table.ht = ht /\ Proper(Table) /\ count = Len(first)
  BY DEF IInv, Table
<1> HIDE DEF Table
<1> QED
  BY <1>1, ProperParts DEF Unique, htsize

(* findElement follows the pointer of the element it is asked for.         *)
LEMMA FindIs ==
  ASSUME IInv, NEW k \in Keys
  PROVE  findElement(k) = Position(first, Lower[k])
<1> DEFINE name == Lower[k]
           found == { i \in Compared(name) : Name(first[i]) = name }
           all == { i \in 1 .. Len(first) : Name(first[i]) = name }
<1>1. /\ first \in Seq(Elem) /\ Len(first) \in Nat /\ ht \in Seq(Buckets)
      /\ htsize \in Nat /\ count = Len(first)
      /\ \A i, j \in 1 .. Len(first) : Name(first[i]) = Name(first[j]) => i = j
  BY TableParts
<1>2. found = all
  <2>1. CASE ht = <<>>
    <3>1. Compared(name) = 1 .. Len(first)
      BY <1>1, <2>1 DEF Compared, Tests, Start
    <3> QED
      BY <3>1
  <2>2. CASE ht # <<>>
    <3> DEFINE b == Hash(name, htsize)
    <3>1. htsize \in Nat \ {0}
      BY <1>1, <2>2 DEF htsize
    <3>2. b \in 1 .. htsize
      <4>1. strHash[name] \in Nat
        BY HashAssumption
      <4> QED
        BY <3>1, <4>1 DEF Hash
    <3>3. Compared(name) = RunIn(Table, b)
      BY <2>2, Zenon DEF Compared, Tests, Start, RunIn, Table
    <3>4. RunIn(Table, b) = Owned(Table, b)
      BY <3>2 DEF IInv, Proper, Table, htsize
    <3>5. Owned(Table, b) = { i \in 1 .. Len(first) : Hash(Name(first[i]), htsize) = b }
      BY DEF Owned, Table, htsize
    <3> QED
      BY <3>3, <3>4, <3>5
  <2> QED
    BY <2>1, <2>2
<1>3. findElement(k) = IF found = {} THEN 0 ELSE CHOOSE i \in found : \A j \in found : i <= j
  BY DEF findElement
<1>4. Position(first, name) = IF all # {} THEN Min(all) ELSE 0
  BY DEF Position, SelectInSeq
<1>5. Min(all) = CHOOSE i \in all : \A j \in all : i <= j
  BY DEF Min
<1> HIDE DEF found, all
<1> QED
  BY <1>2, <1>3, <1>4, <1>5

(* findElement returns the element of the key's name, or 0 if there is     *)
(* none.                                                                   *)
LEMMA Found ==
  ASSUME IInv, NEW k \in Keys
  PROVE  /\ findElement(k) # 0 => /\ findElement(k) \in 1 .. Len(first)
                                  /\ Name(first[findElement(k)]) = Lower[k]
         /\ findElement(k) = 0 =>
              \A j \in 1 .. Len(first) : Name(first[j]) # Lower[k]
<1>1. findElement(k) = Position(first, Lower[k])
  BY FindIs
<1>2. /\ first \in Seq(Elem)
      /\ \A i, j \in 1 .. Len(first) : Name(first[i]) = Name(first[j]) => i = j
  BY TableParts
<1>3. Position(first, Lower[k]) # 0 =>
        /\ Position(first, Lower[k]) \in 1 .. Len(first)
        /\ Name(first[Position(first, Lower[k])]) = Lower[k]
  BY <1>2, PositionFound
<1>4. ASSUME NEW j \in 1 .. Len(first), Name(first[j]) = Lower[k]
      PROVE  Position(first, Lower[k]) # 0
  <2>1. Position(first, Name(first[j])) = j
    BY <1>2, PositionIs
  <2> QED
    BY <1>4, <2>1
<1> QED
  BY <1>1, <1>3, <1>4

-----------------------------------------------------------------------------
(* What each call does to the table and to its set of elements.            *)
LEMMA ReplaceStep ==
  ASSUME IInv, NEW k \in Keys, NEW d \in Data, Replace(k, d)
  PROVE  /\ IInv' /\ htsize' = htsize
         /\ LET x == first[findElement(k)]
            IN  /\ x \in Elems(first) /\ Name(x) = Lower[k] /\ result' = x.data
                /\ Elems(first') = (Elems(first) \ {x}) \cup {[key |-> k, data |-> d]}
<1> DEFINE i == findElement(k)
           e == [key |-> k, data |-> d]
<1>1. i \in 1 .. Len(first) /\ Name(first[i]) = Lower[k]
  BY Found DEF Replace
<1>2. e \in Elem /\ Name(e) = Lower[k]
  BY DEF Elem, Name
<1>3. /\ first' = [first EXCEPT ![i] = e] /\ result' = first[i].data
      /\ ht' = ht /\ count' = count /\ full' = full
  BY DEF Replace
<1>4. Table.list = first /\ Table.ht = ht /\ Proper(Table) /\ count = Len(first)
  BY TableParts
<1> HIDE DEF i, e
<1>5. Table' = [list |-> [Table.list EXCEPT ![i] = e], ht |-> Table.ht]
  BY <1>3, <1>4 DEF Table
<1>6. /\ Proper(Table') /\ Len(Table'.list) = Len(first)
      /\ Elems(Table'.list) = (Elems(first) \ {first[i]}) \cup {e}
  <2> DEFINE r == [list |-> [Table.list EXCEPT ![i] = e], ht |-> Table.ht]
  <2>1. /\ Proper(Table) /\ i \in 1 .. Len(Table.list)
        /\ e \in Elem /\ Name(e) = Name(Table.list[i])
    BY <1>1, <1>2, <1>4
  <2>2. /\ Proper(r) /\ Len(r.list) = Len(Table.list)
        /\ Elems(r.list) = (Elems(Table.list) \ {Table.list[i]}) \cup {e}
    BY ONLY <2>1, ReplacedProper
  <2> HIDE DEF r
  <2> QED
    BY <1>4, <1>5, <2>2 DEF r
<1>7. Table'.list = first'
  BY DEF Table
<1>8. IInv'
  BY <1>3, <1>4, <1>6, <1>7 DEF IInv
<1>9. first[i] \in Elems(first)
  BY <1>1 DEF Elems
<1>10. htsize' = htsize
  BY <1>3 DEF htsize
<1> QED
  BY <1>1, <1>3, <1>6, <1>7, <1>8, <1>9, <1>10 DEF i, e

(* The table that the new element is put into.                             *)
Grown(n) == IF n = 0 THEN Table ELSE rehash(first, n)

(* Growing keeps the elements.                                             *)
LEMMA GrownIs ==
  ASSUME IInv, NEW n \in Nat
  PROVE  /\ Proper(Grown(n)) /\ Len(Grown(n).list) = Len(first)
         /\ Elems(Grown(n).list) = Elems(first)
         /\ Len(Grown(n).ht) = IF n = 0 THEN htsize ELSE n
<1>1. /\ first \in Seq(Elem) /\ Table.list = first /\ Table.ht = ht /\ Proper(Table)
      /\ Unique(first)
  BY TableParts DEF Unique
<1>2. CASE n = 0
  BY <1>1, <1>2 DEF Grown, htsize
<1>3. CASE n # 0
  <2>1. n \in Nat \ {0}
    BY <1>3
  <2> DEFINE r == rehash(first, n)
  <2>2. /\ Proper(r) /\ Len(r.ht) = n /\ Len(r.list) = Len(first)
        /\ Elems(r.list) = Elems(first)
    BY <1>1, <2>1, RehashIs
  <2> HIDE DEF r
  <2> QED
    BY <1>3, <2>2 DEF Grown, r
<1> QED
  BY <1>2, <1>3

(* The new size is never 0.                                                *)
LEMMA NewSizeIs ==
  ASSUME IInv
  PROVE  NewSize(2 * (count + 1)) \in Nat \ {0}
<1>1. count \in Nat
  BY TableParts
<1> QED
  BY <1>1, HashAssumption DEF NewSize

(* sqlite3HashInsert of a new key.                                         *)
LEMMA InsertStep ==
  ASSUME IInv, NEW k \in Keys, NEW d \in Data, NEW grown \in BOOLEAN,
         Insert(k, d, grown)
  PROVE  /\ IInv' /\ findElement(k) = 0 /\ result' = NULL
         /\ Elems(first') = Elems(first) \cup {[key |-> k, data |-> d]}
         /\ htsize' = IF grown THEN NewSize(2 * (count + 1)) ELSE htsize
<1> DEFINE e == [key |-> k, data |-> d]
           n == IF grown THEN NewSize(2 * (count + 1)) ELSE 0
           t == Grown(n)
<1>1. n \in Nat /\ (n = 0 <=> ~ grown)
  BY NewSizeIs
<1>2. e \in Elem /\ Name(e) = Lower[k] /\ findElement(k) = 0
  BY DEF Elem, Name, Insert
<1>3. /\ Proper(t) /\ Len(t.list) = Len(first) /\ Elems(t.list) = Elems(first)
      /\ Len(t.ht) = IF grown THEN NewSize(2 * (count + 1)) ELSE htsize
  BY <1>1, GrownIs
<1>4. first' = With(t, e).list /\ ht' = With(t, e).ht
  <2> DEFINE u == IF grown THEN rehash(first, NewSize(2 * (count + 1)))
                  ELSE [list |-> first, ht |-> ht]
             b == IF u.ht = <<>> THEN 0 ELSE Hash(Lower[k], Len(u.ht))
  <2>1. u = t
    BY <1>1 DEF Grown, Table
  <2>2. first' = insertElement(u, b, e).list /\ ht' = insertElement(u, b, e).ht
    BY DEF Insert
  <2> HIDE DEF u
  <2>3. b = BucketOf(u, e)
    BY <1>2 DEF BucketOf
  <2> QED
    BY <2>1, <2>2, <2>3 DEF With
<1>5. count' = count + 1 /\ result' = NULL /\ full' = (Grows /\ ~ grown)
  BY DEF Insert
<1> HIDE DEF e, n, t
<1>6. \A j \in 1 .. Len(t.list) : Name(t.list[j]) # Name(e)
  <2> TAKE j \in 1 .. Len(t.list)
  <2>1. t.list[j] \in Elems(first)
    BY <1>3 DEF Elems
  <2>2. PICK i \in 1 .. Len(first) : t.list[j] = first[i]
    BY <2>1 DEF Elems
  <2> QED
    BY <1>2, <2>2, Found
<1>7. Proper(With(t, e))
  BY <1>2, <1>3, <1>6, WithProper
<1>8. With(t, e) = [list |-> With(t, e).list, ht |-> With(t, e).ht] /\ Len(With(t, e).ht) = Len(t.ht)
  BY <1>2, <1>3, WithBuckets
<1>9. Len(With(t, e).list) = Len(t.list) + 1
  BY <1>2, <1>3, WithList
<1>10. Elems(With(t, e).list) = Elems(first) \cup {e}
  BY <1>2, <1>3, WithElems
<1>11. Table' = With(t, e)
  BY <1>4, <1>8 DEF Table
<1>12. count = Len(first)
  BY TableParts
<1>13. IInv'
  BY <1>3, <1>4, <1>5, <1>7, <1>9, <1>11, <1>12 DEF IInv
<1>14. htsize' = Len(t.ht)
  BY <1>4, <1>8 DEF htsize
<1> QED
  BY <1>2, <1>3, <1>4, <1>5, <1>10, <1>13, <1>14 DEF e

(* sqlite3HashInit and sqlite3HashClear leave a proper table.              *)
LEMMA EmptyTable ==
  ASSUME Empty, full' \in BOOLEAN
  PROVE  IInv' /\ Elems(first') = {} /\ htsize' = 0
<1>1. first' = <<>> /\ ht' = <<>> /\ count' = 0
  BY DEF Empty
<1> DEFINE t == [list |-> <<>>, ht |-> <<>>]
<1>2. Proper(t)
  <2>1. t.list = <<>> /\ t.ht = <<>> /\ Len(<<>>) = 0
    OBVIOUS
  <2>2. t \in Tables
    BY DEF Tables
  <2>3. Unique(t.list)
    BY <2>1 DEF Unique
  <2>4. \A b \in 1 .. Len(t.ht) : RunIn(t, b) = Owned(t, b)
    BY <2>1
  <2> QED
    BY <2>2, <2>3, <2>4 DEF Proper
<1>3. Elems(<<>>) = {}
  BY DEF Elems
<1> QED
  BY <1>1, <1>2, <1>3 DEF IInv, Table, htsize

(* removeElement, the last element of the table included.                  *)
LEMMA RemoveStep ==
  ASSUME IInv, NEW i \in 1 .. Len(first), removeElement(i), UNCHANGED full
  PROVE  /\ IInv' /\ Elems(first') = Elems(first) \ {first[i]}
         /\ count' = count - 1
         /\ htsize' = IF count = 1 THEN 0 ELSE htsize
<1>1. /\ Table.list = first /\ Table.ht = ht /\ Proper(Table) /\ count = Len(first)
      /\ Len(first) \in Nat
  BY TableParts
<1>2. CASE count = 1
  <2>1. Empty /\ full' \in BOOLEAN
    BY <1>2 DEF removeElement, IInv
  <2>2. Elems(first) = {first[i]}
    BY <1>1, <1>2 DEF Elems
  <2>3. count' = 0
    BY <2>1 DEF Empty
  <2> QED
    BY <1>1, <1>2, <2>1, <2>2, <2>3, EmptyTable
<1>3. CASE count # 1
  <2> DEFINE r == Removed(Table, i)
  <2>1. /\ first' = RemoveAt(first, i) /\ count' = count - 1
        /\ ht' = IF ht = <<>> THEN ht
                 ELSE [ht EXCEPT ![Hash(Name(first[i]), Len(ht))] =
                        [ count |-> @.count - 1,
                          chain |-> IF @.chain = Name(first[i])
                                    THEN (IF i = Len(first) THEN NULL ELSE Name(first[i + 1]))
                                    ELSE @.chain ]]
    BY <1>3 DEF removeElement, htsize
  <2>2. r = [list |-> first', ht |-> ht']
    <3>1. ht # <<>> => BucketOf(Table, first[i]) = Hash(Name(first[i]), Len(ht))
      BY <1>1 DEF BucketOf
    <3>2. NextName(Table, i) = IF i = Len(first) THEN NULL ELSE Name(first[i + 1])
      BY <1>1 DEF NextName
    <3>3. r = [list |-> r.list, ht |-> r.ht] /\ r.list = first'
      BY <1>1, <2>1 DEF Removed
    <3>4. r.ht = ht'
      BY <1>1, <2>1, <3>1, <3>2 DEF Removed
    <3> QED
      BY <3>3, <3>4
  <2>3. Proper(r) /\ Len(r.ht) = Len(ht)
    BY <1>1, RemovedProper
  <2>4. Len(r.list) = Len(first) - 1 /\ Elems(r.list) = Elems(first) \ {first[i]}
    BY <1>1, RemovedPlaces
  <2> HIDE DEF r
  <2>5. Table' = r /\ first' = r.list /\ ht' = r.ht
    BY <2>2 DEF Table
  <2>6. IInv'
    BY <1>1, <2>1, <2>3, <2>4, <2>5 DEF IInv
  <2> QED
    BY <1>3, <2>1, <2>3, <2>4, <2>5, <2>6 DEF htsize
<1> QED
  BY <1>2, <1>3

(* sqlite3HashInsert of NULL.                                              *)
LEMMA DeleteStep ==
  ASSUME IInv, NEW k \in Keys, Delete(k)
  PROVE  LET i == findElement(k)
         IN  /\ IInv' /\ result' = DataAt(i)
             /\ Elems(first') = IF i = 0 THEN Elems(first) ELSE Elems(first) \ {first[i]}
             /\ count' <= count /\ full' = full
             /\ htsize' = htsize \/ count' = 0
<1> DEFINE i == findElement(k)
<1>1. result' = DataAt(i) /\ full' = full
  BY DEF Delete
<1>2. count \in Nat
  BY TableParts
<1>3. CASE i = 0
  <2>1. first' = first /\ ht' = ht /\ count' = count
    BY <1>3 DEF Delete
  <2>2. IInv' /\ htsize' = htsize
    BY <1>1, <2>1 DEF IInv, Table, htsize
  <2> QED
    BY <1>1, <1>2, <1>3, <2>1, <2>2
<1>4. CASE i # 0
  <2>1. removeElement(i) /\ i \in 1 .. Len(first) /\ UNCHANGED full
    BY <1>1, <1>4, Found DEF Delete
  <2> HIDE DEF i
  <2>2. /\ IInv' /\ Elems(first') = Elems(first) \ {first[i]} /\ count' = count - 1
        /\ htsize' = IF count = 1 THEN 0 ELSE htsize
    BY <2>1, RemoveStep
  <2> QED
    BY <1>1, <1>2, <1>4, <2>2 DEF i
<1> QED
  BY <1>3, <1>4

-----------------------------------------------------------------------------
(* The invariants.                                                         *)
(* An empty table is proper.                                               *)
LEMMA Initially == Init => IInv
<1> SUFFICES ASSUME Init PROVE IInv
  OBVIOUS
<1> DEFINE t == [list |-> <<>>, ht |-> <<>>]
<1>1. Proper(t)
  <2>1. t.list = <<>> /\ t.ht = <<>> /\ Len(<<>>) = 0
    OBVIOUS
  <2>2. t \in Tables
    BY DEF Tables
  <2>3. Unique(t.list)
    BY <2>1 DEF Unique
  <2>4. \A b \in 1 .. Len(t.ht) : RunIn(t, b) = Owned(t, b)
    BY <2>1
  <2> QED
    BY <2>2, <2>3, <2>4 DEF Proper
<1> QED
  BY <1>1 DEF Init, IInv, Table

(* Every call keeps the invariant.                                         *)
LEMMA Preserved == IInv /\ [Next]_vars => IInv'
<1> SUFFICES ASSUME IInv, [Next]_vars
             PROVE  IInv'
  OBVIOUS
<1>1. ASSUME NEW k \in Keys, NEW d \in Data, Replace(k, d)
      PROVE  IInv'
  BY <1>1, ReplaceStep
<1>2. ASSUME NEW k \in Keys, NEW d \in Data, Refuse(k, d)
      PROVE  IInv'
  BY <1>2 DEF Refuse, IInv, Table
<1>3. ASSUME NEW k \in Keys, NEW d \in Data, NEW grown \in BOOLEAN, Insert(k, d, grown)
      PROVE  IInv'
  BY <1>3, InsertStep
<1>4. ASSUME NEW k \in Keys, Delete(k)
      PROVE  IInv'
  BY <1>4, DeleteStep
<1>5. ASSUME NEW k \in Keys, Find(k)
      PROVE  IInv'
  BY <1>5 DEF Find, IInv, Table
<1>6. CASE Clear
  BY <1>6, EmptyTable DEF Clear
<1>7. CASE UNCHANGED vars
  BY <1>7 DEF vars, IInv, Table
<1> QED
  BY <1>1, <1>2, <1>3, <1>4, <1>5, <1>6, <1>7 DEF Next

(* The inductive invariant holds.                                          *)
LEMMA AlwaysProper == Spec => []IInv
BY Initially, Preserved, PTL DEF Spec

(* Every element is in the run of its own bucket and in no other, after    *)
(* any sequence of calls, whatever the names hash to and whichever         *)
(* allocations fail.                                                       *)
THEOREM BucketsArePartition == Spec => []BucketsPartition
<1>1. IInv => BucketsPartition
  <2> SUFFICES ASSUME IInv, NEW b \in 1 .. htsize
               PROVE  Run(b) = { i \in 1 .. Len(first) : Hash(Name(first[i]), htsize) = b }
    BY DEF BucketsPartition
  <2>1. RunIn(Table, b) = Owned(Table, b)
    BY DEF IInv, Proper, Table, htsize
  <2>2. Run(b) = RunIn(Table, b)
    BY Zenon DEF Run, RunIn, Table
  <2>3. Owned(Table, b) = { i \in 1 .. Len(first) : Hash(Name(first[i]), htsize) = b }
    BY DEF Owned, Table, htsize
  <2> QED
    BY <2>1, <2>2, <2>3
<1> QED
  BY <1>1, AlwaysProper, PTL

(* Unless a growth has just been refused, a table at or above the          *)
(* threshold has half as many buckets as elements or the most an           *)
(* allocation may hold, for every threshold and every limit.               *)
THEOREM LoadIsBounded == Spec => []LoadBounded
<1>1. Init => LoadBounded
  BY HashAssumption DEF Init, LoadBounded
<1>2. IInv /\ LoadBounded /\ [Next]_vars => LoadBounded'
  <2> SUFFICES ASSUME IInv, LoadBounded, [Next]_vars
               PROVE  LoadBounded'
    OBVIOUS
  <2>0. /\ count \in Nat /\ htsize \in Nat /\ full \in BOOLEAN
        /\ Threshold \in Nat \ {0} /\ SoftLimit \in Nat \ {0}
    BY TableParts, HashAssumption DEF IInv
  <2>1. ASSUME NEW k \in Keys, NEW d \in Data, Replace(k, d)
        PROVE  LoadBounded'
    <3>1. htsize' = htsize /\ count' = count /\ full' = full
      BY <2>1, ReplaceStep DEF Replace
    <3> QED
      BY <3>1 DEF LoadBounded
  <2>2. ASSUME NEW k \in Keys, NEW d \in Data, Refuse(k, d)
        PROVE  LoadBounded'
    BY <2>2 DEF Refuse, LoadBounded, htsize
  <2>3. ASSUME NEW k \in Keys, NEW d \in Data, NEW grown \in BOOLEAN, Insert(k, d, grown)
        PROVE  LoadBounded'
    <3>1. /\ htsize' = IF grown THEN NewSize(2 * (count + 1)) ELSE htsize
          /\ count' = count + 1 /\ full' = (Grows /\ ~ grown)
      BY <2>3, InsertStep DEF Insert
    <3>2. CASE grown
      BY <2>0, <3>1, <3>2 DEF LoadBounded, NewSize
    <3>3. CASE ~ grown
      <4> SUFFICES ASSUME count' >= Threshold, count' > 2 * htsize'
                   PROVE  htsize' = SoftLimit \/ full'
        BY DEF LoadBounded
      <4>1. Wanted
        BY <2>0, <3>1, <3>3 DEF Wanted
      <4>2. CASE Grows
        BY <3>1, <3>3, <4>2
      <4>3. CASE ~ Grows
        <5>1. NewSize(2 * (count + 1)) = htsize
          BY <4>1, <4>3 DEF Grows
        <5> QED
          BY <2>0, <3>1, <3>3, <5>1 DEF NewSize
      <4> QED
        BY <4>2, <4>3
    <3> QED
      BY <3>2, <3>3
  <2>4. ASSUME NEW k \in Keys, Delete(k)
        PROVE  LoadBounded'
    <3>1. /\ IInv' /\ count' <= count /\ full' = full
          /\ htsize' = htsize \/ count' = 0
      BY <2>4, DeleteStep
    <3>2. (count \in Nat)'
      BY <3>1, TableParts DEF IInv
    <3> QED
      BY <2>0, <3>1, <3>2 DEF LoadBounded
  <2>5. ASSUME NEW k \in Keys, Find(k)
        PROVE  LoadBounded'
    BY <2>5 DEF Find, LoadBounded, htsize
  <2>6. CASE Clear
    BY <2>0, <2>6 DEF Clear, Empty, LoadBounded
  <2>7. CASE UNCHANGED vars
    BY <2>7 DEF vars, LoadBounded, htsize
  <2> QED
    BY <2>1, <2>2, <2>3, <2>4, <2>5, <2>6, <2>7 DEF Next
<1> QED
  BY <1>1, <1>2, AlwaysProper, PTL DEF Spec

-----------------------------------------------------------------------------
(* The refinement: the map is a function of the set of elements.           *)
NamesIn(S) == { Name(x) : x \in S }
MapOf(S) == [ n \in NamesIn(S) |-> CHOOSE x \in S : Name(x) = n ]
UniqueIn(S) == \A x, y \in S : Name(x) = Name(y) => x = y

(* An element is in the map at its name.                                   *)
LEMMA MapOfAt ==
  ASSUME NEW S, UniqueIn(S), NEW x \in S
  PROVE  Name(x) \in DOMAIN MapOf(S) /\ MapOf(S)[Name(x)] = x
<1>1. Name(x) \in NamesIn(S)
  BY DEF NamesIn
<1>2. (CHOOSE y \in S : Name(y) = Name(x)) = x
  BY DEF UniqueIn
<1> QED
  BY <1>1, <1>2 DEF MapOf

(* A map is MapOf(S) when it has the names of S and the elements at them.  *)
LEMMA MapOfUnique ==
  ASSUME NEW S, UniqueIn(S), NEW f,
         f = [n \in NamesIn(S) |-> f[n]], \A x \in S : f[Name(x)] = x
  PROVE  f = MapOf(S)
<1>1. ASSUME NEW n \in NamesIn(S)
      PROVE  f[n] = CHOOSE x \in S : Name(x) = n
  <2>1. PICK x \in S : n = Name(x)
    BY DEF NamesIn
  <2>2. MapOf(S)[n] = x
    BY <2>1, MapOfAt
  <2> QED
    BY <2>1, <2>2 DEF MapOf
<1>2. [n \in NamesIn(S) |-> f[n]] = [n \in NamesIn(S) |-> CHOOSE x \in S : Name(x) = n]
  BY <1>1
<1>3. f = [n \in NamesIn(S) |-> CHOOSE x \in S : Name(x) = n]
  BY <1>2
<1> QED
  BY <1>3 DEF MapOf

(* No two elements of the table have one name.                             *)
LEMMA UniqueElems == IInv => UniqueIn(Elems(first))
BY TableParts DEF UniqueIn, Elems

(* The refinement mapping as a function of the set of elements.            *)
LEMMA ElementsIs ==
  ASSUME IInv
  PROVE  Elements = MapOf(Elems(first))
<1> DEFINE S == Elems(first)
<1>1. { Name(first[i]) : i \in 1 .. Len(first) } = NamesIn(S)
  BY DEF NamesIn, Elems
<1>2. Elements = [n \in NamesIn(S) |-> first[Position(first, n)]]
  BY <1>1 DEF Elements
<1>3. \A i \in 1 .. Len(first) : Position(first, Name(first[i])) = i
  BY TableParts, PositionIs
<1>4. ASSUME NEW x \in S
      PROVE  Elements[Name(x)] = x
  <2>1. PICK i \in 1 .. Len(first) : x = first[i]
    BY DEF Elems
  <2>2. Name(x) \in NamesIn(S)
    BY DEF NamesIn
  <2>3. Elements[Name(x)] = first[Position(first, Name(x))]
    BY <1>2, <2>2
  <2> QED
    BY <1>3, <2>1, <2>3
<1>5. Elements = [n \in NamesIn(S) |-> Elements[n]]
  BY <1>2
<1> HIDE DEF S
<1> QED
  BY <1>4, <1>5, UniqueElems, MapOfUnique DEF S

(* Insert of the dictionary: what had the name goes, the new element comes. *)
Swap(S, e) == { x \in S : Name(x) # Name(e) } \cup {e}
PutIn(m, e) == [ n \in DOMAIN m \cup {Name(e)} |-> IF n = Name(e) THEN e ELSE m[n] ]

LEMMA MapOfPut ==
  ASSUME NEW S, UniqueIn(S), NEW e
  PROVE  MapOf(Swap(S, e)) = PutIn(MapOf(S), e)
<1> DEFINE f == PutIn(MapOf(S), e)
           T == Swap(S, e)
<1>1. UniqueIn(T)
  BY DEF UniqueIn, Swap
<1>2. DOMAIN MapOf(S) = NamesIn(S)
  BY DEF MapOf
<1>3. NamesIn(T) = NamesIn(S) \cup {Name(e)}
  BY DEF NamesIn, Swap
<1>4. f = [n \in NamesIn(T) |-> f[n]]
  BY <1>2, <1>3 DEF PutIn
<1>5. ASSUME NEW x \in T
      PROVE  f[Name(x)] = x
  <2>1. CASE x = e
    BY <2>1 DEF PutIn
  <2>2. CASE x # e
    <3>1. x \in S /\ Name(x) # Name(e)
      BY <2>2 DEF Swap
    <3>2. MapOf(S)[Name(x)] = x /\ Name(x) \in DOMAIN MapOf(S)
      BY <3>1, MapOfAt
    <3> QED
      BY <3>1, <3>2 DEF PutIn
  <2> QED
    BY <2>1, <2>2
<1> HIDE DEF f
<1>6. f = MapOf(T)
  BY <1>1, <1>4, <1>5, MapOfUnique
<1> QED
  BY <1>6 DEF f

(* Delete of the dictionary.                                               *)
LEMMA MapOfWithout ==
  ASSUME NEW S, UniqueIn(S), NEW name, NEW T, T = { x \in S : Name(x) # name }
  PROVE  MapOf(T) = [ n \in DOMAIN MapOf(S) \ {name} |-> MapOf(S)[n] ]
<1> DEFINE f == [ n \in DOMAIN MapOf(S) \ {name} |-> MapOf(S)[n] ]
<1>1. UniqueIn(T)
  BY DEF UniqueIn
<1>2. DOMAIN MapOf(S) = NamesIn(S)
  BY DEF MapOf
<1>3. NamesIn(T) = NamesIn(S) \ {name}
  BY DEF NamesIn
<1>4. f = [n \in NamesIn(T) |-> f[n]]
  BY <1>2, <1>3
<1>5. ASSUME NEW x \in T
      PROVE  f[Name(x)] = x
  <2>1. MapOf(S)[Name(x)] = x /\ Name(x) \in DOMAIN MapOf(S) /\ Name(x) # name
    BY MapOfAt
  <2> QED
    BY <2>1
<1> HIDE DEF f
<1>6. f = MapOf(T)
  BY <1>1, <1>4, <1>5, MapOfUnique
<1> QED
  BY <1>6 DEF f

(* What the dictionary says of a key is what findElement finds.            *)
LEMMA DictionaryFinds ==
  ASSUME IInv, NEW k \in Keys
  PROVE  /\ Abstract!Has(k) <=> findElement(k) # 0
         /\ Abstract!DataOf(k) = DataAt(findElement(k))
<1> DEFINE i == findElement(k)
           S == Elems(first)
<1>1. Elements = MapOf(S) /\ UniqueIn(S)
  BY ElementsIs, UniqueElems
<1>2. CASE i # 0
  <2>1. i \in 1 .. Len(first) /\ Name(first[i]) = Lower[k]
    BY <1>2, Found
  <2>2. first[i] \in S
    BY <2>1 DEF Elems
  <2> HIDE DEF i, S
  <2>3. Lower[k] \in DOMAIN Elements /\ Elements[Lower[k]] = first[i]
    BY <1>1, <2>1, <2>2, MapOfAt
  <2> QED
    BY <1>2, <2>3 DEF Abstract!Has, Abstract!DataOf, NameOf, DataAt, i
<1>3. CASE i = 0
  <2>1. \A j \in 1 .. Len(first) : Name(first[j]) # Lower[k]
    BY <1>3, Found
  <2>2. Lower[k] \notin DOMAIN Elements
    BY <2>1 DEF Elements
  <2> QED
    BY <1>3, <2>2 DEF Abstract!Has, Abstract!DataOf, NameOf, DataAt
<1> QED
  BY <1>2, <1>3

(* Every call is a call of the dictionary.                                 *)
LEMMA DictionaryStep ==
  ASSUME IInv, IInv', [Next]_vars
  PROVE  [Abstract!Next]_(Abstract!Dict)
<1> DEFINE S == Elems(first)
<1>1. /\ Elements = MapOf(S) /\ UniqueIn(S)
      /\ Elements' = MapOf(Elems(first'))
  <2>1. (IInv => Elements = MapOf(Elems(first)))'
    BY ElementsIs, PTL
  <2> QED
    BY <2>1, ElementsIs, UniqueElems
<1>2. \A x, y \in S : Name(x) = Name(y) => x = y
  BY <1>1 DEF UniqueIn
<1>3. ASSUME NEW k \in Keys, NEW d \in Data, Replace(k, d)
      PROVE  Abstract!Insert(k, d)
  <2> DEFINE x == first[findElement(k)]
             e == [key |-> k, data |-> d]
  <2>1. /\ x \in S /\ Name(x) = Lower[k] /\ result' = x.data
        /\ Elems(first') = (S \ {x}) \cup {e}
    BY <1>3, ReplaceStep
  <2>2. result' = DataAt(findElement(k)) /\ Name(e) = Lower[k] /\ e.data = d
    BY <1>3 DEF Replace, DataAt, Name
  <2> HIDE DEF x, e, S
  <2>3. Elems(first') = Swap(S, e)
    BY <1>2, <2>1, <2>2 DEF Swap
  <2>4. Elements' = PutIn(Elements, e)
    BY <1>1, <2>3, MapOfPut
  <2>5. Elements' = Abstract!Put(k, d)
    BY <2>2, <2>4 DEF Abstract!Put, PutIn, NameOf, e
  <2> QED
    BY <2>2, <2>5, DictionaryFinds DEF Abstract!Insert
<1>4. ASSUME NEW k \in Keys, NEW d \in Data, NEW grown \in BOOLEAN, Insert(k, d, grown)
      PROVE  Abstract!Insert(k, d)
  <2> DEFINE e == [key |-> k, data |-> d]
  <2>1. findElement(k) = 0 /\ result' = NULL /\ Elems(first') = S \cup {e}
    BY <1>4, InsertStep
  <2>2. result' = DataAt(findElement(k)) /\ Name(e) = Lower[k]
    BY <2>1 DEF DataAt, Name
  <2>3. \A y \in S : Name(y) # Name(e)
    BY <2>1, <2>2, Found DEF Elems
  <2> HIDE DEF e, S
  <2>4. Elems(first') = Swap(S, e)
    BY <2>1, <2>3 DEF Swap
  <2>5. Elements' = PutIn(Elements, e)
    BY <1>1, <2>4, MapOfPut
  <2>6. Elements' = Abstract!Put(k, d)
    BY <2>2, <2>5 DEF Abstract!Put, PutIn, NameOf, e
  <2> QED
    BY <2>2, <2>6, DictionaryFinds DEF Abstract!Insert
<1>5. ASSUME NEW k \in Keys, NEW d \in Data, Refuse(k, d)
      PROVE  Abstract!Refuse(k, d)
  <2>1. first' = first /\ result' = d /\ findElement(k) = 0
    BY <1>5 DEF Refuse
  <2>2. Elements' = Elements
    BY <1>1, <2>1
  <2> QED
    BY <2>1, <2>2, DictionaryFinds DEF Abstract!Refuse
<1>6. ASSUME NEW k \in Keys, Delete(k)
      PROVE  Abstract!Delete(k)
  <2> DEFINE i == findElement(k)
  <2>1. /\ result' = DataAt(i)
        /\ Elems(first') = IF i = 0 THEN S ELSE S \ {first[i]}
    BY <1>6, DeleteStep
  <2>2. Elems(first') = { y \in S : Name(y) # Lower[k] }
    <3>1. CASE i = 0
      <4>1. \A y \in S : Name(y) # Lower[k]
        BY <3>1, Found DEF Elems
      <4> HIDE DEF S
      <4> QED
        BY <2>1, <3>1, <4>1
    <3>2. CASE i # 0
      <4>1. first[i] \in S /\ Name(first[i]) = Lower[k]
        BY <3>2, Found DEF Elems
      <4> HIDE DEF S, i
      <4> QED
        BY <1>2, <2>1, <3>2, <4>1
    <3> QED
      BY <3>1, <3>2
  <2> HIDE DEF S
  <2>3. Elements' = [ n \in DOMAIN Elements \ {Lower[k]} |-> Elements[n] ]
    <3>1. MapOf(Elems(first')) = [ n \in DOMAIN MapOf(S) \ {Lower[k]} |-> MapOf(S)[n] ]
      BY ONLY <1>1, <2>2, MapOfWithout
    <3> QED
      BY <1>1, <3>1
  <2> QED
    BY <2>1, <2>3, DictionaryFinds DEF Abstract!Delete, Abstract!Without, NameOf
<1>7. ASSUME NEW k \in Keys, Find(k)
      PROVE  Abstract!Find(k)
  <2>1. first' = first /\ result' = DataAt(findElement(k))
    BY <1>7 DEF Find
  <2>2. Elements' = Elements
    BY <1>1, <2>1
  <2> QED
    BY <2>1, <2>2, DictionaryFinds DEF Abstract!Find
<1>8. CASE Clear
  <2>1. first' = <<>> /\ result' = result
    BY <1>8 DEF Clear, Empty
  <2>2. Elements' = [n \in {} |-> NULL]
    <3>1. Elements' = [ n \in { Name(first'[i]) : i \in 1 .. Len(first') } |->
                          first'[Position(first', n)] ]
      BY DEF Elements
    <3>2. { Name(first'[i]) : i \in 1 .. Len(first') } = {}
      BY <2>1
    <3> QED
      BY <3>1, <3>2
  <2>3. Abstract!Clear
    BY <2>1, <2>2 DEF Abstract!Clear
  <2> QED
    BY <2>3 DEF Abstract!Next
<1>9. CASE UNCHANGED vars
  <2>1. first' = first /\ result' = result
    BY <1>9 DEF vars
  <2>2. Elements' = Elements
    BY <1>1, <2>1
  <2> QED
    BY <2>1, <2>2 DEF Abstract!Dict
<1> QED
  BY <1>3, <1>4, <1>5, <1>6, <1>7, <1>8, <1>9 DEF Next, Abstract!Next

(* The table implements the map of the interface: what every call returns  *)
(* and leaves behind is what the dictionary does.                          *)
THEOREM TableIsDictionary == Spec => IsDictionary
<1>1. Init => Abstract!Init
  <2> SUFFICES ASSUME Init PROVE Abstract!Init
    OBVIOUS
  <2>1. first = <<>> /\ result = NULL
    BY DEF Init
  <2>2. { Name(first[i]) : i \in 1 .. Len(first) } = {}
    BY <2>1
  <2> QED
    BY <2>1, <2>2 DEF Abstract!Init, Elements
<1>2. IInv /\ IInv' /\ [Next]_vars => [Abstract!Next]_(Abstract!Dict)
  BY DictionaryStep
<1> QED
  BY <1>1, <1>2, AlwaysProper, PTL DEF Spec, IsDictionary, Abstract!Spec
=============================================================================
