-------------------------- MODULE PagerStore_proofs --------------------------
(***************************************************************************)
(* What the pager keeps where the power does not fail: whatever            *)
(* connections do, wherever they die and whichever calls fail, the file    *)
(* and its journal together hold the image that was committed last, and    *)
(* who reads sees that image.  Pager_proofs states the invariant, SBody,   *)
(* and what each operation on the two files does to it.                    *)
(***************************************************************************)
EXTENDS Pager_proofs

-----------------------------------------------------------------------------
(* A page is changed: what the writer knows of its journal, ...            *)
Logged(s, P, f, h, n, a) ==
  /\ Journals(s, P, f, h) /\ Spans(P.dbOrigSize, h)
  /\ Kept(s, f, h) /\ NoneYet(f, h) /\ Stamps(f, 0, n + 1)
  /\ a => Alone(s, f, 1, h)

LEMMA PutSame ==
  ASSUME NEW S, NEW f \in Seq(S), NEW x \in S, NEW m, m = Len(f) + 1, NEW i \in 1 .. m
  PROVE  LET g == Put(f, i, x) IN
         /\ g \in Seq(S) /\ Len(g) \in Nat /\ Len(f) \in Nat /\ Len(f) <= Len(g) /\ i <= Len(g) /\ Len(g) <= m
         /\ g[i] = x /\ \A k \in 1 .. Len(f) : k # i => g[k] = f[k]
         /\ \A k \in 1 .. Len(g) : k = i \/ k \in 1 .. Len(f)
<1>1. Len(f) \in Nat
  OBVIOUS
<1>2. CASE i <= Len(f)
  <2>1. Put(f, i, x) = [f EXCEPT ![i] = x]
    BY <1>2 DEF Put
  <2> QED
    BY <1>1, <1>2, <2>1
<1>3. CASE ~ (i <= Len(f))
  <2>1. Put(f, i, x) = Append(f, x) /\ i = m
    BY <1>1, <1>3 DEF Put
  <2> QED
    BY <1>1, <2>1
<1> QED
  BY <1>2, <1>3

(* The journal is longer by one record.                                    *)
Longer(f, g, o) ==
  /\ Len(f) <= Len(g) /\ o <= Len(g) /\ g[o].kind = "record"
  /\ \A k \in 1 .. Len(f) : k # o => g[k] = f[k]
  /\ \A k \in 1 .. Len(g) : k = o \/ k \in 1 .. Len(f)
AddsTo(P, Q) ==
  /\ Q.eState = P.eState /\ Q.at = P.at /\ Q.goal = P.goal
  /\ Q.journalHdr = P.journalHdr /\ Q.tx = P.tx /\ Q.dbOrigSize = P.dbOrigSize
  /\ Q.journalOff = P.journalOff + 1 /\ Q.nRec = P.nRec + 1

LEMMA LongerRecorded ==
  ASSUME NEW f, NEW g, Len(f) \in Nat, NEW m \in Nat, NEW o, o = m + 1, m <= Len(f), Longer(f, g, o)
  PROVE  /\ \A q : Recorded(f, m, q) => Recorded(g, o, q)
         /\ \A k \in Nat : \A q : k <= m /\ Recorded(f, k, q) => Recorded(g, k, q)
         /\ Recorded(g, o, g[o].pgno)
         /\ \A i \in Recs(g, 1, o) : i = o \/ (i \in Recs(f, 1, m) /\ g[i] = f[i])
<1>1. \A i \in 1 .. m : g[i] = f[i]
  BY DEF Longer
<1>2. g[o].kind = "record" /\ o \in 1 .. o
  BY DEF Longer
<1>3. \A q : Recorded(f, m, q) => Recorded(g, o, q)
  BY <1>1 DEF Recorded, Recs
<1>4. \A k \in Nat : \A q : k <= m /\ Recorded(f, k, q) => Recorded(g, k, q)
  BY <1>1 DEF Recorded, Recs
<1>5. Recorded(g, o, g[o].pgno)
  BY <1>2 DEF Recorded, Recs
<1>6. \A i \in Recs(g, 1, o) : i = o \/ (i \in Recs(f, 1, m) /\ g[i] = f[i])
  BY <1>1 DEF Recs
<1> QED
  BY <1>3, <1>4, <1>5, <1>6

LEMMA LongerSections ==
  ASSUME NEW f, NEW g, Len(f) \in Nat, Len(g) \in Nat, NEW m \in Nat, NEW o, o = m + 1, m <= Len(f), Longer(f, g, o),
         NEW e \in Nat, e < m
  PROVE  /\ Sections(f, e) => Sections(g, e)
         /\ IsHeader(f, e) => IsHeader(g, e)
         /\ \A a \in Nat \ {0} : OnlyRecords(f, a, m) => OnlyRecords(g, a, o)
<1>1. \A i \in 1 .. m : g[i] = f[i]
  BY DEF Longer
<1>2. Len(f) <= Len(g) /\ g[o].kind = "record"
  BY DEF Longer
<1>3. \A k \in 0 .. e : IsHeader(g, k) <=> IsHeader(f, k)
  <2> SUFFICES ASSUME NEW k \in 0 .. e PROVE IsHeader(g, k) <=> IsHeader(f, k)
    OBVIOUS
  <2>1. k + 1 \in 1 .. m /\ k < Len(f) /\ k < Len(g)
    BY <1>2
  <2> QED
    BY <1>1, <2>1 DEF IsHeader
<1>4. \A a \in Nat \ {0} : OnlyRecords(f, a, m) => OnlyRecords(g, a, o)
  <2> SUFFICES ASSUME NEW a \in Nat \ {0}, OnlyRecords(f, a, m), NEW i \in a .. o PROVE g[i].kind = "record"
    BY DEF OnlyRecords
  <2>1. CASE i = o
    BY <1>2, <2>1
  <2>2. CASE i # o
    <3>1. i \in a .. m /\ i \in 1 .. m
      BY <2>2
    <3> QED
      BY <1>1, <3>1 DEF OnlyRecords
  <2> QED
    BY <2>1, <2>2
<1>5. Sections(f, e) => Sections(g, e)
  <2> SUFFICES ASSUME Sections(f, e), NEW k \in 0 .. e - 1, IsHeader(g, k)
               PROVE  LET c == g[k + 1].nRec IN
                      /\ g[k + 1].magic /\ c \in Nat /\ k + 1 + c <= e
                      /\ OnlyRecords(g, k + 2, k + 1 + c)
                      /\ k + 1 + c < e => IsHeader(g, k + 1 + c)
    BY DEF Sections
  <2>1. k \in 0 .. e /\ k + 1 \in 1 .. m
    OBVIOUS
  <2>2. IsHeader(f, k) /\ g[k + 1] = f[k + 1]
    BY <1>1, <1>3, <2>1
  <2> DEFINE c == f[k + 1].nRec
  <2>3. /\ f[k + 1].magic /\ c \in Nat /\ k + 1 + c <= e
        /\ OnlyRecords(f, k + 2, k + 1 + c)
        /\ k + 1 + c < e => IsHeader(f, k + 1 + c)
    BY <2>2 DEF Sections
  <2> HIDE DEF c
  <2>4. OnlyRecords(g, k + 2, k + 1 + c)
    <3>1. \A i \in k + 2 .. k + 1 + c : i \in 1 .. m
      BY <2>3
    <3> QED
      BY <1>1, <2>3, <3>1 DEF OnlyRecords
  <2>5. k + 1 + c < e => IsHeader(g, k + 1 + c)
    <3>1. k + 1 + c < e => k + 1 + c \in 0 .. e
      BY <2>3
    <3> QED
      BY <1>3, <2>3, <3>1
  <2>6. g[k + 1].nRec = c
    BY <2>2 DEF c
  <2> QED
    BY <2>2, <2>3, <2>4, <2>5, <2>6
<1> QED
  BY <1>3, <1>4, <1>5

LEMMA AddLogs ==
  ASSUME NEW n \in Nat, NEW P \in PagerAt(n), NEW f \in Seq(SlotsAt(n)), NEW g \in Seq(SlotsAt(n)),
         NEW s, NEW h, NEW a, Logged(s, P, f, h, n, a), P.at \notin {"sync", "pages"},
         NEW Q, AddsTo(P, Q), Longer(f, g, Q.journalOff), h # << >>,
         g[Q.journalOff].nonce = P.tx,
         g[Q.journalOff].pgno <= Len(h) => g[Q.journalOff].val = h[g[Q.journalOff].pgno]
  PROVE  Logged(s, Q, g, h, n, a)
<1> DEFINE m == P.journalOff
           o == Q.journalOff
<1>1. o = m + 1 /\ m \in Nat /\ P.journalHdr \in Nat /\ P.nRec \in Nat /\ P.tx \in 0 .. n
  BY DEF PagerAt, AddsTo
<1>2. /\ m \in 1 .. Len(f) /\ Len(f) \in Nat /\ Len(g) \in Nat
      /\ \A i \in 1 .. m : f[i].kind \in {"header", "record"} /\ f[i].nonce = P.tx
      /\ Stamps(f, m, P.tx) /\ f[1].kind = "header" /\ f[1].orig = P.dbOrigSize
      /\ Alone(s, f, m, h) /\ Right(f, Recs(f, 1, m), h)
      /\ Kept(s, f, h) /\ Stamps(f, 0, n + 1) /\ (a => Alone(s, f, 1, h))
  BY DEF Logged, Journals, Mine
<1>3. /\ Len(f) <= Len(g) /\ o <= Len(g) /\ g[o].kind = "record"
      /\ \A k \in 1 .. Len(f) : k # o => g[k] = f[k]
      /\ \A k \in 1 .. Len(g) : k = o \/ k \in 1 .. Len(f)
  BY DEF Longer
<1> HIDE DEF m, o
<1>4. \A i \in 1 .. m : g[i] = f[i] /\ i # o
  BY <1>1, <1>2, <1>3
<1>5. g[1] = f[1] /\ 1 \in 1 .. m /\ 1 # o
  BY <1>1, <1>2, <1>4
<1>6. Mine(Q, g)
  <2>1. o \in 1 .. Len(g)
    BY <1>1, <1>2, <1>3
  <2>2. \A i \in 1 .. o : g[i].kind \in {"header", "record"} /\ g[i].nonce = P.tx
    <3> SUFFICES ASSUME NEW i \in 1 .. o PROVE g[i].kind \in {"header", "record"} /\ g[i].nonce = P.tx
      OBVIOUS
    <3>1. CASE i = o
      BY <1>3, <3>1 DEF o
    <3>2. CASE i # o
      <4>1. i \in 1 .. m
        BY <1>1, <3>2
      <4> QED
        BY <1>2, <1>4, <4>1
    <3> QED
      BY <3>1, <3>2
  <2>3. Stamps(g, o, P.tx)
    <3> SUFFICES ASSUME NEW i \in o + 1 .. Len(g), g[i].kind \in {"header", "record"} PROVE g[i].nonce < P.tx
      BY DEF Stamps
    <3>1. i # o /\ i \in 1 .. Len(g)
      BY <1>1
    <3>2. i \in 1 .. Len(f) /\ g[i] = f[i]
      BY <1>3, <3>1
    <3>3. i \in m + 1 .. Len(f)
      BY <1>1, <1>2, <3>2
    <3> QED
      BY <1>2, <3>2, <3>3 DEF Stamps
  <2> QED
    BY <1>2, <1>5, <2>1, <2>2, <2>3 DEF Mine, o, AddsTo
<1>7. \A k \in Nat : k <= m /\ Tidy(f, k) => Tidy(g, k) /\ Tidy(g, o)
  <2> SUFFICES ASSUME NEW k \in Nat, k <= m, Tidy(f, k) PROVE Tidy(g, k) /\ Tidy(g, o)
    OBVIOUS
  <2>1. \A i \in k + 1 .. Len(g) : g[i].kind # "header"
    <3> SUFFICES ASSUME NEW i \in k + 1 .. Len(g), i # o PROVE g[i].kind # "header"
      BY <1>3
    <3>1. i \in 1 .. Len(g)
      OBVIOUS
    <3>2. i \in 1 .. Len(f) /\ g[i] = f[i]
      BY <1>3, <3>1
    <3>3. i \in k + 1 .. Len(f)
      BY <1>2, <3>2
    <3> QED
      BY <3>2, <3>3 DEF Tidy
  <2>2. \A i \in o + 1 .. Len(g) : i \in k + 1 .. Len(g)
    BY <1>1
  <2> QED
    BY <2>1, <2>2 DEF Tidy
<1>8. Alone(s, g, o, h) /\ (a => Alone(s, g, 1, h))
  <2>1. 1 <= m /\ 1 \in Nat /\ m <= m
    BY <1>1, <1>5
  <2> QED
    BY <1>1, <1>2, <1>7, <2>1 DEF Alone
<1>9. Right(g, Recs(g, 1, o), h)
  <2>1. \A i \in Recs(g, 1, o) : i = o \/ (i \in Recs(f, 1, m) /\ g[i] = f[i])
    BY <1>1, <1>2, LongerRecorded DEF o
  <2>2. g[o].pgno <= Len(h) => g[o].val = h[g[o].pgno]
    BY DEF o
  <2> QED
    BY <1>2, <2>1, <2>2 DEF Right
<1>10. Readable(g) <=> Readable(f)
  <2>1. 0 < Len(f) /\ 0 < Len(g)
    BY <1>2, <1>3, <1>5
  <2> QED
    BY <1>5, <2>1 DEF Readable, readJournalHdr, IsHeader
<1>11. Kept(s, g, h)
  <2>1. 1 <= m /\ 1 \in Nat
    BY <1>1, <1>5
  <2> QED
    BY <1>2, <1>7, <1>10, <2>1 DEF Kept
<1>12. NoneYet(g, h)
  BY DEF NoneYet
<1>13. Stamps(g, 0, n + 1)
  <2> SUFFICES ASSUME NEW i \in 1 .. Len(g), g[i].kind \in {"header", "record"} PROVE g[i].nonce < n + 1
    BY DEF Stamps
  <2>1. CASE i = o
    BY <1>1, <2>1 DEF o
  <2>2. CASE i # o
    BY <1>2, <1>3, <2>2 DEF Stamps
  <2> QED
    BY <2>1, <2>2
<1>14. IF Lax(s) THEN Endless(Q, g) ELSE Unsynced(Q, g)
  <2>1. CASE Lax(s)
    <3>1. P.journalHdr = 0 /\ f[1].magic /\ f[1].nRec = ALL /\ OnlyRecords(f, 2, m)
      BY <2>1 DEF Logged, Journals, Endless, m
    <3>2. OnlyRecords(g, 2, o)
      <4>1. 0 < m /\ m <= Len(f) /\ Longer(f, g, o)
        BY <1>1, <1>2 DEF o
      <4> QED
        BY <1>1, <1>2, <3>1, <4>1, LongerSections
    <3> QED
      BY <1>5, <2>1, <3>1, <3>2 DEF Endless, AddsTo, o
  <2>2. CASE ~ Lax(s)
    <3> DEFINE e == P.journalHdr
    <3>1. /\ e < m /\ IsHeader(f, e) /\ Sections(f, e)
          /\ OnlyRecords(f, e + 2, m) /\ P.nRec = m - e - 1
          /\ ~ f[e + 1].magic /\ f[e + 1].nRec = 0
      BY <2>2 DEF Logged, Journals, Unsynced, Filling, m
    <3>6. e \in Nat
      BY <1>1
    <3>7. Q.journalHdr = e /\ P.nRec = m - e - 1 /\ e < m
      BY <3>1 DEF AddsTo
    <3> HIDE DEF e
    <3>2. Longer(f, g, o) /\ e + 2 \in Nat \ {0} /\ e + 1 \in 1 .. m /\ m <= Len(f)
      <4>1. Longer(f, g, o)
        BY DEF o
      <4> QED
        BY <1>1, <1>2, <3>6, <3>7, <4>1
    <3>3. Sections(g, e) /\ IsHeader(g, e) /\ OnlyRecords(g, e + 2, o) /\ g[e + 1] = f[e + 1]
      BY <1>1, <1>2, <1>4, <3>1, <3>2, <3>6, LongerSections
    <3>4. Q.nRec = P.nRec + 1 /\ Q.journalOff = o
      BY DEF AddsTo, o
    <3>5. e < o /\ P.nRec + 1 = o - e - 1
      BY <1>1, <3>6, <3>7
    <3> QED
      BY <2>2, <3>1, <3>3, <3>4, <3>5, <3>7 DEF Unsynced, Filling
  <2> QED
    BY <2>1, <2>2
<1>15. Journals(s, Q, g, h)
  <2>1. /\ ~ Lax(s) => (Q.eState = "CACHEMOD" <=> Q.journalHdr = 0)
        /\ Q.goal = "spill" => s.spilling
        /\ Q.at \notin {"sync", "pages"}
    BY DEF Logged, Journals, AddsTo
  <2> QED
    BY <1>6, <1>8, <1>9, <1>14, <2>1 DEF Journals, o
<1>16. Spans(Q.dbOrigSize, h)
  BY DEF Logged, AddsTo
<1> QED
  BY <1>8, <1>11, <1>12, <1>13, <1>15, <1>16 DEF Logged

(* What the steps of pager_write do to a pager.                            *)
Turns(P, Q) ==
  SamePlace(P, Q) /\ SameFlags(P, Q) /\ SameSizes(P, Q) /\ Q.journalHdr = P.journalHdr /\ Q.tx = P.tx

LEMMA EntrySame ==
  ASSUME NEW n, NEW P \in PagerAt(n), NEW p \in Cached(P), NEW e
  PROVE  LET Q == Enter(P, p, e) IN
         OtherCache(P, Q) /\ Cached(Q) = Cached(P) /\ Differs(P, Q, p) /\ Q.cache[p] = e
<1> DEFINE g == [P.cache EXCEPT ![p] = e]
           Q == [P EXCEPT !.cache = g]
<1>1. Enter(P, p, e) = Q
  BY DEF PagerAt, Enter
<1>2. P.cache = [q \in Cached(P) |-> P.cache[q]]
  BY CacheIs DEF PagerAt, Cached
<1>3. DOMAIN g = Cached(P) /\ g[p] = e /\ \A q \in Cached(P) : q # p => g[q] = P.cache[q]
  BY <1>2 DEF Cached
<1> HIDE DEF g
<1>4. OtherCache(P, Q) /\ Q.cache = g
  BY NewCacheSame DEF OtherCache
<1> QED
  BY <1>1, <1>3, <1>4 DEF Differs, Cached

LEMMA AddedSame ==
  ASSUME NEW n, NEW s \in PairAt(n), NEW p \in Cached(s.P)
  PROVE  LET t == AddToJournal(s, p)
             P == s.P
             Q == t.P
         IN /\ Turns(P, Q) /\ Q.dbSize = P.dbSize /\ Q.dbFileVers = P.dbFileVers
            /\ AddsTo(P, Q) /\ Q.pInJournal = P.pInJournal \cup {p}
            /\ Cached(Q) = Cached(P) /\ Differs(P, Q, p)
            /\ Q.cache[p].needSync /\ Q.cache[p].val = P.cache[p].val /\ Q.cache[p].dirty = P.cache[p].dirty
            /\ t.f = Put(s.f, Q.journalOff, Record(p, P.cache[p].val, P.tx))
<1> DEFINE P == s.P
           e == [P.cache[p] EXCEPT !.needSync = TRUE]
           R == Enter(P, p, e)
           g == Put(s.f, P.journalOff + 1, Record(p, P.cache[p].val, P.tx))
           Q == [R EXCEPT !.journalOff = P.journalOff + 1, !.nRec = P.nRec + 1,
                          !.pInJournal = P.pInJournal \cup {p}]
<1>1. P \in PagerAt(n) /\ s.f \in Seq(SlotsAt(n)) /\ p \in Cached(P)
  BY DEF PairAt
<1>2. AddToJournal(s, p) = [P |-> Q, f |-> g]
  <2>1. P.cache \in CacheAt(n)
    BY <1>1 DEF PagerAt
  <2>2. [s.P EXCEPT !.cache[p].needSync = TRUE] = R
    BY <1>1 DEF PagerAt, Enter
  <2>3. [s.P EXCEPT !.cache[p].needSync = TRUE, !.journalOff = @ + 1, !.nRec = @ + 1,
                    !.pInJournal = @ \cup {p}] = Q
    BY <1>1, <2>2 DEF PagerAt
  <2> QED
    BY <2>3 DEF AddToJournal
<1> HIDE DEF P
<1>3. P.cache[p] \in EntryAt(n)
  BY <1>1, PageIs
<1>4. e \in EntryAt(n) /\ e.needSync /\ e.val = P.cache[p].val /\ e.dirty = P.cache[p].dirty
  BY <1>3 DEF EntryAt
<1> HIDE DEF e, g
<1>5. R \in PagerAt(n) /\ OtherCache(P, R) /\ Cached(R) = Cached(P) /\ Differs(P, R, p) /\ R.cache[p] = e
  BY <1>1, <1>4, EntrySame, EntryIs
<1> HIDE DEF R
<1> DEFINE o == P.journalOff + 1
           m == P.nRec + 1
           J == P.pInJournal \cup {p}
<1> HIDE DEF o, m, J
<1>7. Q = [R EXCEPT !.journalOff = o, !.nRec = m, !.pInJournal = J]
  BY DEF o, m, J
<1> HIDE DEF Q
<1>6. /\ Turns(R, Q) /\ Q.dbSize = R.dbSize /\ Q.dbFileVers = R.dbFileVers
      /\ Q.journalOff = o /\ Q.nRec = m /\ Q.pInJournal = J
      /\ Q.cache = R.cache
  BY <1>5, <1>7 DEF PagerAt, Turns, SamePlace, SameFlags, SameSizes
<1>8. Turns(P, Q) /\ AddsTo(P, Q) /\ Q.dbSize = P.dbSize /\ Q.dbFileVers = P.dbFileVers
  BY <1>5, <1>6 DEF o, m, OtherCache, Same, SameLog, Turns, SamePlace, SameFlags, SameSizes, AddsTo
<1>9. Cached(Q) = Cached(P) /\ Differs(P, Q, p) /\ Q.cache[p] = e
  BY <1>5, <1>6 DEF Differs, Cached
<1>10. LET t == [P |-> Q, f |-> g] IN t.P = Q /\ t.f = Put(s.f, o, Record(p, P.cache[p].val, P.tx))
  BY DEF g, o
<1> QED
  BY <1>2, <1>4, <1>6, <1>8, <1>9, <1>10 DEF P, J

LEMMA AppendedSame ==
  ASSUME NEW n, NEW P \in PagerAt(n), NEW p \in Cached(P)
  PROVE  LET Q == Appended(P, p) IN
         /\ OtherCache(P, Q) /\ Cached(Q) = Cached(P) /\ Differs(P, Q, p)
         /\ Q.cache[p].val = P.cache[p].val /\ Q.cache[p].dirty = P.cache[p].dirty
         /\ P.cache[p].needSync => Q.cache[p].needSync
<1> DEFINE b == P.cache[p].needSync \/ P.eState # "DBMOD"
           e == [P.cache[p] EXCEPT !.needSync = b]
           Q == Appended(P, p)
<1>1. Q = [P EXCEPT !.cache[p].needSync = b]
  BY DEF Appended
<1>2. Q = Enter(P, p, e)
  <2> HIDE DEF b, Q
  <2> QED
    BY <1>1 DEF PagerAt, Enter
<1>3. P.cache[p] \in EntryAt(n)
  BY PageIs
<1>4. P.cache[p].needSync => b
  OBVIOUS
<1> HIDE DEF b
<1>5. e.val = P.cache[p].val /\ e.dirty = P.cache[p].dirty /\ e.needSync = b
  BY <1>3 DEF EntryAt
<1> HIDE DEF e, Q
<1>6. OtherCache(P, Q) /\ Cached(Q) = Cached(P) /\ Differs(P, Q, p) /\ Q.cache[p] = e
  BY <1>2, EntrySame
<1> QED
  BY <1>4, <1>5, <1>6 DEF Q

LEMMA ModifiedSame ==
  ASSUME NEW n, NEW P \in PagerAt(n), NEW p \in Cached(P), NEW v
  PROVE  LET Q == Modified(P, p, v) IN
         /\ Same(P, Q) /\ Q.dbSize = (IF P.dbSize < p THEN p ELSE P.dbSize)
         /\ Q.pInJournal = P.pInJournal /\ Q.dbFileVers = P.dbFileVers
         /\ Cached(Q) = Cached(P) /\ Differs(P, Q, p) /\ Q.cache[p].val = v /\ Q.cache[p].dirty
         /\ Q.cache[p].needSync = P.cache[p].needSync
<1> DEFINE e == [P.cache[p] EXCEPT !.dirty = TRUE, !.val = v]
           R == Enter(P, p, e)
           m == IF P.dbSize < p THEN p ELSE P.dbSize
           Q == [R EXCEPT !.dbSize = m]
<1>1. P.cache[p] \in EntryAt(n)
  BY PageIs
<1>2. e.val = v /\ e.dirty /\ e.needSync = P.cache[p].needSync
  BY <1>1 DEF EntryAt
<1>4. [P EXCEPT !.cache[p].dirty = TRUE, !.cache[p].val = v] = R
  BY DEF PagerAt, Cached, Enter
<1>5. Modified(P, p, v) = Q
  BY <1>4 DEF Modified
<1> HIDE DEF e, m
<1>6. OtherCache(P, R) /\ Cached(R) = Cached(P) /\ Differs(P, R, p) /\ R.cache[p] = e
  BY EntrySame
<1>7. /\ Same(P, Q) /\ Q.dbSize = m /\ Q.pInJournal = R.pInJournal /\ Q.dbFileVers = R.dbFileVers /\ Q.cache = R.cache
  BY DEF PagerAt, Same, SamePlace, SameFlags, SameSizes, SameLog, Enter
<1> HIDE DEF R, Q
<1> QED
  BY <1>2, <1>5, <1>6, <1>7 DEF m, OtherCache, Differs, Cached

LEMMA UnwantedSame ==
  ASSUME NEW n, NEW P \in PagerAt(n), NEW p
  PROVE  LET Q == Unwanted(P, p) IN
         /\ Same(P, Q) /\ Q.dbSize = P.dbSize /\ Q.dbFileVers = P.dbFileVers
         /\ Q.pInJournal = P.pInJournal \cup ({p} \cap 1 .. P.dbOrigSize) /\ Differs(P, Q, p)
<1> DEFINE e == [val |-> Zero, needSync |-> p \in Cached(P) /\ P.cache[p].needSync,
                 dirty |-> p \in Cached(P) /\ P.cache[p].dirty]
           R == Store(P, p, e)
           J == {p} \cap 1 .. P.dbOrigSize
           Q == [R EXCEPT !.pInJournal = @ \cup J]
<1>1. Unwanted(P, p) = Q
  BY DEF Unwanted
<1> HIDE DEF e, J
<1>2. OtherCache(P, R) /\ Differs(P, R, p)
  BY StoreSame DEF OtherCache
<1>3. Same(P, Q) /\ Q.dbSize = P.dbSize /\ Q.dbFileVers = P.dbFileVers /\ Q.pInJournal = P.pInJournal \cup J /\ Q.cache = R.cache
  BY DEF PagerAt, Same, SamePlace, SameFlags, SameSizes, SameLog, Store
<1> HIDE DEF R, Q
<1> QED
  BY <1>1, <1>2, <1>3 DEF Differs, Cached, J

LEMMA LoggedSame ==
  ASSUME NEW P, NEW Q, Same(P, Q), NEW s, NEW f, NEW h, NEW n, NEW a, Logged(s, P, f, h, n, a)
  PROVE  Logged(s, Q, f, h, n, a)
<1>1. /\ Q.eState = P.eState /\ Q.at = P.at /\ Q.goal = P.goal /\ Q.dbOrigSize = P.dbOrigSize
      /\ Q.journalHdr = P.journalHdr /\ Q.journalOff = P.journalOff /\ Q.nRec = P.nRec /\ Q.tx = P.tx
  BY DEF Same, SamePlace, SameSizes, SameLog
<1>2. Mine(P, f) => Mine(Q, f)
  BY <1>1 DEF Mine
<1>3. /\ Endless(P, f) => Endless(Q, f)
      /\ Closed(P, f) => Closed(Q, f)
      /\ Done(P, f) => Done(Q, f)
      /\ Unsynced(P, f) => Unsynced(Q, f)
  BY <1>1 DEF Endless, Closed, Done, Unsynced, Filling
<1>4. Journals(s, P, f, h) => Journals(s, Q, f, h)
  BY <1>1, <1>2, <1>3 DEF Journals
<1> QED
  BY <1>1, <1>4 DEF Logged

(* A pair at work.                                                         *)
Filed(s, t, d, h, n, a, S) ==
  /\ t.P.eState \in {"CACHEMOD", "DBMOD"} /\ t.P.at \notin {"sync", "pages"}
  /\ Logged(s, t.P, t.f, h, n, a) /\ Changing(s, t.P, t.f, d, h, S)

LEMMA SyncedSame ==
  ASSUME NEW P, NEW Q, Same(P, Q), NEW s, NEW f, NEW p
  PROVE  Synced(s, Q, f, p) <=> Synced(s, P, f, p)
BY DEF Same, SameLog, Synced

LEMMA GetFiled ==
  ASSUME NEW n \in Nat, NEW P \in PagerAt(n), NEW f, NEW p \in 1 .. MaxPage, db \in Seq(ContentAt(n)),
         NEW s, NEW h \in Seq(Page), NEW a, NEW S,
         Logged(s, P, f, h, n, a), Changing(s, P, f, db, h, S), p \notin S, Len(h) <= Len(db),
         p \in Cached(P) \/ P.dbOrigSize <= P.dbSize
  PROVE  LET Q == getPage(P, p) IN
         Same(P, Q) /\ Logged(s, Q, f, h, n, a) /\ Changing(s, Q, f, db, h, S)
<1> DEFINE Q == getPage(P, p)
<1>1. /\ Same(P, Q) /\ Q.pInJournal = P.pInJournal
      /\ p \in Cached(P) => Q = P
      /\ p \notin Cached(P) => Q.cache[p] = Unread(ReadFrom(P, db, p))
      /\ Cached(Q) = Cached(P) \cup {p} /\ \A q \in Cached(P) : Q.cache[q] = P.cache[q]
  BY GetPageSame DEF Differs
<1> HIDE DEF Q
<1>2. Logged(s, Q, f, h, n, a)
  BY <1>1, LoggedSame
<1>3. ASSUME p \notin Cached(P), p <= Len(h), p \notin Q.pInJournal
      PROVE  Q.cache[p].val = h[p] /\ ~ Q.cache[p].dirty
  <2>1. P.dbSize \in Nat /\ P.dbOrigSize \in Nat /\ Len(h) \in Nat /\ Len(db) \in Nat /\ p \in Nat
    BY NotEmpty, PagerAssumption DEF PagerAt
  <2>2. Len(h) <= P.dbOrigSize
    BY DEF Logged, Spans
  <2>3. ~ (P.dbSize < p \/ ~ (p <= Len(db)))
    BY <1>3, <2>1, <2>2
  <2>4. db[p] = h[p]
    <3>1. p \in 1 .. Len(h)
      BY <1>3, <2>1
    <3> QED
      BY <1>1, <1>3, <3>1 DEF Changing
  <2> QED
    BY <1>1, <1>3, <2>3, <2>4 DEF ReadFrom, Unread
<1>4. Changing(s, Q, f, db, h, S)
  <2>1. \A q \in Cached(Q) : q <= Len(h) => q \in Q.pInJournal \/ (Q.cache[q].val = h[q] /\ ~ Q.cache[q].dirty)
    BY <1>1, <1>3 DEF Changing
  <2>2. Q.eState = P.eState /\ Q.journalOff = P.journalOff /\ \A q : Synced(s, Q, f, q) <=> Synced(s, P, f, q)
    BY <1>1, SyncedSame DEF Same, SamePlace, SameLog
  <2>3. \A q \in Q.pInJournal : q <= Len(h) =>
          /\ Recorded(f, Q.journalOff, q)
          /\ Q.eState = "DBMOD" => Synced(s, Q, f, q) \/ (q \in Cached(Q) /\ Q.cache[q].needSync)
    BY <1>1, <2>2 DEF Changing
  <2>4. \A q \in Cached(Q) : q \in S /\ ~ Q.cache[q].dirty => q <= Len(db) /\ db[q] = Q.cache[q].val
    BY <1>1 DEF Changing
  <2>5. \A q \in 1 .. Len(h) : db[q] = h[q] \/ (Q.eState = "DBMOD" /\ q \in Q.pInJournal /\ Synced(s, Q, f, q))
    BY <1>1, <2>2 DEF Changing
  <2> QED
    BY <2>1, <2>3, <2>4, <2>5 DEF Changing
<1> QED
  BY <1>1, <1>2, <1>4 DEF Q

(* Only page p is another, and it is in the journal if it must.            *)
LEMMA ChangedPage ==
  ASSUME NEW P, NEW Q, Same(P, Q), Q.pInJournal = P.pInJournal, NEW p, Differs(P, Q, p), Cached(Q) = Cached(P),
         NEW s, NEW f, NEW d, NEW h, NEW S, NEW T, Changing(s, P, f, d, h, S),
         P.cache[p].needSync => Q.cache[p].needSync,
         p <= Len(h) => p \in P.pInJournal,
         \A q \in Cached(Q) : q \in T /\ ~ Q.cache[q].dirty => q \in S /\ Q.cache[q].val = P.cache[q].val /\ ~ P.cache[q].dirty
  PROVE  Changing(s, Q, f, d, h, T)
<1>1. \A q \in Cached(P) : q # p => Q.cache[q] = P.cache[q]
  BY DEF Differs
<1>2. Q.eState = P.eState /\ Q.journalOff = P.journalOff /\ \A q : Synced(s, Q, f, q) <=> Synced(s, P, f, q)
  BY SyncedSame DEF Same, SamePlace, SameLog
<1>3. \A q \in Cached(Q) : q <= Len(h) => q \in Q.pInJournal \/ (Q.cache[q].val = h[q] /\ ~ Q.cache[q].dirty)
  BY <1>1 DEF Changing
<1>4. \A q \in Q.pInJournal : q <= Len(h) =>
        /\ Recorded(f, Q.journalOff, q)
        /\ Q.eState = "DBMOD" => Synced(s, Q, f, q) \/ (q \in Cached(Q) /\ Q.cache[q].needSync)
  BY <1>1, <1>2 DEF Changing
<1>5. \A q \in Cached(Q) : q \in T /\ ~ Q.cache[q].dirty => q <= Len(d) /\ d[q] = Q.cache[q].val
  BY DEF Changing
<1>6. \A q \in 1 .. Len(h) : d[q] = h[q] \/ (Q.eState = "DBMOD" /\ q \in Q.pInJournal /\ Synced(s, Q, f, q))
  BY <1>2 DEF Changing
<1> QED
  BY <1>3, <1>4, <1>5, <1>6 DEF Changing

LEMMA AddChanges ==
  ASSUME NEW P, NEW Q, Turns(P, Q), AddsTo(P, Q), NEW p \in Cached(P),
         Q.pInJournal = P.pInJournal \cup {p}, Cached(Q) = Cached(P), Differs(P, Q, p),
         Q.cache[p].needSync, Q.cache[p].val = P.cache[p].val, Q.cache[p].dirty = P.cache[p].dirty,
         NEW s, NEW f, NEW g, NEW d, NEW h, NEW S, Changing(s, P, f, d, h, S),
         \A q : Recorded(f, P.journalOff, q) => Recorded(g, Q.journalOff, q),
         \A q : Synced(s, P, f, q) => Synced(s, Q, g, q),
         Recorded(g, Q.journalOff, p)
  PROVE  Changing(s, Q, g, d, h, S)
<1>1. \A q \in Cached(P) : /\ Q.cache[q].val = P.cache[q].val /\ Q.cache[q].dirty = P.cache[q].dirty
                           /\ P.cache[q].needSync => Q.cache[q].needSync
  BY DEF Differs
<1>2. Q.eState = P.eState
  BY DEF Turns, SamePlace
<1>3. \A q \in Cached(Q) : q <= Len(h) => q \in Q.pInJournal \/ (Q.cache[q].val = h[q] /\ ~ Q.cache[q].dirty)
  BY <1>1 DEF Changing
<1>4. \A q \in Q.pInJournal : q <= Len(h) =>
        /\ Recorded(g, Q.journalOff, q)
        /\ Q.eState = "DBMOD" => Synced(s, Q, g, q) \/ (q \in Cached(Q) /\ Q.cache[q].needSync)
  BY <1>1, <1>2 DEF Changing
<1>5. \A q \in Cached(Q) : q \in S /\ ~ Q.cache[q].dirty => q <= Len(d) /\ d[q] = Q.cache[q].val
  BY <1>1 DEF Changing
<1>6. \A q \in 1 .. Len(h) : d[q] = h[q] \/ (Q.eState = "DBMOD" /\ q \in Q.pInJournal /\ Synced(s, Q, g, q))
  BY <1>2 DEF Changing
<1> QED
  BY <1>3, <1>4, <1>5, <1>6 DEF Changing

(* A page gets into the journal, if it must.                               *)
LEMMA JournaledFiled ==
  ASSUME NEW n \in Nat, NEW t \in PairAt(n), NEW p \in Cached(t.P),
         NEW s, NEW d, NEW h \in Seq(Page), NEW a, NEW S, Filed(s, t, d, h, n, a, S)
  PROVE  LET u == Journaled(t, p) IN
         /\ Filed(s, u, d, h, n, a, S) /\ (p <= Len(h) => p \in u.P.pInJournal)
         /\ Turns(t.P, u.P) /\ Cached(u.P) = Cached(t.P) /\ Differs(t.P, u.P, p)
         /\ u.P.dbSize = t.P.dbSize /\ u.P.dbFileVers = t.P.dbFileVers
<1> DEFINE P == t.P
           f == t.f
<1>1. P \in PagerAt(n) /\ f \in Seq(SlotsAt(n)) /\ p \in Cached(P)
  BY DEF PairAt
<1>2. P.dbOrigSize \in Nat /\ Len(h) \in Nat /\ p \in Nat /\ p >= 1
  BY <1>1, NotEmpty, PageIs, PagerAssumption DEF PagerAt
<1>3. /\ P.eState \in {"CACHEMOD", "DBMOD"} /\ P.at \notin {"sync", "pages"}
      /\ Logged(s, P, f, h, n, a) /\ Changing(s, P, f, d, h, S)
  BY DEF Filed
<1>4. Len(h) <= P.dbOrigSize /\ (h = << >> => P.dbOrigSize = 0)
  BY <1>3 DEF Logged, Spans
<1>5. CASE p \in P.pInJournal
  <2>1. Journaled(t, p) = t
    BY <1>5 DEF Journaled
  <2>2. Turns(P, P) /\ Differs(P, P, p)
    BY <1>1 DEF Turns, SamePlace, SameFlags, SameSizes, Differs
  <2> QED
    BY <1>5, <2>1, <2>2
<1>6. CASE p \notin P.pInJournal /\ p <= P.dbOrigSize
  <2> DEFINE u == AddToJournal(t, p)
             Q == u.P
             g == u.f
             r == Record(p, P.cache[p].val, P.tx)
  <2>1. Journaled(t, p) = u
    BY <1>6 DEF Journaled
  <2>2. /\ Turns(P, Q) /\ Q.dbSize = P.dbSize /\ Q.dbFileVers = P.dbFileVers
        /\ AddsTo(P, Q) /\ Q.pInJournal = P.pInJournal \cup {p}
        /\ Cached(Q) = Cached(P) /\ Differs(P, Q, p)
        /\ Q.cache[p].needSync /\ Q.cache[p].val = P.cache[p].val /\ Q.cache[p].dirty = P.cache[p].dirty
        /\ g = Put(f, Q.journalOff, r)
    BY AddedSame
  <2>3. g \in Seq(SlotsAt(n)) /\ r \in SlotsAt(n)
    BY <1>1, AddIs, RecordIs DEF PairAt
  <2>4. r.kind = "record" /\ r.nonce = P.tx /\ r.pgno = p /\ r.val = P.cache[p].val
    BY DEF Record
  <2> HIDE DEF u, Q, g, r, P, f
  <2>5. h # << >>
    BY <1>2, <1>4, <1>6
  <2>6. p <= Len(h) => P.cache[p].val = h[p]
    BY <1>1, <1>3, <1>6 DEF Changing
  <2> DEFINE m == P.journalOff
             o == Q.journalOff
  <2>7. m \in Nat /\ o = m + 1 /\ m \in 1 .. Len(f) /\ Len(f) \in Nat
    BY <1>1, <1>3, <2>2 DEF AddsTo, PagerAt, Logged, Journals, Mine
  <2> HIDE DEF m, o
  <2>8. Longer(f, g, o) /\ g[o] = r /\ Len(g) \in Nat
    <3> DEFINE e == Len(f) + 1
    <3>1. e = Len(f) + 1 /\ o \in 1 .. e
      BY <2>7
    <3> HIDE DEF e
    <3>2. g = Put(f, o, r)
      BY <2>2 DEF o
    <3>3. LET x == Put(f, o, r) IN
          /\ x \in Seq(SlotsAt(n)) /\ Len(x) \in Nat /\ Len(f) \in Nat /\ Len(f) <= Len(x) /\ o <= Len(x) /\ Len(x) <= e
          /\ x[o] = r /\ \A k \in 1 .. Len(f) : k # o => x[k] = f[k]
          /\ \A k \in 1 .. Len(x) : k = o \/ k \in 1 .. Len(f)
      BY <1>1, <2>3, <3>1, PutSame
    <3> QED
      BY <2>4, <3>2, <3>3 DEF Longer
  <2>9. Logged(s, Q, g, h, n, a)
    <3>1. Longer(f, g, Q.journalOff) /\ g[Q.journalOff] = r
      BY <2>8 DEF o
    <3> QED
      BY <1>1, <1>3, <2>2, <2>3, <2>4, <2>5, <2>6, <3>1, AddLogs
  <2>10. /\ \A q : Recorded(f, m, q) => Recorded(g, o, q)
         /\ \A k \in Nat : \A q : k <= m /\ Recorded(f, k, q) => Recorded(g, k, q)
         /\ Recorded(g, o, p)
    <3>1. m <= Len(f) /\ g[o].pgno = p
      BY <2>4, <2>7, <2>8
    <3> QED
      BY <2>7, <2>8, <3>1, LongerRecorded
  <2>11. \A q : Synced(s, P, f, q) => Synced(s, Q, g, q)
    <3>1. Q.journalHdr = P.journalHdr /\ P.journalHdr \in Nat
      BY <1>1, <2>2 DEF AddsTo, PagerAt
    <3>2. CASE Lax(s)
      BY <2>10, <3>2 DEF Synced, m, o
    <3>3. CASE ~ Lax(s)
      <4>1. P.journalHdr < m
        BY <1>3, <3>3 DEF Logged, Journals, Unsynced, Filling, m
      <4>2. P.journalHdr <= m
        BY <2>7, <3>1, <4>1
      <4> QED
        BY <2>10, <3>1, <3>3, <4>2 DEF Synced
    <3> QED
      BY <3>2, <3>3
  <2>12. Changing(s, Q, g, d, h, S)
    BY <1>1, <1>3, <2>2, <2>10, <2>11, AddChanges DEF m, o
  <2>13. Q.eState = P.eState /\ Q.at = P.at
    BY <2>2 DEF AddsTo
  <2>14. Filed(s, u, d, h, n, a, S)
    BY <1>3, <2>9, <2>12, <2>13 DEF Filed, Q, g
  <2>15. p \in Q.pInJournal
    BY <2>2
  <2> QED
    BY <2>1, <2>2, <2>14, <2>15 DEF P, Q
<1>7. CASE p \notin P.pInJournal /\ ~ (p <= P.dbOrigSize)
  <2> DEFINE Q == Appended(P, p)
             u == [t EXCEPT !.P = Q]
  <2>1. Journaled(t, p) = u
    BY <1>7 DEF Journaled
  <2>2. /\ OtherCache(P, Q) /\ Cached(Q) = Cached(P) /\ Differs(P, Q, p)
        /\ Q.cache[p].val = P.cache[p].val /\ Q.cache[p].dirty = P.cache[p].dirty
        /\ P.cache[p].needSync => Q.cache[p].needSync
    BY <1>1, AppendedSame
  <2>3. u.P = Q /\ u.f = f
    <3> HIDE DEF Q
    <3> QED
      BY DEF PairAt
  <2> HIDE DEF Q, u, P, f
  <2>4. ~ (p <= Len(h))
    BY <1>2, <1>4, <1>7
  <2>5. Same(P, Q) /\ Q.pInJournal = P.pInJournal /\ Q.dbSize = P.dbSize /\ Q.dbFileVers = P.dbFileVers
    BY <2>2 DEF OtherCache
  <2>6. Logged(s, Q, f, h, n, a)
    BY <1>3, <2>5, LoggedSame
  <2>7. \A q \in Cached(Q) : Q.cache[q].val = P.cache[q].val /\ Q.cache[q].dirty = P.cache[q].dirty
    BY <2>2 DEF Differs
  <2>8. Changing(s, Q, f, d, h, S)
    BY <1>3, <2>2, <2>4, <2>5, <2>7, ChangedPage
  <2>9. Turns(P, Q) /\ Q.eState = P.eState /\ Q.at = P.at
    BY <2>5 DEF Same, Turns, SamePlace, SameLog
  <2>10. Filed(s, u, d, h, n, a, S)
    BY <1>3, <2>3, <2>6, <2>8, <2>9 DEF Filed
  <2> QED
    BY <2>1, <2>2, <2>3, <2>4, <2>5, <2>9, <2>10 DEF P
<1> QED
  BY <1>5, <1>6, <1>7

(* pager_write: from S on, the changed pages are S and p.                  *)
Rewrites(P, Q, p, v) ==
  /\ Turns(P, Q) /\ Differs(P, Q, p) /\ Q.cache[p].val = v /\ Q.cache[p].dirty
  /\ Q.dbSize = (IF P.dbSize < p THEN p ELSE P.dbSize)
  /\ p \in Cached(P) \/ p # 1 => Q.dbFileVers = P.dbFileVers

LEMMA ChangingLess ==
  ASSUME NEW P, NEW s, NEW f, NEW d, NEW h, NEW S, NEW T, T \subseteq S, Changing(s, P, f, d, h, S)
  PROVE  Changing(s, P, f, d, h, T)
BY DEF Changing

LEMMA PageFiled ==
  ASSUME NEW n \in Nat, NEW t \in PairAt(n), NEW p \in 1 .. MaxPage, NEW v \in ContentAt(n), db \in Seq(ContentAt(n)),
         NEW s, NEW h \in Seq(Page), NEW a, NEW S, Filed(s, t, db, h, n, a, S), Len(h) <= Len(db),
         p \in Cached(t.P) \/ t.P.dbOrigSize <= t.P.dbSize
  PROVE  LET u == pager_write(t, p, v) IN
         /\ Filed(s, u, db, h, n, a, S \cup {p}) /\ (p <= Len(h) => p \in u.P.pInJournal)
         /\ Rewrites(t.P, u.P, p, v) /\ u \in PairAt(n)
<1> DEFINE P == t.P
           Q == getPage(P, p)
           g == [t EXCEPT !.P = getPage(t.P, p)]
           w == Journaled(g, p)
           R == Modified(w.P, p, v)
           u == [w EXCEPT !.P = Modified(w.P, p, v)]
           T == S \ {p}
<1>1. P \in PagerAt(n) /\ t.f \in Seq(SlotsAt(n)) /\ p \in Nat
  BY PagerAssumption DEF PairAt
<1>2. pager_write(t, p, v) = u
  BY DEF pager_write
<1>3. T \subseteq S /\ p \notin T
  OBVIOUS
<1>4. /\ P.eState \in {"CACHEMOD", "DBMOD"} /\ P.at \notin {"sync", "pages"}
      /\ Logged(s, P, t.f, h, n, a) /\ Changing(s, P, t.f, db, h, T)
  BY <1>3, ChangingLess DEF Filed
<1>5. /\ Same(P, Q) /\ Q.dbSize = P.dbSize /\ Q.pInJournal = P.pInJournal
      /\ Differs(P, Q, p) /\ (p \in Cached(P) \/ p # 1 => Q.dbFileVers = P.dbFileVers)
      /\ Q \in PagerAt(n) /\ Cached(Q) = Cached(P) \cup {p}
  BY <1>1, GetPageSame, GetPageIs
<1> HIDE DEF T
<1>6. Same(P, Q) /\ Logged(s, Q, t.f, h, n, a) /\ Changing(s, Q, t.f, db, h, T)
  BY <1>1, <1>3, <1>4, GetFiled
<1>7. g \in PairAt(n) /\ g.P = Q /\ g.f = t.f
  BY <1>5, PairIs
<1> HIDE DEF P, Q, g
<1>8. Filed(s, g, db, h, n, a, T)
  BY <1>4, <1>6, <1>7 DEF Filed, Same, SamePlace
<1>9. p \in Cached(g.P)
  BY <1>5, <1>7
<1>10. /\ Filed(s, w, db, h, n, a, T) /\ (p <= Len(h) => p \in w.P.pInJournal)
       /\ Turns(g.P, w.P) /\ Cached(w.P) = Cached(g.P) /\ Differs(g.P, w.P, p)
       /\ w.P.dbSize = g.P.dbSize /\ w.P.dbFileVers = g.P.dbFileVers
  BY <1>7, <1>8, <1>9, JournaledFiled
<1>11. w \in PairAt(n) /\ w.P \in PagerAt(n) /\ p \in Cached(w.P)
  <2>1. w \in PairAt(n)
    BY <1>7, <1>9, JournaledIs
  <2> HIDE DEF w
  <2> QED
    BY <1>9, <1>10, <2>1 DEF PairAt
<1> HIDE DEF w
<1>12. /\ Same(w.P, R) /\ R.dbSize = (IF w.P.dbSize < p THEN p ELSE w.P.dbSize)
       /\ R.pInJournal = w.P.pInJournal /\ R.dbFileVers = w.P.dbFileVers
       /\ Cached(R) = Cached(w.P) /\ Differs(w.P, R, p) /\ R.cache[p].val = v /\ R.cache[p].dirty
       /\ R.cache[p].needSync = w.P.cache[p].needSync /\ R \in PagerAt(n)
  BY <1>11, ModifiedSame, ModifiedIs
<1> HIDE DEF R
<1>13. u = [w EXCEPT !.P = R]
  BY DEF R
<1> HIDE DEF u
<1>14. u \in PairAt(n) /\ u.P = R /\ u.f = w.f
  BY <1>11, <1>12, <1>13, PairIs
<1> DEFINE V == w.P
<1>15. Logged(s, V, w.f, h, n, a) /\ Changing(s, V, w.f, db, h, T) /\ (p <= Len(h) => p \in V.pInJournal)
  BY <1>10 DEF Filed
<1>16. Logged(s, R, w.f, h, n, a)
  BY <1>12, <1>15, LoggedSame
<1>17. \A q \in Cached(R) : q \in S \cup {p} /\ ~ R.cache[q].dirty =>
         q \in T /\ R.cache[q].val = V.cache[q].val /\ ~ V.cache[q].dirty
  BY <1>12 DEF Differs, T
<1> DEFINE X == S \cup {p}
<1>18. Changing(s, R, w.f, db, h, X)
  <2>1. \A q \in Cached(R) : q \in X /\ ~ R.cache[q].dirty =>
         q \in T /\ R.cache[q].val = V.cache[q].val /\ ~ V.cache[q].dirty
    BY <1>17
  <2> HIDE DEF X, V
  <2>2. Same(V, R) /\ R.pInJournal = V.pInJournal /\ Differs(V, R, p) /\ Cached(R) = Cached(V)
        /\ (V.cache[p].needSync => R.cache[p].needSync)
    BY <1>12 DEF V
  <2> QED
    BY <1>15, <2>1, <2>2, ChangedPage
<1>19. Filed(s, u, db, h, n, a, X)
  BY <1>10, <1>12, <1>14, <1>16, <1>18 DEF Filed, Same, SamePlace
<1>20. Rewrites(P, R, p, v)
  <2>1. Turns(P, R)
    BY <1>5, <1>7, <1>10, <1>12 DEF Same, Turns, SamePlace, SameFlags, SameSizes, SameLog
  <2>2. Differs(P, R, p)
    BY <1>5, <1>7, <1>10, <1>12 DEF Differs
  <2>3. R.dbSize = (IF P.dbSize < p THEN p ELSE P.dbSize) /\ (p \in Cached(P) \/ p # 1 => R.dbFileVers = P.dbFileVers)
    BY <1>5, <1>7, <1>10, <1>12
  <2> QED
    BY <1>12, <2>1, <2>2, <2>3 DEF Rewrites
<1> QED
  BY <1>2, <1>12, <1>14, <1>15, <1>19, <1>20 DEF P

(* A new page, of which nothing is known.                                  *)
LEMMA NewFiled ==
  ASSUME NEW n \in Nat, NEW t \in PairAt(n), NEW p \in 1 .. MaxPage,
         NEW s, NEW d, NEW h, NEW a, NEW S, Filed(s, t, d, h, n, a, S), p \notin S,
         ~ t.P.bDoTruncate => ~ (p <= Len(h))
  PROVE  LET u == NewPage(t, p) IN
         /\ Filed(s, u, d, h, n, a, S) /\ u \in PairAt(n)
         /\ Turns(t.P, u.P) /\ u.P.dbSize = t.P.dbSize /\ u.P.dbFileVers = t.P.dbFileVers
         /\ \A q \in Cached(t.P) : q \in Cached(u.P) /\ (q # p => u.P.cache[q] = t.P.cache[q])
         /\ Cached(u.P) \subseteq Cached(t.P) \cup {p}
<1> DEFINE P == t.P
           f == t.f
           Q == Unwanted(P, p)
           u == [t EXCEPT !.P = Q]
<1>1. P \in PagerAt(n) /\ f \in Seq(SlotsAt(n))
  BY DEF PairAt
<1>2. CASE P.bDoTruncate
  <2>1. NewPage(t, p) = t
    BY <1>2 DEF NewPage
  <2>2. Turns(P, P)
    BY DEF Turns, SamePlace, SameFlags, SameSizes
  <2> QED
    BY <2>1, <2>2
<1>3. CASE ~ P.bDoTruncate
  <2>1. NewPage(t, p) = u
    BY <1>3 DEF NewPage, NoContent
  <2>2. /\ Same(P, Q) /\ Q.dbSize = P.dbSize /\ Q.dbFileVers = P.dbFileVers
        /\ Q.pInJournal = P.pInJournal \cup ({p} \cap 1 .. P.dbOrigSize) /\ Differs(P, Q, p)
    BY <1>1, UnwantedSame
  <2>3. Q \in PagerAt(n)
    BY <1>1, UnwantedIs
  <2>4. ~ (p <= Len(h))
    BY <1>3
  <2>7. /\ P.eState \in {"CACHEMOD", "DBMOD"} /\ P.at \notin {"sync", "pages"}
        /\ Logged(s, P, f, h, n, a) /\ Changing(s, P, f, d, h, S)
    BY DEF Filed
  <2> HIDE DEF Q, P, f
  <2>5. u \in PairAt(n) /\ u.P = Q /\ u.f = f
    BY <2>3, PairIs DEF f
  <2> HIDE DEF u
  <2>8. Logged(s, Q, f, h, n, a)
    BY <2>2, <2>7, LoggedSame
  <2>9. Changing(s, Q, f, d, h, S)
    <3>1. \A q : q # p /\ q \in Q.pInJournal => q \in P.pInJournal
      BY <2>2
    <3>2. P.pInJournal \subseteq Q.pInJournal
      BY <2>2
    <3>3. \A q \in Cached(Q) : q # p => q \in Cached(P) /\ Q.cache[q] = P.cache[q]
      BY <2>2 DEF Differs
    <3>4. Q.eState = P.eState /\ Q.journalOff = P.journalOff /\ \A q : Synced(s, Q, f, q) <=> Synced(s, P, f, q)
      BY <2>2, SyncedSame DEF Same, SamePlace, SameLog
    <3>5. \A q \in Cached(Q) : q <= Len(h) => q \in Q.pInJournal \/ (Q.cache[q].val = h[q] /\ ~ Q.cache[q].dirty)
      BY <2>4, <2>7, <3>2, <3>3 DEF Changing
    <3>6. \A q \in Q.pInJournal : q <= Len(h) =>
            /\ Recorded(f, Q.journalOff, q)
            /\ Q.eState = "DBMOD" => Synced(s, Q, f, q) \/ (q \in Cached(Q) /\ Q.cache[q].needSync)
      <4> SUFFICES ASSUME NEW q \in Q.pInJournal, q <= Len(h)
                   PROVE  /\ Recorded(f, Q.journalOff, q)
                          /\ Q.eState = "DBMOD" => Synced(s, Q, f, q) \/ (q \in Cached(Q) /\ Q.cache[q].needSync)
        OBVIOUS
      <4>1. q # p /\ q \in P.pInJournal
        BY <2>4, <3>1
      <4>2. q \in Cached(P) => q \in Cached(Q) /\ Q.cache[q] = P.cache[q]
        BY <2>2, <4>1 DEF Differs
      <4> QED
        BY <2>7, <3>4, <4>1, <4>2 DEF Changing
    <3>7. \A q \in Cached(Q) : q \in S /\ ~ Q.cache[q].dirty => q <= Len(d) /\ d[q] = Q.cache[q].val
      BY <2>7, <3>3 DEF Changing
    <3>8. \A q \in 1 .. Len(h) : d[q] = h[q] \/ (Q.eState = "DBMOD" /\ q \in Q.pInJournal /\ Synced(s, Q, f, q))
      BY <2>7, <3>2, <3>4 DEF Changing
    <3> QED
      BY <3>5, <3>6, <3>7, <3>8 DEF Changing
  <2>10. Filed(s, u, d, h, n, a, S)
    BY <2>2, <2>5, <2>7, <2>8, <2>9 DEF Filed, Same, SamePlace
  <2>11. Turns(P, Q)
    BY <2>2 DEF Same, Turns, SameLog
  <2>12. /\ \A q \in Cached(P) : q \in Cached(Q) /\ (q # p => Q.cache[q] = P.cache[q])
         /\ Cached(Q) \subseteq Cached(P) \cup {p}
    BY <2>2 DEF Differs
  <2> QED
    BY <2>1, <2>2, <2>5, <2>10, <2>11, <2>12 DEF P
<1> QED
  BY <1>2, <1>3

(* A header is written.                                                    *)
Heads(P, Q, o) ==
  /\ SamePlace(P, Q) /\ SameFlags(P, Q) /\ SameSizes(P, Q)
  /\ Q.nRec = P.nRec /\ Q.tx = P.tx /\ Q.pInJournal = P.pInJournal /\ Q.dbSize = P.dbSize
  /\ Q.cache = P.cache /\ Q.dbFileVers = P.dbFileVers
  /\ Q.journalHdr = P.journalOff /\ Q.journalOff = o

LEMMA HeaderSame ==
  ASSUME NEW n \in Nat, NEW s \in PairAt(n), NEW o, o = s.P.journalOff + 1
  PROVE  LET t == writeJournalHdr(s) IN
         /\ Heads(s.P, t.P, o) /\ t.f = Put(s.f, o, Header(noSync, InitialCount, s.P.dbOrigSize, s.P.tx))
<1> DEFINE P == s.P
           Q == [P EXCEPT !.journalHdr = P.journalOff, !.journalOff = P.journalOff + 1]
           g == Put(s.f, P.journalOff + 1, Header(noSync, InitialCount, P.dbOrigSize, P.tx))
<1>1. P \in PagerAt(n)
  BY DEF PairAt
<1>2. writeJournalHdr(s) = [P |-> Q, f |-> g]
  BY <1>1 DEF writeJournalHdr, PagerAt
<1>3. o = P.journalOff + 1
  OBVIOUS
<1> HIDE DEF P
<1>4. Q = [P EXCEPT !.journalHdr = P.journalOff, !.journalOff = o] /\ g = Put(s.f, o, Header(noSync, InitialCount, P.dbOrigSize, P.tx))
  BY <1>3
<1> HIDE DEF Q, g
<1>5. Heads(P, Q, o)
  BY <1>1, <1>4 DEF PagerAt, Heads, SamePlace, SameFlags, SameSizes
<1> QED
  BY <1>2, <1>4, <1>5 DEF P

(* What a pager knows of its transaction.                                  *)
Begun(P, d, h) ==
  /\ P.hasHeldSharedLock /\ P.dbFileVers.ver >= 0 /\ (h # << >> => P.dbFileVers = h[1])
  /\ P.dbFileSize = Len(d) /\ (P.eState = "CACHEMOD" => Len(d) = P.dbOrigSize)
  /\ Size(P) <= P.dbSize /\ (~ P.bDoTruncate => Len(h) <= Size(P))
  /\ ~ P.changeCountDone

OpensLog(P) == [P EXCEPT !.eState = "CACHEMOD", !.pInJournal = {}, !.nRec = 0, !.journalOff = 0]

LEMMA OpensLogIs ==
  ASSUME NEW n, NEW P \in PagerAt(n)
  PROVE  LET Q == OpensLog(P) IN
         /\ Q \in PagerAt(n) /\ Q.eState = "CACHEMOD" /\ Q.pInJournal = {} /\ Q.nRec = 0 /\ Q.journalOff = 0
         /\ Q.at = P.at /\ Q.goal = P.goal /\ Q.k = P.k /\ SameFlags(P, Q) /\ SameSizes(P, Q)
         /\ Q.tx = P.tx /\ Q.dbSize = P.dbSize /\ Q.cache = P.cache /\ Q.dbFileVers = P.dbFileVers
BY DEF PagerAt, OpensLog, States, SameFlags, SameSizes

(* The journal starts.                                                     *)
LEMMA NewLog ==
  ASSUME NEW n \in Nat, NEW P \in PagerAt(n), P.eState = "CACHEMOD", P.at = "idle", P.goal = "none",
         P.journalHdr = 0, P.journalOff = 1, P.nRec = 0,
         NEW s, NEW h, NEW f \in Seq(SlotsAt(n)), NEW g, NEW a,
         g = Put(f, 1, Header(Lax(s), IF Lax(s) THEN ALL ELSE 0, P.dbOrigSize, P.tx)),
         Spans(P.dbOrigSize, h), Stamps(f, 0, P.tx), Alone(s, f, 1, h), Stamps(f, 0, n + 1), NoneYet(f, h),
         Kept(s, f, h)
  PROVE  Logged(s, P, g, h, n, a)
<1> DEFINE r == Header(Lax(s), IF Lax(s) THEN ALL ELSE 0, P.dbOrigSize, P.tx)
           e == Len(f) + 1
<1>1. /\ r.kind = "header" /\ r.magic = Lax(s) /\ r.nRec = (IF Lax(s) THEN ALL ELSE 0)
      /\ r.orig = P.dbOrigSize /\ r.nonce = P.tx
  BY DEF Header
<1>2. r \in SlotsAt(n) /\ P.tx \in 0 .. n
  <2>1. P.dbOrigSize \in Nat /\ P.tx \in 0 .. n
    BY DEF PagerAt
  <2>2. Lax(s) \in BOOLEAN
    BY DEF Lax
  <2> QED
    BY <2>1, <2>2 DEF SlotsAt, HeaderSlots, Header
<1>3. Len(f) \in Nat /\ e = Len(f) + 1 /\ 1 \in 1 .. e
  BY NotEmpty
<1> HIDE DEF r, e
<1>4. g = Put(f, 1, r)
  BY DEF r
<1>5. /\ Len(g) \in Nat /\ 1 <= Len(g) /\ g[1] = r /\ \A k \in 1 .. Len(f) : k # 1 => g[k] = f[k]
      /\ \A k \in 1 .. Len(g) : k = 1 \/ k \in 1 .. Len(f)
  <2>1. LET x == Put(f, 1, r) IN
        /\ x \in Seq(SlotsAt(n)) /\ Len(x) \in Nat /\ Len(f) \in Nat /\ Len(f) <= Len(x) /\ 1 <= Len(x) /\ Len(x) <= e
        /\ x[1] = r /\ \A k \in 1 .. Len(f) : k # 1 => x[k] = f[k]
        /\ \A k \in 1 .. Len(x) : k = 1 \/ k \in 1 .. Len(f)
    BY <1>2, <1>3, PutSame
  <2> QED
    BY <1>4, <2>1
<1>6. \A k \in 2 .. Len(g) : k \in 1 .. Len(f) /\ g[k] = f[k]
  <2> SUFFICES ASSUME NEW k \in 2 .. Len(g) PROVE k \in 1 .. Len(f) /\ g[k] = f[k]
    OBVIOUS
  <2>1. k \in 1 .. Len(g) /\ k # 1
    BY <1>5
  <2> QED
    BY <1>5, <2>1
<1>7. Mine(P, g)
  <2>1. Stamps(g, 1, P.tx)
    <3> SUFFICES ASSUME NEW i \in 1 + 1 .. Len(g), g[i].kind \in {"header", "record"} PROVE g[i].nonce < P.tx
      BY DEF Stamps
    <3>1. i \in 2 .. Len(g)
      OBVIOUS
    <3>2. i \in 0 + 1 .. Len(f) /\ g[i] = f[i]
      BY <1>6, <3>1
    <3> QED
      BY <3>2 DEF Stamps
  <2>2. \A i \in 1 .. 1 : g[i].kind \in {"header", "record"} /\ g[i].nonce = P.tx
    BY <1>1, <1>5
  <2> QED
    BY <1>1, <1>5, <2>1, <2>2 DEF Mine
<1>8. Tidy(f, 1) => Tidy(g, 1)
  <2> SUFFICES ASSUME Tidy(f, 1), NEW i \in 1 + 1 .. Len(g) PROVE g[i].kind # "header"
    BY DEF Tidy
  <2>1. i \in 2 .. Len(g)
    OBVIOUS
  <2>2. i \in 1 .. Len(f) /\ i \in 1 + 1 .. Len(f) /\ g[i] = f[i]
    BY <1>3, <1>6, <2>1
  <2> QED
    BY <2>2 DEF Tidy
<1>9. Alone(s, g, 1, h)
  BY <1>8 DEF Alone
<1>10. NoneYet(g, h)
  <2> SUFFICES ASSUME h = << >>, NEW i \in DOMAIN g PROVE g[i].kind # "record"
    BY DEF NoneYet
  <2>1. CASE i = 1
    BY <1>1, <1>5, <2>1
  <2>2. CASE i # 1
    <3>1. i \in 2 .. Len(g) /\ DOMAIN f = 1 .. Len(f)
      <4>1. g \in Seq(SlotsAt(n))
        BY <1>2, <1>4, PutIs
      <4> HIDE DEF r
      <4> QED
        BY <1>5, <2>2, <4>1
    <3> QED
      BY <1>6, <3>1 DEF NoneYet
  <2> QED
    BY <2>1, <2>2
<1>11. Kept(s, g, h)
  <2>1. Careful(s) => Tidy(g, 1) \/ h = << >>
    BY <1>9 DEF Alone
  <2>2. Careful(s) => Tidy(g, 1) \/ s.spilling
    BY <1>8 DEF Kept
  <2> QED
    BY <2>1, <2>2 DEF Kept
<1>12. Stamps(g, 0, n + 1)
  <2> SUFFICES ASSUME NEW i \in 0 + 1 .. Len(g), g[i].kind \in {"header", "record"} PROVE g[i].nonce < n + 1
    BY DEF Stamps
  <2>1. CASE i = 1
    BY <1>1, <1>2, <1>5, <2>1
  <2>2. CASE i # 1
    <3>1. i \in 2 .. Len(g)
      BY <1>5, <2>2
    <3>2. i \in 0 + 1 .. Len(f) /\ g[i] = f[i]
      BY <1>6, <3>1
    <3> QED
      BY <3>2 DEF Stamps
  <2> QED
    BY <2>1, <2>2
<1>13. Right(g, Recs(g, 1, 1), h)
  BY <1>1, <1>5 DEF Right, Recs
<1>14. IF Lax(s) THEN Endless(P, g) ELSE Unsynced(P, g)
  <2>1. OnlyRecords(g, 2, 1) /\ OnlyRecords(g, 0 + 2, 1)
    BY DEF OnlyRecords
  <2>2. IsHeader(g, 0) /\ g[0 + 1] = g[1]
    BY <1>1, <1>5 DEF IsHeader
  <2>3. Sections(g, 0)
    BY DEF Sections
  <2>4. CASE Lax(s)
    BY <1>1, <1>5, <2>1, <2>4 DEF Endless
  <2>5. CASE ~ Lax(s)
    <3>1. Filling(P, g)
      BY <2>1, <2>2, <2>3 DEF Filling
    <3> QED
      BY <1>1, <1>5, <2>2, <2>5, <3>1 DEF Unsynced
  <2> QED
    BY <2>4, <2>5
<1>15. Journals(s, P, g, h)
  BY <1>7, <1>9, <1>13, <1>14 DEF Journals
<1> QED
  BY <1>9, <1>10, <1>11, <1>12, <1>15 DEF Logged

(* What is open for a writer.                                              *)
LEMMA OpenedFiled ==
  ASSUME IInv, SBody, NEW c \in Conns, pager[c].eState \in Writing, Idle(c)
  PROVE  LET t == Opened(c)
             P == pager[c]
         IN /\ t \in PairAt(ntx) /\ t.P.at = "idle" /\ t.P.goal = "none"
            /\ Filed(setting, t, db, Latest1, ntx, t.P.eState # "DBMOD", 1 .. Size(P))
            /\ Begun(t.P, db, Latest1) /\ t.P.dbOrigSize <= t.P.dbSize
            /\ t.P.cache = P.cache /\ t.P.dbFileVers = P.dbFileVers
            /\ t.P.eState \in {"CACHEMOD", "DBMOD"} /\ (t.P.eState = "DBMOD" <=> P.eState = "DBMOD")
            /\ 1 \in Cached(P) /\ Size(P) \in Nat
<1> DEFINE P == pager[c]
           f == jrnl.slots
           h == Latest1
           s == setting
           t == Opened(c)
           r == [P |-> P, f |-> f]
<1>1. /\ P \in PagerAt(ntx) /\ Fares(s, P, lock[c], c \in reserved, jrnl, db, h, history)
      /\ Safe(s, jrnl, db, ntx, h, history) /\ f \in Seq(SlotsAt(ntx)) /\ h \in Seq(Page) /\ ntx \in Nat
      /\ P.eState \in Writing /\ P.at = "idle" /\ db \in Seq(ContentAt(ntx))
  BY Known DEF Idle
<1>2. P.goal = "none" /\ 1 \in Cached(P) /\ (P.eState = "LOCKED" => P.journalHdr = 0)
  BY <1>1, WriterIs DEF Acts
<1>3. t \in PairAt(ntx)
  BY OpenedIs
<1>4. Size(P) \in Nat
  BY <1>1, <1>2, PageIs DEF Size
<1>5. CASE P.eState # "LOCKED"
  <2>1. t = r
    BY <1>5 DEF Opened
  <2>2. P.eState \in {"CACHEMOD", "DBMOD"} /\ P.goal # "rollback" /\ P.at # "release"
    BY <1>1, <1>2, <1>5 DEF Writing
  <2>3. Changes(s, P, f, db, h) /\ Sizes(P, db, h) /\ Version(P, h) /\ Journals(s, P, f, h)
    BY <1>1, <2>2 DEF Fares
  <2>4. P.eState # "DBMOD" => Alone(s, f, 1, h)
    BY <1>1, <2>2 DEF Fares, Relies
  <2>5. Logged(s, P, f, h, ntx, P.eState # "DBMOD")
    BY <1>1, <2>3, <2>4 DEF Logged, Safe, Sizes
  <2>6. ~ Committing(P)
    BY <1>2 DEF Committing
  <2>7. Begun(P, db, h) /\ P.dbOrigSize <= P.dbSize
    <3>1. P.hasHeldSharedLock /\ P.dbFileVers.ver >= 0
      BY <1>1, <2>2 DEF Fares
    <3> QED
      BY <1>1, <2>3, <2>6, <3>1 DEF Sizes, Version, Begun
  <2>8. r.P = P /\ r.f = f
    OBVIOUS
  <2> HIDE DEF r, P, t
  <2>9. Filed(s, r, db, h, ntx, P.eState # "DBMOD", 1 .. Size(P))
    BY <1>1, <2>2, <2>3, <2>5, <2>8 DEF Filed, Changes
  <2> QED
    BY <1>1, <1>2, <1>3, <1>4, <2>1, <2>2, <2>7, <2>8, <2>9 DEF P, t
<1>6. CASE P.eState = "LOCKED"
  <2> DEFINE Q == OpensLog(P)
             w == [P |-> Q, f |-> f]
             T == t.P
             g == t.f
  <2>1. t = writeJournalHdr(w)
    <3>1. [r EXCEPT !.P = Q] = w
      OBVIOUS
    <3>2. [r EXCEPT !.P = [r.P EXCEPT !.eState = "CACHEMOD", !.pInJournal = {}, !.nRec = 0, !.journalOff = 0]] = w
      BY <3>1 DEF OpensLog
    <3> QED
      BY <1>6, <3>2 DEF Opened, OpenJournal
  <2>2. /\ Q \in PagerAt(ntx) /\ Q.eState = "CACHEMOD" /\ Q.pInJournal = {} /\ Q.nRec = 0 /\ Q.journalOff = 0
        /\ Q.at = P.at /\ Q.goal = P.goal /\ Q.k = P.k /\ SameFlags(P, Q) /\ SameSizes(P, Q)
        /\ Q.tx = P.tx /\ Q.dbSize = P.dbSize /\ Q.cache = P.cache /\ Q.dbFileVers = P.dbFileVers
    BY <1>1, OpensLogIs
  <2>10. w \in PairAt(ntx) /\ w.P = Q /\ w.f = f
    BY <1>1, <2>2 DEF PairAt
  <2>3. Heads(Q, T, 1) /\ g = Put(f, 1, Header(noSync, InitialCount, Q.dbOrigSize, Q.tx))
    <3> HIDE DEF Q, w, t
    <3>1. 1 = w.P.journalOff + 1
      BY <2>2, <2>10
    <3>2. LET x == writeJournalHdr(w) IN
          /\ Heads(w.P, x.P, 1) /\ x.f = Put(w.f, 1, Header(noSync, InitialCount, w.P.dbOrigSize, w.P.tx))
      BY <1>1, <2>10, <3>1, HeaderSame
    <3> QED
      BY <2>1, <2>10, <3>2
  <2>4. Reading(P, db, h) /\ P.dbOrigSize = P.dbSize /\ P.dbFileSize = P.dbSize /\ Stamps(f, 0, P.tx)
    BY <1>1, <1>6 DEF Fares
  <2>5. Holds(db, h) /\ Alone(s, f, 1, h)
    BY <1>1, <1>6 DEF Fares, Relies
  <2>6. P.hasHeldSharedLock /\ P.dbFileVers.ver >= 0
    BY <1>1, <1>6 DEF Fares
  <2> HIDE DEF Q, w, P, t
  <2>7. /\ T.eState = "CACHEMOD" /\ T.at = "idle" /\ T.goal = "none" /\ T.pInJournal = {} /\ T.nRec = 0
        /\ T.journalHdr = 0 /\ T.journalOff = 1 /\ T.dbOrigSize = P.dbOrigSize /\ T.dbFileSize = P.dbFileSize
        /\ T.tx = P.tx /\ T.dbSize = P.dbSize /\ T.cache = P.cache /\ T.dbFileVers = P.dbFileVers
        /\ T.hasHeldSharedLock = P.hasHeldSharedLock /\ T.changeCountDone = P.changeCountDone
        /\ T.bDoTruncate = P.bDoTruncate
    BY <1>1, <1>2, <2>2, <2>3 DEF Heads, SamePlace, SameFlags, SameSizes
  <2>8. T \in PagerAt(ntx)
    BY <1>3 DEF PairAt
  <2>9. Size(T) = Size(P) /\ Cached(T) = Cached(P)
    BY <2>7 DEF Size, Cached
  <2>11. Len(h) \in Nat /\ Len(db) \in Nat /\ (Len(h) = 0 <=> h = << >>) /\ (db = << >> => Len(db) = 0)
    BY <1>1, NotEmpty
  <2>12. Knows(P, h) /\ Settled(P) /\ P.dbSize = Len(db)
    BY <2>4 DEF Reading
  <2>13. Spans(T.dbOrigSize, h)
    BY <2>4, <2>5, <2>7, <2>11, <2>12 DEF Spans, Holds
  <2>14. Logged(s, T, g, h, ntx, T.eState # "DBMOD")
    <3>1. g = Put(f, 1, Header(Lax(s), IF Lax(s) THEN ALL ELSE 0, T.dbOrigSize, T.tx))
      <4>1. noSync = Lax(s) /\ Q.dbOrigSize = T.dbOrigSize /\ Q.tx = T.tx
        BY <2>2, <2>7 DEF noSync, Synchronous, Lax, SameSizes
      <4> QED
        BY <2>3, <4>1 DEF InitialCount
    <3>2. Stamps(f, 0, T.tx) /\ NoneYet(f, h) /\ Stamps(f, 0, ntx + 1) /\ Kept(s, f, h)
      BY <1>1, <2>4, <2>7 DEF Safe
    <3> HIDE DEF s, f, h, g, T
    <3> QED
      BY <1>1, <2>5, <2>7, <2>8, <2>13, <3>1, <3>2, NewLog
  <2>15. Size(P) = Len(h) \/ (h = << >> /\ Size(P) = 0)
    <3>1. CASE h = << >>
      <4>1. P.cache[1].val = Zero
        BY <1>2, <2>12, <3>1 DEF Knows, Zeroed
      <4> QED
        BY <3>1, <4>1 DEF Size, Zero
    <3>2. CASE h # << >>
      <4>1. 1 <= Len(h) /\ P.cache[1].val = h[1]
        BY <1>1, <1>2, <2>11, <2>12, <3>2, NotEmpty DEF Knows, Shows
      <4>2. Whole(h)
        BY <1>1, LatestIs DEF Grows, Latest, Latest1
      <4> QED
        BY <3>2, <4>1, <4>2 DEF Whole, Size
    <3> QED
      BY <3>1, <3>2
  <2>16. Changing(s, T, g, db, h, 1 .. Size(P))
    <3>1. \A p \in Cached(T) : p <= Len(h) => T.cache[p].val = h[p] /\ ~ T.cache[p].dirty
      <4> SUFFICES ASSUME NEW p \in Cached(T), p <= Len(h) PROVE T.cache[p].val = h[p] /\ ~ T.cache[p].dirty
        OBVIOUS
      <4>1. h # << >>
        <5>1. p \in 1 .. MaxPage
          BY <2>8, PageIs
        <5> QED
          BY <2>11, <5>1, PagerAssumption
      <4> QED
        BY <2>7, <2>9, <2>12, <4>1 DEF Knows, Shows, Settled, Clear
    <3>2. \A p \in Cached(T) : p \in 1 .. Size(P) => p <= Len(db) /\ db[p] = T.cache[p].val
      <4> SUFFICES ASSUME NEW p \in Cached(T), p \in 1 .. Size(P) PROVE p <= Len(db) /\ db[p] = T.cache[p].val
        OBVIOUS
      <4>1. p \in 1 .. Len(h)
        BY <2>11, <2>15
      <4>2. Len(h) <= Len(db) /\ db[p] = h[p]
        BY <2>5, <4>1 DEF Holds
      <4> QED
        BY <2>11, <3>1, <4>1, <4>2
    <3>3. \A p \in 1 .. Len(h) : db[p] = h[p]
      BY <2>5 DEF Holds
    <3> QED
      BY <2>7, <3>1, <3>2, <3>3 DEF Changing
  <2>17. Begun(T, db, h) /\ T.dbOrigSize <= T.dbSize
    <3>1. h # << >> => T.dbFileVers = h[1]
      BY <2>7, <2>12 DEF Knows
    <3>2. Size(T) <= T.dbSize /\ Len(h) <= Size(T)
      BY <2>5, <2>7, <2>9, <2>11, <2>12, <2>15 DEF Holds
    <3>3. T.dbOrigSize <= T.dbSize
      BY <2>4, <2>7, <2>11, <2>12
    <3> QED
      BY <2>4, <2>6, <2>7, <2>12, <3>1, <3>2, <3>3 DEF Begun, Settled
  <2>18. Filed(s, t, db, h, ntx, T.eState # "DBMOD", 1 .. Size(P))
    <3>1. T.eState \in {"CACHEMOD", "DBMOD"} /\ T.at \notin {"sync", "pages"}
      BY <2>7
    <3> QED
      BY <2>14, <2>16, <3>1 DEF Filed
  <2> HIDE DEF T
  <2> QED
    BY <1>2, <1>3, <1>4, <1>6, <2>7, <2>17, <2>18 DEF P, t, T
<1> QED
  BY <1>5, <1>6

(* The pair becomes the state.                                             *)
LEMMA PairStores ==
  ASSUME IInv, LInv, SBody, NEW c \in Conns, NEW t \in PairAt(ntx), Wrote(c, t), UNCHANGED <<levels, db, counters>>,
         pager[c].eState \in Writing, t.P.eState \in {"CACHEMOD", "DBMOD"}, t.P.goal # "rollback",
         t.P.eState = "DBMOD" <=> pager[c].eState = "DBMOD",
         Logged(setting, t.P, t.f, Latest1, ntx, t.P.eState # "DBMOD"),
         Changes(setting, t.P, t.f, db, Latest1), Sizes(t.P, db, Latest1), Version(t.P, Latest1),
         t.P.hasHeldSharedLock, t.P.dbFileVers.ver >= 0
  PROVE  SBody'
<1> DEFINE P == pager[c]
           h == Latest1
           s == setting
           Q == t.P
           g == t.f
<1>1. /\ P \in PagerAt(ntx) /\ Fares(s, P, lock[c], c \in reserved, jrnl, db, h, history)
      /\ Safe(s, jrnl, db, ntx, h, history) /\ h \in Seq(Page) /\ ntx \in Nat /\ db \in Seq(ContentAt(ntx))
      /\ jrnl \in JournalAt(ntx)
  BY Known
<1>2. Q \in PagerAt(ntx) /\ g \in Seq(SlotsAt(ntx))
  BY DEF PairAt
<1>3. Set(c, Q) /\ jrnl' = [exists |-> TRUE, slots |-> g, fresh |-> jrnl.fresh \/ ~ jrnl.exists]
  BY DEF Wrote
<1>4. (jrnl.fresh \/ ~ jrnl.exists) \in BOOLEAN
  OBVIOUS
<1>5. jrnl' \in JournalAt(ntx) /\ jrnl'.slots = g /\ jrnl'.exists
  BY Zenon, <1>1, <1>2, <1>3, <1>4, JournalIs
<1>6. lock[c] >= RESERVED_LOCK /\ c \in reserved /\ (P.eState = "DBMOD" => lock[c] = EXCLUSIVE_LOCK)
  BY WriterLock
<1>7. LockStep(c) /\ lock'[c] = lock[c] /\ (c \in reserved' <=> c \in reserved)
  BY Unlocked
<1>8. db' = db /\ ntx' = ntx /\ setting' = setting /\ history' = history /\ h' = h
  BY DEF counters, Latest1
<1>9. P.eState # "DBMOD" => Holds(db, h) /\ Alone(s, g, 1, h)
  <2>1. P.eState \in {"LOCKED", "CACHEMOD", "DBMOD"}
    BY DEF Writing
  <2> QED
    BY <1>1, <2>1 DEF Fares, Relies, Logged
<1>10. Q.eState \in {"CACHEMOD", "DBMOD"} /\ (Q.eState = "DBMOD" <=> P.eState = "DBMOD")
  OBVIOUS
<1>11. /\ Relies(Q, lock'[c], (c \in reserved)') => Holds(db, h) /\ Alone(s, jrnl'.slots, 1, h)
       /\ (c \in reserved)' => lock'[c] >= RESERVED_LOCK
       /\ Q.eState = "CACHEMOD" => Holds(db, h)
  <2>1. Relies(Q, lock'[c], (c \in reserved)') => P.eState # "DBMOD"
    BY <1>6, <1>7, <1>10 DEF Relies
  <2> QED
    BY <1>5, <1>6, <1>7, <1>9, <1>10, <2>1
<1>12. Gives(jrnl', db, h) /\ Fares(s, Q, lock'[c], (c \in reserved)', jrnl', db, h, history)
  <2>1. Changes(s, Q, jrnl'.slots, db, h) /\ Journals(s, Q, jrnl'.slots, h)
    BY <1>5 DEF Logged
  <2>2. Covers(db, h)
    BY <1>1 DEF Safe, Covers
  <2>3. Sizes(Q, db, h) /\ Version(Q, h) /\ Q.hasHeldSharedLock /\ Q.dbFileVers.ver >= 0 /\ Q.goal # "rollback"
    OBVIOUS
  <2> HIDE DEF Q, h, s
  <2>4. Gives(jrnl', db, h)
    <3>1. Q \in PagerAt(ntx) /\ jrnl' \in JournalAt(ntx) /\ db \in Seq(ContentAt(ntx))
      BY <1>1, <1>2, <1>5
    <3>2. Q.eState \in {"CACHEMOD", "DBMOD"} /\ jrnl'.exists /\ (Q.eState = "CACHEMOD" => Holds(db, h))
      BY <1>5, <1>10, <1>11
    <3>3. Changes(s, Q, jrnl'.slots, db, h) /\ Journals(s, Q, jrnl'.slots, h) /\ Sizes(Q, db, h) /\ Covers(db, h)
      BY <2>1, <2>2, <2>3
    <3> QED
      BY ONLY <3>1, <3>2, <3>3, WriterGives
  <2>5. Fares(s, Q, lock'[c], (c \in reserved)', jrnl', db, h, history)
    BY <1>5, <1>10, <1>11, <2>1, <2>3 DEF Fares
  <2> QED
    BY <2>4, <2>5
<1>13. Safe(s, jrnl', db, ntx, h, history)
  BY <1>1, <1>5, <1>12 DEF Safe, Logged
<1>14. MayMove(c)
  BY <1>5, <1>6, <1>8, <1>9 DEF MayMove
<1> HIDE DEF Q, s, h, g
<1> QED
  BY <1>3, <1>7, <1>8, <1>12, <1>13, <1>14, Steps DEF s, h, Q

(* From a pair at work to a writer that may go on.                         *)
LEMMA BegunFits ==
  ASSUME NEW Q, NEW d, NEW h, NEW s, NEW f, NEW n, NEW a, Begun(Q, d, h), Logged(s, Q, f, h, n, a),
         Q.dbOrigSize <= Q.dbSize, 1 <= Size(Q), Q.goal = "none"
  PROVE  Sizes(Q, d, h) /\ Version(Q, h)
<1>1. Spans(Q.dbOrigSize, h)
  BY DEF Logged
<1>2. ~ Committing(Q)
  BY DEF Committing
<1> QED
  BY <1>1, <1>2 DEF Begun, Sizes, Version

(* The header page counts the pages.                                       *)
LEMMA Counts1 ==
  ASSUME NEW n \in Nat, NEW t \in PairAt(n), NEW v \in ContentAt(n), db \in Seq(ContentAt(n)),
         NEW s, NEW h \in Seq(Page), NEW a, NEW S, Filed(s, t, db, h, n, a, S), Len(h) <= Len(db),
         1 \in Cached(t.P), Begun(t.P, db, h), t.P.dbOrigSize <= t.P.dbSize,
         ~ t.P.bDoTruncate => Len(h) <= v.sz
  PROVE  LET u == pager_write(t, 1, v) IN
         /\ u \in PairAt(n) /\ Filed(s, u, db, h, n, a, S \cup {1}) /\ u.P.eState = t.P.eState /\ u.P.goal = t.P.goal
         /\ 1 \in Cached(u.P) /\ Size(u.P) = v.sz /\ u.P.bDoTruncate = t.P.bDoTruncate
         /\ u.P.dbOrigSize <= u.P.dbSize /\ t.P.dbSize <= u.P.dbSize /\ 1 <= u.P.dbSize
         /\ v.sz <= u.P.dbSize => Begun(u.P, db, h)
         /\ Rewrites(t.P, u.P, 1, v) /\ (h # << >> => 1 \in u.P.pInJournal)
<1> DEFINE u == pager_write(t, 1, v)
           P == t.P
           Q == u.P
<1>1. 1 \in 1 .. MaxPage
  BY PagerAssumption
<1>2. /\ Filed(s, u, db, h, n, a, S \cup {1}) /\ (1 <= Len(h) => 1 \in Q.pInJournal)
      /\ Rewrites(P, Q, 1, v) /\ u \in PairAt(n)
  BY <1>1, PageFiled
<1>3. P \in PagerAt(n) /\ P.dbSize \in Nat /\ P.dbOrigSize \in Nat /\ P.dbSize <= P.dbSize
  BY DEF PairAt, PagerAt
<1> HIDE DEF u, Q, P
<1>4. /\ Turns(P, Q) /\ Differs(P, Q, 1) /\ Q.cache[1].val = v
      /\ Q.dbSize = (IF P.dbSize < 1 THEN 1 ELSE P.dbSize) /\ Q.dbFileVers = P.dbFileVers
  BY <1>2 DEF Rewrites, P
<1>5. Size(Q) = v.sz /\ 1 \in Cached(Q)
  BY <1>4 DEF Size, Differs
<1>6. P.dbSize <= Q.dbSize /\ 1 <= Q.dbSize
  BY <1>3, <1>4
<1>7. Q.dbOrigSize <= Q.dbSize
  <2>1. P.dbOrigSize <= P.dbSize /\ Q.dbOrigSize = P.dbOrigSize
    BY <1>4 DEF P, Turns, SameSizes
  <2> QED
    BY <1>3, <1>4, <2>1
<1>8. v.sz <= Q.dbSize => Begun(Q, db, h)
  <2>1. Begun(P, db, h) /\ (~ P.bDoTruncate => Len(h) <= v.sz)
    BY DEF P
  <2> QED
    BY <1>4, <1>5, <2>1 DEF Begun, Turns, SamePlace, SameFlags, SameSizes
<1>9. Q.eState = P.eState /\ Q.goal = P.goal /\ Q.bDoTruncate = P.bDoTruncate
  BY <1>4 DEF Turns, SamePlace, SameFlags
<1>10. h # << >> => 1 <= Len(h)
  BY NotEmpty
<1> QED
  BY <1>2, <1>5, <1>6, <1>7, <1>8, <1>9, <1>10 DEF P, Q, u

LEMMA VacuumStores == ASSUME IInv, LInv, SBody, NEW c \in Conns, Vacuum(c) PROVE SBody'
<1> DEFINE P == pager[c]
           m == Size(P)
           o == Opened(c)
           v == [P.cache[1].val EXCEPT !.sz = m - 1]
           t == pager_write(o, 1, v)
           Q == [t.P EXCEPT !.bDoTruncate = TRUE]
           w == [t EXCEPT !.P = Q]
           h == Latest1
           s == setting
           z == m - 1
<1>1. /\ P.eState \in Writing /\ Idle(c) /\ m > 1
      /\ Wrote(c, w) /\ UNCHANGED <<levels, db, ddb, djrnl, counters>>
  BY DEF Vacuum
<1>2. /\ P \in PagerAt(ntx) /\ ntx \in Nat /\ db \in Seq(ContentAt(ntx)) /\ h \in Seq(Page) /\ Len(h) <= Len(db)
  BY Known DEF Safe
<1>3. /\ o \in PairAt(ntx) /\ o.P.at = "idle" /\ o.P.goal = "none"
      /\ Filed(s, o, db, h, ntx, o.P.eState # "DBMOD", 1 .. m)
      /\ Begun(o.P, db, h) /\ o.P.dbOrigSize <= o.P.dbSize
      /\ o.P.cache = P.cache /\ o.P.eState \in {"CACHEMOD", "DBMOD"}
      /\ (o.P.eState = "DBMOD" <=> P.eState = "DBMOD") /\ 1 \in Cached(P) /\ m \in Nat
  BY <1>1, OpenedFiled
<1> HIDE DEF P, o, m, h, s
<1>4. v \in ContentAt(ntx) /\ v.sz = m - 1 /\ 1 \in Cached(o.P) /\ m \in 0 .. MaxPage
  <2>1. P.cache[1].val \in ContentAt(ntx) /\ m \in 0 .. MaxPage
    BY <1>2, <1>3, PageIs DEF Size, m
  <2>2. z \in 0 .. MaxPage
    BY <1>1, <1>3, <2>1, PagerAssumption
  <2>3. v = [P.cache[1].val EXCEPT !.sz = z]
    OBVIOUS
  <2>4. 1 \in Cached(o.P)
    BY <1>3 DEF Cached
  <2> HIDE DEF z
  <2>5. [P.cache[1].val EXCEPT !.sz = z] \in ContentAt(ntx) /\ [P.cache[1].val EXCEPT !.sz = z].sz = z
    BY <2>1, <2>2 DEF ContentAt
  <2> QED
    BY <2>1, <2>3, <2>4, <2>5 DEF z
<1> HIDE DEF v
<1> DEFINE a == o.P.eState # "DBMOD"
<1>5. 1 \in 1 .. MaxPage /\ Filed(s, o, db, h, ntx, a, 1 .. m)
  BY <1>3, PagerAssumption
<1> HIDE DEF a
<1>6. /\ Filed(s, t, db, h, ntx, a, (1 .. m) \cup {1}) /\ Rewrites(o.P, t.P, 1, v) /\ t \in PairAt(ntx)
  BY <1>2, <1>3, <1>4, <1>5, PageFiled
<1> HIDE DEF t
<1> DEFINE R == t.P
<1>7. R \in PagerAt(ntx) /\ t.f \in Seq(SlotsAt(ntx))
  BY <1>6 DEF PairAt
<1>8. /\ Turns(o.P, R) /\ Differs(o.P, R, 1) /\ R.cache[1].val = v
      /\ R.dbSize = (IF o.P.dbSize < 1 THEN 1 ELSE o.P.dbSize) /\ R.dbFileVers = o.P.dbFileVers
  BY <1>4, <1>6 DEF Rewrites
<1>9. Logged(s, R, t.f, h, ntx, a) /\ Changing(s, R, t.f, db, h, (1 .. m) \cup {1})
  BY <1>6 DEF Filed
<1> HIDE DEF R
<1>10. Q = [R EXCEPT !.bDoTruncate = TRUE]
  BY DEF R
<1> HIDE DEF Q
<1>11. Q \in PagerAt(ntx) /\ SamePlace(R, Q) /\ SameSizes(R, Q) /\ SameLog(R, Q)
       /\ Q.dbSize = R.dbSize /\ Q.cache = R.cache /\ Q.pInJournal = R.pInJournal /\ Q.dbFileVers = R.dbFileVers
       /\ Q.hasHeldSharedLock = R.hasHeldSharedLock /\ Q.changeCountDone = R.changeCountDone /\ Q.bDoTruncate
  BY <1>7, <1>10 DEF PagerAt, SamePlace, SameSizes, SameLog
<1>12. w \in PairAt(ntx) /\ w.P = Q /\ w.f = t.f
  <2>1. w = [t EXCEPT !.P = Q]
    OBVIOUS
  <2> HIDE DEF w
  <2> QED
    BY <1>6, <1>11, <2>1, PairIs
<1> HIDE DEF w
<1>13. Logged(s, Q, t.f, h, ntx, a)
  <2>1. /\ Q.eState = R.eState /\ Q.at = R.at /\ Q.goal = R.goal /\ Q.dbOrigSize = R.dbOrigSize
        /\ Q.journalHdr = R.journalHdr /\ Q.journalOff = R.journalOff /\ Q.nRec = R.nRec /\ Q.tx = R.tx
    BY <1>11 DEF SamePlace, SameSizes, SameLog
  <2>2. Mine(R, t.f) => Mine(Q, t.f)
    BY <2>1 DEF Mine
  <2>3. /\ Endless(R, t.f) => Endless(Q, t.f)
        /\ Closed(R, t.f) => Closed(Q, t.f)
        /\ Done(R, t.f) => Done(Q, t.f)
        /\ Unsynced(R, t.f) => Unsynced(Q, t.f)
    BY <2>1 DEF Endless, Closed, Done, Unsynced, Filling
  <2>4. Journals(s, R, t.f, h) => Journals(s, Q, t.f, h)
    BY <2>1, <2>2, <2>3 DEF Journals
  <2> QED
    BY <1>9, <2>1, <2>4 DEF Logged
<1>14. Size(Q) = m - 1
  BY <1>4, <1>8, <1>11 DEF Size
<1>15. Changes(s, Q, t.f, db, h)
  <2>1. (1 .. Size(Q)) \subseteq (1 .. m) \cup {1}
    BY <1>1, <1>3, <1>14
  <2>2. Changing(s, R, t.f, db, h, 1 .. Size(Q))
    BY <1>9, <2>1, ChangingLess
  <2>3. Cached(Q) = Cached(R)
    BY <1>11 DEF Cached
  <2> QED
    BY <1>11, <2>2, <2>3 DEF Changes, Changing, Synced, SamePlace, SameLog
<1>16. Begun(Q, db, h) /\ Q.dbOrigSize <= Q.dbSize /\ 1 <= Size(Q)
  <2>1. o.P.dbSize \in Nat /\ o.P.dbOrigSize \in Nat
    BY <1>3 DEF PairAt, PagerAt
  <2>2. m <= o.P.dbSize
    BY <1>3 DEF Begun, Size, m
  <2>3. Size(Q) <= Q.dbSize /\ 1 <= Size(Q)
    BY <1>1, <1>3, <1>8, <1>11, <1>14, <2>1, <2>2
  <2>4. Q.dbOrigSize = o.P.dbOrigSize
    BY <1>8, <1>11 DEF Turns, SameSizes
  <2>5. Q.dbOrigSize <= Q.dbSize
    BY <1>3, <1>8, <1>11, <2>1, <2>4
  <2>6. Begun(Q, db, h)
    BY <1>3, <1>8, <1>11, <2>3 DEF Begun, Turns, SamePlace, SameFlags, SameSizes
  <2> QED
    BY <2>3, <2>5, <2>6
<1>17. Q.goal = "none" /\ Q.eState = o.P.eState
  BY <1>3, <1>8, <1>11 DEF Turns, SamePlace
<1>18. Sizes(Q, db, h) /\ Version(Q, h)
  BY <1>13, <1>16, <1>17, BegunFits
<1>19. Q.hasHeldSharedLock /\ Q.dbFileVers.ver >= 0
  BY <1>16 DEF Begun
<1>20. /\ w \in PairAt(ntx) /\ w.P = Q /\ w.f = t.f /\ Wrote(c, w) /\ UNCHANGED <<levels, db, counters>>
       /\ P.eState \in Writing /\ (Q.eState = "DBMOD" <=> P.eState = "DBMOD") /\ Q.eState \in {"CACHEMOD", "DBMOD"}
       /\ a <=> Q.eState # "DBMOD"
  BY <1>1, <1>3, <1>12, <1>17 DEF a
<1>21. Logged(s, Q, t.f, h, ntx, Q.eState # "DBMOD")
  BY <1>13, <1>20 DEF Logged
<1> QED
  BY <1>15, <1>17, <1>18, <1>19, <1>20, <1>21, PairStores DEF P, s, h

(* A pair at work, all of whose pages are accounted for.                   *)
Fit(s, t, h, n, a) ==
  /\ t \in PairAt(n) /\ Filed(s, t, db, h, n, a, 1 .. Size(t.P))
  /\ Begun(t.P, db, h) /\ t.P.dbOrigSize <= t.P.dbSize /\ 1 \in Cached(t.P)
Follows(P, Q) == Q.eState = P.eState /\ Q.goal = P.goal

LEMMA FilesLess ==
  ASSUME NEW s, NEW t, NEW d, NEW h, NEW n, NEW a, NEW S, NEW T, T \subseteq S, Filed(s, t, d, h, n, a, S)
  PROVE  Filed(s, t, d, h, n, a, T)
<1>1. Changing(s, t.P, t.f, d, h, T)
  BY ChangingLess DEF Filed
<1> QED
  BY <1>1 DEF Filed

LEMMA FitStores ==
  ASSUME IInv, LInv, SBody, NEW c \in Conns, NEW t, Wrote(c, t), UNCHANGED <<levels, db, counters>>,
         pager[c].eState \in Writing, t.P.eState \in {"CACHEMOD", "DBMOD"}, t.P.goal = "none",
         t.P.eState = "DBMOD" <=> pager[c].eState = "DBMOD", 1 <= Size(t.P),
         Fit(setting, t, Latest1, ntx, t.P.eState # "DBMOD")
  PROVE  SBody'
<1>1. /\ t \in PairAt(ntx) /\ Begun(t.P, db, Latest1) /\ t.P.dbOrigSize <= t.P.dbSize
      /\ Filed(setting, t, db, Latest1, ntx, t.P.eState # "DBMOD", 1 .. Size(t.P))
  BY DEF Fit
<1>2. /\ Logged(setting, t.P, t.f, Latest1, ntx, t.P.eState # "DBMOD")
      /\ Changes(setting, t.P, t.f, db, Latest1)
  BY <1>1 DEF Filed, Changes
<1>3. Sizes(t.P, db, Latest1) /\ Version(t.P, Latest1)
  BY <1>1, <1>2, BegunFits
<1>4. t.P.hasHeldSharedLock /\ t.P.dbFileVers.ver >= 0 /\ t.P.goal # "rollback"
  BY <1>1 DEF Begun
<1> QED
  BY <1>1, <1>2, <1>3, <1>4, PairStores

LEMMA TurnsOn ==
  ASSUME NEW P, NEW Q, NEW R, Turns(P, Q), Turns(Q, R)
  PROVE  Turns(P, R)
BY DEF Turns, SamePlace, SameFlags, SameSizes

LEMMA BegunOn ==
  ASSUME NEW P, NEW Q, NEW d, NEW h, Begun(P, d, h), Turns(P, Q), Q.dbFileVers = P.dbFileVers,
         Size(Q) <= Q.dbSize, ~ Q.bDoTruncate => Len(h) <= Size(Q)
  PROVE  Begun(Q, d, h)
BY DEF Begun, Turns, SamePlace, SameFlags, SameSizes

(* One of the pages that are there.                                        *)
LEMMA OldFits ==
  ASSUME NEW n \in Nat, NEW s, NEW t, NEW h \in Seq(Page), NEW a, Fit(s, t, h, n, a), db \in Seq(ContentAt(n)),
         NEW p \in 1 .. MaxPage, NEW m \in Nat, m = Size(t.P), p \in 2 .. m, NEW v \in ContentAt(n), Len(h) <= Len(db)
  PROVE  LET u == pager_write(t, p, v) IN Fit(s, u, h, n, a) /\ Size(u.P) = m /\ Follows(t.P, u.P)
<1> DEFINE u == pager_write(t, p, v)
           P == t.P
           Q == u.P
<1>1. /\ t \in PairAt(n) /\ Filed(s, t, db, h, n, a, 1 .. m) /\ P \in PagerAt(n)
      /\ Begun(P, db, h) /\ P.dbOrigSize <= P.dbSize /\ 1 \in Cached(P) /\ p # 1
      /\ m <= P.dbSize /\ (~ P.bDoTruncate => Len(h) <= m) /\ P.dbSize \in Nat
  BY DEF Fit, Begun, PairAt, PagerAt
<1>2. Filed(s, u, db, h, n, a, (1 .. m) \cup {p}) /\ Rewrites(P, Q, p, v) /\ u \in PairAt(n)
  BY <1>1, PageFiled
<1> HIDE DEF u, P
<1>3. (1 .. m) \cup {p} = 1 .. m
  OBVIOUS
<1>4. Turns(P, Q) /\ Differs(P, Q, p) /\ Q.dbFileVers = P.dbFileVers /\ Q.dbSize = (IF P.dbSize < p THEN p ELSE P.dbSize)
  BY <1>1, <1>2 DEF Rewrites
<1>5. Size(Q) = m /\ 1 \in Cached(Q)
  BY <1>1, <1>4 DEF Differs, Size, P
<1>6. Q.bDoTruncate = P.bDoTruncate /\ Q.dbOrigSize = P.dbOrigSize /\ Follows(P, Q)
  BY <1>4 DEF Turns, SameFlags, SamePlace, SameSizes, Follows
<1>7. P.dbOrigSize \in Nat
  BY <1>1 DEF PagerAt
<1>8. P.dbSize <= Q.dbSize /\ Q.dbSize \in Nat
  BY <1>1, <1>4
<1>9. Begun(Q, db, h)
  BY <1>1, <1>4, <1>5, <1>6, <1>8, BegunOn
<1>10. Q.dbOrigSize <= Q.dbSize
  BY <1>1, <1>6, <1>7, <1>8
<1> QED
  BY <1>2, <1>3, <1>5, <1>6, <1>9, <1>10 DEF Fit, u, P

(* The first.                                                              *)
LEMMA FirstFits ==
  ASSUME NEW n \in Nat, NEW s, NEW t, NEW h \in Seq(Page), NEW a, Fit(s, t, h, n, a), db \in Seq(ContentAt(n)),
         Size(t.P) = 0, NEW v \in ContentAt(n), v.sz = 1, Len(h) <= Len(db)
  PROVE  LET u == pager_write(t, 1, v) IN Fit(s, u, h, n, a) /\ Size(u.P) = 1 /\ Follows(t.P, u.P)
<1> DEFINE u == pager_write(t, 1, v)
           P == t.P
           Q == u.P
<1>1. /\ t \in PairAt(n) /\ Filed(s, t, db, h, n, a, 1 .. 0)
      /\ Begun(P, db, h) /\ P.dbOrigSize <= P.dbSize /\ 1 \in Cached(P)
      /\ (~ P.bDoTruncate => Len(h) <= 0)
  BY DEF Fit, Begun
<1>2. ~ P.bDoTruncate => Len(h) <= v.sz
  BY <1>1
<1>3. /\ Filed(s, u, db, h, n, a, (1 .. 0) \cup {1}) /\ u \in PairAt(n)
      /\ Q.eState = P.eState /\ Q.goal = P.goal /\ 1 \in Cached(Q) /\ Size(Q) = v.sz
      /\ Q.dbOrigSize <= Q.dbSize /\ 1 <= Q.dbSize
      /\ (v.sz <= Q.dbSize => Begun(Q, db, h))
  BY <1>1, <1>2, Counts1
<1> HIDE DEF u, P
<1>4. (1 .. 0) \cup {1} = 1 .. 1
  OBVIOUS
<1> QED
  BY <1>3, <1>4 DEF Fit, Follows, u, P

(* A new one behind the last.                                              *)
LEMMA NewFits ==
  ASSUME NEW n \in Nat, NEW s, NEW t, NEW h \in Seq(Page), NEW a, Fit(s, t, h, n, a), db \in Seq(ContentAt(n)),
         NEW m \in Nat \ {0}, m = Size(t.P), NEW p \in 1 .. MaxPage, p = m + 1, NEW w \in ContentAt(n), w.sz = p,
         NEW v \in ContentAt(n), Len(h) <= Len(db)
  PROVE  LET u == pager_write(NewPage(pager_write(t, 1, w), p), p, v) IN
         Fit(s, u, h, n, a) /\ Size(u.P) = p /\ Follows(t.P, u.P)
<1> DEFINE k == pager_write(t, 1, w)
           q == NewPage(k, p)
           u == pager_write(q, p, v)
           P == t.P
           K == k.P
           R == q.P
           Q == u.P
           S == (1 .. m) \cup {1}
<1>1. /\ t \in PairAt(n) /\ Filed(s, t, db, h, n, a, 1 .. m) /\ P \in PagerAt(n)
      /\ Begun(P, db, h) /\ P.dbOrigSize <= P.dbSize /\ 1 \in Cached(P)
      /\ (~ P.bDoTruncate => Len(h) <= m) /\ P.dbSize \in Nat /\ P.dbOrigSize \in Nat
  BY DEF Fit, Begun, PairAt, PagerAt
<1>2. Len(h) \in Nat /\ p # 1 /\ (~ P.bDoTruncate => Len(h) <= w.sz /\ ~ (p <= Len(h)))
  BY <1>1
<1>3. /\ Filed(s, k, db, h, n, a, S) /\ k \in PairAt(n)
      /\ K.eState = P.eState /\ K.goal = P.goal /\ 1 \in Cached(K) /\ Size(K) = w.sz
      /\ K.bDoTruncate = P.bDoTruncate /\ K.dbOrigSize <= K.dbSize /\ P.dbSize <= K.dbSize
      /\ Rewrites(P, K, 1, w)
  <2>1. (~ P.bDoTruncate => Len(h) <= w.sz) /\ Len(h) <= Len(db)
    BY <1>2
  <2> DEFINE T == 1 .. m
  <2>2. Filed(s, t, db, h, n, a, T) /\ S = T \cup {1}
    BY <1>1
  <2> HIDE DEF T, S
  <2> QED
    BY ONLY <1>1, <2>1, <2>2, n \in Nat, w \in ContentAt(n), h \in Seq(Page), db \in Seq(ContentAt(n)), Counts1
<1> HIDE DEF k, P
<1>4. Turns(P, K) /\ K.dbFileVers = P.dbFileVers
  BY <1>1, <1>3 DEF Rewrites
<1>5. p \notin S /\ S \cup {p} = 1 .. p
  OBVIOUS
<1> HIDE DEF S
<1>6. ~ K.bDoTruncate => ~ (p <= Len(h))
  BY <1>2, <1>3
<1>7. /\ Filed(s, q, db, h, n, a, S) /\ q \in PairAt(n)
      /\ Turns(K, R) /\ R.dbSize = K.dbSize /\ R.dbFileVers = K.dbFileVers
      /\ \A x \in Cached(K) : x \in Cached(R) /\ (x # p => R.cache[x] = K.cache[x])
  BY <1>3, <1>5, <1>6, NewFiled
<1> HIDE DEF q, K
<1>8. Size(R) = p /\ 1 \in Cached(R)
  BY <1>2, <1>3, <1>7 DEF Size
<1>9. R \in PagerAt(n) /\ R.dbOrigSize <= R.dbSize /\ R.dbSize \in Nat /\ R.dbOrigSize \in Nat
  <2>1. R \in PagerAt(n)
    BY <1>7 DEF PairAt
  <2>2. R.dbOrigSize = K.dbOrigSize
    BY <1>7 DEF Turns, SameSizes
  <2> QED
    BY <1>3, <1>7, <2>1, <2>2 DEF PagerAt
<1>10. Filed(s, u, db, h, n, a, 1 .. p) /\ Rewrites(R, Q, p, v) /\ u \in PairAt(n)
  <2>1. /\ Filed(s, u, db, h, n, a, S \cup {p}) /\ Rewrites(R, Q, p, v) /\ u \in PairAt(n)
    BY <1>7, <1>9, PageFiled
  <2> QED
    BY <1>5, <2>1
<1> HIDE DEF u, R
<1>11. Turns(R, Q) /\ Differs(R, Q, p) /\ Q.dbFileVers = R.dbFileVers /\ Q.dbSize = (IF R.dbSize < p THEN p ELSE R.dbSize)
  BY <1>2, <1>10 DEF Rewrites
<1>12. Size(Q) = p /\ 1 \in Cached(Q)
  BY <1>2, <1>8, <1>11 DEF Differs, Size
<1>13. Turns(P, Q)
  BY <1>4, <1>7, <1>11, TurnsOn
<1>14. Q.dbOrigSize = R.dbOrigSize /\ Q.bDoTruncate = P.bDoTruncate /\ Follows(P, Q)
  BY <1>11, <1>13 DEF Turns, SameFlags, SameSizes, SamePlace, Follows
<1>15. R.dbSize <= Q.dbSize /\ p <= Q.dbSize /\ Q.dbSize \in Nat /\ p \in Nat
  BY <1>9, <1>11
<1>16. ~ Q.bDoTruncate => Len(h) <= Size(Q)
  BY <1>2, <1>12, <1>14
<1>17. Begun(Q, db, h)
  BY <1>1, <1>4, <1>7, <1>11, <1>12, <1>13, <1>15, <1>16, BegunOn
<1>18. Q.dbOrigSize <= Q.dbSize
  BY <1>9, <1>14, <1>15
<1> QED
  BY <1>10, <1>12, <1>14, <1>17, <1>18 DEF Fit, u, q, k, P

LEMMA WriteStores == ASSUME IInv, LInv, SBody, NEW c \in Conns, NEW p, Write(c, p) PROVE SBody'
<1> DEFINE P == pager[c]
           m == Size(P)
           o == Opened(c)
           header == [ver |-> P.cache[1].val.ver, sz |-> p]
           counted == pager_write(o, 1, header)
           new == [ver |-> P.tx, sz |-> 0]
           t == CASE p = 1 -> counted
                  [] p \in 2 .. m -> pager_write(o, p, new)
                  [] OTHER -> pager_write(NewPage(counted, p), p, new)
           h == Latest1
           s == setting
           a == o.P.eState # "DBMOD"
<1>1. /\ P.eState \in Writing /\ Idle(c) /\ p \in 1 .. setting.pages /\ p <= m + 1 /\ (p = 1 => m = 0)
      /\ Wrote(c, t) /\ UNCHANGED <<levels, db, ddb, djrnl, counters>>
  BY DEF Write
<1>2. /\ P \in PagerAt(ntx) /\ ntx \in Nat /\ db \in Seq(ContentAt(ntx)) /\ h \in Seq(Page) /\ Len(h) <= Len(db)
  BY Known DEF Safe
<1>3. p \in 1 .. MaxPage /\ 1 \in 1 .. MaxPage /\ p \in Nat
  BY <1>1, SettingIs, PagerAssumption
<1>4. /\ o \in PairAt(ntx) /\ o.P.at = "idle" /\ o.P.goal = "none"
      /\ Filed(s, o, db, h, ntx, a, 1 .. m)
      /\ Begun(o.P, db, h) /\ o.P.dbOrigSize <= o.P.dbSize
      /\ o.P.cache = P.cache /\ o.P.eState \in {"CACHEMOD", "DBMOD"}
      /\ (o.P.eState = "DBMOD" <=> P.eState = "DBMOD") /\ 1 \in Cached(P) /\ m \in Nat
  BY <1>1, OpenedFiled
<1> HIDE DEF P, o, h, s
<1>5. 1 \in Cached(o.P) /\ Size(o.P) = m
  BY <1>4 DEF Cached, Size
<1>6. Fit(s, o, h, ntx, a)
  BY <1>4, <1>5 DEF Fit
<1>7. header \in ContentAt(ntx) /\ header.sz = p /\ new \in ContentAt(ntx)
  <2>1. P.cache[1].val.ver \in -1 .. ntx /\ P.tx \in 0 .. ntx
    BY <1>2, <1>4, PageIs DEF PagerAt
  <2>2. P.tx \in -1 .. ntx /\ 0 \in 0 .. MaxPage /\ p \in 0 .. MaxPage
    BY <1>2, <1>3, <2>1, PagerAssumption
  <2>3. \A x \in -1 .. ntx, y \in 0 .. MaxPage : [ver |-> x, sz |-> y] \in ContentAt(ntx)
    BY DEF ContentAt
  <2> QED
    BY <2>1, <2>2, <2>3
<1> HIDE DEF header, new, a, m
<1>8. Fit(s, t, h, ntx, a) /\ 1 <= Size(t.P) /\ Follows(o.P, t.P)
  <2>1. CASE p = 1
    <3>1. header.sz = 1 /\ Size(o.P) = 0
      BY <1>1, <1>5, <1>7, <2>1
    <3>2. Fit(s, counted, h, ntx, a) /\ Size(counted.P) = 1 /\ Follows(o.P, counted.P)
      BY <1>2, <1>6, <1>7, <3>1, FirstFits
    <3>3. t = counted
      BY <2>1
    <3> HIDE DEF t, counted
    <3> QED
      BY <3>2, <3>3
  <2>2. CASE p \in 2 .. m
    <3> DEFINE u == pager_write(o, p, new)
    <3>1. Fit(s, u, h, ntx, a) /\ Size(u.P) = m /\ Follows(o.P, u.P)
      BY <1>2, <1>3, <1>4, <1>5, <1>6, <1>7, <2>2, OldFits
    <3>2. p # 1 /\ 1 <= m
      BY <1>4, <2>2
    <3>3. t = u
      BY <2>2, <3>2
    <3> HIDE DEF t, u
    <3> QED
      BY <3>1, <3>2, <3>3
  <2>3. CASE p # 1 /\ ~ (p \in 2 .. m)
    <3> DEFINE u == pager_write(NewPage(counted, p), p, new)
    <3>1. p = m + 1 /\ m \in Nat \ {0} /\ 1 <= p
      BY <1>1, <1>3, <1>4, <2>3
    <3>2. Fit(s, u, h, ntx, a) /\ Size(u.P) = p /\ Follows(o.P, u.P)
      <4>1. m = Size(o.P)
        BY <1>5
      <4> HIDE DEF u
      <4> QED
        BY <1>2, <1>3, <4>1, <1>6, <1>7, <3>1, NewFits DEF u, counted
    <3>3. t = u
      BY <2>3
    <3> HIDE DEF t, u
    <3> QED
      BY <3>1, <3>2, <3>3
  <2> QED
    BY <2>1, <2>2, <2>3
<1> HIDE DEF t
<1>9. t.P.eState = o.P.eState /\ t.P.goal = "none" /\ (a <=> t.P.eState # "DBMOD")
  BY <1>4, <1>8 DEF Follows, a
<1>10. Fit(s, t, h, ntx, t.P.eState # "DBMOD")
  BY <1>8, <1>9 DEF Fit, Filed, Logged
<1> QED
  BY <1>1, <1>4, <1>8, <1>9, <1>10, FitStores DEF P, h, s

-----------------------------------------------------------------------------
(* The change counter, and with it the image, of a commit.                 *)
LEMMA SizedSame ==
  ASSUME NEW n, NEW P \in PagerAt(n), NEW m \in Nat
  PROVE  LET Q == [P EXCEPT !.dbSize = m] IN
         /\ Q \in PagerAt(n) /\ Same(P, Q) /\ Q.dbSize = m /\ Q.cache = P.cache /\ Q.pInJournal = P.pInJournal
         /\ Q.dbFileVers = P.dbFileVers
BY DEF PagerAt, Same, SamePlace, SameFlags, SameSizes, SameLog

LEMMA CountedSame ==
  ASSUME NEW n, NEW P \in PagerAt(n)
  PROVE  LET Q == Counted(P) IN
         /\ Q \in PagerAt(n) /\ SameSizes(P, Q) /\ SameLog(P, Q) /\ Q.dbSize = P.dbSize /\ Q.cache = P.cache
         /\ Q.pInJournal = P.pInJournal /\ Q.dbFileVers = P.dbFileVers /\ Q.hasHeldSharedLock = P.hasHeldSharedLock
         /\ Q.eState = P.eState /\ Q.goal = P.goal /\ Q.k = P.k /\ Q.bDoTruncate = P.bDoTruncate
         /\ Q.at = "count" /\ Q.changeCountDone
BY CountedIs DEF PagerAt, Counted, SameSizes, SameLog

LEMMA LoggedTurns ==
  ASSUME NEW P, NEW Q, SameLog(P, Q), Q.eState = P.eState, Q.goal = "spill" => P.goal = "spill",
         Q.dbOrigSize = P.dbOrigSize, Q.at = P.at \/ {P.at, Q.at} \cap {"sync", "pages"} = {},
         NEW s, NEW f, NEW h, NEW n, NEW a, Logged(s, P, f, h, n, a)
  PROVE  Logged(s, Q, f, h, n, a)
<1>1. Q.journalHdr = P.journalHdr /\ Q.journalOff = P.journalOff /\ Q.nRec = P.nRec /\ Q.tx = P.tx
  BY DEF SameLog
<1>2. Mine(P, f) => Mine(Q, f)
  BY <1>1 DEF Mine
<1>3. /\ Endless(P, f) => Endless(Q, f)
      /\ Unsynced(P, f) => Unsynced(Q, f)
      /\ Closed(P, f) => Closed(Q, f)
      /\ Done(P, f) => Done(Q, f)
  BY <1>1 DEF Endless, Unsynced, Filling, Closed, Done
<1>4. Journals(s, P, f, h) => Journals(s, Q, f, h)
  BY <1>1, <1>2, <1>3 DEF Journals
<1> QED
  BY <1>1, <1>4 DEF Logged

CountsFrom(P, v, d, h, S) ==
  /\ S = 1 .. Size(P)
  /\ 1 \in Cached(P) /\ Size(P) \in Nat /\ 1 <= Size(P) /\ Size(P) <= P.dbSize /\ Spans(P.dbOrigSize, h)
  /\ P.dbFileSize = Len(d) /\ (P.eState = "CACHEMOD" => Len(d) = P.dbOrigSize)
  /\ (~ P.bDoTruncate => Len(h) <= Size(P)) /\ Len(h) <= Len(d)
  /\ P.goal = "commit" /\ P.hasHeldSharedLock /\ P.dbFileVers.ver >= 0 /\ (h # << >> => P.dbFileVers = h[1])
  /\ v.sz = Size(P) /\ v.ver = P.dbFileVers.ver + 1

LEMMA CountFits ==
  ASSUME NEW n \in Nat, NEW r \in PairAt(n), NEW s, NEW a, NEW h \in Seq(Page), db \in Seq(ContentAt(n)),
         NEW P \in PagerAt(n), r.P = P, NEW S, Filed(s, r, db, h, n, a, S),
         NEW v \in ContentAt(n), CountsFrom(P, v, db, h, S)
  PROVE  LET t == pager_write(r, 1, v)
             w == [t EXCEPT !.P = Counted(t.P)]
         IN /\ w \in PairAt(n) /\ w.P.eState = P.eState /\ w.P.goal = "commit"
            /\ Logged(s, w.P, w.f, h, n, a) /\ Changes(s, w.P, w.f, db, h) /\ Sizes(w.P, db, h) /\ Version(w.P, h)
            /\ w.P.hasHeldSharedLock /\ w.P.dbFileVers.ver >= 0
<1> DEFINE m == Size(P)
           t == pager_write(r, 1, v)
           R == t.P
           Q == Counted(R)
           w == [t EXCEPT !.P = Q]
<1>0. /\ S = 1 .. Size(P) /\ 1 \in Cached(P) /\ Size(P) \in Nat /\ 1 <= Size(P) /\ Size(P) <= P.dbSize /\ Spans(P.dbOrigSize, h)
      /\ P.dbFileSize = Len(db) /\ (P.eState = "CACHEMOD" => Len(db) = P.dbOrigSize)
      /\ (~ P.bDoTruncate => Len(h) <= Size(P)) /\ Len(h) <= Len(db)
      /\ P.goal = "commit" /\ P.hasHeldSharedLock /\ P.dbFileVers.ver >= 0 /\ (h # << >> => P.dbFileVers = h[1])
      /\ v.sz = Size(P) /\ v.ver = P.dbFileVers.ver + 1
  BY DEF CountsFrom
<1>1. 1 \in 1 .. MaxPage /\ 1 \in Cached(r.P) /\ Filed(s, r, db, h, n, a, 1 .. m)
  BY <1>0, PagerAssumption
<1>2. /\ Filed(s, t, db, h, n, a, (1 .. m) \cup {1}) /\ (1 <= Len(h) => 1 \in R.pInJournal)
      /\ Rewrites(P, R, 1, v) /\ t \in PairAt(n)
  BY <1>0, <1>1, PageFiled
<1>3. P.dbSize \in Nat /\ P.dbFileVers.ver \in Int
  BY DEF PagerAt, ContentAt
<1> HIDE DEF t
<1>4. (1 .. m) \cup {1} = 1 .. m
  BY <1>0
<1>5. /\ Turns(P, R) /\ Differs(P, R, 1) /\ R.cache[1].val = v /\ R.cache[1].dirty
      /\ R.dbSize = (IF P.dbSize < 1 THEN 1 ELSE P.dbSize) /\ R.dbFileVers = P.dbFileVers
  BY <1>0, <1>2 DEF Rewrites
<1>6. /\ R \in PagerAt(n) /\ Logged(s, R, t.f, h, n, a) /\ Changing(s, R, t.f, db, h, 1 .. m)
      /\ R.at \notin {"sync", "pages"}
  BY <1>2, <1>4 DEF PairAt, Filed
<1> HIDE DEF R
<1>7. /\ Q \in PagerAt(n) /\ SameSizes(R, Q) /\ SameLog(R, Q) /\ Q.dbSize = R.dbSize /\ Q.cache = R.cache
      /\ Q.pInJournal = R.pInJournal /\ Q.dbFileVers = R.dbFileVers /\ Q.hasHeldSharedLock = R.hasHeldSharedLock
      /\ Q.eState = R.eState /\ Q.goal = R.goal /\ Q.k = R.k /\ Q.bDoTruncate = R.bDoTruncate
      /\ Q.at = "count" /\ Q.changeCountDone
  BY <1>6, CountedSame
<1> HIDE DEF Q
<1>8. w \in PairAt(n) /\ w.P = Q /\ w.f = t.f
  BY <1>2, <1>7, PairIs DEF R
<1> HIDE DEF w
<1>9. /\ Q.eState = P.eState /\ Q.goal = "commit" /\ Q.hasHeldSharedLock /\ Q.dbFileVers = P.dbFileVers
      /\ Q.bDoTruncate = P.bDoTruncate /\ Q.dbOrigSize = P.dbOrigSize /\ Q.dbFileSize = P.dbFileSize
      /\ Q.dbSize = P.dbSize
  <2>1. Q.dbSize = P.dbSize
    BY <1>0, <1>3, <1>5, <1>7
  <2> QED
    BY <1>0, <1>5, <1>7, <2>1 DEF Turns, SamePlace, SameFlags, SameSizes
<1>10. Size(Q) = m /\ Cached(Q) = Cached(R) /\ Q.cache[1].val = v /\ Q.cache[1].dirty
  BY <1>0, <1>5, <1>7 DEF Size, Cached
<1>11. Logged(s, Q, t.f, h, n, a)
  <2>1. Q.dbOrigSize = R.dbOrigSize
    BY <1>7 DEF SameSizes
  <2> QED
    BY <1>6, <1>7, <2>1, LoggedTurns
<1>12. Changes(s, Q, t.f, db, h)
  BY <1>6, <1>7, <1>10 DEF Changes, Changing, Synced, SameLog
<1>13. Committing(Q)
  BY <1>7, <1>9 DEF Committing
<1>14. Sizes(Q, db, h)
  BY <1>0, <1>9, <1>10, <1>13 DEF Sizes
<1>15. Version(Q, h)
  <2>1. First(h).ver < v.ver
    <3>1. h = << >> => First(h).ver = 0
      BY DEF First, Zero
    <3>2. h # << >> => First(h).ver = P.dbFileVers.ver
      BY <1>0 DEF First
    <3> QED
      BY <1>0, <1>3, <3>1, <3>2
  <2>2. h # << >> => 1 <= Len(h)
    BY NotEmpty
  <2>3. h # << >> => 1 \in Q.pInJournal
    BY <1>2, <1>7, <2>2 DEF R
  <2> QED
    BY <1>0, <1>7, <1>9, <1>10, <1>13, <2>1, <2>3 DEF Version
<1> QED
  BY <1>0, <1>8, <1>9, <1>11, <1>12, <1>14, <1>15 DEF Q, R, t, w

LEMMA SizeIs ==
  ASSUME NEW n, NEW P \in PagerAt(n), 1 \in Cached(P), NEW d, NEW h, Sizes(P, d, h)
  PROVE  Size(P) \in Nat /\ P.dbSize \in Nat /\ 1 <= Size(P) /\ Size(P) <= P.dbSize
<1>1. P.cache[1].val \in ContentAt(n) /\ P.dbSize \in Nat
  BY PageIs DEF PagerAt
<1>2. Size(P) \in Nat
  BY <1>1, PagerAssumption DEF Size, ContentAt
<1> QED
  BY <1>1, <1>2 DEF Sizes

LEMMA CommitPhaseOneStores == ASSUME IInv, LInv, SBody, NEW c \in Conns, CommitPhaseOne(c) PROVE SBody'
<1> DEFINE O == pager[c]
           m == IF O.bDoTruncate THEN Size(O) ELSE O.dbSize
           P == [O EXCEPT !.dbSize = m]
           r == [P |-> P, f |-> jrnl.slots]
           v == [P.cache[1].val EXCEPT !.ver = ChangeCounter(P)]
           t == pager_write(r, 1, v)
           w == [t EXCEPT !.P = Counted(t.P)]
           h == Latest1
           s == setting
           a == O.eState # "DBMOD"
<1>1. O.at = "one" /\ UNCHANGED <<levels, db, ddb, djrnl, counters>>
  BY DEF CommitPhaseOne
<1>2. /\ O.eState \in Writing /\ Acts(O, lock[c], c \in reserved) /\ 1 \in Cached(O)
  BY <1>1, WriterIs
<1>3. /\ O \in PagerAt(ntx) /\ ntx \in Nat /\ db \in Seq(ContentAt(ntx)) /\ h \in Seq(Page) /\ Len(h) <= Len(db)
      /\ jrnl.slots \in Seq(SlotsAt(ntx)) /\ Safe(s, jrnl, db, ntx, h, history)
      /\ Fares(s, O, lock[c], c \in reserved, jrnl, db, h, history)
  BY Known DEF Safe
<1>4. O.goal = "commit" /\ O.dbFileVers.ver < O.tx /\ ~ Committing(O)
  BY <1>1, <1>2 DEF Acts, Counts, Committing
<1>5. \/ O.eState = "LOCKED" /\ Goto(c, "release") /\ jrnl' = jrnl
      \/ O.eState # "LOCKED" /\ (P.changeCountDone \/ P.dbSize = 0)
      \/ O.eState # "LOCKED" /\ Wrote(c, w)
  <2>1. P.eState = O.eState
    OBVIOUS
  <2> QED
    BY <2>1 DEF CommitPhaseOne, Counted
<1>6. CASE O.eState = "LOCKED" /\ Goto(c, "release") /\ jrnl' = jrnl
  <2> DEFINE Q == [O EXCEPT !.at = "release"]
  <2>1. Set(c, Q)
    BY <1>6 DEF Goto
  <2>2. Alike(O, Q) /\ Q.at = "release" /\ Q.goal = O.goal
    BY <1>3, GoesAlike
  <2> HIDE DEF Q
  <2>3. SpillFits(s, Q) /\ ~ Committing(Q)
    BY <1>4, <2>2 DEF SpillFits, Committing
  <2>4. LockStep(c) /\ lock'[c] = lock[c] /\ (c \in reserved' <=> c \in reserved) /\ lock[c] >= RESERVED_LOCK
    BY <1>1, <1>2, Unlocked, WriterLock
  <2>5. ((c \in reserved)' => lock'[c] >= RESERVED_LOCK) /\ (O.eState = "DBMOD" => lock'[c] = EXCLUSIVE_LOCK)
    BY <1>6, <2>4
  <2>6. Fares(s, Q, lock'[c], (c \in reserved)', jrnl, db, h, history)
    BY <1>1, <1>2, <1>3, <1>4, <2>2, <2>3, <2>5, TurnFares
  <2> QED
    BY <1>1, <1>6, <2>1, <2>4, <2>6, Quiet DEF counters
<1>7. CASE O.eState # "LOCKED"
  <2>1. O.eState \in {"CACHEMOD", "DBMOD"}
    BY <1>2, <1>7 DEF Writing
  <2>2. /\ Changes(s, O, jrnl.slots, db, h) /\ Sizes(O, db, h) /\ Version(O, h) /\ Journals(s, O, jrnl.slots, h)
        /\ O.hasHeldSharedLock /\ O.dbFileVers.ver >= 0
    BY <1>3, <1>4, <2>1 DEF Fares
  <2>3. lock[c] >= RESERVED_LOCK /\ c \in reserved
    BY <1>2, WriterLock
  <2>4. a => Alone(s, jrnl.slots, 1, h)
    BY <1>3, <2>1 DEF Fares, Relies
  <2>5. Logged(s, O, jrnl.slots, h, ntx, a)
    BY <1>3, <2>2, <2>4 DEF Logged, Safe, Sizes
  <2>6. Size(O) \in Nat /\ O.dbSize \in Nat /\ 1 <= Size(O) /\ Size(O) <= O.dbSize
    BY ONLY <1>2, <1>3, <2>2, SizeIs
  <2>7. m \in Nat /\ 1 <= m /\ Size(O) <= m
    BY <2>6
  <2> HIDE DEF O, m
  <2>8. /\ P \in PagerAt(ntx) /\ Same(O, P) /\ P.dbSize = m /\ P.cache = O.cache /\ P.pInJournal = O.pInJournal
        /\ P.dbFileVers = O.dbFileVers
    BY <1>3, <2>7, SizedSame
  <2> HIDE DEF P
  <2>9. /\ P.eState = O.eState /\ P.at = "one" /\ P.goal = "commit" /\ P.hasHeldSharedLock
        /\ P.changeCountDone = O.changeCountDone /\ P.bDoTruncate = O.bDoTruncate /\ P.dbOrigSize = O.dbOrigSize
        /\ P.dbFileSize = O.dbFileSize /\ Size(P) = Size(O) /\ Cached(P) = Cached(O)
    BY <1>1, <1>4, <2>2, <2>8 DEF Same, SamePlace, SameFlags, SameSizes, Size, Cached
  <2>10. ~ P.changeCountDone /\ P.dbSize # 0
    BY <1>4, <2>2, <2>7, <2>8, <2>9 DEF Version
  <2>11. Wrote(c, w)
    BY <1>5, <1>7, <2>10
  <2>12. r \in PairAt(ntx) /\ r.P = P /\ r.f = jrnl.slots
    BY <1>3, <2>8 DEF PairAt
  <2> HIDE DEF r
  <2>13. Filed(s, r, db, h, ntx, a, 1 .. Size(P))
    <3>1. Logged(s, P, jrnl.slots, h, ntx, a)
      BY <2>5, <2>8, LoggedSame
    <3>2. Changing(s, P, jrnl.slots, db, h, 1 .. Size(P))
      BY <2>2, <2>8, <2>9 DEF Changes, Changing, Synced, Same, SameLog
    <3> QED
      BY <2>1, <2>9, <2>12, <3>1, <3>2 DEF Filed
  <2>14. v \in ContentAt(ntx) /\ v.sz = Size(P) /\ v.ver = P.dbFileVers.ver + 1
    <3>1. 1 \in Cached(P)
      BY <1>2, <2>9
    <3>2. P.cache[1].val \in ContentAt(ntx)
      BY <2>8, <3>1, PageIs
    <3>3. P.dbFileVers.ver \in -1 .. ntx /\ P.dbFileVers.ver < O.tx /\ O.tx \in 0 .. ntx
      BY <1>3, <1>4, <2>8 DEF PagerAt, ContentAt
    <3> DEFINE i == P.dbFileVers.ver + 1
    <3>4. i \in -1 .. ntx /\ ChangeCounter(P) = i
      BY <1>3, <3>3 DEF ChangeCounter
    <3> HIDE DEF i
    <3>5. [P.cache[1].val EXCEPT !.ver = i] \in ContentAt(ntx) /\ [P.cache[1].val EXCEPT !.ver = i].sz = P.cache[1].val.sz
          /\ [P.cache[1].val EXCEPT !.ver = i].ver = i
      BY <3>2, <3>4 DEF ContentAt
    <3> QED
      BY <3>4, <3>5 DEF Size, i
  <2> HIDE DEF v
  <2>15. /\ w \in PairAt(ntx) /\ w.P.eState = P.eState /\ w.P.goal = "commit"
         /\ Logged(s, w.P, w.f, h, ntx, a) /\ Changes(s, w.P, w.f, db, h) /\ Sizes(w.P, db, h) /\ Version(w.P, h)
         /\ w.P.hasHeldSharedLock /\ w.P.dbFileVers.ver >= 0
    <3>1. /\ 1 \in Cached(P) /\ Size(P) \in Nat /\ 1 <= Size(P) /\ Size(P) <= P.dbSize /\ Spans(P.dbOrigSize, h)
          /\ P.dbFileSize = Len(db) /\ (P.eState = "CACHEMOD" => Len(db) = P.dbOrigSize)
          /\ (h # << >> => P.dbFileVers = h[1]) /\ P.dbFileVers.ver >= 0
      BY <1>1, <1>2, <2>2, <2>6, <2>7, <2>8, <2>9 DEF Sizes, Version
    <3>2. (~ P.bDoTruncate => Len(h) <= Size(P)) /\ Len(h) <= Len(db)
      BY <1>3, <2>2, <2>9 DEF Sizes
    <3> DEFINE S == 1 .. Size(P)
    <3>3. CountsFrom(P, v, db, h, S)
      BY <2>9, <2>14, <3>1, <3>2 DEF CountsFrom
    <3>4. Filed(s, r, db, h, ntx, a, S)
      BY <2>13
    <3> HIDE DEF h, s, a, w, S
    <3>5. w = [t EXCEPT !.P = Counted(t.P)] /\ t = pager_write(r, 1, v)
      BY DEF w
    <3> HIDE DEF t
    <3> QED
      BY ONLY <1>3, <2>8, <2>12, <2>14, <3>3, <3>4, <3>5, CountFits
  <2> HIDE DEF w
  <2>16. Logged(s, w.P, w.f, h, ntx, w.P.eState # "DBMOD")
    BY <2>9, <2>15 DEF Logged
  <2> QED
    BY <1>1, <1>2, <2>1, <2>9, <2>11, <2>15, <2>16, PairStores DEF O
<1> QED
  BY <1>5, <1>6, <1>7

-----------------------------------------------------------------------------
(* Who holds the exclusive lock works on the files.                        *)
LEMMA LockedStores ==
  ASSUME IInv, LInv, SBody, NEW c \in Conns, NEW Q \in PagerAt(ntx), Set(c, Q), UNCHANGED <<levels, counters>>,
         lock[c] = EXCLUSIVE_LOCK, jrnl' \in JournalAt(ntx), jrnl'.exists, db' \in Seq(ContentAt(ntx)),
         Q.eState \in {"CACHEMOD", "DBMOD"}, Q.goal # "rollback",
         Logged(setting, Q, jrnl'.slots, Latest1, ntx, Q.eState # "DBMOD"),
         Changes(setting, Q, jrnl'.slots, db', Latest1), Sizes(Q, db', Latest1), Version(Q, Latest1),
         Covers(db', Latest1), Q.eState = "CACHEMOD" => Holds(db', Latest1),
         Q.hasHeldSharedLock, Q.dbFileVers.ver >= 0
  PROVE  SBody'
<1> DEFINE h == Latest1
           s == setting
<1>1. Safe(s, jrnl, db, ntx, h, history)
  BY Known
<1>2. LockStep(c) /\ lock'[c] = lock[c] /\ (c \in reserved' <=> c \in reserved)
  BY Unlocked
<1>3. ntx' = ntx /\ setting' = setting /\ history' = history /\ h' = h
  BY DEF counters, Latest1
<1>4. Gives(jrnl', db', h)
  <2>1. Q.eState \in {"CACHEMOD", "DBMOD"} /\ jrnl'.exists /\ (Q.eState = "CACHEMOD" => Holds(db', h))
        /\ Q \in PagerAt(ntx) /\ jrnl' \in JournalAt(ntx) /\ db' \in Seq(ContentAt(ntx))
    OBVIOUS
  <2>2. Changes(s, Q, jrnl'.slots, db', h) /\ Journals(s, Q, jrnl'.slots, h) /\ Sizes(Q, db', h) /\ Covers(db', h)
    BY DEF Logged
  <2> HIDE DEF h, s
  <2> QED
    BY ONLY <2>1, <2>2, WriterGives
<1>5. Safe(s, jrnl', db', ntx, h, history)
  BY <1>1, <1>4 DEF Safe, Logged, Covers
<1>6. Fares(s, Q, lock'[c], (c \in reserved)', jrnl', db', h, history)
  <2>1. Relies(Q, lock'[c], (c \in reserved)') => Q.eState = "CACHEMOD"
    BY <1>2 DEF Relies
  <2>2. Relies(Q, lock'[c], (c \in reserved)') => Holds(db', h) /\ Alone(s, jrnl'.slots, 1, h)
    BY <2>1 DEF Logged
  <2>3. (c \in reserved)' => lock'[c] >= RESERVED_LOCK
    BY <1>2 DEF EXCLUSIVE_LOCK, RESERVED_LOCK
  <2>4. Changes(s, Q, jrnl'.slots, db', h) /\ Journals(s, Q, jrnl'.slots, h) /\ Sizes(Q, db', h) /\ Version(Q, h)
    BY DEF Logged
  <2>5. Q.eState \in {"CACHEMOD", "DBMOD"} /\ Q.goal # "rollback" /\ Q.hasHeldSharedLock /\ Q.dbFileVers.ver >= 0
    OBVIOUS
  <2> HIDE DEF h, s
  <2> QED
    BY <2>2, <2>3, <2>4, <2>5 DEF Fares
<1>7. MayMove(c)
  BY <1>3 DEF MayMove
<1> HIDE DEF s, h
<1> QED
  BY <1>2, <1>3, <1>5, <1>6, <1>7, Steps DEF s, h

(* The writer at one of the steps that write a file.                       *)
LEMMA WriterAt ==
  ASSUME IInv, LInv, SBody, NEW c \in Conns, pager[c].at \in {"count", "sync", "pageout", "pages"}
  PROVE  LET P == pager[c] IN
         /\ P.eState \in {"CACHEMOD", "DBMOD"} /\ P.goal \in {"spill", "commit"} /\ lock[c] = EXCLUSIVE_LOCK
         /\ P \in PagerAt(ntx) /\ ntx \in Nat /\ jrnl \in JournalAt(ntx) /\ jrnl.exists
         /\ jrnl.slots \in Seq(SlotsAt(ntx)) /\ db \in Seq(ContentAt(ntx)) /\ Latest1 \in Seq(Page)
         /\ 1 \in Cached(P) /\ Len(Latest1) <= Len(db)
         /\ Logged(setting, P, jrnl.slots, Latest1, ntx, P.eState # "DBMOD")
         /\ Changes(setting, P, jrnl.slots, db, Latest1) /\ Sizes(P, db, Latest1) /\ Version(P, Latest1)
         /\ P.eState = "CACHEMOD" => Holds(db, Latest1)
         /\ P.hasHeldSharedLock /\ P.dbFileVers.ver >= 0
         /\ P.at \in {"pageout", "pages"} => P.eState = "DBMOD"
         /\ (P.at = "pageout" => P.goal = "spill") /\ (P.at = "pages" => P.goal = "commit")
         /\ P.goal = "spill" => P.k \in Cached(P) \ {1}
<1> DEFINE P == pager[c]
           h == Latest1
           s == setting
<1>1. /\ P.eState \in Writing /\ Acts(P, lock[c], c \in reserved) /\ 1 \in Cached(P) /\ Spills(P)
  BY WriterIs
<1>2. /\ P \in PagerAt(ntx) /\ ntx \in Nat /\ Fares(s, P, lock[c], c \in reserved, jrnl, db, h, history)
      /\ Safe(s, jrnl, db, ntx, h, history) /\ jrnl \in JournalAt(ntx) /\ jrnl.slots \in Seq(SlotsAt(ntx))
      /\ db \in Seq(ContentAt(ntx)) /\ h \in Seq(Page)
  BY Known
<1>3. /\ P.eState \in {"CACHEMOD", "DBMOD"} /\ P.goal \in {"spill", "commit"} /\ lock[c] = EXCLUSIVE_LOCK
      /\ (P.at \in {"pageout", "pages"} => P.eState = "DBMOD")
      /\ (P.at = "pageout" => P.goal = "spill") /\ (P.at = "pages" => P.goal = "commit")
  BY <1>1 DEF Acts, Writing
<1>4. P.goal = "spill" => P.k \in Cached(P) \ {1}
  BY <1>1, <1>3 DEF Spills
<1>5. /\ jrnl.exists /\ Changes(s, P, jrnl.slots, db, h) /\ Sizes(P, db, h) /\ Version(P, h)
      /\ Journals(s, P, jrnl.slots, h) /\ P.hasHeldSharedLock /\ P.dbFileVers.ver >= 0
  BY <1>2, <1>3 DEF Fares
<1>6. P.eState # "DBMOD" => Holds(db, h) /\ Alone(s, jrnl.slots, 1, h)
  BY <1>2, <1>3 DEF Fares, Relies
<1>7. Logged(s, P, jrnl.slots, h, ntx, P.eState # "DBMOD") /\ Len(h) <= Len(db)
  BY <1>2, <1>5, <1>6 DEF Logged, Safe, Sizes
<1> QED
  BY <1>1, <1>2, <1>3, <1>4, <1>5, <1>6, <1>7

-----------------------------------------------------------------------------
(* The header over the last records gets their number: in slot i, and what *)
(* is in slot o behind them is no header that counts.                      *)
Raises(f, g, i, o, n) ==
  /\ Len(g) = Len(f) /\ \A k \in 1 .. Len(f) : k # i /\ k # o => g[k] = f[k]
  /\ g[i].kind = "header" /\ g[i].magic /\ g[i].nRec = n /\ g[i].nonce = f[i].nonce /\ g[i].orig = f[i].orig
  /\ o <= Len(f) => g[o] = f[o] \/ g[o] = ZeroSlot
  /\ o <= Len(g) /\ g[o].kind = "header" => ~ g[o].magic

LEMMA CountRaises ==
  ASSUME NEW n \in Nat, NEW f \in Seq(SlotsAt(n)), NEW P \in PagerAt(n), NEW e, e = P.journalHdr, NEW m, m = P.journalOff,
         NEW i, i = e + 1, NEW o, o = m + 1, i \in 1 .. m, m <= Len(f), f[i].kind = "header", NEW w, w = WithoutNext(f, P)
  PROVE  LET g == [w EXCEPT ![P.journalHdr + 1] = [@ EXCEPT !.magic = TRUE, !.nRec = P.nRec]]
         IN g \in Seq(SlotsAt(n)) /\ Raises(f, g, i, o, P.nRec)
<1> DEFINE k == P.nRec
           x == [w[i] EXCEPT !.magic = TRUE, !.nRec = k]
           g == [w EXCEPT ![i] = x]
<1>1. e \in Nat /\ m \in Nat /\ k \in Nat /\ Len(f) \in Nat /\ i # o /\ i \in 1 .. Len(f)
  BY DEF PagerAt
<1>2. w \in Seq(SlotsAt(n))
  BY WithoutNextIs
<1>3. w = IF o <= Len(f) /\ f[o].kind = "header" /\ f[o].magic THEN [f EXCEPT ![o] = ZeroSlot] ELSE f
  BY <1>1 DEF WithoutNext, IsHeader
<1>4. /\ Len(w) = Len(f) /\ (\A j \in 1 .. Len(f) : j # o => w[j] = f[j])
      /\ (o <= Len(f) => w[o] = f[o] \/ w[o] = ZeroSlot)
      /\ (o <= Len(f) /\ w[o].kind = "header" => ~ w[o].magic)
  <2>1. CASE o <= Len(f) /\ f[o].kind = "header" /\ f[o].magic
    <3>1. w = [f EXCEPT ![o] = ZeroSlot] /\ o \in 1 .. Len(f)
      BY <1>1, <1>3, <2>1
    <3>2. w[o] = ZeroSlot /\ Len(w) = Len(f) /\ \A j \in 1 .. Len(f) : j # o => w[j] = f[j]
      BY <3>1
    <3> QED
      BY <3>2 DEF ZeroSlot
  <2>2. CASE ~ (o <= Len(f) /\ f[o].kind = "header" /\ f[o].magic)
    <3>1. w = f
      BY <1>3, <2>2
    <3> QED
      BY <2>2, <3>1
  <2> QED
    BY <2>1, <2>2
<1>5. w[i] = f[i] /\ f[i] \in SlotsAt(n)
  BY <1>1, <1>4
<1>6. f[i] \in HeaderSlots
  BY <1>5 DEF SlotsAt, RecordSlots, ZeroSlot, Garbage
<1>7. x.kind = "header" /\ x.magic /\ x.nRec = k /\ x.nonce = f[i].nonce /\ x.orig = f[i].orig /\ x \in SlotsAt(n)
  <2>1. x \in SlotsAt(n)
    BY Zenon, <1>1, <1>5, HeaderUp
  <2> HIDE DEF k
  <2> QED
    BY <1>5, <1>6, <2>1 DEF HeaderSlots
<1>8. g = [w EXCEPT ![P.journalHdr + 1] = [@ EXCEPT !.magic = TRUE, !.nRec = P.nRec]]
  BY <1>1
<1> HIDE DEF x, k, g
<1>9. g \in Seq(SlotsAt(n)) /\ Len(g) = Len(f) /\ g[i] = x /\ \A j \in 1 .. Len(f) : j # i => g[j] = w[j]
  <2>1. i \in 1 .. Len(w)
    BY <1>1, <1>4
  <2>2. g \in Seq(SlotsAt(n))
    BY <1>2, <1>7, ExceptIs DEF g
  <2>3. Len(g) = Len(w) /\ g[i] = x /\ \A j \in 1 .. Len(w) : j # i => g[j] = w[j]
    BY <1>2, <2>1 DEF g
  <2> QED
    BY <1>4, <2>2, <2>3
<1>10. o <= Len(f) => g[o] = w[o]
  BY <1>1, <1>9
<1>11. Raises(f, g, i, o, k)
  BY <1>4, <1>7, <1>9, <1>10 DEF Raises
<1> QED
  BY <1>8, <1>9, <1>11 DEF k

LEMMA RaisedLogs ==
  ASSUME NEW n \in Nat, NEW P \in PagerAt(n), NEW f \in Seq(SlotsAt(n)), NEW g \in Seq(SlotsAt(n)),
         NEW s, NEW h, NEW a, Logged(s, P, f, h, n, a), P.at = "count", ~ Lax(s),
         NEW Q, SameLog(P, Q), Q.eState = P.eState, Q.goal = P.goal, Q.dbOrigSize = P.dbOrigSize, Q.at = "sync",
         NEW e, e = P.journalHdr, NEW m, m = P.journalOff, NEW i, i = e + 1, NEW o, o = m + 1,
         Raises(f, g, i, o, P.nRec)
  PROVE  /\ Logged(s, Q, g, h, n, a)
         /\ \A k \in Nat : \A q : k <= m /\ Recorded(f, k, q) => Recorded(g, k, q)
<1>1. e \in Nat /\ m \in Nat /\ P.nRec \in Nat /\ P.tx \in 0 .. n /\ Len(f) \in Nat
  BY DEF PagerAt
<1>2. /\ m \in 1 .. Len(f)
      /\ \A k \in 1 .. m : f[k].kind \in {"header", "record"} /\ f[k].nonce = P.tx
      /\ Stamps(f, m, P.tx) /\ f[1].kind = "header" /\ f[1].orig = P.dbOrigSize
      /\ Alone(s, f, m, h) /\ Right(f, Recs(f, 1, m), h)
      /\ Kept(s, f, h) /\ NoneYet(f, h) /\ Stamps(f, 0, n + 1) /\ (a => Alone(s, f, 1, h))
      /\ (P.eState = "CACHEMOD" <=> e = 0) /\ (P.goal = "spill" => s.spilling) /\ Spans(P.dbOrigSize, h)
  BY DEF Logged, Journals, Mine
<1>3. /\ e < m /\ IsHeader(f, e) /\ Sections(f, e) /\ OnlyRecords(f, e + 2, m) /\ P.nRec = m - e - 1
  BY DEF Logged, Journals, Unsynced, Filling
<1>4. /\ Len(g) = Len(f) /\ \A k \in 1 .. Len(f) : k # i /\ k # o => g[k] = f[k]
      /\ g[i].kind = "header" /\ g[i].magic /\ g[i].nRec = P.nRec /\ g[i].nonce = f[i].nonce /\ g[i].orig = f[i].orig
      /\ (o <= Len(f) => g[o] = f[o] \/ g[o] = ZeroSlot)
      /\ (o <= Len(g) /\ g[o].kind = "header" => ~ g[o].magic)
  BY DEF Raises
<1>0. i = e + 1 /\ o = m + 1
  OBVIOUS
<1>5. i \in 1 .. m /\ f[i].kind = "header" /\ i # o /\ o # 1 /\ o \notin 1 .. m /\ o \in Nat
  <2>1. f[e + 1].kind = "header" /\ e < m
    BY <1>3 DEF IsHeader
  <2>2. i \in 1 .. m /\ i # o /\ o # 1 /\ o \notin 1 .. m /\ o \in Nat
    BY ONLY <1>0, <1>1, <2>1
  <2>3. f[i].kind = "header"
    BY ONLY <1>0, <2>1
  <2> QED
    BY ONLY <2>2, <2>3
<1>6. \A k \in 1 .. m : g[k].kind = f[k].kind /\ g[k].nonce = f[k].nonce /\ g[k].orig = f[k].orig /\ (k # i => g[k] = f[k])
  <2> SUFFICES ASSUME NEW k \in 1 .. m
               PROVE  g[k].kind = f[k].kind /\ g[k].nonce = f[k].nonce /\ g[k].orig = f[k].orig /\ (k # i => g[k] = f[k])
    OBVIOUS
  <2>1. k \in 1 .. Len(f) /\ k # o
    BY <1>1, <1>2, <1>5
  <2> QED
    BY <1>4, <1>5, <2>1
<1>7. \A k \in 1 .. Len(f) : /\ g[k].kind = "header" => f[k].kind = "header"
                             /\ g[k].kind = "record" => g[k] = f[k]
                             /\ g[k].kind \in {"header", "record"} => f[k].kind \in {"header", "record"} /\ g[k].nonce = f[k].nonce
  <2> SUFFICES ASSUME NEW k \in 1 .. Len(f)
               PROVE /\ g[k].kind = "header" => f[k].kind = "header"
                     /\ g[k].kind = "record" => g[k] = f[k]
                     /\ g[k].kind \in {"header", "record"} => f[k].kind \in {"header", "record"} /\ g[k].nonce = f[k].nonce
    OBVIOUS
  <2>1. CASE k = i
    BY <1>4, <1>5, <2>1
  <2>2. CASE k = o
    BY <1>4, <2>2 DEF ZeroSlot
  <2>3. CASE k # i /\ k # o
    BY <1>4, <2>3
  <2> QED
    BY <2>1, <2>2, <2>3
<1>8. \A k \in Nat : \A q : k <= m /\ Recorded(f, k, q) => Recorded(g, k, q)
  <2> SUFFICES ASSUME NEW k \in Nat, NEW q, k <= m, NEW j \in 1 .. k, f[j].kind = "record", f[j].pgno = q
               PROVE  Recorded(g, k, q)
    BY DEF Recorded, Recs
  <2>1. j \in 1 .. m /\ j # i
    BY <1>1, <1>5
  <2>2. g[j] = f[j]
    BY <1>6, <2>1
  <2> QED
    BY <2>2 DEF Recorded, Recs
<1>9. \A k \in Nat : Tidy(f, k) => Tidy(g, k)
  BY <1>4, <1>7 DEF Tidy
<1>10. Mine(Q, g)
  <2>1. 1 \in 1 .. m
    BY <1>1, <1>2
  <2>2. Stamps(g, m, P.tx)
    BY <1>1, <1>2, <1>4, <1>7 DEF Stamps
  <2>3. Q.journalOff = m /\ Q.tx = P.tx
    BY DEF SameLog
  <2> QED
    BY <1>2, <1>4, <1>6, <2>1, <2>2, <2>3 DEF Mine
<1>11. Right(g, Recs(g, 1, m), h)
  <2>1. \A k \in Recs(g, 1, m) : k \in Recs(f, 1, m) /\ g[k] = f[k]
    BY <1>5, <1>6 DEF Recs
  <2> QED
    BY <1>2, <2>1 DEF Right
<1>12. Closed(Q, g)
  <2>0. Q.journalHdr = e /\ Q.journalOff = m /\ Q.nRec = P.nRec
    BY DEF SameLog
  <2>1. \A k \in 0 .. e : (IsHeader(g, k) <=> IsHeader(f, k)) /\ k + 1 \in 1 .. m
    <3> SUFFICES ASSUME NEW k \in 0 .. e
                 PROVE  (IsHeader(g, k) <=> IsHeader(f, k)) /\ k + 1 \in 1 .. m
      OBVIOUS
    <3>1. e < m /\ m <= Len(f)
      BY <1>2, <1>3
    <3>2. k + 1 \in 1 .. m /\ k < Len(f)
      BY ONLY <1>1, <3>1, k \in 0 .. e
    <3>3. g[k + 1].kind = f[k + 1].kind
      BY ONLY <1>6, <3>2
    <3>4. Len(g) = Len(f)
      BY <1>4
    <3> QED
      BY ONLY <3>2, <3>3, <3>4 DEF IsHeader
  <2>2. IsHeader(g, e)
    BY <1>1, <1>3, <2>1
  <2>3. Sections(g, e)
    <3> SUFFICES ASSUME NEW k \in 0 .. e - 1, IsHeader(g, k)
                 PROVE  LET c == g[k + 1].nRec IN
                        /\ g[k + 1].magic /\ c \in Nat /\ k + 1 + c <= e
                        /\ OnlyRecords(g, k + 2, k + 1 + c)
                        /\ k + 1 + c < e => IsHeader(g, k + 1 + c)
      BY DEF Sections
    <3>0. e < m
      BY <1>3
    <3>1. k \in 0 .. e /\ k + 1 \in 1 .. m /\ k + 1 # i
      BY ONLY <1>0, <1>1, <3>0, k \in 0 .. e - 1
    <3>2. IsHeader(f, k) /\ g[k + 1] = f[k + 1]
      BY <1>6, <2>1, <3>1
    <3> DEFINE c == f[k + 1].nRec
    <3>3. /\ f[k + 1].magic /\ c \in Nat /\ k + 1 + c <= e
          /\ OnlyRecords(f, k + 2, k + 1 + c)
          /\ k + 1 + c < e => IsHeader(f, k + 1 + c)
      BY <1>3, <3>2 DEF Sections
    <3> HIDE DEF c
    <3>4. OnlyRecords(g, k + 2, k + 1 + c)
      <4>1. \A j \in k + 2 .. k + 1 + c : j \in 1 .. m
        <5>1. c \in Nat /\ k + 1 + c <= e
          BY <3>3
        <5> QED
          BY ONLY <1>1, <3>0, <5>1, k \in 0 .. e - 1
      <4> QED
        BY <1>6, <3>3, <4>1 DEF OnlyRecords
    <3>5. k + 1 + c < e => IsHeader(g, k + 1 + c)
      <4>1. k + 1 + c < e => k + 1 + c \in 0 .. e
        <5>1. c \in Nat
          BY <3>3
        <5> QED
          BY ONLY <1>1, <5>1, k \in 0 .. e - 1
      <4> QED
        BY <2>1, <3>3, <4>1
    <3>6. g[k + 1].nRec = c
      BY <3>2 DEF c
    <3> QED
      BY <3>2, <3>3, <3>4, <3>5, <3>6
  <2>4. OnlyRecords(g, e + 2, m)
    <3>1. \A j \in e + 2 .. m : j \in 1 .. m
      BY <1>1
    <3> QED
      BY <1>3, <1>6, <3>1 DEF OnlyRecords
  <2>5. Ends(g, m)
    BY <1>1, <1>4 DEF Ends, readJournalHdr, IsHeader
  <2>6. g[e + 1].magic /\ g[e + 1].nRec = P.nRec
    BY <1>4
  <2> QED
    BY <1>3, <2>0, <2>2, <2>3, <2>4, <2>5, <2>6 DEF Closed, Filling
<1>13. Kept(s, g, h)
  <2>1. Readable(f) => Readable(g)
    <3>1. 1 \in 1 .. m /\ 0 < Len(f)
      BY <1>1, <1>2
    <3>2. f[1].magic => g[1].magic
      BY <1>4, <1>6, <3>1
    <3> QED
      BY <1>2, <1>4, <1>6, <3>1, <3>2 DEF Readable, readJournalHdr, IsHeader
  <2> QED
    BY <1>2, <1>9, <2>1 DEF Kept
<1>14. NoneYet(g, h)
  <2>1. DOMAIN g = 1 .. Len(f) /\ DOMAIN f = 1 .. Len(f)
    BY <1>4
  <2> QED
    BY <1>2, <1>7, <2>1 DEF NoneYet
<1>15. Stamps(g, 0, n + 1)
  BY <1>2, <1>4, <1>7 DEF Stamps
<1>16. Alone(s, g, m, h) /\ (a => Alone(s, g, 1, h))
  BY <1>1, <1>2, <1>9 DEF Alone
<1>17. Journals(s, Q, g, h)
  <2>1. Q.journalHdr = e /\ Q.journalOff = m
    BY DEF SameLog
  <2> QED
    BY <1>2, <1>10, <1>11, <1>12, <1>16, <2>1 DEF Journals
<1> QED
  BY <1>2, <1>8, <1>13, <1>14, <1>15, <1>16, <1>17 DEF Logged

LEMMA LaxLogs ==
  ASSUME NEW P, NEW Q, SameLog(P, Q), Q.goal = P.goal, Q.dbOrigSize = P.dbOrigSize,
         NEW s, Lax(s), NEW f, NEW h, NEW n, NEW a, NEW b, b => a, Logged(s, P, f, h, n, a)
  PROVE  Logged(s, Q, f, h, n, b)
<1>1. Q.journalHdr = P.journalHdr /\ Q.journalOff = P.journalOff /\ Q.nRec = P.nRec /\ Q.tx = P.tx
  BY DEF SameLog
<1>2. Mine(P, f) => Mine(Q, f)
  BY <1>1 DEF Mine
<1>3. Endless(P, f) => Endless(Q, f)
  BY <1>1 DEF Endless
<1>4. Journals(s, P, f, h) => Journals(s, Q, f, h)
  BY <1>1, <1>2, <1>3 DEF Journals
<1> QED
  BY <1>1, <1>4 DEF Logged

LEMMA WriteRecordCountStores == ASSUME IInv, LInv, SBody, NEW c \in Conns, WriteRecordCount(c) PROVE SBody'
<1> DEFINE P == pager[c]
           h == Latest1
           s == setting
           a == P.eState # "DBMOD"
           Q == [P EXCEPT !.at = "sync"]
           f == jrnl.slots
           e == P.journalHdr
           m == P.journalOff
           i == e + 1
           o == m + 1
           w == WithoutNext(f, P)
           g == [w EXCEPT ![P.journalHdr + 1] = [@ EXCEPT !.magic = TRUE, !.nRec = P.nRec]]
           synced == [jrnl EXCEPT !.slots = w, !.fresh = FALSE]
           base == IF fullSync THEN synced ELSE jrnl
<1>1. P.at = "count" /\ Goto(c, "sync") /\ UNCHANGED <<levels, db, ddb, counters>>
  BY DEF WriteRecordCount
<1>2. /\ P.eState \in {"CACHEMOD", "DBMOD"} /\ P.goal \in {"spill", "commit"} /\ lock[c] = EXCLUSIVE_LOCK
      /\ P \in PagerAt(ntx) /\ ntx \in Nat /\ jrnl \in JournalAt(ntx) /\ jrnl.exists
      /\ f \in Seq(SlotsAt(ntx)) /\ db \in Seq(ContentAt(ntx)) /\ h \in Seq(Page)
      /\ Len(h) <= Len(db) /\ Logged(s, P, f, h, ntx, a)
      /\ Changes(s, P, f, db, h) /\ Sizes(P, db, h) /\ Version(P, h)
      /\ (P.eState = "CACHEMOD" => Holds(db, h))
      /\ P.hasHeldSharedLock /\ P.dbFileVers.ver >= 0
  BY <1>1, WriterAt
<1>3. Set(c, Q)
  BY <1>1 DEF Goto
<1>4. Alike(P, Q) /\ Q.at = "sync" /\ Q.goal = P.goal /\ Q.k = P.k /\ Q \in PagerAt(ntx)
  <2>1. "sync" \in Places
    BY DEF Places
  <2>2. Alike(P, Q) /\ Q.at = "sync" /\ Q.goal = P.goal /\ Q.k = P.k
    BY <1>2, GoesAlike
  <2>3. Q \in PagerAt(ntx)
    BY <1>2, <2>1, Goes
  <2> QED
    BY <2>2, <2>3
<1> HIDE DEF Q
<1>5. /\ Q.eState = P.eState /\ SameFlags(P, Q) /\ SameSizes(P, Q) /\ SameLog(P, Q) /\ Q.dbOrigSize = P.dbOrigSize
      /\ Q.dbSize = P.dbSize /\ Q.pInJournal = P.pInJournal /\ Q.cache = P.cache /\ Q.dbFileVers = P.dbFileVers
      /\ Q.hasHeldSharedLock
  BY <1>2, <1>4 DEF Alike, SameFlags, SameSizes
<1>6. \/ Lax(s) /\ jrnl' = jrnl
      \/ ~ Lax(s) /\ jrnl' = [base EXCEPT !.slots = g]
  <2>1. noSync <=> Lax(s)
    BY DEF noSync, Lax, Synchronous
  <2> QED
    BY <2>1 DEF WriteRecordCount
<1> HIDE DEF P
<1>7. /\ jrnl' \in JournalAt(ntx) /\ jrnl'.exists
      /\ Logged(s, Q, jrnl'.slots, h, ntx, a) /\ Changes(s, P, jrnl'.slots, db, h)
  <2>1. CASE Lax(s) /\ jrnl' = jrnl
    BY <1>2, <1>4, <1>5, <2>1, LaxLogs
  <2>2. CASE ~ Lax(s) /\ jrnl' = [base EXCEPT !.slots = g]
    <3>1. /\ e < m /\ f[i].kind = "header" /\ m <= Len(f) /\ e \in Nat /\ m \in Nat
      <4>1. Unsynced(P, f) /\ Mine(P, f)
        BY <1>1, <1>2, <2>2 DEF Logged, Journals
      <4>2. e \in Nat /\ m \in Nat
        BY <1>2 DEF PagerAt
      <4> QED
        BY <4>1, <4>2 DEF Unsynced, Filling, Mine, IsHeader
    <3>2. i \in 1 .. m
      BY <3>1
    <3>3. g \in Seq(SlotsAt(ntx)) /\ Raises(f, g, i, o, P.nRec)
      <4> HIDE DEF w
      <4>1. w = WithoutNext(f, P)
        BY DEF w
      <4>2. e = P.journalHdr /\ m = P.journalOff /\ i = e + 1 /\ o = m + 1
        OBVIOUS
      <4> HIDE DEF e, m, i, o, f
      <4> QED
        BY ONLY <1>2, <3>1, <3>2, <4>1, <4>2, CountRaises
    <3>4. w \in Seq(SlotsAt(ntx))
      BY <1>2, WithoutNextIs
    <3> HIDE DEF w, g
    <3>5. base \in JournalAt(ntx) /\ base.exists = jrnl.exists
      <4>1. synced \in JournalAt(ntx) /\ synced.exists = jrnl.exists
        BY Zenon, <1>2, <3>4, JournalIs DEF JournalAt
      <4> HIDE DEF synced
      <4> QED
        BY <1>2, <4>1
    <3> HIDE DEF base
    <3>6. jrnl' \in JournalAt(ntx) /\ jrnl'.exists = base.exists /\ jrnl'.slots = g
      BY <2>2, <3>3, <3>5 DEF JournalAt
    <3>7. /\ Logged(s, Q, g, h, ntx, a)
          /\ \A k \in Nat : \A q : k <= m /\ Recorded(f, k, q) => Recorded(g, k, q)
      <4>1. e = P.journalHdr /\ m = P.journalOff /\ i = e + 1 /\ o = m + 1
        OBVIOUS
      <4> HIDE DEF e, m, i, o, f, s, h, a
      <4> QED
        BY ONLY <1>1, <1>2, <1>4, <1>5, <2>2, <3>3, <4>1, RaisedLogs
    <3>8. Changes(s, P, g, db, h)
      <4>1. \A q : Recorded(f, m, q) => Recorded(g, m, q)
        BY <3>1, <3>7
      <4>2. \A q : Recorded(f, e, q) => Recorded(g, e, q)
        BY <3>1, <3>7
      <4>3. \A q : Synced(s, P, f, q) => Synced(s, P, g, q)
        BY <4>1, <4>2 DEF Synced
      <4>4. Changing(s, P, f, db, h, 1 .. Size(P))
        BY <1>2 DEF Changes
      <4> DEFINE S == 1 .. Size(P)
      <4> HIDE DEF f, s, h, S
      <4>5. Changing(s, P, g, db, h, S)
        BY <4>1, <4>3, <4>4 DEF Changing, S
      <4> QED
        BY <4>5 DEF Changes, S
    <3> QED
      BY <1>2, <3>5, <3>6, <3>7, <3>8
  <2> QED
    BY <1>6, <2>1, <2>2
<1>8. Changes(s, Q, jrnl'.slots, db, h) /\ Size(Q) = Size(P)
  BY <1>4, <1>7, AlikeChanging
<1>9. Committing(Q) <=> Committing(P)
  BY <1>1, <1>4 DEF Committing
<1>10. Sizes(Q, db, h)
  BY <1>2, <1>5, <1>8, <1>9 DEF Sizes, SameSizes, SameFlags
<1>11. Version(Q, h)
  BY <1>1, <1>2, <1>4, <1>5, <1>9 DEF Version, SameFlags
<1>12. Logged(s, Q, jrnl'.slots, h, ntx, Q.eState # "DBMOD")
  BY <1>5, <1>7
<1>13. Covers(db, h) /\ db' = db /\ (Q.eState = "CACHEMOD" => Holds(db, h))
  BY <1>1, <1>2, <1>5 DEF Covers
<1>14. Q.eState \in {"CACHEMOD", "DBMOD"} /\ Q.goal # "rollback" /\ Q.hasHeldSharedLock /\ Q.dbFileVers.ver >= 0
  BY <1>2, <1>4, <1>5
<1>15. UNCHANGED <<levels, counters>>
  BY <1>1
<1>16. Changes(s, Q, jrnl'.slots, db', h) /\ Sizes(Q, db', h) /\ Covers(db', h) /\ (Q.eState = "CACHEMOD" => Holds(db', h))
       /\ db' \in Seq(ContentAt(ntx))
  BY <1>2, <1>8, <1>10, <1>13
<1> QED
  BY <1>2, <1>3, <1>4, <1>7, <1>11, <1>12, <1>14, <1>15, <1>16, LockedStores

-----------------------------------------------------------------------------
(* The journal is synced: its records are counted, and who wants more      *)
(* begins the next section.                                                *)
LEMMA ClosedIs ==
  ASSUME NEW f, Len(f) \in Nat, NEW e \in Nat, NEW m \in Nat, m <= Len(f), e < m, NEW b, b = m - e - 1,
         IsHeader(f, 0), IsHeader(f, e), Sections(f, e), OnlyRecords(f, e + 2, m), f[e + 1].magic, f[e + 1].nRec = b
  PROVE  Sections(f, m) /\ Readable(f)
<1>1. Sections(f, m)
  <2> SUFFICES ASSUME NEW k \in 0 .. m - 1, IsHeader(f, k)
               PROVE  LET c == f[k + 1].nRec IN
                      /\ f[k + 1].magic /\ c \in Nat /\ k + 1 + c <= m
                      /\ OnlyRecords(f, k + 2, k + 1 + c)
                      /\ k + 1 + c < m => IsHeader(f, k + 1 + c)
    BY DEF Sections
  <2>1. k <= e
    <3>1. CASE k > e
      <4>1. k + 1 \in e + 2 .. m
        BY <3>1
      <4>2. f[k + 1].kind = "record"
        BY <4>1 DEF OnlyRecords
      <4> QED
        BY <4>2 DEF IsHeader
    <3> QED
      BY <3>1
  <2>2. CASE k = e
    <3> DEFINE c == f[k + 1].nRec
    <3>1. c = b /\ f[k + 1].magic /\ OnlyRecords(f, k + 2, m)
      BY <2>2
    <3> HIDE DEF c
    <3>2. c \in Nat /\ k + 1 + c = m
      BY <2>2, <3>1
    <3> QED
      BY <3>1, <3>2 DEF c
  <2>3. CASE k < e
    <3> DEFINE c == f[k + 1].nRec
    <3>0. k \in 0 .. e - 1
      BY <2>3
    <3>1. /\ f[k + 1].magic /\ c \in Nat /\ k + 1 + c <= e
          /\ OnlyRecords(f, k + 2, k + 1 + c)
          /\ k + 1 + c < e => IsHeader(f, k + 1 + c)
      BY <3>0 DEF Sections
    <3> HIDE DEF c
    <3>2. k + 1 + c <= m
      BY <3>1
    <3>3. IsHeader(f, k + 1 + c)
      <4>1. CASE k + 1 + c < e
        BY <3>1, <4>1
      <4>2. CASE k + 1 + c = e
        BY <4>2
      <4> QED
        BY <3>1, <4>1, <4>2
    <3> QED
      BY <3>1, <3>2, <3>3 DEF c
  <2> QED
    BY <2>1, <2>2, <2>3
<1>2. Readable(f)
  <2>1. CASE e = 0
    BY <2>1 DEF Readable, readJournalHdr
  <2>2. CASE e # 0 /\ IsHeader(f, 0)
    <3>1. 0 \in 0 .. e - 1
      BY <2>2
    <3>2. f[0 + 1].magic
      BY <2>2, <3>1 DEF Sections
    <3> QED
      BY <2>2, <3>2 DEF Readable, readJournalHdr
  <2> QED
    BY <2>1, <2>2
<1> QED
  BY <1>1, <1>2

(* What stays of a pager that marks the records it has written.            *)
Marked(P, Q) ==
  /\ Q.goal = P.goal /\ Q.k = P.k /\ SameFlags(P, Q) /\ SameSizes(P, Q)
  /\ Q.tx = P.tx /\ Q.dbSize = P.dbSize /\ Q.pInJournal = P.pInJournal /\ Q.dbFileVers = P.dbFileVers
  /\ Cached(Q) = Cached(P)
  /\ \A q \in Cached(P) : /\ Q.cache[q].val = P.cache[q].val /\ Q.cache[q].dirty = P.cache[q].dirty
                          /\ ~ Q.cache[q].needSync

LEMMA WritesSame ==
  ASSUME NEW n, NEW P \in PagerAt(n), NEW where
  PROVE  LET Q == Writes(P, where) IN
         Marked(P, Q) /\ SameLog(P, Q) /\ Q.eState = "DBMOD" /\ Q.at = where
<1> DEFINE C == Unneeded(P)
           Q == [P EXCEPT !.eState = "DBMOD", !.at = where, !.cache = C]
<1>1. DOMAIN C = Cached(P) /\ \A q \in Cached(P) : C[q] = [P.cache[q] EXCEPT !.needSync = FALSE]
  BY DEF Unneeded
<1>2. \A q \in Cached(P) : P.cache[q] \in EntryAt(n)
  BY PageIs
<1>3. \A q \in Cached(P) : C[q].val = P.cache[q].val /\ C[q].dirty = P.cache[q].dirty /\ ~ C[q].needSync
  BY <1>1, <1>2 DEF EntryAt
<1> HIDE DEF C
<1>4. /\ Q.goal = P.goal /\ Q.k = P.k /\ SameFlags(P, Q) /\ SameSizes(P, Q) /\ SameLog(P, Q)
      /\ Q.tx = P.tx /\ Q.dbSize = P.dbSize /\ Q.pInJournal = P.pInJournal /\ Q.dbFileVers = P.dbFileVers
      /\ Q.eState = "DBMOD" /\ Q.at = where /\ Q.cache = C
  BY DEF PagerAt, SameFlags, SameSizes, SameLog
<1>5. Q = Writes(P, where)
  BY DEF C, Writes
<1> HIDE DEF Q
<1> QED
  BY <1>1, <1>3, <1>4, <1>5 DEF Marked, Cached

LEMMA MarkedChanges ==
  ASSUME NEW P, NEW Q, Marked(P, Q), Q.eState = "DBMOD", 1 \in Cached(P),
         NEW s, NEW f, NEW g, NEW d, NEW h \in Seq(Page), Changes(s, P, f, d, h),
         \A q : Recorded(f, P.journalOff, q) => Recorded(g, Q.journalOff, q) /\ Synced(s, Q, g, q)
  PROVE  Changes(s, Q, g, d, h)
<1>1. Size(Q) = Size(P) /\ Cached(Q) = Cached(P) /\ Q.pInJournal = P.pInJournal
  BY DEF Size, Marked
<1> DEFINE S == 1 .. Size(P)
<1>2. Changing(s, P, f, d, h, S)
  BY DEF Changes
<1> HIDE DEF S
<1>3. \A p \in Cached(Q) : p <= Len(h) => p \in Q.pInJournal \/ (Q.cache[p].val = h[p] /\ ~ Q.cache[p].dirty)
  BY <1>1, <1>2 DEF Changing, Marked
<1>4. \A p \in Q.pInJournal : p <= Len(h) => Recorded(g, Q.journalOff, p) /\ Synced(s, Q, g, p)
  BY <1>1, <1>2 DEF Changing
<1>5. \A p \in Cached(Q) : p \in S /\ ~ Q.cache[p].dirty => p <= Len(d) /\ d[p] = Q.cache[p].val
  BY <1>1, <1>2 DEF Changing, Marked
<1>6. \A p \in 1 .. Len(h) : d[p] = h[p] \/ (p \in Q.pInJournal /\ p <= Len(h))
  <2>1. Len(h) \in Nat
    BY NotEmpty
  <2> QED
    BY <1>1, <1>2, <2>1 DEF Changing
<1>7. Changing(s, Q, g, d, h, S)
  BY <1>3, <1>4, <1>5, <1>6 DEF Changing
<1> QED
  BY <1>1, <1>7 DEF Changes, S

LEMMA SyncedLog ==
  ASSUME NEW n \in Nat, NEW P \in PagerAt(n), NEW f \in Seq(SlotsAt(n)),
         NEW s, NEW h, NEW a, Logged(s, P, f, h, n, a), P.at = "sync", ~ Lax(s)
  PROVE  /\ Sections(f, P.journalOff) /\ Readable(f) /\ Ends(f, P.journalOff)
         /\ P.journalOff \in 1 .. Len(f) /\ Mine(P, f)
<1> DEFINE e == P.journalHdr
           m == P.journalOff
           b == P.nRec
<1>1. e \in Nat /\ m \in Nat /\ b \in Nat /\ Len(f) \in Nat
  BY DEF PagerAt
<1>2. Closed(P, f) /\ Mine(P, f)
  BY DEF Logged, Journals
<1>3. m \in 1 .. Len(f) /\ f[1].kind = "header"
  BY <1>2 DEF Mine
<1>4. IsHeader(f, 0)
  BY <1>1, <1>3 DEF IsHeader
<1>5. /\ e < m /\ IsHeader(f, e) /\ Sections(f, e) /\ OnlyRecords(f, e + 2, m) /\ b = m - e - 1
      /\ f[e + 1].magic /\ f[e + 1].nRec = b /\ Ends(f, m)
  BY <1>2 DEF Closed, Filling
<1>6. m <= Len(f)
  BY <1>3
<1> HIDE DEF e, m, b
<1>7. Sections(f, m) /\ Readable(f)
  BY ONLY <1>1, <1>4, <1>5, <1>6, ClosedIs
<1> QED
  BY <1>2, <1>3, <1>5, <1>7 DEF m

LEMMA DoneLogs ==
  ASSUME NEW n \in Nat, NEW P \in PagerAt(n), NEW f \in Seq(SlotsAt(n)),
         NEW s, NEW h, NEW a, Logged(s, P, f, h, n, a), P.at = "sync", ~ Lax(s),
         NEW Q, Q.at = "pages", Q.eState = "DBMOD", Q.goal = P.goal, Q.dbOrigSize = P.dbOrigSize, Q.tx = P.tx,
         Q.journalHdr = P.journalOff, Q.journalOff = P.journalOff
  PROVE  Logged(s, Q, f, h, n, FALSE)
<1>1. /\ Sections(f, P.journalOff) /\ Readable(f) /\ Ends(f, P.journalOff)
      /\ P.journalOff \in 1 .. Len(f) /\ Mine(P, f)
  BY SyncedLog
<1>2. Mine(Q, f)
  BY <1>1 DEF Mine
<1>3. Done(Q, f)
  BY <1>1 DEF Done
<1>4. Q.journalHdr # 0
  BY <1>1
<1>5. Journals(s, Q, f, h)
  BY <1>2, <1>3, <1>4 DEF Logged, Journals
<1> QED
  BY <1>5 DEF Logged

\* A section follows.
Continues(P, Q, f, g, m, o) ==
  /\ m = P.journalOff /\ o = m + 1
  /\ Q.at \notin {"sync", "pages"} /\ Q.eState = "DBMOD" /\ Q.goal = "spill" /\ P.goal = "spill"
  /\ Q.dbOrigSize = P.dbOrigSize /\ Q.tx = P.tx
  /\ Q.journalHdr = m /\ Q.journalOff = o /\ Q.nRec = 0
  /\ g = Put(f, o, Header(FALSE, 0, P.dbOrigSize, P.tx))
StillRecorded(f, g, m, o) == \A q : Recorded(f, m, q) => Recorded(g, m, q) /\ Recorded(g, o, q)

LEMMA NextLogs ==
  ASSUME NEW n \in Nat, NEW P \in PagerAt(n), NEW f \in Seq(SlotsAt(n)),
         NEW s, NEW h, NEW a, Logged(s, P, f, h, n, a), P.at = "sync", ~ Lax(s),
         NEW Q, NEW g, NEW m, NEW o, Continues(P, Q, f, g, m, o)
  PROVE  Logged(s, Q, g, h, n, FALSE) /\ StillRecorded(f, g, m, o)
<1> DEFINE x == Header(FALSE, 0, P.dbOrigSize, P.tx)
           z == Len(f) + 1
<1>0. /\ m = P.journalOff /\ o = m + 1
      /\ Q.at \notin {"sync", "pages"} /\ Q.eState = "DBMOD" /\ Q.goal = "spill" /\ P.goal = "spill"
      /\ Q.dbOrigSize = P.dbOrigSize /\ Q.tx = P.tx
      /\ Q.journalHdr = m /\ Q.journalOff = o /\ Q.nRec = 0
      /\ g = Put(f, o, Header(FALSE, 0, P.dbOrigSize, P.tx))
  BY DEF Continues
<1> USE <1>0
<1>1. m \in Nat /\ P.tx \in 0 .. n /\ P.dbOrigSize \in Nat /\ Len(f) \in Nat
  BY DEF PagerAt
<1>2. Sections(f, m) /\ Readable(f) /\ Ends(f, m) /\ m \in 1 .. Len(f) /\ Mine(P, f)
  BY SyncedLog
<1>3. /\ x.kind = "header" /\ x.magic = FALSE /\ x.nRec = 0 /\ x.orig = P.dbOrigSize /\ x.nonce = P.tx
      /\ x \in SlotsAt(n)
  BY <1>1 DEF Header, SlotsAt, HeaderSlots
<1>4. o = m + 1 /\ o \in 1 .. z /\ z = Len(f) + 1 /\ o \in Nat
  BY <1>1, <1>2
<1> HIDE DEF x, z
<1>5. /\ g \in Seq(SlotsAt(n)) /\ Len(g) \in Nat /\ Len(f) <= Len(g) /\ o <= Len(g)
      /\ g[o] = x /\ (\A k \in 1 .. Len(f) : k # o => g[k] = f[k])
      /\ (\A k \in 1 .. Len(g) : k = o \/ k \in 1 .. Len(f))
  <2>1. g = Put(f, o, x)
    BY DEF x
  <2>2. f \in Seq(SlotsAt(n))
    OBVIOUS
  <2> QED
    BY ONLY <1>3, <1>4, <2>1, <2>2, PutSame
<1>6. \A k \in 1 .. m : g[k] = f[k] /\ k \in 1 .. Len(f) /\ k \in 1 .. o /\ k \in 1 .. Len(g)
  <2>1. m <= Len(f)
    BY <1>2
  <2>2. \A k \in 1 .. m : k # o /\ k \in 1 .. Len(f) /\ k \in 1 .. o /\ k \in 1 .. Len(g)
    BY ONLY <1>1, <1>4, <1>5, <2>1
  <2> QED
    BY <1>5, <2>2
<1>7. \A k \in 1 .. o : k = o \/ k \in 1 .. m
  BY ONLY <1>1, <1>4
<1>8. \A k \in Recs(g, 1, o) : k \in Recs(f, 1, m) /\ g[k] = f[k]
  BY <1>3, <1>5, <1>6, <1>7 DEF Recs
<1>9. \A q : Recorded(f, m, q) => Recorded(g, m, q) /\ Recorded(g, o, q)
  BY <1>6 DEF Recorded, Recs
<1>10. Mine(Q, g)
  <2>1. o \in 1 .. Len(g) /\ 1 \in 1 .. m
    BY ONLY <1>1, <1>2, <1>4, <1>5
  <2>2. \A k \in 1 .. o : g[k].kind \in {"header", "record"} /\ g[k].nonce = P.tx
    <3>1. \A k \in 1 .. m : f[k].kind \in {"header", "record"} /\ f[k].nonce = P.tx
      BY <1>2 DEF Mine
    <3>2. \A k \in 1 .. m : g[k].kind \in {"header", "record"} /\ g[k].nonce = P.tx
      BY ONLY <1>6, <3>1
    <3>3. g[o].kind \in {"header", "record"} /\ g[o].nonce = P.tx
      BY ONLY <1>3, <1>5
    <3> QED
      BY ONLY <1>7, <3>2, <3>3
  <2>3. Stamps(g, o, P.tx)
    <3>1. \A k \in o + 1 .. Len(g) : k # o /\ k \in m + 1 .. Len(f)
      BY ONLY <1>1, <1>4, <1>5
    <3>2. \A k \in o + 1 .. Len(g) : g[k] = f[k]
      <4>1. \A k \in m + 1 .. Len(f) : k \in 1 .. Len(f)
        BY ONLY <1>1
      <4> QED
        BY <1>5, <3>1, <4>1
    <3> QED
      BY <1>2, <3>1, <3>2 DEF Stamps, Mine
  <2>4. g[1].kind = "header" /\ g[1].orig = P.dbOrigSize
    BY <1>2, <1>6, <2>1 DEF Mine
  <2> QED
    BY <2>1, <2>2, <2>3, <2>4 DEF Mine
<1>11. Sections(g, m) /\ IsHeader(g, m)
  <2>1. IsHeader(g, m)
    BY ONLY <1>1, <1>3, <1>4, <1>5 DEF IsHeader
  <2>2. \A k \in 0 .. m - 1 : (IsHeader(g, k) <=> IsHeader(f, k)) /\ k + 1 \in 1 .. m
    <3> SUFFICES ASSUME NEW k \in 0 .. m - 1 PROVE (IsHeader(g, k) <=> IsHeader(f, k)) /\ k + 1 \in 1 .. m
      OBVIOUS
    <3>0. m <= Len(f)
      BY <1>2
    <3>1. k + 1 \in 1 .. m /\ k < Len(f) /\ k < Len(g)
      BY ONLY <1>1, <1>5, <3>0, k \in 0 .. m - 1
    <3>2. g[k + 1] = f[k + 1]
      BY ONLY <1>6, <3>1
    <3> QED
      BY ONLY <3>1, <3>2 DEF IsHeader
  <2> SUFFICES ASSUME NEW k \in 0 .. m - 1, IsHeader(g, k)
               PROVE  LET c == g[k + 1].nRec IN
                      /\ g[k + 1].magic /\ c \in Nat /\ k + 1 + c <= m
                      /\ OnlyRecords(g, k + 2, k + 1 + c)
                      /\ k + 1 + c < m => IsHeader(g, k + 1 + c)
    BY <2>1 DEF Sections
  <2>3. IsHeader(f, k) /\ g[k + 1] = f[k + 1]
    <3>1. k + 1 \in 1 .. m /\ IsHeader(f, k)
      BY <2>2
    <3> QED
      BY ONLY <1>6, <3>1
  <2> DEFINE c == f[k + 1].nRec
  <2>4. /\ f[k + 1].magic /\ c \in Nat /\ k + 1 + c <= m
        /\ OnlyRecords(f, k + 2, k + 1 + c)
        /\ k + 1 + c < m => IsHeader(f, k + 1 + c)
    BY <1>2, <2>3 DEF Sections
  <2> HIDE DEF c
  <2>5. OnlyRecords(g, k + 2, k + 1 + c)
    <3>0. c \in Nat /\ k + 1 + c <= m /\ k \in 0 .. m - 1
      BY <2>4
    <3>1. \A j \in k + 2 .. k + 1 + c : j \in 1 .. m
      BY ONLY <1>1, <3>0
    <3> QED
      BY Zenon, <1>6, <2>4, <3>1 DEF OnlyRecords
  <2>6. k + 1 + c < m => IsHeader(g, k + 1 + c)
    <3>0. c \in Nat /\ k \in 0 .. m - 1
      BY <2>4
    <3>1. k + 1 + c < m => k + 1 + c \in 0 .. m - 1
      BY ONLY <1>1, <3>0
    <3> QED
      BY <2>2, <2>4, <3>1
  <2>7. g[k + 1].nRec = c
    BY <2>3 DEF c
  <2> QED
    BY <2>3, <2>4, <2>5, <2>6, <2>7
<1>12. Unsynced(Q, g)
  <2>1. OnlyRecords(g, m + 2, o)
    <3>1. \A k \in m + 2 .. o : FALSE
      BY ONLY <1>1, <1>4
    <3> QED
      BY <3>1 DEF OnlyRecords
  <2>2. 0 = o - m - 1 /\ m < o
    BY ONLY <1>1, <1>4
  <2>3. ~ g[m + 1].magic /\ g[m + 1].nRec = 0
    BY ONLY <1>3, <1>4, <1>5
  <2> QED
    BY <1>11, <2>1, <2>2, <2>3 DEF Unsynced, Filling
<1>13. Readable(g)
  <2>1. 1 \in 1 .. m /\ 0 < Len(g)
    BY ONLY <1>1, <1>2, <1>5
  <2>2. g[1] = f[1]
    BY <1>6, <2>1
  <2> QED
    <3>1. f[0 + 1].kind = "header" /\ f[0 + 1].magic
      BY <1>2 DEF Readable, readJournalHdr, IsHeader
    <3> QED
      BY ONLY <2>1, <2>2, <3>1 DEF Readable, readJournalHdr, IsHeader
<1>14. /\ Alone(s, f, m, h) /\ Right(f, Recs(f, 1, m), h) /\ Spans(P.dbOrigSize, h)
       /\ Kept(s, f, h) /\ NoneYet(f, h) /\ Stamps(f, 0, n + 1) /\ (P.goal = "spill" => s.spilling)
  BY DEF Logged, Journals
<1>15. Alone(s, g, o, h)
  <2>1. Tidy(f, m) => Tidy(g, o)
    <3> SUFFICES ASSUME Tidy(f, m), NEW k \in o + 1 .. Len(g) PROVE g[k].kind # "header"
      BY DEF Tidy
    <3>0. k \in o + 1 .. Len(g)
      OBVIOUS
    <3>1. k # o /\ k \in m + 1 .. Len(f) /\ k \in 1 .. Len(f)
      BY ONLY <1>1, <1>4, <1>5, <3>0
    <3> QED
      BY <1>5, <3>1 DEF Tidy
  <2> QED
    BY <1>14, <2>1 DEF Alone
<1>16. Right(g, Recs(g, 1, o), h)
  <2> DEFINE A == Recs(g, 1, o)
             B == Recs(f, 1, m)
  <2>1. Right(f, B, h) /\ \A k \in A : k \in B /\ g[k] = f[k]
    BY <1>8, <1>14
  <2> HIDE DEF A, B
  <2>2. Right(g, A, h)
    BY ONLY <2>1 DEF Right
  <2> QED
    BY <2>2 DEF A
<1>17. NoneYet(g, h)
  <2>0. f \in Seq(SlotsAt(n))
    OBVIOUS
  <2>1. DOMAIN g = 1 .. Len(g) /\ DOMAIN f = 1 .. Len(f)
    BY ONLY <1>5, <2>0
  <2>2. \A k \in DOMAIN g : g[k].kind = "record" => k \in DOMAIN f /\ f[k].kind = "record"
    <3> SUFFICES ASSUME NEW k \in DOMAIN g, g[k].kind = "record" PROVE k \in DOMAIN f /\ f[k].kind = "record"
      OBVIOUS
    <3>1. k # o
      BY <1>3, <1>5
    <3> QED
      BY <1>5, <2>1, <3>1
  <2> QED
    BY <1>14, <2>2 DEF NoneYet
<1>18. Stamps(g, 0, n + 1)
  <2> SUFFICES ASSUME NEW k \in 0 + 1 .. Len(g), g[k].kind \in {"header", "record"} PROVE g[k].nonce < n + 1
    BY DEF Stamps
  <2>1. CASE k = o
    <3>1. P.tx < n + 1
      BY ONLY <1>1, n \in Nat
    <3> QED
      BY ONLY <1>3, <1>5, <2>1, <3>1
  <2>2. CASE k # o
    <3>0. k \in 0 + 1 .. Len(g)
      OBVIOUS
    <3>1. k \in 1 .. Len(f) /\ k \in 0 + 1 .. Len(f)
      BY ONLY <1>1, <1>5, <2>2, <3>0
    <3>2. g[k] = f[k]
      BY ONLY <1>5, <2>2, <3>1
    <3>3. g[k].kind \in {"header", "record"}
      OBVIOUS
    <3> QED
      BY ONLY <1>14, <3>1, <3>2, <3>3 DEF Stamps
  <2> QED
    BY <2>1, <2>2
<1>19. m # 0
  BY <1>2
<1>21. Kept(s, g, h)
  BY <1>13, <1>14 DEF Kept
<1>22. Journals(s, Q, g, h)
  BY <1>10, <1>12, <1>14, <1>15, <1>16, <1>19 DEF Journals
<1> QED
  BY <1>9, <1>14, <1>17, <1>18, <1>21, <1>22 DEF Logged, StillRecorded

LEMMA NextSame ==
  ASSUME NEW n, NEW P \in PagerAt(n)
  PROVE  LET Q == [P EXCEPT !.journalHdr = P.journalOff]
             R == [Q EXCEPT !.nRec = 0]
         IN /\ SamePlace(P, Q) /\ SameFlags(P, Q) /\ SameSizes(P, Q)
            /\ Q.tx = P.tx /\ Q.pInJournal = P.pInJournal /\ Q.dbSize = P.dbSize
            /\ Q.cache = P.cache /\ Q.dbFileVers = P.dbFileVers
            /\ Q.journalHdr = P.journalOff /\ Q.journalOff = P.journalOff
            /\ SamePlace(P, R) /\ SameFlags(P, R) /\ SameSizes(P, R)
            /\ R.tx = P.tx /\ R.pInJournal = P.pInJournal /\ R.dbSize = P.dbSize
            /\ R.cache = P.cache /\ R.dbFileVers = P.dbFileVers
            /\ R.journalHdr = P.journalOff /\ R.journalOff = P.journalOff /\ R.nRec = 0
BY DEF PagerAt, SamePlace, SameFlags, SameSizes

(* Who has synced the journal writes the file.                             *)
LEMMA MarkedStores ==
  ASSUME IInv, LInv, SBody, NEW c \in Conns, pager[c].at = "sync", UNCHANGED <<levels, db, counters>>,
         NEW Q \in PagerAt(ntx), Set(c, Q), Marked(pager[c], Q), Q.eState = "DBMOD",
         Q.at = IF pager[c].goal = "spill" THEN "pageout" ELSE "pages",
         jrnl' \in JournalAt(ntx), jrnl'.exists, Logged(setting, Q, jrnl'.slots, Latest1, ntx, FALSE),
         \A q : Recorded(jrnl.slots, pager[c].journalOff, q) =>
                  Recorded(jrnl'.slots, Q.journalOff, q) /\ Synced(setting, Q, jrnl'.slots, q)
  PROVE  SBody'
<1> DEFINE P == pager[c]
           h == Latest1
           s == setting
           f == jrnl.slots
<1>1. /\ P.eState \in {"CACHEMOD", "DBMOD"} /\ P.goal \in {"spill", "commit"} /\ lock[c] = EXCLUSIVE_LOCK
      /\ P \in PagerAt(ntx) /\ ntx \in Nat
      /\ db \in Seq(ContentAt(ntx)) /\ h \in Seq(Page) /\ 1 \in Cached(P)
      /\ Len(h) <= Len(db)
      /\ Changes(s, P, f, db, h) /\ Sizes(P, db, h) /\ Version(P, h)
      /\ P.hasHeldSharedLock /\ P.dbFileVers.ver >= 0
      /\ (P.goal = "spill" => P.k \in Cached(P) \ {1})
  BY WriterAt
<1>2. Changes(s, Q, jrnl'.slots, db, h) /\ Size(Q) = Size(P)
  <2>1. Changes(s, Q, jrnl'.slots, db, h)
    BY <1>1, MarkedChanges
  <2> QED
    BY <1>1, <2>1 DEF Size, Marked
<1>3. Q.goal = P.goal /\ (P.goal = "spill" => Q.at = "pageout") /\ (P.goal = "commit" => Q.at = "pages") /\ P.at = "sync"
  BY DEF Marked
<1> HIDE DEF P
<1>4. Committing(Q) <=> Committing(P)
  BY <1>1, <1>3 DEF Committing
<1>5. Sizes(Q, db, h)
  BY <1>1, <1>2, <1>4 DEF Sizes, Marked, SameSizes, SameFlags, P
<1>6. Version(Q, h)
  <2>1. Q.dbFileVers = P.dbFileVers /\ Q.changeCountDone = P.changeCountDone /\ Q.pInJournal = P.pInJournal /\ Q.k = P.k
    BY DEF Marked, SameFlags, P
  <2>2. /\ \A q \in Cached(P) : /\ Q.cache[q].val = P.cache[q].val /\ Q.cache[q].dirty = P.cache[q].dirty
                                /\ ~ Q.cache[q].needSync
    BY DEF Marked, P
  <2> QED
    BY <1>1, <1>3, <1>4, <2>1, <2>2 DEF Version
<1>7. Covers(db, h) /\ db' = db /\ Q.hasHeldSharedLock /\ Q.dbFileVers.ver >= 0 /\ Q.goal # "rollback"
  BY <1>1, <1>3 DEF Covers, Marked, SameFlags, P
<1>8. Logged(s, Q, jrnl'.slots, h, ntx, Q.eState # "DBMOD")
  OBVIOUS
<1>9. Q.eState \in {"CACHEMOD", "DBMOD"} /\ (Q.eState = "CACHEMOD" => Holds(db', h)) /\ UNCHANGED <<levels, counters>>
  OBVIOUS
<1>10. Changes(s, Q, jrnl'.slots, db', h) /\ Sizes(Q, db', h) /\ Covers(db', h) /\ db' \in Seq(ContentAt(ntx))
  BY <1>1, <1>2, <1>5, <1>7
<1> QED
  BY <1>1, <1>6, <1>7, <1>8, <1>9, <1>10, LockedStores

LEMMA SyncJournalStores == ASSUME IInv, LInv, SBody, NEW c \in Conns, SyncJournal(c) PROVE SBody'
<1> DEFINE P == pager[c]
           h == Latest1
           s == setting
           f == jrnl.slots
           a == P.eState # "DBMOD"
           where == IF P.goal = "spill" THEN "pageout" ELSE "pages"
           Q == Writes(P, where)
           R == [Q EXCEPT !.journalHdr = Q.journalOff]
           N == [R EXCEPT !.nRec = 0]
           r == [P |-> R, f |-> f]
           u == [P |-> N, f |-> f]
           t == writeJournalHdr(u)
<1>1. P.at = "sync" /\ UNCHANGED <<levels, db, ddb, counters>>
  BY Zenon DEF SyncJournal
<1>2. /\ P.eState \in {"CACHEMOD", "DBMOD"} /\ P.goal \in {"spill", "commit"}
      /\ P \in PagerAt(ntx) /\ ntx \in Nat /\ jrnl \in JournalAt(ntx) /\ jrnl.exists
      /\ f \in Seq(SlotsAt(ntx)) /\ Logged(s, P, f, h, ntx, a)
  BY <1>1, WriterAt
<1>3. noSync <=> Lax(s)
  BY DEF noSync, Lax, Synchronous
<1>4. \/ Lax(s) /\ Set(c, Q) /\ jrnl' = jrnl
      \/ ~ Lax(s) /\ P.goal = "spill" /\ Set(c, t.P) /\ jrnl' = [jrnl EXCEPT !.fresh = FALSE, !.slots = t.f]
      \/ ~ Lax(s) /\ P.goal # "spill" /\ Set(c, R) /\ jrnl' = [jrnl EXCEPT !.fresh = FALSE, !.slots = f]
  <2>1. [r EXCEPT !.P.nRec = 0] = u
    BY PairNoRecords
  <2>2. t = writeJournalHdr([r EXCEPT !.P.nRec = 0])
    BY <2>1
  <2>3. r.P = R
    OBVIOUS
  <2> HIDE DEF t
  <2> QED
    BY Zenon, <1>3, <2>2, <2>3 DEF SyncJournal, Writes, Unneeded
<1>5. where \in Places /\ where \notin {"sync"} /\ (P.goal = "spill" => where = "pageout") /\ (P.goal # "spill" => where = "pages")
  BY DEF Places
<1> HIDE DEF P, where
<1>6. /\ Q \in PagerAt(ntx) /\ Marked(P, Q) /\ SameLog(P, Q) /\ Q.eState = "DBMOD" /\ Q.at = where
  BY <1>2, <1>5, WritesSame, WritesIs
<1> HIDE DEF Q
<1>7. CASE Lax(s) /\ Set(c, Q) /\ jrnl' = jrnl
  <2>1. Logged(s, Q, f, h, ntx, FALSE)
    <3>1. Q.goal = P.goal /\ Q.dbOrigSize = P.dbOrigSize
      BY <1>6 DEF Marked, SameSizes
    <3> QED
      BY <1>2, <1>6, <1>7, <3>1, LaxLogs
  <2>2. \A q : Recorded(f, P.journalOff, q) => Recorded(f, Q.journalOff, q) /\ Synced(s, Q, f, q)
    BY <1>6, <1>7 DEF SameLog, Synced
  <2> QED
    BY <1>1, <1>2, <1>6, <1>7, <2>1, <2>2, MarkedStores DEF P, where
<1>8. /\ R \in PagerAt(ntx) /\ N \in PagerAt(ntx)
      /\ SamePlace(Q, R) /\ SameFlags(Q, R) /\ SameSizes(Q, R)
      /\ R.tx = Q.tx /\ R.pInJournal = Q.pInJournal /\ R.dbSize = Q.dbSize
      /\ R.cache = Q.cache /\ R.dbFileVers = Q.dbFileVers
      /\ R.journalHdr = Q.journalOff /\ R.journalOff = Q.journalOff
      /\ SamePlace(Q, N) /\ SameFlags(Q, N) /\ SameSizes(Q, N)
      /\ N.tx = Q.tx /\ N.pInJournal = Q.pInJournal /\ N.dbSize = Q.dbSize
      /\ N.cache = Q.cache /\ N.dbFileVers = Q.dbFileVers
      /\ N.journalHdr = Q.journalOff /\ N.journalOff = Q.journalOff /\ N.nRec = 0
  <2>1. R \in PagerAt(ntx)
    BY <1>6, NextHeader
  <2>2. N \in PagerAt(ntx)
    BY <2>1, NoRecords
  <2> QED
    BY Zenon, <1>6, <2>1, <2>2, NextSame
<1> HIDE DEF R
<1>9. CASE ~ Lax(s) /\ P.goal # "spill" /\ Set(c, R) /\ jrnl' = [jrnl EXCEPT !.fresh = FALSE, !.slots = f]
  <2>1. Marked(P, R) /\ R.eState = "DBMOD" /\ R.at = where
    BY <1>6, <1>8 DEF Marked, SamePlace, SameFlags, SameSizes, Cached
  <2>2. Logged(s, R, f, h, ntx, FALSE)
    <3>1. /\ R.at = "pages" /\ R.eState = "DBMOD" /\ R.goal = P.goal /\ R.dbOrigSize = P.dbOrigSize /\ R.tx = P.tx
          /\ R.journalHdr = P.journalOff /\ R.journalOff = P.journalOff
      BY <1>5, <1>6, <1>8, <1>9, <2>1 DEF Marked, SameSizes, SameLog
    <3> QED
      BY <1>1, <1>2, <1>9, <3>1, DoneLogs DEF P
  <2>3. jrnl' \in JournalAt(ntx) /\ jrnl'.exists /\ jrnl'.slots = f
    <3>1. jrnl' \in JournalAt(ntx)
      BY Zenon, <1>2, <1>9, JournalIs
    <3> QED
      BY <1>2, <1>9, <3>1 DEF JournalAt
  <2>4. \A q : Recorded(f, P.journalOff, q) => Recorded(f, R.journalOff, q) /\ Synced(s, R, f, q)
    BY <1>6, <1>8 DEF SameLog, Synced
  <2> QED
    BY <1>1, <1>8, <1>9, <2>1, <2>2, <2>3, <2>4, MarkedStores DEF P, where
<1>10. CASE ~ Lax(s) /\ P.goal = "spill" /\ Set(c, t.P) /\ jrnl' = [jrnl EXCEPT !.fresh = FALSE, !.slots = t.f]
  <2> DEFINE o == N.journalOff + 1
  <2> HIDE DEF N
  <2>1. u \in PairAt(ntx) /\ u.P = N /\ u.f = f
    BY <1>2, <1>8 DEF PairAt
  <2> HIDE DEF u
  <2>2. t \in PairAt(ntx)
    BY <1>2, <2>1, HeaderWritten
  <2>3. Heads(N, t.P, o) /\ t.f = Put(f, o, Header(noSync, InitialCount, N.dbOrigSize, N.tx))
    <3>1. o = u.P.journalOff + 1
      BY <2>1
    <3> HIDE DEF o, t
    <3>2. Heads(u.P, t.P, o) /\ t.f = Put(u.f, o, Header(noSync, InitialCount, u.P.dbOrigSize, u.P.tx))
      BY <1>2, <2>1, <3>1, HeaderSame DEF t
    <3> QED
      BY <2>1, <3>2
  <2> DEFINE X == t.P
             g == t.f
  <2>4. X \in PagerAt(ntx) /\ g \in Seq(SlotsAt(ntx))
    BY <2>2 DEF PairAt
  <2> HIDE DEF t, o
  <2>5. Marked(P, X) /\ X.eState = "DBMOD" /\ X.at = where
    BY <1>6, <1>8, <2>3 DEF Heads, Marked, SamePlace, SameFlags, SameSizes, Cached
  <2>6. noSync = FALSE /\ InitialCount = 0
    BY <1>3, <1>10 DEF InitialCount, noSync, Synchronous
  <2>7. /\ X.at \notin {"sync", "pages"} /\ X.goal = "spill" /\ X.dbOrigSize = P.dbOrigSize /\ X.tx = P.tx
        /\ X.journalHdr = P.journalOff /\ X.journalOff = o /\ X.nRec = 0 /\ o = P.journalOff + 1
        /\ g = Put(f, o, Header(FALSE, 0, P.dbOrigSize, P.tx))
    <3>1. N.dbOrigSize = P.dbOrigSize /\ N.tx = P.tx /\ N.journalOff = P.journalOff
      BY <1>6, <1>8 DEF Marked, SameSizes, SameLog
    <3>2. o = P.journalOff + 1
      BY <3>1 DEF o
    <3> QED
      BY <1>5, <1>8, <1>10, <2>3, <2>5, <2>6, <3>1, <3>2 DEF Heads, Marked, SameSizes
  <2>8. /\ Logged(s, X, g, h, ntx, FALSE)
        /\ \A q : Recorded(f, P.journalOff, q) => Recorded(g, P.journalOff, q) /\ Recorded(g, o, q)
    <3>1. P.at = "sync" /\ ~ Lax(s) /\ P.goal = "spill"
      BY <1>1, <1>10 DEF P
    <3> DEFINE m == P.journalOff
    <3>4. Continues(P, X, f, g, m, o)
      BY <1>10, <2>5, <2>7 DEF Continues
    <3>5. P \in PagerAt(ntx) /\ ntx \in Nat /\ f \in Seq(SlotsAt(ntx)) /\ Logged(s, P, f, h, ntx, a)
      BY <1>2
    <3> HIDE DEF m
    <3> HIDE DEF s, h, f, a, X, g
    <3>3. Logged(s, X, g, h, ntx, FALSE) /\ StillRecorded(f, g, m, o)
      BY ONLY <3>1, <3>4, <3>5, NextLogs
    <3> QED
      BY <3>3 DEF m, StillRecorded
  <2>9. \A q : Recorded(f, P.journalOff, q) => Recorded(g, X.journalOff, q) /\ Synced(s, X, g, q)
    BY <1>10, <2>7, <2>8 DEF Synced
  <2>10. jrnl' \in JournalAt(ntx) /\ jrnl'.exists /\ jrnl'.slots = g
    <3>1. jrnl' \in JournalAt(ntx)
      BY Zenon, <1>2, <1>10, <2>4, JournalIs
    <3> QED
      BY <1>2, <1>10, <3>1 DEF JournalAt
  <2> HIDE DEF X, g
  <2>11. Set(c, X)
    BY <1>10 DEF X
  <2> QED
    BY <1>1, <2>4, <2>5, <2>8, <2>9, <2>10, <2>11, MarkedStores DEF P, where
<1> QED
  BY <1>4, <1>7, <1>9, <1>10

-----------------------------------------------------------------------------
(* A page goes to the file whose old content the journal has.              *)
Backed(s, P, f, h, p) ==
  /\ p \in Cached(P) /\ P.cache[p].dirty
  /\ p <= Len(h) => Synced(s, P, f, p)
Leaves(P, Q, p) ==
  /\ P.eState = "DBMOD" /\ Q.eState = "DBMOD" /\ SameLog(P, Q) /\ Q.pInJournal = P.pInJournal /\ Q.dbSize = P.dbSize
  /\ 1 \in Cached(Q) /\ Cached(Q) \subseteq Cached(P) /\ Cached(P) \subseteq Cached(Q) \cup {p}
  /\ \A q \in Cached(Q) : /\ Q.cache[q].val = P.cache[q].val /\ Q.cache[q].needSync = P.cache[q].needSync
                          /\ q # p => Q.cache[q].dirty = P.cache[q].dirty
Takes(P, Q, d, e, p) ==
  /\ Len(d) <= Len(e) /\ \A q \in 1 .. Len(d) : q # p => e[q] = d[q]
  /\ p \in Cached(Q) => p <= Len(e) /\ e[p] = P.cache[p].val

LEMMA LeavesChanges ==
  ASSUME NEW n, NEW P \in PagerAt(n), NEW Q, NEW p, Leaves(P, Q, p), NEW s, NEW f, NEW h \in Seq(Page), Backed(s, P, f, h, p),
         NEW d \in Seq(ContentAt(n)), NEW e \in Seq(ContentAt(n)), Takes(P, Q, d, e, p),
         Changes(s, P, f, d, h), Covers(d, h)
  PROVE  Changes(s, Q, f, e, h) /\ Covers(e, h)
<1>1. Len(h) \in Nat /\ Len(d) \in Nat /\ Len(e) \in Nat /\ Len(h) <= Len(d) /\ Len(d) <= Len(e)
  BY NotEmpty DEF Covers, Takes
<1>2. Size(Q) = Size(P)
  BY DEF Leaves, Size
<1>3. \A q : Synced(s, P, f, q) <=> Synced(s, Q, f, q)
  BY DEF Leaves, SameLog, Synced
<1>4. Q.pInJournal = P.pInJournal /\ Q.journalOff = P.journalOff /\ Q.eState = "DBMOD" /\ P.eState = "DBMOD"
  BY DEF Leaves, SameLog
<1> DEFINE S == 1 .. Size(P)
<1>5. Changing(s, P, f, d, h, S)
  BY DEF Changes
<1> HIDE DEF S
<1>6. p \in Cached(P) /\ P.cache[p].dirty /\ (p <= Len(h) => Synced(s, P, f, p))
  BY DEF Backed
<1>7. \A q \in Cached(Q) : q <= Len(h) => q \in Q.pInJournal \/ (Q.cache[q].val = h[q] /\ ~ Q.cache[q].dirty)
  <2> SUFFICES ASSUME NEW q \in Cached(Q), q <= Len(h), q \notin Q.pInJournal
               PROVE  Q.cache[q].val = h[q] /\ ~ Q.cache[q].dirty
    OBVIOUS
  <2>1. q \in Cached(P) /\ q \notin P.pInJournal
    BY <1>4 DEF Leaves
  <2>2. P.cache[q].val = h[q] /\ ~ P.cache[q].dirty
    BY <1>5, <2>1 DEF Changing
  <2>3. q # p
    BY <1>6, <2>2
  <2> QED
    BY <2>2, <2>3 DEF Leaves
<1>8. \A q \in Q.pInJournal : q <= Len(h) =>
        /\ Recorded(f, Q.journalOff, q)
        /\ Synced(s, Q, f, q) \/ (q \in Cached(Q) /\ Q.cache[q].needSync)
  <2> SUFFICES ASSUME NEW q \in Q.pInJournal, q <= Len(h)
               PROVE  /\ Recorded(f, Q.journalOff, q)
                      /\ Synced(s, Q, f, q) \/ (q \in Cached(Q) /\ Q.cache[q].needSync)
    OBVIOUS
  <2>1. Recorded(f, P.journalOff, q) /\ (Synced(s, P, f, q) \/ (q \in Cached(P) /\ P.cache[q].needSync))
    BY <1>4, <1>5 DEF Changing
  <2>2. CASE q = p
    BY <1>3, <1>4, <1>6, <2>1, <2>2
  <2>3. CASE q # p
    BY <1>3, <1>4, <2>1, <2>3 DEF Leaves
  <2> QED
    BY <2>2, <2>3
<1>9. \A q \in Cached(Q) : q \in S /\ ~ Q.cache[q].dirty => q <= Len(e) /\ e[q] = Q.cache[q].val
  <2> SUFFICES ASSUME NEW q \in Cached(Q), q \in S, ~ Q.cache[q].dirty
               PROVE  q <= Len(e) /\ e[q] = Q.cache[q].val
    OBVIOUS
  <2>1. Q.cache[q].val = P.cache[q].val /\ q \in Cached(P)
    BY DEF Leaves
  <2>2. CASE q = p
    BY <2>1, <2>2 DEF Takes
  <2>3. CASE q # p
    <3>1. q <= Len(d) /\ d[q] = P.cache[q].val
      <4>1. ~ P.cache[q].dirty
        BY <2>3 DEF Leaves
      <4> QED
        BY <1>5, <2>1, <4>1 DEF Changing
    <3>2. q \in 1 .. MaxPage
      BY <2>1, PageIs
    <3>3. q \in 1 .. Len(d)
      BY <1>1, <3>1, <3>2, PagerAssumption
    <3> QED
      BY <1>1, <2>1, <2>3, <3>1, <3>2, <3>3, PagerAssumption DEF Takes
  <2> QED
    BY <2>2, <2>3
<1>10. \A q \in 1 .. Len(h) : e[q] = h[q] \/ (q \in Q.pInJournal /\ Synced(s, Q, f, q))
  <2> SUFFICES ASSUME NEW q \in 1 .. Len(h)
               PROVE  e[q] = h[q] \/ (q \in Q.pInJournal /\ Synced(s, Q, f, q))
    OBVIOUS
  <2>1. d[q] = h[q] \/ (q \in P.pInJournal /\ Synced(s, P, f, q))
    BY <1>5 DEF Changing
  <2>2. CASE q = p
    <3>1. p <= Len(h)
      BY <1>1, <2>2
    <3>2. p \in P.pInJournal
      BY <1>5, <1>6, <3>1 DEF Changing
    <3> QED
      BY <1>3, <1>4, <1>6, <2>2, <3>1, <3>2
  <2>3. CASE q # p
    <3>1. q \in 1 .. Len(d)
      BY <1>1
    <3>2. e[q] = d[q]
      BY <2>3, <3>1 DEF Takes
    <3> QED
      BY <1>3, <1>4, <2>1, <3>2
  <2> QED
    BY <2>2, <2>3
<1>11. Changing(s, Q, f, e, h, S)
  BY <1>4, <1>7, <1>8, <1>9, <1>10 DEF Changing
<1> QED
  BY <1>1, <1>2, <1>11 DEF Changes, Covers, S

LEMMA Write1Same ==
  ASSUME NEW n, NEW P \in PagerAt(n), NEW p
  PROVE  LET Q == Write1(P, p) IN
         /\ SamePlace(P, Q) /\ SameFlags(P, Q) /\ SameLog(P, Q) /\ Q.dbOrigSize = P.dbOrigSize
         /\ Q.dbSize = P.dbSize /\ Q.pInJournal = P.pInJournal /\ Q.cache = P.cache
         /\ Q.dbFileSize = (IF P.dbFileSize < p THEN p ELSE P.dbFileSize)
         /\ Q.dbFileVers = (IF p = 1 THEN P.cache[1].val ELSE P.dbFileVers)
<1> DEFINE m == IF P.dbFileSize < p THEN p ELSE P.dbFileSize
           v == IF p = 1 THEN P.cache[1].val ELSE P.dbFileVers
<1>1. Write1(P, p) = [P EXCEPT !.dbFileSize = m, !.dbFileVers = v]
  BY DEF Write1
<1> HIDE DEF m, v
<1>2. LET Q == [P EXCEPT !.dbFileSize = m, !.dbFileVers = v] IN
      /\ SamePlace(P, Q) /\ SameFlags(P, Q) /\ SameLog(P, Q) /\ Q.dbOrigSize = P.dbOrigSize
      /\ Q.dbSize = P.dbSize /\ Q.pInJournal = P.pInJournal /\ Q.cache = P.cache
      /\ Q.dbFileSize = m /\ Q.dbFileVers = v
  BY DEF PagerAt, SamePlace, SameFlags, SameLog
<1> QED
  BY <1>1, <1>2 DEF m, v

LEMMA OutSame ==
  ASSUME NEW n, NEW P \in PagerAt(n)
  PROVE  LET Q == [P EXCEPT !.at = "idle", !.goal = "none", !.k = 0] IN
         /\ Q.eState = P.eState /\ SameFlags(P, Q) /\ SameLog(P, Q) /\ SameSizes(P, Q)
         /\ Q.dbSize = P.dbSize /\ Q.pInJournal = P.pInJournal /\ Q.cache = P.cache /\ Q.dbFileVers = P.dbFileVers
BY DEF PagerAt, SameFlags, SameLog, SameSizes

LEMMA UnmarkedSame ==
  ASSUME NEW n, NEW P \in PagerAt(n), NEW p \in Cached(P)
  PROVE  LET Q == [P EXCEPT !.cache[p].dirty = FALSE] IN
         /\ OtherCache(P, Q) /\ Cached(Q) = Cached(P)
         /\ \A q \in Cached(Q) : /\ Q.cache[q].val = P.cache[q].val /\ Q.cache[q].needSync = P.cache[q].needSync
                                 /\ q # p => Q.cache[q].dirty = P.cache[q].dirty
         /\ ~ Q.cache[p].dirty
<1> DEFINE g == [P.cache EXCEPT ![p].dirty = FALSE]
<1>1. P.cache \in CacheAt(n) /\ P.cache[p] \in EntryAt(n)
  BY PageIs DEF PagerAt
<1>2. P.cache = [q \in Cached(P) |-> P.cache[q]]
  BY <1>1, CacheIs DEF Cached
<1>3. /\ DOMAIN g = Cached(P) /\ \A q \in Cached(P) : q # p => g[q] = P.cache[q]
      /\ g[p] = [P.cache[p] EXCEPT !.dirty = FALSE]
  BY <1>2
<1>4. g[p].val = P.cache[p].val /\ g[p].needSync = P.cache[p].needSync /\ ~ g[p].dirty
  BY <1>1, <1>3 DEF EntryAt
<1>5. [P EXCEPT !.cache[p].dirty = FALSE] = [P EXCEPT !.cache = g]
  OBVIOUS
<1> HIDE DEF g
<1> DEFINE Q == [P EXCEPT !.cache = g]
<1>6. Same(P, Q) /\ Q.dbSize = P.dbSize /\ Q.pInJournal = P.pInJournal /\ Q.dbFileVers = P.dbFileVers /\ Q.cache = g
  BY NewCacheSame
<1> HIDE DEF Q
<1> QED
  BY <1>3, <1>4, <1>5, <1>6 DEF OtherCache, Cached, Q

LEMMA LeavesStores ==
  ASSUME IInv, LInv, SBody, NEW c \in Conns, pager[c].at \in {"pageout", "pages"},
         UNCHANGED <<levels, jrnl, counters>>,
         NEW Q \in PagerAt(ntx), Set(c, Q), NEW p, Leaves(pager[c], Q, p), Backed(setting, pager[c], jrnl.slots, Latest1, p),
         Takes(pager[c], Q, db, db', p), db' \in Seq(ContentAt(ntx)), Q.dbFileSize = Len(db'),
         SameFlags(pager[c], Q), Q.dbOrigSize = pager[c].dbOrigSize, Q.goal # "rollback",
         Q.goal = "spill" => pager[c].goal = "spill",
         Q.at = pager[c].at \/ {pager[c].at, Q.at} \cap {"sync", "pages"} = {},
         Committing(Q) <=> Committing(pager[c]), Version(Q, Latest1), Q.dbFileVers.ver >= 0
  PROVE  SBody'
<1> DEFINE P == pager[c]
           h == Latest1
           s == setting
           f == jrnl.slots
           d == db
<1>1. /\ P.eState = "DBMOD" /\ lock[c] = EXCLUSIVE_LOCK /\ P \in PagerAt(ntx) /\ ntx \in Nat
      /\ jrnl \in JournalAt(ntx) /\ jrnl.exists
      /\ d \in Seq(ContentAt(ntx)) /\ h \in Seq(Page) /\ 1 \in Cached(P) /\ Len(h) <= Len(d)
      /\ Logged(s, P, f, h, ntx, P.eState # "DBMOD")
      /\ Changes(s, P, f, d, h) /\ Sizes(P, d, h) /\ P.hasHeldSharedLock
  BY WriterAt
<1>2. Changes(s, Q, f, db', h) /\ Covers(db', h)
  <2>1. Covers(d, h)
    BY <1>1 DEF Covers
  <2> QED
    BY <1>1, <2>1, LeavesChanges
<1>3. /\ Q.eState = "DBMOD" /\ SameLog(P, Q) /\ Q.dbSize = P.dbSize /\ Size(Q) = Size(P) /\ Q.hasHeldSharedLock
      /\ Q.bDoTruncate = P.bDoTruncate
  BY <1>1 DEF Leaves, Size, SameFlags
<1>4. Sizes(Q, db', h)
  BY <1>1, <1>3 DEF Sizes
<1>5. Logged(s, Q, f, h, ntx, FALSE)
  <2>1. Logged(s, P, f, h, ntx, FALSE)
    BY <1>1 DEF Logged
  <2> QED
    BY <1>1, <1>3, <2>1, LoggedTurns
<1>6. jrnl' = jrnl /\ jrnl' \in JournalAt(ntx) /\ jrnl'.exists /\ UNCHANGED <<levels, counters>>
  BY <1>1
<1>7. Q.eState \in {"CACHEMOD", "DBMOD"} /\ (Q.eState = "CACHEMOD" => Holds(db', h))
  BY <1>3
<1>8. Logged(s, Q, jrnl'.slots, h, ntx, Q.eState # "DBMOD") /\ Changes(s, Q, jrnl'.slots, db', h)
  BY <1>2, <1>3, <1>5, <1>6
<1> QED
  BY <1>1, <1>2, <1>3, <1>4, <1>6, <1>7, <1>8, LockedStores

LEMMA PageOutStores == ASSUME IInv, LInv, SBody, NEW c \in Conns, PageOut(c) PROVE SBody'
<1> DEFINE P == pager[c]
           k == P.k
           v == P.cache[k].val
           h == Latest1
           s == setting
           f == jrnl.slots
           d == db
           R == Keep(P, Cached(P) \ {k})
           Q == [R EXCEPT !.at = "idle", !.goal = "none", !.k = 0]
           W == Write1(Q, k)
<1>1. P.at = "pageout" /\ UNCHANGED <<levels, jrnl, ddb, djrnl, counters>>
  BY DEF PageOut
<1>2. \/ k <= P.dbSize /\ db' = WritePage(d, k, v) /\ Set(c, W)
      \/ ~ (k <= P.dbSize) /\ db' = d /\ Set(c, Q)
  BY DEF PageOut
<1>3. /\ P.eState = "DBMOD" /\ P.goal = "spill" /\ P \in PagerAt(ntx) /\ ntx \in Nat
      /\ d \in Seq(ContentAt(ntx)) /\ h \in Seq(Page) /\ 1 \in Cached(P) /\ Len(h) <= Len(d)
      /\ Changes(s, P, f, d, h) /\ Sizes(P, d, h) /\ Version(P, h)
      /\ P.hasHeldSharedLock /\ P.dbFileVers.ver >= 0 /\ k \in Cached(P) \ {1}
  BY <1>1, WriterAt
<1> HIDE DEF P
<1>4. P.cache[k].dirty /\ ~ P.cache[k].needSync /\ P.dbFileSize = Len(d) /\ ~ Committing(P) /\ ~ P.changeCountDone
      /\ (h # << >> => P.dbFileVers = h[1])
  BY <1>1, <1>3 DEF Version, Sizes, Committing
<1>5. k \in 1 .. MaxPage /\ k \in Nat /\ v \in ContentAt(ntx) /\ k # 1 /\ Len(d) \in Nat
  BY <1>3, PageIs, PagerAssumption, NotEmpty
<1> HIDE DEF k, v
<1>6. Backed(s, P, f, h, k)
  <2> DEFINE S == 1 .. Size(P)
  <2>1. Changing(s, P, f, d, h, S)
    BY <1>3 DEF Changes
  <2> HIDE DEF S
  <2>2. k \in Cached(P) /\ P.cache[k].dirty /\ ~ P.cache[k].needSync
    BY <1>3, <1>4
  <2> QED
    BY <1>3, <2>1, <2>2 DEF Backed, Changing
<1>7. /\ OtherCache(P, R) /\ Cached(R) = Cached(P) \cap (Cached(P) \ {k}) /\ (\A p \in Cached(R) : R.cache[p] = P.cache[p])
      /\ R \in PagerAt(ntx)
  BY <1>3, KeepSame, KeepIs
<1> HIDE DEF R
<1>8. /\ Q.eState = R.eState /\ SameFlags(R, Q) /\ SameLog(R, Q) /\ SameSizes(R, Q)
      /\ Q.dbSize = R.dbSize /\ Q.pInJournal = R.pInJournal /\ Q.cache = R.cache /\ Q.dbFileVers = R.dbFileVers
      /\ Q \in PagerAt(ntx) /\ Q.at = "idle" /\ Q.goal = "none"
  BY Zenon, <1>7, OutSame, OutIs
<1> HIDE DEF Q
<1>9. /\ SameFlags(P, Q) /\ SameLog(P, Q) /\ SameSizes(P, Q) /\ Q.dbFileVers = P.dbFileVers
      /\ Leaves(P, Q, k) /\ k \notin Cached(Q)
  <2>1. /\ SameFlags(P, Q) /\ SameLog(P, Q) /\ SameSizes(P, Q) /\ Q.dbFileVers = P.dbFileVers /\ Q.dbSize = P.dbSize
        /\ Q.pInJournal = P.pInJournal /\ Q.eState = P.eState
    BY <1>7, <1>8 DEF OtherCache, Same, SamePlace, SameFlags, SameLog, SameSizes
  <2>2. Cached(Q) = Cached(P) \ {k} /\ \A q \in Cached(Q) : Q.cache[q] = P.cache[q]
    <3>1. Cached(Q) = Cached(R)
      BY <1>8 DEF Cached
    <3> QED
      BY <1>7, <1>8, <3>1
  <2> QED
    BY <1>3, <1>5, <2>1, <2>2 DEF Leaves
<1>10. /\ SamePlace(Q, W) /\ SameFlags(Q, W) /\ SameLog(Q, W) /\ W.dbOrigSize = Q.dbOrigSize
       /\ W.dbSize = Q.dbSize /\ W.pInJournal = Q.pInJournal /\ W.cache = Q.cache
       /\ W.dbFileSize = (IF Q.dbFileSize < k THEN k ELSE Q.dbFileSize)
       /\ W.dbFileVers = Q.dbFileVers /\ W \in PagerAt(ntx)
  <2>1. W \in PagerAt(ntx)
    BY <1>5, <1>8, Write1Is
  <2> QED
    BY <1>5, <1>8, <2>1, Write1Same
<1> HIDE DEF W
<1>11. CASE ~ (k <= P.dbSize) /\ db' = d /\ Set(c, Q)
  <2>1. Takes(P, Q, d, db', k) /\ db' \in Seq(ContentAt(ntx)) /\ Q.dbFileSize = Len(db')
    BY <1>3, <1>4, <1>5, <1>9, <1>11 DEF Takes, SameSizes
  <2>2. Version(Q, h) /\ ~ Committing(Q)
    BY <1>4, <1>8, <1>9 DEF Version, Committing, SameFlags
  <2>3. /\ Q.dbOrigSize = P.dbOrigSize /\ Q.goal # "rollback" /\ Q.goal # "spill" /\ Q.dbFileVers.ver >= 0
        /\ {P.at, Q.at} \cap {"sync", "pages"} = {} /\ (Committing(Q) <=> Committing(P)) /\ P.at \in {"pageout", "pages"}
    BY <1>1, <1>3, <1>4, <1>8, <1>9, <2>2 DEF SameSizes, P
  <2>4. UNCHANGED <<levels, jrnl, counters>>
    BY <1>1
  <2> QED
    BY <1>6, <1>8, <1>9, <1>11, <2>1, <2>2, <2>3, <2>4, LeavesStores DEF P
<1>12. CASE k <= P.dbSize /\ db' = WritePage(d, k, v) /\ Set(c, W)
  <2>1. /\ Len(db') = (IF k > Len(d) THEN k ELSE Len(d)) /\ (\A q \in 1 .. Len(d) : q # k => db'[q] = d[q])
        /\ db' \in Seq(ContentAt(ntx))
    <3>1. WritePage(d, k, v) \in Seq(ContentAt(ntx))
      BY <1>3, <1>5, WritePageIs
    <3> QED
      BY <1>3, <1>5, <1>12, <3>1, WrittenPages
  <2>2. Leaves(P, W, k) /\ k \notin Cached(W)
    BY <1>9, <1>10 DEF Leaves, SamePlace, SameLog, Cached
  <2>3. Q.dbFileSize = Len(d)
    BY <1>4, <1>9 DEF SameSizes
  <2>4. Takes(P, W, d, db', k) /\ W.dbFileSize = Len(db')
    BY <1>5, <1>10, <2>1, <2>2, <2>3 DEF Takes
  <2>5. W.at = "idle" /\ W.goal = "none" /\ SameFlags(P, W) /\ W.dbOrigSize = P.dbOrigSize /\ W.dbFileVers = P.dbFileVers
    BY <1>8, <1>9, <1>10 DEF SamePlace, SameFlags, SameSizes
  <2>6. Version(W, h) /\ ~ Committing(W)
    BY <1>4, <2>5 DEF Version, Committing, SameFlags
  <2>7. /\ W.goal # "rollback" /\ W.goal # "spill" /\ W.dbFileVers.ver >= 0
        /\ {P.at, W.at} \cap {"sync", "pages"} = {} /\ (Committing(W) <=> Committing(P)) /\ P.at \in {"pageout", "pages"}
    BY <1>1, <1>3, <1>4, <2>5, <2>6 DEF P
  <2>8. UNCHANGED <<levels, jrnl, counters>>
    BY <1>1
  <2> QED
    BY <1>6, <1>10, <1>12, <2>1, <2>2, <2>4, <2>5, <2>6, <2>7, <2>8, LeavesStores DEF P
<1> QED
  BY <1>2, <1>11, <1>12

LEMMA LastFirst ==
  ASSUME NEW hs, Grows(hs), NEW h, h = Latest(hs)
  PROVE  First(h).ver >= 0 /\ First(h).ver \in Int
<1>1. Len(hs) \in DOMAIN hs
  BY NotEmpty DEF Grows
<1> QED
  BY <1>1, FirstIsInt DEF Grows, Latest

LEMMA WriteDirtyPageStores == ASSUME IInv, LInv, SBody, NEW c \in Conns, WriteDirtyPage(c) PROVE SBody'
<1> DEFINE P == pager[c]
           p == CHOOSE q \in Dirty(P) : \A r \in Dirty(P) : q <= r
           v == P.cache[p].val
           h == Latest1
           s == setting
           f == jrnl.slots
           d == db
           R == [P EXCEPT !.cache[p].dirty = FALSE]
           W == Write1(R, p)
<1>1. /\ P.at = "pages" /\ Dirty(P) # {} /\ UNCHANGED <<levels, jrnl, ddb, djrnl, counters>>
      /\ db' = WritePage(d, p, v) /\ Set(c, W)
  BY DEF WriteDirtyPage
<1>2. /\ P.eState = "DBMOD" /\ P.goal = "commit" /\ P \in PagerAt(ntx) /\ ntx \in Nat
      /\ d \in Seq(ContentAt(ntx)) /\ h \in Seq(Page) /\ 1 \in Cached(P) /\ Len(h) <= Len(d)
      /\ Logged(s, P, f, h, ntx, P.eState # "DBMOD")
      /\ Changes(s, P, f, d, h) /\ Sizes(P, d, h) /\ Version(P, h)
      /\ P.hasHeldSharedLock /\ P.dbFileVers.ver >= 0 /\ Safe(s, jrnl, d, ntx, h, history)
  BY <1>1, WriterAt, Known
<1> HIDE DEF P
<1>3. p \in Dirty(P)
  <2>1. Dirty(P) \in SUBSET Nat
    BY <1>2, PageIs, PagerAssumption DEF Dirty
  <2>2. \E q \in Dirty(P) : \A r \in Dirty(P) : q <= r
    BY <1>1, <2>1, LeastNumber DEF P
  <2> QED
    BY <2>2
<1> HIDE DEF p
<1>4. /\ p \in Cached(P) /\ P.cache[p].dirty /\ p \in 1 .. MaxPage /\ p \in Nat /\ v \in ContentAt(ntx) /\ Len(d) \in Nat
      /\ p <= P.dbSize
  BY <1>2, <1>3, PageIs, PagerAssumption, NotEmpty DEF Dirty
<1>5. Committing(P) /\ P.changeCountDone /\ P.dbFileSize = Len(d) /\ First(h).ver < P.cache[1].val.ver
      /\ (h # << >> => 1 \in P.pInJournal) /\ (P.cache[1].dirty \/ P.dbFileVers = P.cache[1].val)
  <2>1. Committing(P)
    BY <1>1, <1>2 DEF Committing, P
  <2> QED
    BY <1>2, <2>1 DEF Version, Sizes
<1>6. Backed(s, P, f, h, p)
  <2> DEFINE S == 1 .. Size(P)
  <2>1. Changing(s, P, f, d, h, S)
    BY <1>2 DEF Changes
  <2> HIDE DEF S
  <2>2. Recorded(f, P.journalOff, p) => Synced(s, P, f, p)
    <3>1. ~ Lax(s) => P.journalHdr = P.journalOff
      BY <1>1, <1>2 DEF Logged, Journals, Done, P
    <3> QED
      BY <3>1 DEF Synced
  <2> QED
    BY <1>4, <2>1, <2>2 DEF Backed, Changing
<1>7. /\ OtherCache(P, R) /\ Cached(R) = Cached(P)
      /\ \A q \in Cached(R) : /\ R.cache[q].val = P.cache[q].val /\ R.cache[q].needSync = P.cache[q].needSync
                              /\ q # p => R.cache[q].dirty = P.cache[q].dirty
      /\ R \in PagerAt(ntx)
  <2>1. R \in PagerAt(ntx)
    BY <1>2, <1>4, Unmarked
  <2>2. P \in PagerAt(ntx) /\ p \in Cached(P)
    BY <1>2, <1>4
  <2>3. /\ OtherCache(P, R) /\ Cached(R) = Cached(P)
        /\ \A q \in Cached(R) : /\ R.cache[q].val = P.cache[q].val /\ R.cache[q].needSync = P.cache[q].needSync
                                /\ q # p => R.cache[q].dirty = P.cache[q].dirty
        /\ ~ R.cache[p].dirty
    BY ONLY <2>2, UnmarkedSame
  <2> QED
    BY <2>1, <2>3
<1> HIDE DEF R
<1>8. /\ SamePlace(R, W) /\ SameFlags(R, W) /\ SameLog(R, W) /\ W.dbOrigSize = R.dbOrigSize
      /\ W.dbSize = R.dbSize /\ W.pInJournal = R.pInJournal /\ W.cache = R.cache
      /\ W.dbFileSize = (IF R.dbFileSize < p THEN p ELSE R.dbFileSize)
      /\ W.dbFileVers = (IF p = 1 THEN R.cache[1].val ELSE R.dbFileVers) /\ W \in PagerAt(ntx)
  <2>1. W \in PagerAt(ntx)
    BY <1>2, <1>4, <1>7, Write1Is
  <2> QED
    BY <1>7, <2>1, Write1Same
<1> HIDE DEF W
<1>9. /\ Leaves(P, W, p) /\ SameFlags(P, W) /\ W.dbOrigSize = P.dbOrigSize /\ W.at = "pages" /\ W.goal = "commit"
      /\ R.dbFileSize = Len(d) /\ W.pInJournal = P.pInJournal
  <2>1. W.eState = P.eState /\ W.at = P.at /\ W.goal = P.goal /\ SameFlags(P, W) /\ SameLog(P, W) /\ W.dbOrigSize = P.dbOrigSize
        /\ R.dbFileSize = Len(d) /\ W.pInJournal = P.pInJournal /\ W.dbSize = P.dbSize
    BY <1>5, <1>7, <1>8 DEF OtherCache, Same, SamePlace, SameFlags, SameLog, SameSizes
  <2>2. Cached(W) = Cached(P)
    BY <1>7, <1>8 DEF Cached
  <2>3. Leaves(P, W, p)
    BY <1>2, <1>7, <1>8, <2>1, <2>2 DEF Leaves
  <2> QED
    BY <1>1, <1>2, <2>1, <2>3 DEF P
<1>10. /\ Len(db') = (IF p > Len(d) THEN p ELSE Len(d)) /\ (\A q \in 1 .. Len(d) : q # p => db'[q] = d[q])
       /\ db' \in Seq(ContentAt(ntx)) /\ db'[p] = v
  <2>1. WritePage(d, p, v) \in Seq(ContentAt(ntx))
    BY <1>2, <1>4, WritePageIs
  <2> HIDE DEF v
  <2> QED
    BY <1>1, <1>2, <1>4, <2>1, WrittenPages
<1>11. Takes(P, W, d, db', p) /\ W.dbFileSize = Len(db')
  BY <1>4, <1>8, <1>9, <1>10 DEF Takes
<1>12. Version(W, h) /\ Committing(W)
  <2>1. Committing(W)
    BY <1>9 DEF Committing
  <2>2. W.changeCountDone
    BY <1>5, <1>9 DEF SameFlags
  <2>3. W.cache[1].val = P.cache[1].val /\ (W.cache[1].dirty \/ W.dbFileVers = W.cache[1].val)
    <3>1. 1 \in Cached(R) /\ W.cache = R.cache /\ R.cache[1].val = P.cache[1].val /\ R.dbFileVers = P.dbFileVers
      BY <1>2, <1>7, <1>8 DEF OtherCache
    <3>2. CASE p = 1
      BY <1>8, <3>1, <3>2
    <3>3. CASE p # 1
      BY <1>5, <1>7, <1>8, <3>1, <3>3
    <3> QED
      BY <3>1, <3>2, <3>3
  <2> QED
    BY <1>5, <1>9, <2>1, <2>2, <2>3 DEF Version
<1>13. W.dbFileVers.ver >= 0
  <2>1. CASE p = 1
    <3>1. First(h).ver >= 0 /\ First(h).ver \in Int
      BY <1>2, LastFirst DEF Safe
    <3>2. P.cache[1].val \in ContentAt(ntx)
      BY <1>2, PageIs
    <3>3. W.dbFileVers = P.cache[1].val
      BY <1>2, <1>7, <1>8, <2>1
    <3> QED
      BY <1>5, <3>1, <3>2, <3>3 DEF ContentAt
  <2>2. CASE p # 1
    BY <1>2, <1>7, <1>8, <2>2 DEF OtherCache
  <2> QED
    BY <2>1, <2>2
<1>14. /\ W.goal # "rollback" /\ W.goal # "spill" /\ W.at = P.at
       /\ (Committing(W) <=> Committing(P)) /\ P.at \in {"pageout", "pages"}
  BY <1>1, <1>5, <1>9, <1>12 DEF P
<1>15. UNCHANGED <<levels, jrnl, counters>> /\ Set(c, W)
  BY <1>1
<1> QED
  BY <1>6, <1>8, <1>9, <1>10, <1>11, <1>12, <1>13, <1>14, <1>15, LeavesStores DEF P

LEMMA FinishedSame ==
  ASSUME NEW n, NEW P \in PagerAt(n)
  PROVE  LET Q == [P EXCEPT !.eState = "FINISHED", !.at = "finish",
                            !.dbFileSize = IF @ < P.dbSize THEN P.dbSize ELSE @]
         IN /\ Q.dbSize = P.dbSize /\ Q.dbFileVers = P.dbFileVers /\ Q.hasHeldSharedLock = P.hasHeldSharedLock
            /\ Q.dbFileSize = IF P.dbFileSize < P.dbSize THEN P.dbSize ELSE P.dbFileSize
BY DEF PagerAt

LEMMA SyncDbStores == ASSUME IInv, LInv, SBody, NEW c \in Conns, SyncDb(c) PROVE SBody'
<1> DEFINE P == pager[c]
           h == Latest1
           s == setting
           f == jrnl.slots
           d == db
           R == Clean(P)
           Q == [R EXCEPT !.eState = "FINISHED", !.at = "finish",
                          !.dbFileSize = IF @ < R.dbSize THEN R.dbSize ELSE @]
<1>1. /\ P.at = "pages" /\ Dirty(P) = {} /\ UNCHANGED <<levels, jrnl, djrnl, counters>>
      /\ db' = (IF P.dbSize > P.dbFileSize THEN Resize(d, P.dbSize) ELSE d)
      /\ Set(c, [R EXCEPT !.eState = "FINISHED", !.at = "finish",
                          !.dbFileSize = IF @ < P.dbSize THEN P.dbSize ELSE @])
  BY DEF SyncDb
<1>2. /\ P.eState = "DBMOD" /\ P.goal = "commit" /\ P \in PagerAt(ntx) /\ ntx \in Nat /\ lock[c] = EXCLUSIVE_LOCK
      /\ d \in Seq(ContentAt(ntx)) /\ h \in Seq(Page) /\ 1 \in Cached(P) /\ Len(h) <= Len(d)
      /\ Logged(s, P, f, h, ntx, P.eState # "DBMOD")
      /\ Changes(s, P, f, d, h) /\ Sizes(P, d, h) /\ Version(P, h)
      /\ P.hasHeldSharedLock /\ P.dbFileVers.ver >= 0 /\ Safe(s, jrnl, d, ntx, h, history)
      /\ f \in Seq(SlotsAt(ntx))
  BY <1>1, WriterAt, Known
<1>3. LockStep(c) /\ lock'[c] = lock[c] /\ (c \in reserved' <=> c \in reserved)
      /\ jrnl' = jrnl /\ ntx' = ntx /\ setting' = setting /\ history' = history /\ h' = h
  <2>1. UNCHANGED levels
    BY <1>1
  <2> QED
    BY <1>1, <2>1, Unlocked DEF counters, Latest1
<1>4. MayMove(c)
  BY <1>2, <1>3 DEF MayMove
<1> HIDE DEF P, h
<1>5. /\ OtherCache(P, R) /\ Cached(R) = Cached(P) /\ Narrows(P, R) /\ Clear(R) /\ R \in PagerAt(ntx)
      /\ R.journalOff = P.journalOff /\ R.dbFileVers = P.dbFileVers /\ R.dbSize = P.dbSize
  BY <1>2, CleanSame, CleanIs
<1>6. Set(c, Q)
  BY <1>1, <1>5
<1> HIDE DEF R
<1>7. /\ Q.eState = "FINISHED" /\ Q.at = "finish" /\ Q.cache = R.cache /\ Q.journalOff = P.journalOff
      /\ Q.dbSize = P.dbSize /\ Q.dbFileVers = P.dbFileVers /\ Q.hasHeldSharedLock
      /\ Q.dbFileSize = (IF P.dbFileSize < P.dbSize THEN P.dbSize ELSE P.dbFileSize)
  <2>1. R.dbFileSize = P.dbFileSize /\ R.hasHeldSharedLock = P.hasHeldSharedLock
    BY <1>5 DEF OtherCache, Same, SameSizes, SameFlags
  <2>2. R \in PagerAt(ntx)
    BY <1>5
  <2>3. Q.eState = "FINISHED" /\ Q.at = "finish" /\ Q.cache = R.cache /\ Q.journalOff = R.journalOff
    BY ONLY <2>2, DoneIs
  <2>4. /\ Q.dbSize = R.dbSize /\ Q.dbFileVers = R.dbFileVers /\ Q.hasHeldSharedLock = R.hasHeldSharedLock
        /\ Q.dbFileSize = (IF R.dbFileSize < R.dbSize THEN R.dbSize ELSE R.dbFileSize)
    BY ONLY <2>2, FinishedSame
  <2> HIDE DEF Q
  <2> QED
    BY <1>2, <1>5, <2>1, <2>3, <2>4
<1> HIDE DEF Q
<1>8. Committing(P) /\ P.changeCountDone /\ P.dbFileSize = Len(d) /\ First(h).ver < P.cache[1].val.ver
      /\ (P.cache[1].dirty \/ P.dbFileVers = P.cache[1].val) /\ 1 <= Size(P) /\ Size(P) <= P.dbSize
  <2>1. Committing(P)
    BY <1>1, <1>2 DEF Committing, P
  <2> QED
    BY <1>2, <2>1 DEF Version, Sizes
<1>9. P.dbSize \in Nat /\ Len(d) \in Nat /\ Size(P) \in Nat /\ Cached(P) \subseteq 1 .. MaxPage /\ MaxPage \in Nat
      /\ Size(P) = P.cache[1].val.sz
  <2>1. P.dbSize \in Nat /\ Cached(P) \subseteq 1 .. MaxPage /\ P.cache[1].val \in ContentAt(ntx)
    BY <1>2, PageIs DEF PagerAt
  <2>2. Size(P) = P.cache[1].val.sz
    BY <1>2 DEF Size
  <2>3. P.cache[1].val.sz \in Nat
    BY <2>1, PagerAssumption DEF ContentAt
  <2> QED
    BY <2>1, <2>2, <2>3, <1>2, NotEmpty, PagerAssumption
<1>10. ASSUME NEW p \in Cached(P), p <= Size(P)
       PROVE  ~ P.cache[p].dirty /\ p \in 1 .. Len(d) /\ d[p] = P.cache[p].val
  <2>1. ~ P.cache[p].dirty
    BY <1>1, <1>8, <1>9, <1>10 DEF Dirty, P
  <2>2. p \in 1 .. Size(P)
    BY <1>9, <1>10
  <2> QED
    BY <1>2, <2>1, <2>2 DEF Changes, Changing
<1>11. ~ P.cache[1].dirty /\ 1 \in 1 .. Len(d) /\ P.dbFileVers = P.cache[1].val /\ d # << >>
  BY <1>2, <1>8, <1>10
<1>12. /\ Len(db') = (IF P.dbFileSize < P.dbSize THEN P.dbSize ELSE P.dbFileSize)
       /\ \A p \in 1 .. Len(d) : db'[p] = d[p]
  <2>1. CASE P.dbSize > P.dbFileSize
    <3>1. db' = Resize(d, P.dbSize)
      BY <1>1, <2>1 DEF P
    <3>2. \A p \in 1 .. Len(d) : p \in 1 .. P.dbSize /\ p <= Len(d)
      BY <1>8, <1>9, <2>1
    <3>3. P.dbFileSize < P.dbSize
      BY <1>8, <1>9, <2>1
    <3> QED
      BY <1>2, <1>9, <3>1, <3>2, <3>3, ResizedPages
  <2>2. CASE ~ (P.dbSize > P.dbFileSize)
    <3>1. db' = d /\ ~ (P.dbFileSize < P.dbSize)
      BY <1>1, <1>8, <1>9, <2>2 DEF P
    <3> QED
      BY <1>8, <3>1
  <2> QED
    BY <2>1, <2>2
<1>13. Len(d) <= Len(db') /\ P.dbSize <= Len(db') /\ Len(h) <= Len(db')
  <2>1. Len(h) \in Nat
    BY <1>2
  <2> QED
    BY <1>2, <1>8, <1>9, <1>12, <2>1
<1>14. Safe(s, jrnl, db', ntx, h, history)
  <2>1. Gives(jrnl, d, h)
    BY <1>2 DEF Safe
  <2>2. \A p \in 1 .. Len(h) : db'[p] = d[p] \/ db'[p] = h[p]
    <3>1. \A p \in 1 .. Len(h) : p \in 1 .. Len(d)
      BY <1>2, <1>9
    <3> QED
      BY <1>12, <3>1
  <2>3. Gives(jrnl, db', h)
    BY <1>11, <1>13, <2>1, <2>2, GivesKept
  <2> QED
    BY <1>2, <1>13, <2>3 DEF Safe
<1>15. Commits(s, Q, f, db', h)
  <2>1. Q.dbSize <= Q.dbFileSize /\ Q.dbFileSize = Len(db')
    BY <1>7, <1>12, <1>13
  <2>2. Clear(Q) /\ Cached(Q) = Cached(P) /\ \A p \in Cached(Q) : Q.cache[p].val = P.cache[p].val
    <3>1. Cached(Q) = Cached(R)
      BY <1>7 DEF Cached
    <3> QED
      BY <1>5, <1>7, <3>1 DEF Clear, Narrows
  <2>3. Size(Q) = Size(P)
    BY <1>2, <1>9, <2>2 DEF Size
  <2>4. Q.journalOff # 0
    <3>1. Mine(P, f)
      BY <1>2 DEF Logged, Journals
    <3> QED
      BY <1>2, <1>7, <3>1, OwnSlots
  <2>5. \A p \in Cached(Q) : p <= Size(Q) => db'[p] = Q.cache[p].val
    BY <1>10, <1>12, <2>2, <2>3
  <2>6. Q.dbFileVers = Q.cache[1].val /\ First(h).ver < Q.dbFileVers.ver
    BY <1>2, <1>7, <1>8, <1>11, <2>2
  <2> QED
    BY <1>7, <1>8, <2>1, <2>2, <2>3, <2>4, <2>5, <2>6 DEF Commits
<1>16. Fares(s, Q, lock'[c], (c \in reserved)', jrnl, db', h, history)
  <2>1. ~ Relies(Q, lock'[c], (c \in reserved)')
    BY <1>2, <1>3, <1>7 DEF Relies
  <2>2. (c \in reserved)' => lock'[c] >= RESERVED_LOCK
    BY <1>2, <1>3 DEF EXCLUSIVE_LOCK, RESERVED_LOCK
  <2>3. Q.dbFileVers.ver >= 0
    BY <1>2, <1>7
  <2> QED
    BY <1>7, <1>15, <2>1, <2>2, <2>3 DEF Fares
<1> QED
  <2>1. Set(c, Q) /\ LockStep(c) /\ setting' = setting /\ MayMove(c)
    BY <1>3, <1>4, <1>6
  <2>2. Safe(setting', jrnl', db', ntx', Latest1', history')
    BY <1>3, <1>14 DEF h
  <2>3. Fares(setting', Q, lock'[c], (c \in reserved)', jrnl', db', Latest1', history')
    BY <1>3, <1>16 DEF h
  <2> HIDE DEF s, f, d
  <2> QED
    BY <2>1, <2>2, <2>3, Steps

-----------------------------------------------------------------------------
(* Every step keeps it, from the start.                                    *)
LEMMA InitImage ==
  ASSUME NEW n, NEW d \in Seq(ContentAt(n)), d = << >> \/ d[1].sz \in 1 .. Len(d)
  PROVE  /\ Image(d) \in Seq(Page) /\ Whole(Image(d)) /\ Holds(d, Image(d))
         /\ Image(d) = << >> <=> d = << >>
         /\ d # << >> => Image(d)[1] = d[1]
<1>1. CASE d = << >>
  <2>1. Image(d) = << >>
    BY <1>1 DEF Image
  <2>2. << >> \in Seq(Page) /\ Whole(<< >>)
    BY DEF Whole
  <2>3. Holds(<< >>, << >>)
    BY DEF Holds
  <2> QED
    BY <1>1, <2>1, <2>2, <2>3
<1>2. CASE d # << >>
  <2> DEFINE m == d[1].sz
  <2>1. m \in 1 .. Len(d) /\ Len(d) \in Nat
    BY <1>2
  <2>2. m \in Nat /\ 1 <= m /\ m <= Len(d) /\ 1 \in 1 .. m
    BY <2>1
  <2>3. /\ Image(d) \in Seq(Page) /\ Len(Image(d)) = m /\ Image(d) # << >>
        /\ \A p \in 1 .. m : Image(d)[p] = d[p]
    BY <2>2, ImageIs
  <2>4. Image(d)[1] = d[1]
    BY <2>2, <2>3
  <2> QED
    BY <1>2, <2>2, <2>3, <2>4 DEF Whole, Holds
<1> QED
  BY <1>1, <1>2

LEMMA InitStores == Init => SInv
<1> SUFFICES ASSUME Init PROVE SInv
  OBVIOUS
<1> DEFINE h == Image(db)
<1>1. /\ setting \in Settings /\ db = setting.initDb
      /\ pager = [c \in Conns |-> Fresh] /\ reserved = {} /\ lock = [c \in Conns |-> NO_LOCK]
      /\ jrnl = NoJournal /\ history = << h >> /\ mishaps = [crash |-> 0, power |-> 0, fault |-> 0]
  BY DEF Init
<1>2. db \in Seq(ContentAt(ntx)) /\ ntx \in Nat /\ db \in Seq([ver : {1}, sz : 0 .. MaxPage])
      /\ (db = << >> \/ db[1].sz \in 1 .. Len(db))
  <2>1. db \in Seq(ContentAt(ntx)) /\ ntx \in Nat
    BY InitIInv, PagerAssumption DEF IInv
  <2> QED
    BY <1>1, <2>1, PagerAssumption DEF Setting
<1>3. /\ h \in Seq(Page) /\ Whole(h) /\ Holds(db, h) /\ (h = << >> <=> db = << >>) /\ (db # << >> => h[1] = db[1])
  BY <1>2, InitImage
<1>4. First(h).ver >= 0
  <2>1. CASE db = << >>
    BY <1>3, <2>1 DEF First, Zero
  <2>2. CASE db # << >>
    <3> DEFINE A == [ver : {1}, sz : 0 .. MaxPage]
    <3>1. db \in Seq(A)
      BY <1>2
    <3> HIDE DEF A
    <3>2. db[1] \in A
      BY <2>2, <3>1, NotEmpty
    <3>3. db[1].ver = 1
      BY <3>2 DEF A
    <3> QED
      BY <1>3, <2>2, <3>3 DEF First
  <2> QED
    BY <2>1, <2>2
<1> HIDE DEF h
<1>5. /\ history \in Seq(Seq(Page)) /\ history # << >> /\ Len(history) = 1 /\ DOMAIN history = {1} /\ history[1] = h
      /\ Latest1 = h
  BY <1>1, <1>3 DEF Latest1, Latest
<1>6. Grows(history)
  BY <1>3, <1>4, <1>5 DEF Grows
<1>7. Safe(setting, jrnl, db, ntx, Latest1, history)
  <2>1. jrnl.exists = FALSE /\ jrnl.slots = << >>
    BY <1>1 DEF NoJournal
  <2>2. Gives(jrnl, db, h) /\ Len(h) <= Len(db)
    BY <1>3, <2>1 DEF Gives, Holds
  <2>3. Stamps(jrnl.slots, 0, ntx + 1) /\ Kept(setting, jrnl.slots, h) /\ NoneYet(jrnl.slots, h)
    <3>1. Tidy(<< >>, 1)
      BY DEF Tidy
    <3> QED
      BY <2>1, <3>1 DEF Stamps, Kept, NoneYet
  <2> QED
    BY <1>5, <1>6, <2>1, <2>2, <2>3 DEF Safe, Latest1
<1>8. ASSUME NEW c \in Conns
      PROVE  Fares(setting, pager[c], lock[c], c \in reserved, jrnl, db, Latest1, history)
  <2>1. pager[c] = Fresh /\ ~ (c \in reserved)
    BY <1>1
  <2>2. Cached(Fresh) = {} /\ Fresh.eState = "OPEN" /\ Fresh.at = "idle" /\ Fresh.goal = "none"
        /\ ~ Fresh.changeCountDone /\ ~ Fresh.bDoTruncate /\ Fresh.dbFileVers.ver >= 0
    BY DEF Fresh, Cached, Zero
  <2>3. Opens(setting, Fresh, jrnl, db, Latest1, history)
    BY <2>2 DEF Opens, Settled, Clear, Keeps, Zeroed
  <2>4. ~ Relies(Fresh, lock[c], c \in reserved)
    BY <2>1, <2>2 DEF Relies
  <2> QED
    BY <2>1, <2>2, <2>3, <2>4 DEF Fares
<1> QED
  BY <1>1, <1>7, <1>8 DEF SInv, SBody

LEMMA StepStores ==
  ASSUME IInv, LInv, SBody, Trusted(setting), mishaps.fault \in Nat, reserved \subseteq Conns,
         NEW c \in Conns, Opening(c) \/ Working(c) \/ Syncing(c) \/ Ending(c) \/ Mishap(c)
  PROVE  SBody'
<1>1. CASE Opening(c)
  BY <1>1, SharedLockStores, HotAccessStores, HotReservedStores, HotEmptyStores, HotClearStores, HotFirstStores,
     HotExclusiveStores, HotOpenStores, SharedLockDoneStores DEF Opening
<1>2. CASE Working(c)
  BY <1>2, EndReadStores, PagerBeginStores, BeginExclusiveStores, VacuumStores, GetStores, WriteStores, SpillStores DEF Working
<1>3. CASE Syncing(c)
  BY <1>3, CommitStores, CommitPhaseOneStores, ExclusiveLockStores, WriteRecordCountStores, SyncJournalStores,
     PageOutStores, WriteDirtyPageStores, SyncDbStores DEF Syncing
<1>4. CASE Ending(c)
  BY <1>4, RollbackStores, PlaybackSizeStores, PlaybackPageStores, PlaybackSyncStores, FinishStores, ReleaseStores,
     LeaveErrorStores DEF Ending
<1>5. CASE Mishap(c)
  BY <1>5, FailStores, FinishFailsStores, CrashStores DEF Mishap
<1> QED
  BY <1>1, <1>2, <1>3, <1>4, <1>5

\* Who holds the reserved lock is one of the connections.
ReservedIs == reserved \subseteq Conns

LEMMA StepCounts ==
  ASSUME NEW c \in Conns, Opening(c) \/ Working(c) \/ Syncing(c) \/ Ending(c) \/ Mishap(c),
         mishaps \in [crash : Nat, power : Nat, fault : Nat]
  PROVE  mishaps' \in [crash : Nat, power : Nat, fault : Nat] /\ mishaps'.power = mishaps.power /\ setting' = setting
<1>1. CASE Opening(c)
  BY <1>1 DEF Opening, SharedLock, HotAccess, HotReserved, HotEmpty, HotClear, HotFirst, HotExclusive, HotOpen,
     SharedLockDone, counters
<1>2. CASE Working(c)
  BY Zenon, <1>2 DEF Working, EndRead, PagerBegin, BeginExclusive, Vacuum, Get, Write, Spill, counters
<1>3. CASE Syncing(c)
  BY Zenon, <1>3 DEF Syncing, Commit, CommitPhaseOne, ExclusiveLock, WriteRecordCount, SyncJournal, PageOut, WriteDirtyPage,
     SyncDb, counters
<1>4. CASE Ending(c)
  BY Zenon, <1>4 DEF Ending, Rollback, PlaybackSize, PlaybackPage, PlaybackSync, Finish, Release, LeaveError, counters
<1>5. CASE Mishap(c)
  <2>1. mishaps' = [mishaps EXCEPT !.fault = @ + 1] \/ mishaps' = [mishaps EXCEPT !.crash = @ + 1]
    BY <1>5 DEF Mishap, Fail, FinishFails, Crash
  <2>2. setting' = setting
    BY <1>5 DEF Mishap, Fail, FinishFails, Crash
  <2> QED
    BY <2>1, <2>2
<1> QED
  BY <1>1, <1>2, <1>3, <1>4, <1>5

LEMMA KeepsStore == IInv /\ LInv /\ SInv /\ ReservedIs /\ [Next]_vars => SInv' /\ ReservedIs'
<1> SUFFICES ASSUME IInv, LInv, SInv, ReservedIs, [Next]_vars PROVE SInv' /\ ReservedIs'
  OBVIOUS
<1>1. mishaps \in [crash : Nat, power : Nat, fault : Nat]
  BY DEF SInv
<1>2. ASSUME NEW c \in Conns, Opening(c) \/ Working(c) \/ Syncing(c) \/ Ending(c) \/ Mishap(c)
      PROVE  SInv' /\ ReservedIs'
  <2>1. mishaps' \in [crash : Nat, power : Nat, fault : Nat] /\ mishaps'.power = mishaps.power /\ setting' = setting
    BY <1>1, <1>2, StepCounts
  <2>2. mishaps.fault \in Nat
    BY <1>1
  <2>3. mishaps.power = 0 /\ Trusted(setting) => SBody'
    BY <1>2, <2>2, StepStores DEF SInv, ReservedIs
  <2>4. SInv'
    BY <2>1, <2>3 DEF SInv
  <2>5. Climbs(c)
    BY <1>2, AllClimb
  <2>6. ReservedIs'
    BY <2>5 DEF ReservedIs, Climbs, levels, Locks!Share, Locks!Reserve, Locks!Pend, Locks!Exclude, Locks!Lower, Locks!Vanish
  <2> QED
    BY <2>4, <2>6
<1>3. CASE PowerFailure
  <2>1. mishaps' = [mishaps EXCEPT !.power = @ + 1] /\ reserved' = reserved \ Conns
    BY <1>3 DEF PowerFailure, Locks!Vanish
  <2>2. mishaps' \in [crash : Nat, power : Nat, fault : Nat] /\ mishaps'.power # 0
    BY <1>1, <2>1
  <2> QED
    BY <2>1, <2>2 DEF SInv, ReservedIs
<1>4. CASE UNCHANGED vars
  BY <1>4 DEF vars, SInv, SBody, Latest1, ReservedIs
<1> QED
  BY <1>2, <1>3, <1>4 DEF Next

-----------------------------------------------------------------------------
(* What follows from it.                                                   *)
LEMMA StoredIs ==
  ASSUME IInv, SBody
  PROVE  /\ Stored = Latest1 /\ Latest1 \in Committed /\ Latest1 = history[Len(history)]
         /\ Latest1 \in Seq(Page) /\ Whole(Latest1)
<1> DEFINE h == Latest1
<1>1. /\ Safe(setting, jrnl, db, ntx, h, history) /\ jrnl \in JournalAt(ntx) /\ db \in Seq(ContentAt(ntx))
      /\ h \in Seq(Page) /\ db \in Seq(ContentAt(ntx))
  <2>1. Safe(setting, jrnl, db, ntx, h, history) /\ jrnl \in JournalAt(ntx) /\ db \in Seq(ContentAt(ntx))
    BY DEF SBody, IInv
  <2>2. Len(history) \in DOMAIN history /\ history \in Seq(Seq(Page))
    BY <2>1, NotEmpty DEF Safe, Grows
  <2> QED
    BY <2>1, <2>2 DEF Latest1, Latest
<1>2. Len(history) \in DOMAIN history /\ h = history[Len(history)] /\ Whole(h)
  <2>1. Grows(history)
    BY <1>1 DEF Safe
  <2>2. Len(history) \in DOMAIN history
    BY <2>1, NotEmpty DEF Grows
  <2> QED
    BY <2>1, <2>2 DEF Latest1, Latest, Grows
<1>3. Stored = h
  <2>1. Len(h) <= Len(db) /\ Gives(jrnl, db, h)
    BY <1>1 DEF Safe
  <2> HIDE DEF h
  <2> QED
    BY <1>1, <1>2, <2>1, GivenIsStored DEF Stored, StoredWith
<1> QED
  BY <1>1, <1>2, <1>3 DEF Committed

LEMMA ShownIs ==
  ASSUME NEW n, NEW h \in Seq(Page), Whole(h), NEW d \in Seq(ContentAt(n)), Holds(d, h),
         NEW P, 1 \in Cached(P), Knows(P, h)
  PROVE  [p \in 1 .. Size(P) |-> IF p \in Cached(P) THEN P.cache[p].val
                                 ELSE IF p <= Len(d) THEN d[p] ELSE Zero] = h
<1> DEFINE x(p) == IF p \in Cached(P) THEN P.cache[p].val ELSE IF p <= Len(d) THEN d[p] ELSE Zero
<1>1. CASE h = << >>
  <2>1. Size(P) = 0
    BY <1>1 DEF Knows, Zeroed, Size, Zero
  <2> QED
    BY <1>1, <2>1
<1>2. CASE h # << >>
  <2>1. 1 \in 1 .. Len(h) /\ Len(h) \in Nat
    BY <1>2, NotEmpty
  <2>2. Size(P) = Len(h)
    <3>1. P.cache[1].val = h[1]
      BY <1>2, <2>1 DEF Knows, Shows
    <3> QED
      BY <1>2, <3>1 DEF Size, Whole
  <2>3. ASSUME NEW p \in 1 .. Len(h)
        PROVE  x(p) = h[p]
    <3>1. p <= Len(h) /\ p \in Nat
      OBVIOUS
    <3>2. CASE p \in Cached(P)
      BY <1>2, <3>1, <3>2 DEF Knows, Shows
    <3>3. CASE p \notin Cached(P)
      <4>1. d[p] = h[p] /\ Len(h) <= Len(d)
        BY DEF Holds
      <4>2. p <= Len(d)
        BY <3>1, <4>1, <2>1, NotEmpty
      <4> QED
        BY <3>3, <4>1, <4>2
    <3> QED
      BY <3>2, <3>3
  <2> HIDE DEF x
  <2>4. [p \in 1 .. Size(P) |-> x(p)] = [p \in 1 .. Len(h) |-> h[p]]
    BY <2>2, <2>3
  <2>5. h = [p \in 1 .. Len(h) |-> h[p]]
    OBVIOUS
  <2> QED
    BY <2>4, <2>5 DEF x
<1> QED
  BY <1>1, <1>2

LEMMA ReaderSees ==
  ASSUME IInv, SBody, NEW c \in Conns, pager[c].eState \in {"READER", "LOCKED"}
  PROVE  View(c) = Latest1
<1> DEFINE P == pager[c]
           h == Latest1
<1>1. /\ Fares(setting, P, lock[c], c \in reserved, jrnl, db, h, history) /\ Control(P, lock[c], c \in reserved)
      /\ h \in Seq(Page) /\ db \in Seq(ContentAt(ntx))
  BY Known
<1>2. 1 \in Cached(P)
  BY <1>1 DEF Control, Writing
<1>3. Holds(db, h) /\ Knows(P, h)
  BY <1>1 DEF Fares, Relies, Reading
<1>4. Whole(h)
  BY StoredIs
<1> HIDE DEF P, h
<1>5. [p \in 1 .. Size(P) |-> IF p \in Cached(P) THEN P.cache[p].val
                              ELSE IF p <= Len(db) THEN db[p] ELSE Zero] = h
  BY <1>1, <1>2, <1>3, <1>4, ShownIs
<1> QED
  BY <1>5 DEF View, P, h

(* The premise of all that follows: no power failure has happened, and no  *)
(* rollback can meet a header that is not its own. Without the second the  *)
(* code does what the run pager_stale shows.                               *)
Unharmed == mishaps.power = 0 /\ Trusted(setting)

LEMMA Kept1 == Spec => [](IInv /\ LInv /\ SInv /\ ReservedIs)
<1>1. Init => IInv /\ LInv /\ SInv /\ ReservedIs
  <2>1. Init => LInv /\ ReservedIs
    BY DEF Init, LInv, ReservedIs, NO_LOCK, EXCLUSIVE_LOCK, PENDING_LOCK, RESERVED_LOCK
  <2> QED
    BY <2>1, InitIInv, InitStores
<1>2. (IInv /\ LInv /\ SInv /\ ReservedIs) /\ [Next]_vars => (IInv /\ LInv /\ SInv /\ ReservedIs)'
  BY Preserved, KeepsLocks, KeepsStore
<1> QED
  BY <1>1, <1>2, PTL DEF Spec

(* A commit that was reported is what the files hold, whichever            *)
(* connections work on them, die or meet errors: and so what they hold is  *)
(* always a whole committed image, never part of a transaction.            *)
THEOREM CommitsLast == Spec => [](Unharmed => Durable /\ StoreIsCommitted)
<1>1. IInv /\ SInv => (Unharmed => Durable /\ StoreIsCommitted)
  BY StoredIs DEF SInv, Unharmed, Durable, StoreIsCommitted
<1> QED
  BY <1>1, Kept1, PTL

(* A reader sees that image: no page of a transaction under way, and none  *)
(* that stayed in its cache from before another connection wrote.          *)
THEOREM ReadersSeeCommits == Spec => [](Unharmed => ReadersSeeStore)
<1>1. IInv /\ SInv => (Unharmed => ReadersSeeStore)
  BY StoredIs, ReaderSees DEF SInv, Unharmed, ReadersSeeStore
<1> QED
  BY <1>1, Kept1, PTL

-----------------------------------------------------------------------------
(* The pager is an atomic store.  A connection that sees changes of its    *)
(* own is a writer, and has been one: of the steps of a connection only    *)
(* those of a writer lead there.                                           *)
Alters(P) == P.eState \in {"CACHEMOD", "DBMOD", "FINISHED"} /\ ~ Undoing(P)
Owns(P) == P.eState \in Writing \cup {"FINISHED"} /\ ~ Undoing(P)
Advances(c) ==
  \/ UNCHANGED pager
  \/ \E Q : Set(c, Q) /\ (Alters(Q) => Owns(pager[c]))

LEMMA WriterAdvances ==
  ASSUME IInv, NEW c \in Conns, NEW Q, Set(c, Q),
         \/ pager[c].eState \in Writing /\ pager[c].at = "idle"
         \/ pager[c].at \in {"exclude", "one", "count", "sync", "pageout", "pages"}
  PROVE  Advances(c)
<1>1. pager[c].eState \in Writing /\ Acts(pager[c], lock[c], c \in reserved)
  BY WriterIs
<1>2. ~ Undoing(pager[c])
  BY <1>1 DEF Acts, Undoing
<1> QED
  BY <1>1, <1>2 DEF Advances, Owns

LEMMA WritingAdvances ==
  ASSUME IInv, NEW c \in Conns,
         \/ Vacuum(c) \/ (\E p : Write(c, p) \/ Spill(c, p))
         \/ Commit(c) \/ Rollback(c)
  PROVE  Advances(c)
<1>1. pager[c].eState \in Writing /\ pager[c].at = "idle"
  BY Zenon DEF Vacuum, Write, Spill, Commit, Rollback, Idle, Writing
<1>2. CASE Vacuum(c) \/ \E p : Write(c, p)
  BY Zenon, <1>1, <1>2, WriterAdvances DEF Vacuum, Write, Wrote
<1>3. CASE \E p : Spill(c, p)
  BY Zenon, <1>1, <1>3, WriterAdvances DEF Spill
<1>4. CASE Commit(c) \/ Rollback(c)
  BY <1>1, <1>4, WriterAdvances DEF Commit, Rollback, Goto
<1> QED
  BY <1>2, <1>3, <1>4

LEMMA SyncingAdvances ==
  ASSUME IInv, NEW c \in Conns, Syncing(c)
  PROVE  Advances(c)
<1>1. CASE Commit(c)
  BY <1>1, WritingAdvances
<1>2. CASE ~ Commit(c)
  <2>1. pager[c].at \in {"exclude", "one", "count", "sync", "pageout", "pages"}
    BY Zenon, <1>2 DEF Syncing, CommitPhaseOne, ExclusiveLock, WriteRecordCount, SyncJournal, PageOut, WriteDirtyPage, SyncDb
  <2>2. CASE CommitPhaseOne(c)
    BY <2>1, <2>2, WriterAdvances DEF CommitPhaseOne, Goto, Wrote
  <2>3. CASE ExclusiveLock(c)
    <3>1. UNCHANGED pager \/ \E Q : Set(c, Q)
      BY <2>3 DEF ExclusiveLock, Goto
    <3> QED
      BY <2>1, <3>1, WriterAdvances DEF Advances
  <2>4. CASE WriteRecordCount(c)
    BY <2>1, <2>4, WriterAdvances, Zenon DEF WriteRecordCount, Goto
  <2>5. CASE SyncJournal(c)
    <3>1. \E Q : Set(c, Q)
      BY <2>5, Zenon DEF SyncJournal
    <3> QED
      BY <2>1, <3>1, WriterAdvances
  <2>6. CASE PageOut(c)
    <3>1. \E Q : Set(c, Q)
      BY <2>6 DEF PageOut
    <3> QED
      BY <2>1, <3>1, WriterAdvances
  <2>7. CASE WriteDirtyPage(c) \/ SyncDb(c)
    <3>1. \E Q : Set(c, Q)
      BY <2>7 DEF WriteDirtyPage, SyncDb
    <3> QED
      BY <2>1, <3>1, WriterAdvances
  <2> QED
    BY <1>2, <2>2, <2>3, <2>4, <2>5, <2>6, <2>7 DEF Syncing
<1> QED
  BY <1>1, <1>2

\* The others lead nowhere near.
LEMMA Nowhere ==
  ASSUME NEW c \in Conns, NEW Q, Set(c, Q), Q.eState \in {"OPEN", "READER", "LOCKED", "ERROR"} \/ Undoing(Q)
  PROVE  Advances(c)
BY DEF Advances, Alters

LEMMA UnlockAdvances ==
  ASSUME IInv, NEW c \in Conns, NEW P \in PagerAt(ntx), pager_unlock(c, P)
  PROVE  Advances(c)
<1> DEFINE R == IF P.eState = "ERROR" THEN pager_reset(P) ELSE P
           Q == UnlockedPager(R)
<1>1. R \in PagerAt(ntx)
  BY ResetIs
<1>2. Set(c, Q)
  BY DEF pager_unlock, UnlockedPager
<1>3. Q.eState = "OPEN"
  BY <1>1, UnlockedIs
<1> QED
  BY <1>2, <1>3, Nowhere

LEMMA PlaceAdvances ==
  ASSUME IInv, NEW c \in Conns, pager[c].eState \in {"OPEN", "READER"}, NEW where, Goto(c, where)
  PROVE  Advances(c)
<1>1. pager[c] \in PagerAt(ntx)
  BY PagerIs
<1>2. [pager[c] EXCEPT !.at = where].eState = pager[c].eState
  BY <1>1, GoesSame
<1> QED
  BY <1>2, Nowhere DEF Goto

LEMMA OpeningAdvances ==
  ASSUME IInv, LInv, SBody, NEW c \in Conns, Opening(c)
  PROVE  Advances(c)
<1> DEFINE P == pager[c]
<1>1. P \in PagerAt(ntx) /\ ntx \in Nat /\ db \in Seq(ContentAt(ntx))
  BY Known
<1>2. P.eState = "OPEN"
  <2>1. P.eState = "OPEN" \/ P.at \in Openings
    BY DEF Opening, SharedLock, HotAccess, HotReserved, HotEmpty, HotClear, HotFirst, HotExclusive, HotOpen,
       SharedLockDone, Openings
  <2> QED
    BY <2>1, AtOpening
<1>3. CASE \E where : Goto(c, where)
  BY <1>2, <1>3, PlaceAdvances
<1>4. CASE pager_unlock(c, P)
  BY <1>1, <1>4, UnlockAdvances
<1>5. CASE HotOpen(c) /\ jrnl.exists
  <2> DEFINE Q == [P EXCEPT !.at = "play", !.goal = "hot", !.k = 0, !.journalOff = 0]
  <2>1. Set(c, Q)
    BY <1>5 DEF HotOpen
  <2>2. Q.eState = P.eState
    BY Zenon, <1>1, HotPlayer
  <2> HIDE DEF Q
  <2> QED
    BY <1>2, <2>1, <2>2, Nowhere
<1>6. CASE SharedLockDone(c)
  <2> DEFINE now == IF db = <<>> THEN Zero ELSE db[1]
             W == Revalidated(P, now)
             R == Started(W, Len(db))
             T == getPage(R, 1)
  <2>1. Set(c, T) \/ pager_unlock(c, T)
    BY <1>6 DEF SharedLockDone, Started
  <2> HIDE DEF now
  <2>2. W \in PagerAt(ntx)
    BY <1>1, ResetIs DEF Revalidated
  <2> HIDE DEF W
  <2>3. R \in PagerAt(ntx) /\ R.eState = "READER"
    BY <1>1, <2>2, StartsReader
  <2> HIDE DEF R
  <2>4. T \in PagerAt(ntx) /\ T.eState = "READER"
    <3>1. 1 \in 1 .. MaxPage
      BY PagerAssumption
    <3> QED
      BY <1>1, <2>3, <3>1, GetPageIs DEF Kin
  <2> HIDE DEF T
  <2> QED
    BY <2>1, <2>4, Nowhere, UnlockAdvances
<1>7. CASE UNCHANGED pager
  BY <1>7 DEF Advances
<1>8. \/ \E where : Goto(c, where)
      \/ pager_unlock(c, P) \/ (HotOpen(c) /\ jrnl.exists) \/ SharedLockDone(c) \/ UNCHANGED pager
  BY DEF Opening, SharedLock, HotAccess, HotReserved, HotEmpty, HotClear, HotFirst, HotExclusive, HotOpen
<1> QED
  BY <1>3, <1>4, <1>5, <1>6, <1>7, <1>8

LEMMA RunAdvances ==
  ASSUME NEW c \in Conns, NEW Q, Set(c, Q), Runs(pager[c], Q)
  PROVE  Advances(c)
BY DEF Runs, Advances, Alters, Owns, Undoing, Writing

LEMMA BeginAdvances ==
  ASSUME IInv, NEW c \in Conns, Locked(c, pager[c])
  PROVE  Advances(c)
<1> DEFINE P == pager[c]
           Q == [P EXCEPT !.eState = "LOCKED", !.at = "idle", !.dbFileSize = P.dbSize,
                          !.dbOrigSize = P.dbSize, !.journalOff = 0, !.tx = ntx + 1]
<1>1. Set(c, Q)
  BY DEF Locked
<1>2. P \in PagerAt(ntx) /\ ntx \in Nat
  BY PagerIs
<1> HIDE DEF P
<1>3. Q.eState = "LOCKED"
  BY Zenon, <1>2, LockedSame
<1> HIDE DEF Q
<1> QED
  BY <1>1, <1>3, Nowhere

LEMMA ExclusiveWaits ==
  ASSUME IInv, NEW c \in Conns, pager[c].at = "exclusive"
  PROVE  pager[c].eState = "READER"
<1>1. pager[c] \in PagerAt(ntx) /\ Control(pager[c], lock[c], c \in reserved)
  BY PagerIs
<1> QED
  BY <1>1 DEF Control, Hasnt, Reads, Acts, Writing, PagerAt, States

LEMMA WorkingAdvances ==
  ASSUME IInv, LInv, SBody, NEW c \in Conns, Working(c)
  PROVE  Advances(c)
<1> DEFINE P == pager[c]
<1>1. P \in PagerAt(ntx) /\ ntx \in Nat /\ db \in Seq(ContentAt(ntx))
  BY Known
<1>2. CASE EndRead(c)
  BY <1>1, <1>2, UnlockAdvances DEF EndRead
<1>3. ASSUME NEW p, Get(c, p)
      PROVE  Advances(c)
  <2> DEFINE Q == getPage(P, p)
  <2>1. P.eState = "READER" /\ p \in 1 .. Size(P) /\ Set(c, Q)
    BY <1>3 DEF Get
  <2>2. Size(P) \in 0 .. MaxPage
    BY <2>1, ReaderIs DEF Size
  <2> HIDE DEF P
  <2>3. p \in 1 .. MaxPage
    BY <2>1, <2>2, PagerAssumption
  <2>4. Q.eState = "READER"
    BY <1>1, <2>1, <2>3, GetPageIs DEF Kin
  <2> HIDE DEF Q
  <2> QED
    BY <2>1, <2>4, Nowhere
<1>4. CASE PagerBegin(c)
  <2>1. P.eState = "READER" /\ (Locked(c, P) \/ Goto(c, "exclusive"))
    BY <1>4 DEF PagerBegin
  <2> QED
    BY <2>1, BeginAdvances, PlaceAdvances
<1>5. CASE BeginExclusive(c)
  <2>1. P.at = "exclusive" /\ (Locked(c, P) \/ UNCHANGED pager \/ Goto(c, "idle"))
    BY <1>5 DEF BeginExclusive
  <2>2. P.eState = "READER"
    BY <2>1, ExclusiveWaits
  <2> QED
    BY <2>1, <2>2, BeginAdvances, PlaceAdvances DEF Advances
<1>6. CASE Vacuum(c) \/ \E p : Write(c, p) \/ Spill(c, p)
  BY <1>6, WritingAdvances
<1> QED
  BY <1>2, <1>3, <1>4, <1>5, <1>6 DEF Working

LEMMA PlaybackAdvances ==
  ASSUME IInv, LInv, SBody, NEW c \in Conns, PlaybackSize(c) \/ PlaybackPage(c) \/ PlaybackSync(c)
  PROVE  Advances(c)
<1> DEFINE P == pager[c]
           f == jrnl.slots
<1>1. P \in PagerAt(ntx) /\ ntx \in Nat
  BY Known
<1>2. CASE PlaybackSize(c)
  <2> DEFINE Q == IF P.goal = "hot" /\ Slots(P) # <<>> THEN pager_reset(P) ELSE P
             n == f[1].orig
             m2 == IF Touches(P) THEN n ELSE Q.dbFileSize
  <2>1. Set(c, SizedTo(Q, n, m2)) \/ Set(c, At(P, 1))
    BY <1>2 DEF PlaybackSize, SizedTo, At
  <2>2. Q \in PagerAt(ntx) /\ Runs(P, Q)
    <3>1. Runs(P, P)
      BY DEF Runs
    <3> QED
      BY <1>1, <3>1, ResetIs, ResetSame
  <2> HIDE DEF Q, n, m2, P
  <2>3. Runs(Q, SizedTo(Q, n, m2)) /\ Runs(P, At(P, 1))
    BY <1>1, <2>2, SizedToSame, AtSame
  <2>4. Runs(P, SizedTo(Q, n, m2))
    BY <2>2, <2>3 DEF Runs
  <2> QED
    BY <2>1, <2>3, <2>4, RunAdvances DEF P
<1>3. CASE PlaybackPage(c)
  <2> DEFINE r == f[Slots(P)[P.k]]
             Q == Replayed(P, r.pgno, r.val)
  <2>1. Set(c, At(P, P.k + 1)) \/ Set(c, At(Q, Q.k + 1))
    BY Zenon, <1>3 DEF PlaybackPage, At, Replayed
  <2>2. Runs(P, At(P, P.k + 1))
    BY <1>1, AtSame
  <2>3. Runs(P, At(Q, Q.k + 1))
    <3> HIDE DEF P, r
    <3> QED
      BY <1>1 DEF PagerAt, Replayed, At, Runs
  <2> QED
    BY Zenon, <2>1, <2>2, <2>3, RunAdvances
<1>4. CASE PlaybackSync(c)
  <2>1. Set(c, PlayedOut(P))
    BY <1>4 DEF PlaybackSync, PlayedOut
  <2> QED
    BY <1>1, <2>1, PlayedOutSame, RunAdvances
<1> QED
  BY <1>2, <1>3, <1>4

LEMMA EndingAdvances ==
  ASSUME IInv, LInv, SBody, NEW c \in Conns, Ending(c)
  PROVE  Advances(c)
<1> DEFINE P == pager[c]
<1>1. P \in PagerAt(ntx) /\ ntx \in Nat
  BY Known
<1>2. CASE Rollback(c)
  BY <1>2, WritingAdvances
<1>3. CASE PlaybackSize(c) \/ PlaybackPage(c) \/ PlaybackSync(c)
  BY <1>3, PlaybackAdvances
<1>4. CASE Finish(c)
  <2>1. Set(c, Ended(P))
    BY <1>4 DEF Finish, Ended
  <2> QED
    BY <1>1, <2>1, EndedSame, RunAdvances
<1>5. CASE Release(c)
  <2>1. P.at = "release" /\ Set(c, IF P.goal = "hot" THEN Rereads(P) ELSE Reads1(P))
    BY <1>5 DEF Release, Released, Rereads, Reads1
  <2>2. P.goal = "hot" => P.eState = "OPEN"
    BY <2>1, HotIs
  <2>3. Rereads(P).eState = P.eState /\ Reads1(P).eState = "READER"
    BY <1>1, ReleasedSame
  <2> QED
    BY <2>1, <2>2, <2>3, Nowhere
<1>6. CASE LeaveError(c)
  BY <1>1, <1>6, UnlockAdvances DEF LeaveError
<1> QED
  BY <1>2, <1>3, <1>4, <1>5, <1>6 DEF Ending

LEMMA MishapAdvances ==
  ASSUME IInv, LInv, SBody, NEW c \in Conns, Mishap(c)
  PROVE  Advances(c)
<1> DEFINE P == pager[c]
<1>1. P \in PagerAt(ntx)
  BY Known
<1>2. Failed(P) \in PagerAt(ntx)
  BY <1>1, FailedIs
<1>3. InError(P).eState = "ERROR" /\ Back(P).goal = "rollback"
  BY <1>1 DEF InError, Back, PagerAt
<1>4. CASE Fail(c) \/ FinishFails(c)
  <2>1. pager_unlock(c, Failed(P)) \/ Set(c, Back(P)) \/ Set(c, InError(P))
    BY <1>4 DEF Fail, FinishFails, Failed, Back, InError
  <2>2. CASE pager_unlock(c, Failed(P))
    BY <1>2, <2>2, UnlockAdvances
  <2>3. CASE Set(c, Back(P)) \/ Set(c, InError(P))
    BY <1>3, <2>3, Nowhere DEF Undoing
  <2> QED
    BY <2>1, <2>2, <2>3
<1>5. CASE Crash(c)
  <2>1. Set(c, Fresh) /\ Fresh.eState = "OPEN"
    BY <1>5 DEF Crash, Set, Fresh
  <2> QED
    BY <2>1, Nowhere
<1> QED
  BY <1>4, <1>5 DEF Mishap

LEMMA AllAdvance ==
  ASSUME IInv, LInv, SBody, NEW c \in Conns, Opening(c) \/ Working(c) \/ Syncing(c) \/ Ending(c) \/ Mishap(c)
  PROVE  /\ pager' = [pager EXCEPT ![c] = pager'[c]]
         /\ Alters(pager'[c]) => Owns(pager[c])
<1>1. Advances(c)
  BY OpeningAdvances, WorkingAdvances, SyncingAdvances, EndingAdvances, MishapAdvances
<1>2. pager \in [Conns -> PagerAt(ntx)]
  BY DEF IInv
<1>3. CASE UNCHANGED pager
  BY <1>2, <1>3 DEF Alters, Owns, Writing
<1>4. ASSUME NEW Q, Set(c, Q), Alters(Q) => Owns(pager[c])
      PROVE  pager' = [pager EXCEPT ![c] = pager'[c]] /\ (Alters(pager'[c]) => Owns(pager[c]))
  BY <1>2, <1>4 DEF Set
<1> QED
  BY <1>1, <1>3, <1>4 DEF Advances

\* Only the end of a commit adds to what was committed.
LEMMA HistoryIs ==
  ASSUME IInv, LInv, SBody, Trusted(setting), NEW c \in Conns,
         Opening(c) \/ Working(c) \/ Syncing(c) \/ Ending(c) \/ Mishap(c),
         history' # history
  PROVE  /\ Finish(c) \/ FinishFails(c)
         /\ pager[c].eState = "FINISHED" /\ pager[c].at = "finish" /\ pager[c].goal = "commit"
         /\ db' = db /\ Latest1' = Image(db)
<1>1. Finish(c) \/ FinishFails(c)
  <2>1. ~ Opening(c) /\ ~ Working(c)
    BY Zenon DEF Opening, SharedLock, HotAccess, HotReserved, HotEmpty, HotClear, HotFirst, HotExclusive, HotOpen,
       SharedLockDone, Working, EndRead, PagerBegin, BeginExclusive, Vacuum, Get, Write, Spill, counters
  <2>2. ~ Syncing(c)
    BY Zenon DEF Syncing, Commit, CommitPhaseOne, ExclusiveLock, WriteRecordCount, SyncJournal, PageOut, WriteDirtyPage,
       SyncDb, counters
  <2>3. Ending(c) => Finish(c)
    BY Zenon DEF Ending, Rollback, PlaybackSize, PlaybackPage, PlaybackSync, Release, LeaveError, counters
  <2>4. Mishap(c) => FinishFails(c)
    BY DEF Mishap, Fail, Crash
  <2> QED
    BY <2>1, <2>2, <2>3, <2>4
<1>2. /\ pager[c].at = "finish" /\ FinishJournal(pager[c]) /\ RecordCommit(pager[c])
      /\ UNCHANGED <<db, ddb, ntx, setting>>
  BY <1>1 DEF Finish, FinishFails
<1>3. pager[c].goal = "commit"
  BY <1>2 DEF RecordCommit
<1> QED
  BY <1>1, <1>2, <1>3, Concludes

-----------------------------------------------------------------------------
(* What connections see.                                                   *)
LEMMA ContentIs == ASSUME IInv PROVE ContentAt(ntx) \subseteq Content /\ Zero \in Content
<1>1. ntx \in Nat /\ ntx <= MaxTx /\ MaxTx \in Nat
  BY PagerAssumption DEF IInv
<1>2. -1 .. ntx \subseteq -1 .. MaxTx
  BY <1>1
<1>3. Zero \in ContentAt(ntx)
  BY <1>1, ZeroIs
<1> QED
  BY <1>2, <1>3 DEF ContentAt, Content

LEMMA ViewIs ==
  ASSUME IInv, NEW c \in Conns, 1 \in Cached(pager[c])
  PROVE  View(c) \in Seq(Content) /\ View(c) # None
<1> DEFINE P == pager[c]
           m == Size(P)
           x(p) == IF p \in Cached(P) THEN P.cache[p].val ELSE IF p <= Len(db) THEN db[p] ELSE Zero
           A == ContentAt(ntx)
<1>1. P \in PagerAt(ntx) /\ db \in Seq(A) /\ ntx \in Nat
  BY PagerIs DEF FilesAt
<1>2. \A p \in Cached(P) : P.cache[p].val \in A
  BY <1>1, CacheIs DEF PagerAt, Cached, EntryAt
<1>3. m \in Nat
  BY <1>1, PageIs, PagerAssumption DEF Size
<1>4. Zero \in Content /\ A \subseteq Content
  BY ContentIs
<1>5. \A p \in 1 .. m : x(p) \in Content
  <2> HIDE DEF A, m, P
  <2> QED
    BY <1>1, <1>2, <1>3, <1>4
<1>6. View(c) = [p \in 1 .. m |-> x(p)]
  BY DEF View
<1> HIDE DEF m, x
<1>7. View(c) \in Seq(Content)
  BY <1>3, <1>5, <1>6
<1> DEFINE T == [ver : Int, sz : Int]
<1>8. Content \subseteq T
  BY PagerAssumption DEF Content
<1> HIDE DEF T
<1>9. \A p \in 1 .. m : x(p) \in T
  BY <1>5, <1>8
<1>10. View(c) \in Seq(T)
  BY <1>3, <1>6, <1>9
<1> QED
  BY <1>7, <1>10, NoneAssumption DEF T

Blind(P) == P.eState \in {"OPEN", "ERROR"} \/ Undoing(P)

LEMMA SeenIs ==
  IInv /\ SBody => \A c \in Conns :
    /\ Viewed[c] = None \/ Viewed[c] = Latest1 \/ (Alters(pager[c]) /\ Viewed[c] \in Seq(Content))
    /\ Viewed[c] = (IF Blind(pager[c]) THEN None ELSE View(c))
    /\ ~ Blind(pager[c]) => Viewed[c] # None
<1> SUFFICES ASSUME IInv, SBody, NEW c \in Conns
             PROVE  /\ Viewed[c] = None \/ Viewed[c] = Latest1 \/ (Alters(pager[c]) /\ Viewed[c] \in Seq(Content))
                    /\ Viewed[c] = (IF Blind(pager[c]) THEN None ELSE View(c))
                    /\ ~ Blind(pager[c]) => Viewed[c] # None
  OBVIOUS
<1>1. Viewed[c] = IF Blind(pager[c]) THEN None ELSE View(c)
  BY DEF Viewed, Blind
<1>2. CASE Blind(pager[c])
  BY <1>1, <1>2
<1>3. CASE ~ Blind(pager[c])
  <2>1. pager[c] \in PagerAt(ntx) /\ Control(pager[c], lock[c], c \in reserved)
    BY Known
  <2>2. pager[c].eState \in {"READER", "LOCKED"} \/ Alters(pager[c])
    BY <1>3, <2>1 DEF Blind, Alters, PagerAt, States
  <2>3. 1 \in Cached(pager[c])
    BY <2>1, <2>2 DEF Control, Alters, Writing
  <2>4. View(c) \in Seq(Content) /\ View(c) # None
    BY <2>3, ViewIs
  <2> QED
    BY <1>1, <1>3, <2>2, <2>4, ReaderSees
<1> QED
  BY <1>2, <1>3

\* While it commits, and when it has.
LEMMA FinishedSees ==
  ASSUME IInv, SBody, NEW c \in Conns, pager[c].eState = "FINISHED", pager[c].at = "finish"
  PROVE  View(c) = Image(db)
<1> DEFINE P == pager[c]
           h == Image(db)
<1>1. /\ h \in Seq(Page) /\ h # << >> /\ Holds(db, h) /\ Len(h) = Size(P) /\ h[1] = P.dbFileVers
      /\ \A p \in Cached(P) : p <= Len(h) => P.cache[p].val = h[p]
      /\ 1 \in Cached(P)
  BY CommittedIs
<1>2. db \in Seq(ContentAt(ntx))
  BY Known
<1> HIDE DEF P, h
<1>3. Shows(P, h) /\ Knows(P, h)
  BY <1>1 DEF Shows, Knows
<1>4. 1 <= Len(h)
  BY <1>1, NotEmpty
<1>5. Whole(h)
  <2>1. P.cache[1].val = h[1]
    BY <1>1, <1>4
  <2> QED
    BY <1>1, <2>1 DEF Whole, Size
<1>6. [p \in 1 .. Size(P) |-> IF p \in Cached(P) THEN P.cache[p].val
                              ELSE IF p <= Len(db) THEN db[p] ELSE Zero] = h
  BY <1>1, <1>2, <1>3, <1>5, ShownIs
<1> QED
  BY <1>6 DEF View, P, h

LEMMA CommittedSees ==
  IInv /\ SBody => \A c \in Conns :
    pager[c].eState = "FINISHED" /\ pager[c].at = "release" => View(c) = Latest1
<1> SUFFICES ASSUME IInv, SBody, NEW c \in Conns, pager[c].eState = "FINISHED", pager[c].at = "release"
             PROVE  View(c) = Latest1
  OBVIOUS
<1> DEFINE P == pager[c]
           h == Latest1
<1>1. /\ Fares(setting, P, lock[c], c \in reserved, jrnl, db, h, history) /\ Control(P, lock[c], c \in reserved)
      /\ h \in Seq(Page) /\ db \in Seq(ContentAt(ntx))
  BY Known
<1>2. 1 \in Cached(P)
  BY <1>1 DEF Control
<1>3. Holds(db, h) /\ Knows(P, h)
  BY <1>1 DEF Fares, Commits
<1>4. Whole(h)
  BY StoredIs
<1> HIDE DEF P, h
<1>5. [p \in 1 .. Size(P) |-> IF p \in Cached(P) THEN P.cache[p].val
                              ELSE IF p <= Len(db) THEN db[p] ELSE Zero] = h
  BY <1>1, <1>2, <1>3, <1>4, ShownIs
<1> QED
  BY <1>5 DEF View, P, h

\* Without a lock nobody sees anything, and one writer sees changes.
LEMMA UnlockedBlind ==
  ASSUME IInv, NEW c \in Conns, lock[c] = NO_LOCK
  PROVE  Blind(pager[c])
<1>1. pager[c] \in PagerAt(ntx) /\ Control(pager[c], lock[c], c \in reserved)
  BY PagerIs
<1> QED
  BY <1>1 DEF Control, Reads, Acts, Writing, PagerAt, States, Blind, NO_LOCK, SHARED_LOCK, RESERVED_LOCK, EXCLUSIVE_LOCK

LEMMA AlteringAlone ==
  ASSUME IInv, LInv, NEW c \in Conns, NEW d \in Conns, Owns(pager[c]), Alters(pager[d])
  PROVE  c = d
<1>1. Control(pager[c], lock[c], c \in reserved) /\ Control(pager[d], lock[d], d \in reserved)
  BY PagerIs
<1>2. (lock[c] >= RESERVED_LOCK /\ c \in reserved) \/ lock[c] = EXCLUSIVE_LOCK
  BY <1>1 DEF Control, Acts, Owns, Writing
<1>3. (lock[d] >= RESERVED_LOCK /\ d \in reserved) \/ lock[d] = EXCLUSIVE_LOCK
  BY <1>1 DEF Control, Acts, Alters, Writing
<1>4. (c \in reserved /\ d \in reserved) => c = d
  BY DEF IInv
<1>5. ASSUME c # d PROVE ~ (lock[c] = EXCLUSIVE_LOCK) /\ ~ (lock[d] = EXCLUSIVE_LOCK)
  BY <1>2, <1>3, <1>5 DEF LInv, NO_LOCK, RESERVED_LOCK, EXCLUSIVE_LOCK
<1> QED
  BY <1>2, <1>3, <1>4, <1>5

-----------------------------------------------------------------------------
(* Each step is one of the store, or none.                                 *)
OneStep(c) == Opening(c) \/ Working(c) \/ Syncing(c) \/ Ending(c) \/ Mishap(c)

LEMMA OthersView ==
  ASSUME IInv, LInv, SBody, IInv', NEW c \in Conns, OneStep(c), NEW d \in Conns, d # c
  PROVE  Viewed'[d] = Viewed[d]
<1>1. pager'[d] = pager[d]
  <2>1. pager \in [Conns -> PagerAt(ntx)] /\ pager' = [pager EXCEPT ![c] = pager'[c]]
    BY AllAdvance DEF IInv, OneStep
  <2> QED
    BY <2>1
<1>2. /\ Viewed[d] = IF Blind(pager[d]) THEN None ELSE View(d)
      /\ Viewed'[d] = IF Blind(pager'[d]) THEN None ELSE View(d)'
  BY DEF Viewed, Blind
<1>3. CASE db' = db
  BY <1>1, <1>2, <1>3 DEF View
<1>4. CASE db' # db
  <2>1. lock[c] = EXCLUSIVE_LOCK
    BY <1>4, WritesExclusively DEF OneStep
  <2>2. lock[d] = NO_LOCK
    BY <2>1 DEF LInv
  <2>3. Blind(pager[d])
    BY <2>2, UnlockedBlind
  <2> QED
    BY <1>1, <1>2, <2>3
<1> QED
  BY <1>3, <1>4

\* What the lemmas about one state say of the next one.
LEMMA NextSeen ==
  /\ IInv' /\ SBody' => \A c \in Conns :
       /\ Viewed'[c] = None \/ Viewed'[c] = Latest1' \/ (Alters(pager'[c]) /\ Viewed'[c] \in Seq(Content))
       /\ Viewed'[c] = (IF Blind(pager'[c]) THEN None ELSE View(c)')
  /\ IInv' /\ SBody' => \A c \in Conns :
       pager'[c].eState = "FINISHED" /\ pager'[c].at = "release" => View(c)' = Latest1'
<1>1. (IInv /\ SBody => \A c \in Conns :
        /\ Viewed[c] = None \/ Viewed[c] = Latest1 \/ (Alters(pager[c]) /\ Viewed[c] \in Seq(Content))
        /\ Viewed[c] = (IF Blind(pager[c]) THEN None ELSE View(c))
        /\ ~ Blind(pager[c]) => Viewed[c] # None)'
  BY SeenIs, PTL
<1>2. (IInv /\ SBody => \A c \in Conns :
        pager[c].eState = "FINISHED" /\ pager[c].at = "release" => View(c) = Latest1)'
  BY CommittedSees, PTL
<1> QED
  BY <1>1, <1>2

LEMMA LatestStored == IInv /\ SBody => Stored = Latest1
BY StoredIs

LEMMA NextStored == IInv' /\ SBody' => Stored' = Latest1'
<1>1. (IInv /\ SBody => Stored = Latest1)'
  BY LatestStored, PTL
<1> QED
  BY <1>1

LEMMA CommitIsAtomic ==
  ASSUME IInv, LInv, SBody, IInv', SBody', Trusted(setting), NEW c \in Conns, OneStep(c), history' # history,
         \A d \in Conns : d # c => Viewed'[d] = Viewed[d]
  PROVE  Atomic!Next
<1>1. /\ Finish(c) \/ FinishFails(c)
      /\ pager[c].eState = "FINISHED" /\ pager[c].at = "finish" /\ pager[c].goal = "commit"
      /\ db' = db /\ Latest1' = Image(db)
  BY HistoryIs DEF OneStep
<1>2. ~ Blind(pager[c]) /\ Viewed[c] = Latest1' /\ Viewed[c] # None
  <2>1. ~ Blind(pager[c])
    BY <1>1 DEF Blind, Undoing
  <2>2. View(c) = Latest1'
    BY <1>1, FinishedSees
  <2> QED
    BY <2>1, <2>2, SeenIs
<1>3. \A d \in Conns \ {c} : Viewed[d] = None
  <2>1. lock[c] = EXCLUSIVE_LOCK
    BY <1>1, CommittedIs
  <2> TAKE d \in Conns \ {c}
  <2>2. lock[d] = NO_LOCK
    BY <2>1 DEF LInv
  <2>3. Blind(pager[d])
    BY <2>2, UnlockedBlind
  <2> QED
    BY <2>3, SeenIs
<1>4. Stored' = Viewed[c]
  BY <1>2, NextStored
<1>5. pager[c] \in PagerAt(ntx) /\ ntx \in Nat /\ pager \in [Conns -> PagerAt(ntx)]
  BY Known DEF IInv
<1>6. CASE Finish(c)
  <2> DEFINE Q == Ended(pager[c])
  <2>1. Set(c, Q)
    BY <1>6 DEF Finish, Ended
  <2>2. Runs(pager[c], Q) /\ Q.at = "release"
    BY <1>5, EndedSame
  <2>3. pager'[c] = Q
    BY <1>5, <2>1 DEF Set
  <2> HIDE DEF Q
  <2>4. pager'[c].eState = "FINISHED" /\ pager'[c].at = "release" /\ ~ Blind(pager'[c])
    BY <1>1, <2>2, <2>3 DEF Runs, Blind, Undoing
  <2>5. Viewed'[c] = Latest1'
    BY <2>4, NextSeen
  <2>6. Viewed' = Viewed
    <3>1. \A d \in Conns : Viewed'[d] = Viewed[d]
      BY <1>2, <2>5
    <3> QED
      BY <3>1 DEF Viewed
  <2>7. Atomic!Commit(c)
    BY <1>2, <1>3, <1>4, <2>6 DEF Atomic!Commit, Atomic!Others
  <2> QED
    BY <2>7 DEF Atomic!Next
<1>7. CASE FinishFails(c)
  <2>1. Set(c, InError(pager[c]))
    BY <1>1, <1>7 DEF FinishFails, InError
  <2>2. InError(pager[c]).eState = "ERROR"
    BY <1>5 DEF InError, PagerAt
  <2>3. pager'[c].eState = "ERROR"
    BY <1>5, <2>1, <2>2 DEF Set
  <2>4. Viewed'[c] = None
    BY <2>3, NextSeen DEF Blind
  <2>5. Viewed' = [Viewed EXCEPT ![c] = None]
    <3>1. \A d \in Conns : Viewed'[d] = [Viewed EXCEPT ![c] = None][d]
      BY <2>4 DEF Viewed
    <3> QED
      BY <3>1 DEF Viewed
  <2>6. Atomic!CommitAndFail(c)
    BY <1>2, <1>3, <1>4, <2>5 DEF Atomic!CommitAndFail, Atomic!Others
  <2> QED
    BY <2>6 DEF Atomic!Next
<1> QED
  BY <1>1, <1>6, <1>7

LEMMA StepIsAtomic ==
  ASSUME IInv, LInv, SBody, IInv', SBody', Trusted(setting), NEW c \in Conns, OneStep(c)
  PROVE  Atomic!Next
<1>1. \A d \in Conns : d # c => Viewed'[d] = Viewed[d]
  BY OthersView
<1>2. CASE history' # history
  BY <1>1, <1>2, CommitIsAtomic
<1>3. CASE history' = history
  <2>1. Stored = Latest1 /\ Stored' = Stored /\ Latest1' = Latest1
    BY <1>3, LatestStored, NextStored DEF Latest1
  <2> DEFINE V == Viewed
             W == Viewed'
  <2>2. V = [d \in Conns |-> V[d]] /\ W = [d \in Conns |-> W[d]]
    BY DEF Viewed
  <2>3. W[c] = None \/ W[c] = Latest1 \/ (Alters(pager'[c]) /\ W[c] \in Seq(Content))
    BY <2>1, NextSeen
  <2>4. Alters(pager'[c]) => Owns(pager[c])
    BY AllAdvance DEF OneStep
  <2>5. \A d \in Conns : /\ V[d] = None \/ V[d] = Latest1 \/ Alters(pager[d])
                         /\ ~ Blind(pager[d]) => V[d] # None
    BY SeenIs
  <2>6. \A d \in Conns \ {c} : Owns(pager[c]) => V[d] \in {None, Latest1}
    BY <2>5, AlteringAlone
  <2>7. Owns(pager[c]) => V[c] # None
    BY <2>5 DEF Owns, Blind, Writing
  <2>8. CASE W[c] = None
    <3>1. W = [d \in Conns |-> IF d \in {c} THEN None ELSE V[d]]
      <4> HIDE DEF V, W
      <4> QED
        BY <1>1, <2>2, <2>8 DEF V, W
    <3>2. Atomic!Leave({c})
      BY <2>1, <3>1 DEF Atomic!Leave
    <3> QED
      BY <3>2 DEF Atomic!Next
  <2>9. CASE W[c] = Latest1
    <3>1. W = [V EXCEPT ![c] = Stored]
      <4>1. \A d \in Conns : W[d] = [d2 \in Conns |-> IF d2 = c THEN Stored ELSE V[d2]][d]
        BY <1>1, <2>1, <2>9
      <4>2. W = [d2 \in Conns |-> IF d2 = c THEN Stored ELSE V[d2]]
        BY <2>2, <4>1
      <4> QED
        BY <2>2, <4>2
    <3>2. Atomic!Look(c) \/ Atomic!Undo(c)
      BY <2>1, <3>1 DEF Atomic!Look, Atomic!Undo
    <3> QED
      BY <3>2 DEF Atomic!Next
  <2>10. CASE Alters(pager'[c]) /\ W[c] \in Seq(Content)
    <3>1. W = [V EXCEPT ![c] = W[c]]
      <4>1. \A d \in Conns : W[d] = [d2 \in Conns |-> IF d2 = c THEN W[c] ELSE V[d2]][d]
        BY <1>1
      <4>2. W = [d2 \in Conns |-> IF d2 = c THEN W[c] ELSE V[d2]]
        BY <2>2, <4>1
      <4> QED
        BY <2>2, <4>2
    <3>2. Owns(pager[c])
      BY <2>4, <2>10
    <3>3. V[c] # None /\ \A d \in Conns \ {c} : V[d] \in {None, Stored}
      BY <2>1, <2>6, <2>7, <3>2
    <3>4. Atomic!Change(c)
      BY <2>1, <2>10, <3>1, <3>3 DEF Atomic!Change, Atomic!Others
    <3> QED
      BY <3>4 DEF Atomic!Next
  <2> QED
    BY <2>3, <2>8, <2>9, <2>10
<1> QED
  BY <1>2, <1>3

-----------------------------------------------------------------------------
(* From the start, and until the power may fail.                           *)
PowerCounts == setting \in Settings /\ (mishaps.power = 0 \/ setting.power > 0)

LEMMA InitIsAtomic == Init /\ IInv /\ SInv /\ Trusted(setting) => Atomic!Init
<1> SUFFICES ASSUME Init, IInv, SInv, Trusted(setting) PROVE Atomic!Init
  OBVIOUS
<1>1. /\ setting \in Settings /\ db = setting.initDb /\ pager = [c \in Conns |-> Fresh]
      /\ history = << Image(db) >> /\ mishaps.power = 0
  BY DEF Init
<1>2. Stored = Image(db)
  <2>1. Stored = Latest1
    BY <1>1, LatestStored DEF SInv
  <2> QED
    BY <1>1, <2>1 DEF Latest1, Latest
<1>3. Image(db) \in Seq(Content)
  <2> DEFINE A == ContentAt(ntx)
             m == db[1].sz
  <2>1. db \in Seq(A) /\ A \subseteq Content /\ (db = << >> \/ m \in 1 .. Len(db))
    BY <1>1, ContentIs, PagerAssumption DEF Setting, IInv
  <2>2. CASE db = << >>
    BY <2>2 DEF Image
  <2>3. CASE db # << >>
    <3>1. m \in Nat /\ 1 <= m /\ m <= Len(db) /\ Len(db) \in Nat
      BY <2>1, <2>3
    <3>2. /\ Len(Image(db)) = m /\ Image(db) \in Seq(Page)
          /\ \A p \in 1 .. m : Image(db)[p] = db[p]
      BY <2>1, <3>1, ImageIs
    <3> HIDE DEF A, m
    <3>3. \A p \in 1 .. m : Image(db)[p] \in Content
      BY <2>1, <3>1, <3>2
    <3> QED
      BY <3>1, <3>2, <3>3
  <2> QED
    BY <2>2, <2>3
<1>4. Viewed = [c \in Conns |-> None]
  <2>1. Fresh.eState = "OPEN"
    BY DEF Fresh
  <2> QED
    BY <1>1, <2>1 DEF Viewed
<1> QED
  BY <1>2, <1>3, <1>4 DEF Atomic!Init

LEMMA NextIsAtomic ==
  /\ IInv /\ LInv /\ SInv /\ PowerCounts /\ Trusted(setting)
  /\ IInv' /\ LInv' /\ SInv'
  /\ [Next]_vars
  => [setting.power > 0 \/ Atomic!Next]_<<Stored, Viewed>>
<1> SUFFICES ASSUME IInv, LInv, SInv, PowerCounts, Trusted(setting), IInv', LInv', SInv', [Next]_vars
             PROVE  setting.power > 0 \/ Atomic!Next \/ UNCHANGED <<Stored, Viewed>>
  OBVIOUS
<1>1. mishaps.power = 0 \/ setting.power > 0
  BY DEF PowerCounts
<1>2. CASE UNCHANGED vars
  BY <1>2 DEF vars, Stored, StoredWith, Viewed, View
<1>3. CASE PowerFailure
  <2>1. mishaps.power < setting.power /\ mishaps.power \in Nat /\ setting.power \in Nat
    <3>1. setting \in Setting
      BY PagerAssumption DEF PowerCounts
    <3> QED
      BY <1>3, <3>1 DEF PowerFailure, SInv, Setting
  <2> QED
    BY <2>1
<1>4. ASSUME NEW c \in Conns, OneStep(c), mishaps.power = 0
      PROVE  Atomic!Next
  <2>1. mishaps'.power = 0 /\ setting' = setting
    BY <1>4, StepCounts DEF SInv, OneStep
  <2>2. SBody /\ SBody'
    BY <1>4, <2>1 DEF SInv
  <2> QED
    BY <1>4, <2>2, StepIsAtomic
<1> QED
  BY <1>1, <1>2, <1>3, <1>4 DEF Next, OneStep

LEMMA PowerCounted ==
  SInv /\ PowerCounts /\ Trusted(setting) /\ [Next]_vars => PowerCounts' /\ Trusted(setting)'
<1> SUFFICES ASSUME SInv, PowerCounts, Trusted(setting), [Next]_vars PROVE PowerCounts' /\ Trusted(setting)'
  OBVIOUS
<1>1. mishaps \in [crash : Nat, power : Nat, fault : Nat]
  BY DEF SInv
<1>2. CASE UNCHANGED vars
  BY <1>2 DEF vars, PowerCounts
<1>3. CASE PowerFailure
  <2>1. setting' = setting /\ mishaps.power < setting.power
    BY <1>3 DEF PowerFailure
  <2>2. setting.power \in Nat
    BY PagerAssumption DEF PowerCounts, Setting
  <2>3. setting.power > 0
    BY <1>1, <2>1, <2>2
  <2> QED
    BY <2>1, <2>3 DEF PowerCounts
<1>4. ASSUME NEW c \in Conns, OneStep(c)
      PROVE  PowerCounts' /\ Trusted(setting)'
  <2>1. mishaps'.power = mishaps.power /\ setting' = setting
    BY <1>1, <1>4, StepCounts DEF OneStep
  <2> QED
    BY <2>1 DEF PowerCounts
<1> QED
  BY <1>2, <1>3, <1>4 DEF Next, OneStep

(* The pager is an atomic store: connections see the store as it was when  *)
(* they began, each with its own changes; a commit replaces it at once,    *)
(* when nobody else reads; crashes, errors and rollbacks take views away   *)
(* and leave it as it is.                                                  *)
THEOREM PagerIsAtomicStore == Spec /\ Trusted(setting) => IsAtomicStore
<1> DEFINE J == IInv /\ LInv /\ SInv
           K == PowerCounts /\ Trusted(setting)
<1>1. Spec => []J
  BY Kept1, PTL
<1>2. Init => PowerCounts
  BY DEF Init, PowerCounts
<1>3. J /\ K /\ [Next]_vars => K'
  BY PowerCounted
<1>4. J /\ K /\ J' /\ [Next]_vars => [setting.power > 0 \/ Atomic!Next]_<<Stored, Viewed>>
  BY NextIsAtomic
<1>5. Init /\ J /\ Trusted(setting) => Atomic!Init
  BY InitIsAtomic
<1> HIDE DEF J
<1> QED
  BY <1>1, <1>2, <1>3, <1>4, <1>5, PTL DEF Spec, IsAtomicStore
=============================================================================
