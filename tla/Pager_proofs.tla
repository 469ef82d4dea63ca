---------------------------- MODULE Pager_proofs ----------------------------
(***************************************************************************)
(* Whatever the connections, the settings, the deaths of processes, the    *)
(* failing calls and the power failures: the state of a pager fits the     *)
(* lock it holds, and what it reads and writes keeps its type.             *)
(***************************************************************************)
EXTENDS Pager, WellFoundedInduction, TLAPS

(* The contents of pages when n transactions have begun.                   *)
ContentAt(n) == [ver : -1 .. n, sz : 0 .. MaxPage]
EntryAt(n) == [val : ContentAt(n), dirty : BOOLEAN, needSync : BOOLEAN]
CacheAt(n) == UNION {[S -> EntryAt(n)] : S \in SUBSET (1 .. MaxPage)}

(* The slots of a journal, and the file.                                   *)
HeaderSlots == [kind : {"header"}, magic : BOOLEAN, nRec : Nat \cup {ALL}, orig : Nat, nonce : Nat]
RecordSlots(n) == [kind : {"record"}, pgno : 1 .. MaxPage, val : ContentAt(n), nonce : Nat]
SlotsAt(n) == HeaderSlots \cup RecordSlots(n) \cup {ZeroSlot, Garbage}
JournalAt(n) == [exists : BOOLEAN, slots : Seq(SlotsAt(n)), fresh : BOOLEAN]

States == {"OPEN", "READER", "LOCKED", "CACHEMOD", "DBMOD", "FINISHED", "ERROR"}
Places == {"idle", "access", "reserved", "version", "empty", "first", "clear", "hot", "open",
           "exclusive", "exclude", "one", "count", "sync", "pageout", "pages", "play", "finish",
           "release"}
Goals == {"none", "hot", "spill", "commit", "rollback"}

PagerAt(n) ==
  [ eState : States, at : Places, goal : Goals,
    cache : CacheAt(n), dbSize : Nat, dbOrigSize : Nat, dbFileSize : Nat,
    dbFileVers : ContentAt(n), hasHeldSharedLock : BOOLEAN, changeCountDone : BOOLEAN,
    bDoTruncate : BOOLEAN,
    journalHdr : Nat, journalOff : Nat, nRec : Nat, pInJournal : SUBSET (1 .. MaxPage),
    tx : 0 .. n, k : Nat ]

-----------------------------------------------------------------------------
(* Where a pager may be, with which lock; r says whether it is RESERVED.   *)
Hasnt(P, l) ==
  /\ P.journalHdr = 0
  /\ \/ P.at = "idle" /\ P.goal = "none" /\ l = NO_LOCK
     \/ P.at \in {"access", "reserved", "version", "empty", "first"} /\ P.goal = "none" /\ l = SHARED_LOCK
     \/ P.at = "clear" /\ P.goal = "none" /\ l = RESERVED_LOCK
     \/ P.at = "hot" /\ P.goal = "none" /\ l \in {SHARED_LOCK, PENDING_LOCK}
     \/ P.at = "open" /\ P.goal = "none" /\ l = EXCLUSIVE_LOCK
     \/ P.at \in {"play", "finish", "release"} /\ P.goal = "hot" /\ l = EXCLUSIVE_LOCK

Reads(P, l, r) ==
  /\ P.journalHdr = 0 /\ P.goal = "none"
  /\ l >= SHARED_LOCK /\ (l >= RESERVED_LOCK => r)
  /\ \/ P.at = "idle"
     \/ P.at = "exclusive" /\ l >= RESERVED_LOCK

(* Until its change counter is written, that of a transaction is one that  *)
(* an earlier transaction has written.                                     *)
Counts(P) == P.goal \in {"none", "spill"} \/ P.at \in {"exclude", "one"} => P.dbFileVers.ver < P.tx

Acts(P, l, r) ==
  /\ P.eState = "LOCKED" => P.journalHdr = 0 /\ P.at \in {"idle", "exclude", "one", "release"}
  /\ P.eState = "DBMOD" => l = EXCLUSIVE_LOCK
  /\ l >= RESERVED_LOCK /\ r
  /\ Counts(P)
  /\ \/ P.at = "idle" /\ P.goal = "none"
     \/ P.at = "exclude" /\ P.goal \in {"spill", "commit"}
     \/ P.at = "one" /\ P.goal = "commit" /\ l = EXCLUSIVE_LOCK
     \/ P.at \in {"count", "sync"} /\ P.goal \in {"spill", "commit"} /\ l = EXCLUSIVE_LOCK
     \/ P.at = "pageout" /\ P.goal = "spill" /\ P.eState = "DBMOD"
     \/ P.at = "pages" /\ P.goal = "commit" /\ P.eState = "DBMOD"
     \/ P.at \in {"play", "finish", "release"} /\ P.goal = "rollback"
     \/ P.at = "release" /\ P.eState = "LOCKED" /\ P.goal \in {"none", "commit"}
        /\ (P.goal = "commit" => l = EXCLUSIVE_LOCK)

(* The page that is to leave the cache is in it.                           *)
Spills(P) ==
  P.goal = "spill" /\ P.at \in {"exclude", "count", "sync", "pageout"} =>
    P.k \in Cached(P) \ {1} /\ P.eState # "LOCKED"

Control(P, l, r) ==
  /\ P.eState = "OPEN" => Hasnt(P, l)
  /\ P.eState = "READER" => Reads(P, l, r)
  /\ P.eState \in Writing => Acts(P, l, r)
  /\ P.eState = "FINISHED" => P.at \in {"finish", "release"} /\ P.goal = "commit" /\ l = EXCLUSIVE_LOCK
  /\ P.eState = "ERROR" => P.at = "idle"
  /\ P.eState \in Writing \cup {"READER", "FINISHED"} => 1 \in Cached(P)
  /\ Spills(P)
  /\ P.journalHdr <= P.journalOff \/ P.goal = "rollback"

-----------------------------------------------------------------------------
IInv ==
  /\ setting \in Settings /\ ntx \in 0 .. MaxTx
  /\ pager \in [Conns -> PagerAt(ntx)]
  /\ lock \in [Conns -> Levels]
  /\ \A c, d \in reserved : c = d
  /\ \A c \in Conns : Control(pager[c], lock[c], c \in reserved)
  /\ \A c \in Conns : pager[c].at = "exclusive" => ntx < setting.txs
  /\ db \in Seq(ContentAt(ntx)) /\ ddb \in Seq(ContentAt(ntx))
  /\ jrnl \in JournalAt(ntx) /\ djrnl \in JournalAt(ntx)

-----------------------------------------------------------------------------
(* One connection moves: what it has to show.                              *)
LockStep(c) ==
  /\ lock' \in [Conns -> Levels]
  /\ \A d \in Conns : d # c => lock'[d] = lock[d] /\ (d \in reserved' <=> d \in reserved)
  /\ \A d, e \in reserved' : d = e

FilesAt(n) ==
  /\ db \in Seq(ContentAt(n)) /\ ddb \in Seq(ContentAt(n))
  /\ jrnl \in JournalAt(n) /\ djrnl \in JournalAt(n)

LEMMA MovesAnywhere ==
  ASSUME IInv, NEW c \in Conns, NEW P \in PagerAt(ntx), Set(c, P), LockStep(c),
         Control(P, lock'[c], c \in reserved'), P.at = "exclusive" => ntx < setting.txs,
         ntx' = ntx, setting' = setting, FilesAt(ntx)'
  PROVE  IInv'
<1>1. pager' = [pager EXCEPT ![c] = P] /\ pager \in [Conns -> PagerAt(ntx)]
  BY DEF IInv, Set
<1>2. pager'[c] = P /\ pager' \in [Conns -> PagerAt(ntx)]
      /\ \A d \in Conns : d # c => pager'[d] = pager[d]
  BY <1>1
<1>3. \A d \in Conns : Control(pager'[d], lock'[d], d \in reserved')
  <2> TAKE d \in Conns
  <2>1. CASE d = c
    BY <1>2, <2>1
  <2>2. CASE d # c
    <3>1. Control(pager[d], lock[d], d \in reserved)
      BY DEF IInv
    <3>2. pager'[d] = pager[d] /\ lock'[d] = lock[d] /\ (d \in reserved' <=> d \in reserved)
      BY <1>2, <2>2 DEF LockStep
    <3> QED
      BY <3>1, <3>2 DEF Control, Reads, Acts
  <2> QED
    BY <2>1, <2>2
<1>4. \A d \in Conns : pager'[d].at = "exclusive" => ntx' < setting'.txs
  BY <1>2 DEF IInv
<1> QED
  BY <1>2, <1>3, <1>4 DEF IInv, LockStep, FilesAt

LEMMA Moves ==
  ASSUME IInv, NEW c \in Conns, NEW P \in PagerAt(ntx), Set(c, P), LockStep(c),
         Control(P, lock'[c], c \in reserved'), P.at # "exclusive",
         ntx' = ntx, setting' = setting, FilesAt(ntx)'
  PROVE  IInv'
<1>1. P.at = "exclusive" => ntx < setting.txs
  OBVIOUS
<1> QED
  BY <1>1, MovesAnywhere

(* The locks.                                                              *)
LEMMA LockRange == Levels = 0 .. 4
BY DEF Levels, NO_LOCK, EXCLUSIVE_LOCK

LEMMA Unlocked ==
  ASSUME IInv, NEW c \in Conns, UNCHANGED levels
  PROVE  LockStep(c) /\ lock'[c] = lock[c] /\ (c \in reserved' <=> c \in reserved)
BY DEF IInv, LockStep, levels

LEMMA Shares ==
  ASSUME IInv, NEW c \in Conns, Locks!Share(c)
  PROVE  LockStep(c) /\ lock'[c] = SHARED_LOCK /\ (c \in reserved' <=> c \in reserved)
BY LockRange DEF IInv, LockStep, Locks!Share, Locks!Set, Locks!SHARED_LOCK, SHARED_LOCK

LEMMA Reserves ==
  ASSUME IInv, NEW c \in Conns, Locks!Reserve(c)
  PROVE  LockStep(c) /\ lock'[c] = RESERVED_LOCK /\ c \in reserved' /\ reserved = {}
BY LockRange DEF IInv, LockStep, Locks!Reserve, Locks!Set, Locks!RESERVED_LOCK, RESERVED_LOCK

LEMMA Pends ==
  ASSUME IInv, NEW c \in Conns, Locks!Pend(c)
  PROVE  /\ LockStep(c) /\ lock'[c] = PENDING_LOCK /\ (c \in reserved' <=> c \in reserved)
         /\ lock[c] \in {SHARED_LOCK, RESERVED_LOCK}
BY LockRange DEF IInv, LockStep, Locks!Pend, Locks!Set, Locks!PENDING_LOCK, Locks!SHARED_LOCK, Locks!RESERVED_LOCK, PENDING_LOCK, SHARED_LOCK, RESERVED_LOCK

LEMMA Excludes ==
  ASSUME IInv, NEW c \in Conns, Locks!Exclude(c)
  PROVE  LockStep(c) /\ lock'[c] = EXCLUSIVE_LOCK /\ (c \in reserved' <=> c \in reserved)
BY LockRange DEF IInv, LockStep, Locks!Exclude, Locks!Set, Locks!EXCLUSIVE_LOCK, EXCLUSIVE_LOCK

LEMMA Lowers ==
  ASSUME IInv, NEW c \in Conns, Locks!Lower(c, SHARED_LOCK)
  PROVE  LockStep(c) /\ lock'[c] = SHARED_LOCK
BY LockRange DEF IInv, LockStep, Locks!Lower, Locks!Set, Locks!SHARED_LOCK, SHARED_LOCK

LEMMA Vanishes ==
  ASSUME IInv, NEW c \in Conns, Locks!Vanish({c})
  PROVE  LockStep(c) /\ lock'[c] = NO_LOCK
BY LockRange DEF IInv, LockStep, Locks!Vanish, Locks!NO_LOCK, NO_LOCK

(* Typed parts of what is typed.                                           *)
LEMMA PagerIs ==
  ASSUME IInv, NEW c \in Conns
  PROVE  /\ pager[c] \in PagerAt(ntx) /\ Control(pager[c], lock[c], c \in reserved)
         /\ lock[c] \in 0 .. 4 /\ ntx \in Nat /\ FilesAt(ntx)
BY PagerAssumption, LockRange DEF IInv, FilesAt

(* What the control of a pager depends on, apart from its cache and the    *)
(* version it knows.                                                       *)
Kin(P, Q) ==
  /\ Q.eState = P.eState /\ Q.at = P.at /\ Q.goal = P.goal
  /\ Q.journalHdr = P.journalHdr /\ Q.tx = P.tx /\ Q.k = P.k

LEMMA Goes ==
  ASSUME NEW n, NEW P \in PagerAt(n), NEW where \in Places
  PROVE  LET Q == [P EXCEPT !.at = where] IN
         /\ Q \in PagerAt(n) /\ Q.at = where
         /\ Q.eState = P.eState /\ Q.goal = P.goal /\ Q.cache = P.cache
         /\ Q.journalHdr = P.journalHdr /\ Q.journalOff = P.journalOff
         /\ Q.tx = P.tx /\ Q.k = P.k /\ Q.dbFileVers = P.dbFileVers
BY DEF PagerAt

(* The pages of a cache.                                                   *)
LEMMA CacheIs ==
  ASSUME NEW n, NEW f
  PROVE  f \in CacheAt(n) <=> /\ DOMAIN f \subseteq 1 .. MaxPage
                              /\ f = [p \in DOMAIN f |-> f[p]]
                              /\ \A p \in DOMAIN f : f[p] \in EntryAt(n)
<1>1. ASSUME f \in CacheAt(n)
      PROVE  /\ DOMAIN f \subseteq 1 .. MaxPage /\ f = [p \in DOMAIN f |-> f[p]]
             /\ \A p \in DOMAIN f : f[p] \in EntryAt(n)
  <2>1. PICK S \in SUBSET (1 .. MaxPage) : f \in [S -> EntryAt(n)]
    BY <1>1 DEF CacheAt
  <2> QED
    BY <2>1
<1>2. ASSUME /\ DOMAIN f \subseteq 1 .. MaxPage /\ f = [p \in DOMAIN f |-> f[p]]
             /\ \A p \in DOMAIN f : f[p] \in EntryAt(n)
      PROVE  f \in CacheAt(n)
  <2>1. DOMAIN f \in SUBSET (1 .. MaxPage) /\ f \in [DOMAIN f -> EntryAt(n)]
    BY <1>2
  <2> QED
    BY <2>1 DEF CacheAt
<1> QED
  BY <1>1, <1>2

LEMMA MakeCache ==
  ASSUME NEW n, NEW S, S \subseteq 1 .. MaxPage, NEW g, g \in [S -> EntryAt(n)]
  PROVE  g \in CacheAt(n)
<1>1. S \in SUBSET (1 .. MaxPage)
  OBVIOUS
<1> QED
  BY <1>1 DEF CacheAt

LEMMA NewCache ==
  ASSUME NEW n, NEW P \in PagerAt(n), NEW g \in CacheAt(n)
  PROVE  LET Q == [P EXCEPT !.cache = g] IN
         /\ Q \in PagerAt(n) /\ Q.cache = g /\ Kin(P, Q) /\ Q.journalOff = P.journalOff
         /\ Q.dbFileVers = P.dbFileVers /\ Q.dbSize = P.dbSize /\ Q.dbOrigSize = P.dbOrigSize
         /\ Q.pInJournal = P.pInJournal
BY DEF PagerAt, Kin

LEMMA ZeroIs == ASSUME NEW n \in Nat PROVE Zero \in ContentAt(n) /\ Torn \in ContentAt(n)
BY PagerAssumption DEF Zero, Torn, ContentAt

LEMMA StoreIs ==
  ASSUME NEW n, NEW P \in PagerAt(n), NEW p \in 1 .. MaxPage, NEW e \in EntryAt(n)
  PROVE  LET Q == Store(P, p, e) IN
         /\ Q \in PagerAt(n) /\ Kin(P, Q) /\ Cached(Q) = Cached(P) \cup {p}
         /\ Q.journalOff = P.journalOff /\ Q.dbFileVers = P.dbFileVers /\ Q.dbSize = P.dbSize
         /\ Q.dbOrigSize = P.dbOrigSize /\ Q.pInJournal = P.pInJournal
<1> DEFINE g == [q \in Cached(P) \cup {p} |-> IF q = p THEN e ELSE P.cache[q]]
<1>1. P.cache \in CacheAt(n)
  BY DEF PagerAt
<1>2. Cached(P) \subseteq 1 .. MaxPage /\ \A q \in Cached(P) : P.cache[q] \in EntryAt(n)
  BY <1>1, CacheIs DEF Cached
<1>3. g \in [Cached(P) \cup {p} -> EntryAt(n)]
  BY <1>2
<1>4. g \in CacheAt(n) /\ DOMAIN g = Cached(P) \cup {p}
  BY <1>2, <1>3, MakeCache
<1>5. Store(P, p, e) = [P EXCEPT !.cache = g]
  BY DEF Store
<1> HIDE DEF g
<1> QED
  BY <1>4, <1>5, NewCache DEF Cached

LEMMA KeepIs ==
  ASSUME NEW n, NEW P \in PagerAt(n), NEW S
  PROVE  LET Q == Keep(P, S) IN
         /\ Q \in PagerAt(n) /\ Kin(P, Q) /\ Cached(Q) = Cached(P) \cap S
         /\ Q.journalOff = P.journalOff /\ Q.dbFileVers = P.dbFileVers /\ Q.dbSize = P.dbSize
<1> DEFINE g == [q \in Cached(P) \cap S |-> P.cache[q]]
<1>1. P.cache \in CacheAt(n)
  BY DEF PagerAt
<1>2. Cached(P) \subseteq 1 .. MaxPage /\ \A q \in Cached(P) : P.cache[q] \in EntryAt(n)
  BY <1>1, CacheIs DEF Cached
<1>3. g \in CacheAt(n) /\ DOMAIN g = Cached(P) \cap S
  BY <1>2, MakeCache
<1>4. Keep(P, S) = [P EXCEPT !.cache = g]
  BY DEF Keep
<1> HIDE DEF g
<1> QED
  BY <1>3, <1>4, NewCache DEF Cached

LEMMA CleanIs ==
  ASSUME NEW n, NEW P \in PagerAt(n)
  PROVE  LET Q == Clean(P) IN
         /\ Q \in PagerAt(n) /\ Kin(P, Q) /\ Cached(Q) = Cached(P)
         /\ Q.journalOff = P.journalOff /\ Q.dbFileVers = P.dbFileVers /\ Q.dbSize = P.dbSize
<1> DEFINE g == [q \in Cached(P) |-> [P.cache[q] EXCEPT !.dirty = FALSE, !.needSync = FALSE]]
<1>1. P.cache \in CacheAt(n)
  BY DEF PagerAt
<1>2. Cached(P) \subseteq 1 .. MaxPage /\ \A q \in Cached(P) : P.cache[q] \in EntryAt(n)
  BY <1>1, CacheIs DEF Cached
<1>3. \A q \in Cached(P) : [P.cache[q] EXCEPT !.dirty = FALSE, !.needSync = FALSE] \in EntryAt(n)
  BY <1>2 DEF EntryAt
<1>4. g \in CacheAt(n) /\ DOMAIN g = Cached(P)
  BY <1>2, <1>3, MakeCache
<1>5. Clean(P) = [P EXCEPT !.cache = g]
  BY DEF Clean
<1> HIDE DEF g
<1> QED
  BY <1>4, <1>5, NewCache DEF Cached

LEMMA ResetIs ==
  ASSUME NEW n, NEW P \in PagerAt(n)
  PROVE  LET Q == pager_reset(P) IN
         /\ Q \in PagerAt(n) /\ Kin(P, Q) /\ Q.journalOff = P.journalOff
         /\ Q.dbFileVers = P.dbFileVers /\ Q.dbSize = P.dbSize
<1>1. << >> \in CacheAt(n)
  <2>1. << >> \in [{} -> EntryAt(n)]
    OBVIOUS
  <2> QED
    BY <2>1, MakeCache
<1> QED
  BY <1>1, NewCache DEF pager_reset

LEMMA GetPageIs ==
  ASSUME NEW n \in Nat, NEW P \in PagerAt(n), NEW p \in 1 .. MaxPage, db \in Seq(ContentAt(n))
  PROVE  LET Q == getPage(P, p) IN
         /\ Q \in PagerAt(n) /\ Kin(P, Q) /\ Cached(Q) = Cached(P) \cup {p}
         /\ Q.journalOff = P.journalOff
         /\ p # 1 \/ 1 \in Cached(P) => Q.dbFileVers = P.dbFileVers
<1> DEFINE v == IF p <= Len(db) THEN db[p] ELSE Zero
           E(x) == [val |-> x, dirty |-> FALSE, needSync |-> FALSE]
           Q == Store(P, p, E(v))
<1>1. \A x \in ContentAt(n) : E(x) \in EntryAt(n)
  BY DEF EntryAt
<1>2. v \in ContentAt(n) /\ Zero \in ContentAt(n)
  BY ZeroIs
<1>3. CASE p \in Cached(P)
  BY <1>3 DEF getPage, Kin
<1>4. CASE p \notin Cached(P) /\ P.dbSize < p
  <2>1. getPage(P, p) = Store(P, p, E(Zero))
    BY <1>4 DEF getPage
  <2> QED
    BY <1>1, <1>2, <2>1, StoreIs
<1>5. CASE p \notin Cached(P) /\ ~ (P.dbSize < p)
  <2>1. getPage(P, p) = IF p = 1 THEN [Q EXCEPT !.dbFileVers = v] ELSE Q
    BY <1>5 DEF getPage
  <2>2. /\ Q \in PagerAt(n) /\ Kin(P, Q) /\ Cached(Q) = Cached(P) \cup {p}
        /\ Q.journalOff = P.journalOff /\ Q.dbFileVers = P.dbFileVers
    BY <1>1, <1>2, StoreIs
  <2> HIDE DEF Q, v
  <2>3. LET R == [Q EXCEPT !.dbFileVers = v] IN
        /\ R \in PagerAt(n) /\ Kin(Q, R) /\ Cached(R) = Cached(Q) /\ R.journalOff = Q.journalOff
    BY <1>2, <2>2 DEF PagerAt, Kin, Cached
  <2> QED
    BY <1>5, <2>1, <2>2, <2>3 DEF Kin
<1> QED
  BY <1>3, <1>4, <1>5

-----------------------------------------------------------------------------
(* The files.                                                              *)
LEMMA SlotKinds ==
  ASSUME NEW n, NEW s \in SlotsAt(n)
  PROVE  /\ s.kind = "header" => s \in HeaderSlots
         /\ s.kind = "record" => s \in RecordSlots(n)
BY DEF SlotsAt, HeaderSlots, RecordSlots, ZeroSlot, Garbage

LEMMA SlotIs ==
  ASSUME NEW n, NEW f \in Seq(SlotsAt(n)), NEW i \in 1 .. Len(f)
  PROVE  /\ f[i].kind = "header" => f[i] \in HeaderSlots
         /\ f[i].kind = "record" => f[i] \in RecordSlots(n)
<1>1. f[i] \in SlotsAt(n)
  OBVIOUS
<1> QED
  BY <1>1, SlotKinds

LEMMA PutIs ==
  ASSUME NEW S, NEW f \in Seq(S), NEW s \in S, NEW i \in Nat \ {0}
  PROVE  Put(f, i, s) \in Seq(S)
<1>1. CASE i <= Len(f)
  <2>1. i \in 1 .. Len(f)
    BY <1>1
  <2>2. [f EXCEPT ![i] = s] \in Seq(S)
    BY <2>1
  <2> QED
    BY <1>1, <2>2 DEF Put
<1>2. CASE ~ (i <= Len(f))
  BY <1>2 DEF Put
<1> QED
  BY <1>1, <1>2

LEMMA ResizeIs ==
  ASSUME NEW n \in Nat, NEW d \in Seq(ContentAt(n)), NEW m \in Nat
  PROVE  Resize(d, m) \in Seq(ContentAt(n)) /\ Len(Resize(d, m)) = m
<1> DEFINE g == [p \in 1 .. m |-> IF p <= Len(d) THEN d[p] ELSE Zero]
<1>1. ASSUME NEW p \in 1 .. m
      PROVE  (IF p <= Len(d) THEN d[p] ELSE Zero) \in ContentAt(n)
  <2>1. CASE p <= Len(d)
    <3>1. p \in 1 .. Len(d)
      BY <2>1
    <3> QED
      BY <2>1, <3>1
  <2>2. CASE ~ (p <= Len(d))
    BY <2>2, ZeroIs
  <2> QED
    BY <2>1, <2>2
<1>2. g \in [1 .. m -> ContentAt(n)]
  BY <1>1
<1>3. Resize(d, m) = g
  BY DEF Resize
<1> HIDE DEF g
<1> QED
  BY <1>2, <1>3

LEMMA WritePageIs ==
  ASSUME NEW n \in Nat, NEW d \in Seq(ContentAt(n)), NEW p \in 1 .. MaxPage, NEW v \in ContentAt(n)
  PROVE  WritePage(d, p, v) \in Seq(ContentAt(n))
<1> DEFINE m == IF p > Len(d) THEN p ELSE Len(d)
           e == Resize(d, m)
<1>1. m \in Nat /\ p \in 1 .. m
  BY PagerAssumption
<1>2. e \in Seq(ContentAt(n)) /\ Len(e) = m
  BY <1>1, ResizeIs
<1>3. WritePage(d, p, v) = [e EXCEPT ![p] = v]
  BY DEF WritePage
<1> HIDE DEF m, e
<1> QED
  BY <1>1, <1>2, <1>3

LEMMA JournalIs ==
  ASSUME NEW n \in Nat, NEW j \in JournalAt(n), NEW f \in Seq(SlotsAt(n)), NEW b \in BOOLEAN
  PROVE  /\ j.exists \in BOOLEAN /\ j.slots \in Seq(SlotsAt(n)) /\ j.fresh \in BOOLEAN
         /\ [j EXCEPT !.slots = f] \in JournalAt(n) /\ [j EXCEPT !.fresh = b] \in JournalAt(n)
         /\ [j EXCEPT !.slots = f, !.fresh = b] \in JournalAt(n)
         /\ [j EXCEPT !.fresh = b, !.slots = f] \in JournalAt(n)
         /\ [exists |-> TRUE, slots |-> f, fresh |-> b] \in JournalAt(n)
         /\ NoJournal \in JournalAt(n)
<1>1. << >> \in Seq(SlotsAt(n))
  OBVIOUS
<1> QED
  BY <1>1 DEF JournalAt, NoJournal

LEMMA SyncedIs ==
  ASSUME NEW n \in Nat, FilesAt(n), NEW P, NEW j \in JournalAt(n), NEW s \in BOOLEAN,
         SyncJournalFile(P, j, s)
  PROVE  jrnl' \in JournalAt(n) /\ djrnl' \in JournalAt(n)
<1> DEFINE b == jrnl.fresh /\ (~s \/ P.goal = "hot")
<1>1. b \in BOOLEAN /\ << >> \in Seq(SlotsAt(n))
  OBVIOUS
<1>2. jrnl' = [j EXCEPT !.fresh = b] /\ (djrnl' = jrnl' \/ djrnl' = djrnl)
  BY DEF SyncJournalFile
<1> HIDE DEF b
<1>3. [j EXCEPT !.fresh = b] \in JournalAt(n)
  BY <1>1, JournalIs
<1> QED
  BY <1>2, <1>3 DEF FilesAt

-----------------------------------------------------------------------------
(* Writing: a pager and the slots of its journal.                          *)
PairAt(n) == [P : PagerAt(n), f : Seq(SlotsAt(n))]

(* The control is as it was, and the cache and the journal have grown.     *)
Wider(P, Q) ==
  /\ Kin(P, Q) /\ Cached(P) \subseteq Cached(Q) /\ Q.journalOff >= P.journalOff
  /\ 1 \in Cached(P) => Q.dbFileVers = P.dbFileVers

LEMMA WiderTrans ==
  ASSUME NEW n, NEW P \in PagerAt(n), NEW Q \in PagerAt(n), NEW R \in PagerAt(n), Wider(P, Q), Wider(Q, R)
  PROVE  Wider(P, R)
<1>1. P.journalOff \in Nat /\ Q.journalOff \in Nat /\ R.journalOff \in Nat
  BY DEF PagerAt
<1>2. R.journalOff >= P.journalOff
  BY <1>1 DEF Wider
<1> QED
  BY <1>2 DEF Wider, Kin

LEMMA HeaderIs ==
  ASSUME NEW n \in Nat, NEW P \in PagerAt(n)
  PROVE  Header(noSync, InitialCount, P.dbOrigSize, P.tx) \in SlotsAt(n)
<1>1. noSync \in BOOLEAN /\ InitialCount \in Nat \cup {ALL} /\ P.dbOrigSize \in Nat /\ P.tx \in Nat
  BY DEF noSync, InitialCount, PagerAt
<1> QED
  BY <1>1 DEF Header, HeaderSlots, SlotsAt

(* Only the place in the journal is another.                               *)
Turned(P, Q, h, o) ==
  /\ Q.journalHdr = h /\ Q.journalOff = o
  /\ Q.eState = P.eState /\ Q.at = P.at /\ Q.goal = P.goal /\ Q.tx = P.tx /\ Q.k = P.k
  /\ Q.cache = P.cache /\ Q.dbFileVers = P.dbFileVers

LEMMA JournalGoes ==
  ASSUME NEW n, NEW P \in PagerAt(n), NEW h \in Nat, NEW o \in Nat
  PROVE  LET Q == [P EXCEPT !.journalHdr = h, !.journalOff = o] IN
         Q \in PagerAt(n) /\ Turned(P, Q, h, o)
BY DEF PagerAt, Turned

LEMMA HeaderWritten ==
  ASSUME NEW n \in Nat, NEW s \in PairAt(n)
  PROVE  LET t == writeJournalHdr(s) IN
         /\ t \in PairAt(n) /\ t.P.journalHdr = s.P.journalOff
         /\ t.P.journalOff = s.P.journalOff + 1
         /\ t.P.eState = s.P.eState /\ t.P.at = s.P.at /\ t.P.goal = s.P.goal
         /\ t.P.tx = s.P.tx /\ t.P.k = s.P.k /\ t.P.cache = s.P.cache
         /\ t.P.dbFileVers = s.P.dbFileVers
<1> DEFINE P == s.P
           Q == [P EXCEPT !.journalHdr = P.journalOff, !.journalOff = @ + 1]
           h == Header(noSync, InitialCount, P.dbOrigSize, P.tx)
           g == Put(s.f, P.journalOff + 1, h)
<1>1. P \in PagerAt(n) /\ s.f \in Seq(SlotsAt(n))
  BY DEF PairAt
<1> HIDE DEF P
<1>2. h \in SlotsAt(n)
  BY <1>1, HeaderIs
<1>3. P.journalOff + 1 \in Nat \ {0}
  BY <1>1 DEF PagerAt
<1>4. g \in Seq(SlotsAt(n))
  BY <1>1, <1>2, <1>3, PutIs
<1>a. P.journalOff \in Nat /\ P.journalOff + 1 \in Nat
  BY <1>1 DEF PagerAt
<1>b. Q = [P EXCEPT !.journalHdr = P.journalOff, !.journalOff = P.journalOff + 1]
  OBVIOUS
<1>5. Q \in PagerAt(n) /\ Turned(P, Q, P.journalOff, P.journalOff + 1)
  <2> HIDE DEF Q
  <2> QED
    BY <1>1, <1>a, <1>b, JournalGoes
<1>6. writeJournalHdr(s) = [P |-> Q, f |-> g]
  BY DEF writeJournalHdr, P
<1> HIDE DEF Q, h, g
<1>7. [P |-> Q, f |-> g] \in PairAt(n)
  BY <1>4, <1>5 DEF PairAt
<1> QED
  BY <1>5, <1>6, <1>7 DEF P, Turned

(* A change of a page that is in the cache.                                *)
LEMMA PageIs ==
  ASSUME NEW n, NEW P \in PagerAt(n), NEW p \in Cached(P)
  PROVE  /\ p \in 1 .. MaxPage /\ P.cache[p] \in EntryAt(n)
         /\ P.cache[p].val \in ContentAt(n) /\ P.cache[p].val.sz \in 0 .. MaxPage
         /\ P.cache[p].val.ver \in -1 .. n /\ P.cache[p].needSync \in BOOLEAN /\ P.cache[p].dirty \in BOOLEAN
<1>1. P.cache \in CacheAt(n)
  BY DEF PagerAt
<1>2. p \in 1 .. MaxPage /\ P.cache[p] \in EntryAt(n)
  BY <1>1, CacheIs DEF Cached
<1> QED
  BY <1>2 DEF EntryAt, ContentAt

Enter(P, p, e) == [P EXCEPT !.cache[p] = e]

LEMMA EntryIs ==
  ASSUME NEW n, NEW P \in PagerAt(n), NEW p \in Cached(P), NEW e \in EntryAt(n)
  PROVE  LET Q == Enter(P, p, e) IN
         /\ Q \in PagerAt(n) /\ Kin(P, Q) /\ Cached(Q) = Cached(P)
         /\ Q.journalOff = P.journalOff /\ Q.dbFileVers = P.dbFileVers /\ Q.dbSize = P.dbSize
         /\ Q.dbOrigSize = P.dbOrigSize /\ Q.pInJournal = P.pInJournal /\ Wider(P, Q)
<1> DEFINE g == [P.cache EXCEPT ![p] = e]
<1>1. P.cache \in CacheAt(n) /\ P.journalOff \in Nat
  BY DEF PagerAt
<1>2. Cached(P) \subseteq 1 .. MaxPage /\ P.cache \in [Cached(P) -> EntryAt(n)]
  BY <1>1, CacheIs DEF Cached
<1>3. g \in [Cached(P) -> EntryAt(n)]
  BY <1>2
<1>4. g \in CacheAt(n) /\ DOMAIN g = Cached(P)
  BY <1>2, <1>3, MakeCache
<1>5. Enter(P, p, e) = [P EXCEPT !.cache = g]
  BY DEF PagerAt, Enter
<1> HIDE DEF g
<1>6. LET Q == [P EXCEPT !.cache = g] IN
      /\ Q \in PagerAt(n) /\ Q.cache = g /\ Kin(P, Q) /\ Q.journalOff = P.journalOff
      /\ Q.dbFileVers = P.dbFileVers /\ Q.dbSize = P.dbSize /\ Q.dbOrigSize = P.dbOrigSize
      /\ Q.pInJournal = P.pInJournal
  BY <1>4, NewCache
<1>7. P.journalOff >= P.journalOff
  BY <1>1
<1> QED
  BY <1>4, <1>5, <1>6, <1>7 DEF Cached, Wider

LEMMA RecordIs ==
  ASSUME NEW n \in Nat, NEW P \in PagerAt(n), NEW p \in Cached(P)
  PROVE  Record(p, P.cache[p].val, P.tx) \in SlotsAt(n)
<1>1. P.cache[p].val \in ContentAt(n) /\ P.tx \in Nat /\ p \in 1 .. MaxPage
  BY PageIs DEF PagerAt
<1> QED
  BY <1>1 DEF Record, RecordSlots, SlotsAt

LEMMA AddIs ==
  ASSUME NEW n \in Nat, NEW s \in PairAt(n), NEW p \in Cached(s.P)
  PROVE  LET t == AddToJournal(s, p) IN
         /\ t \in PairAt(n) /\ Wider(s.P, t.P) /\ Cached(t.P) = Cached(s.P)
<1> DEFINE P == s.P
           e == [P.cache[p] EXCEPT !.needSync = TRUE]
           R == Enter(P, p, e)
           r == Record(p, P.cache[p].val, P.tx)
           g == Put(s.f, P.journalOff + 1, r)
           Q == [R EXCEPT !.journalOff = P.journalOff + 1, !.nRec = P.nRec + 1,
                          !.pInJournal = P.pInJournal \cup {p}]
<1>1. P \in PagerAt(n) /\ s.f \in Seq(SlotsAt(n)) /\ p \in Cached(P)
  BY DEF PairAt
<1>2. AddToJournal(s, p) = [P |-> Q, f |-> g]
  <2>1. P.cache \in CacheAt(n)
    BY <1>1 DEF PagerAt
  <2>2. [s.P EXCEPT !.cache[p].needSync = TRUE] = R
    BY <1>1 DEF PagerAt, Enter
  <2>3. [s.P EXCEPT !.cache[p].needSync = TRUE, !.journalOff = @ + 1, !.nRec = @ + 1,
                    !.pInJournal = @ \cup {p}] = Q
    BY <1>1, <2>2 DEF PagerAt
  <2> QED
    BY <2>3 DEF AddToJournal
<1> HIDE DEF P
<1>3. e \in EntryAt(n) /\ r \in SlotsAt(n) /\ p \in 1 .. MaxPage
  <2>1. P.cache[p] \in EntryAt(n) /\ p \in 1 .. MaxPage
    BY <1>1, PageIs
  <2> QED
    BY <1>1, <2>1, RecordIs DEF EntryAt
<1>4. P.journalOff \in Nat /\ P.nRec \in Nat /\ P.pInJournal \in SUBSET (1 .. MaxPage)
  BY <1>1 DEF PagerAt
<1>a. P.journalOff + 1 \in Nat \ {0}
  BY <1>4
<1>5. g \in Seq(SlotsAt(n))
  <2> HIDE DEF r
  <2> QED
    BY <1>1, <1>3, <1>a, PutIs
<1> HIDE DEF e, r, g
<1>6. R \in PagerAt(n) /\ Kin(P, R) /\ Cached(R) = Cached(P) /\ R.dbFileVers = P.dbFileVers
  BY <1>1, <1>3, EntryIs
<1> HIDE DEF R
<1>7. /\ P.journalOff + 1 \in Nat /\ P.nRec + 1 \in Nat /\ P.pInJournal \cup {p} \in SUBSET (1 .. MaxPage)
      /\ P.journalOff + 1 >= P.journalOff
  BY <1>3, <1>4
<1>8. /\ Q \in PagerAt(n) /\ Kin(R, Q) /\ Cached(Q) = Cached(R)
      /\ Q.dbFileVers = R.dbFileVers /\ Q.journalOff = P.journalOff + 1
  BY <1>6, <1>7 DEF PagerAt, Kin, Cached
<1>9. Wider(P, Q)
  BY <1>6, <1>7, <1>8 DEF Wider, Kin
<1> HIDE DEF Q
<1>10. [P |-> Q, f |-> g] \in PairAt(n)
  BY <1>5, <1>8 DEF PairAt
<1> QED
  BY <1>2, <1>6, <1>8, <1>9, <1>10 DEF P

LEMMA PairIs ==
  ASSUME NEW n, NEW s \in PairAt(n), NEW Q \in PagerAt(n)
  PROVE  LET t == [s EXCEPT !.P = Q] IN
         t \in PairAt(n) /\ t.P = Q /\ t.f = s.f /\ s.P \in PagerAt(n) /\ s.f \in Seq(SlotsAt(n))
BY DEF PairAt

LEMMA JournaledIs ==
  ASSUME NEW n \in Nat, NEW s \in PairAt(n), NEW p \in Cached(s.P)
  PROVE  LET t == Journaled(s, p) IN
         /\ t \in PairAt(n) /\ Wider(s.P, t.P) /\ Cached(t.P) = Cached(s.P)
<1> DEFINE P == s.P
           b == P.cache[p].needSync \/ P.eState # "DBMOD"
           e == [P.cache[p] EXCEPT !.needSync = b]
           Q == Appended(P, p)
           w == [s EXCEPT !.P = Q]
<1>1. P \in PagerAt(n) /\ P.journalOff \in Nat
  BY DEF PairAt, PagerAt
<1>2. Wider(P, P)
  BY <1>1 DEF Wider, Kin
<1>3. LET t == AddToJournal(s, p) IN
      t \in PairAt(n) /\ Wider(s.P, t.P) /\ Cached(t.P) = Cached(s.P)
  BY AddIs
<1>4. Q = [P EXCEPT !.cache[p].needSync = b]
  BY DEF Appended
<1>5. Q = Enter(P, p, e)
  <2> HIDE DEF b, Q
  <2> QED
    BY <1>1, <1>4 DEF PagerAt, Enter
<1>6. e \in EntryAt(n)
  <2>1. P.cache[p] \in EntryAt(n) /\ P.cache[p].needSync \in BOOLEAN
    BY <1>1, PageIs
  <2>2. b \in BOOLEAN
    BY <2>1
  <2> HIDE DEF b
  <2> QED
    BY <2>1, <2>2 DEF EntryAt
<1> HIDE DEF b, e, Q
<1>7. Q \in PagerAt(n) /\ Cached(Q) = Cached(P) /\ Wider(P, Q)
  BY <1>1, <1>5, <1>6, EntryIs
<1>8. w \in PairAt(n) /\ w.P = Q
  BY <1>7, PairIs
<1>9. Journaled(s, p) = IF p \in s.P.pInJournal THEN s
                        ELSE IF p <= s.P.dbOrigSize THEN AddToJournal(s, p) ELSE w
  BY DEF Journaled, Q
<1> HIDE DEF w
<1> QED
  BY <1>2, <1>3, <1>7, <1>8, <1>9

LEMMA ModifiedIs ==
  ASSUME NEW n \in Nat, NEW P \in PagerAt(n), NEW p \in Cached(P), NEW v \in ContentAt(n)
  PROVE  LET Q == Modified(P, p, v) IN
         Q \in PagerAt(n) /\ Wider(P, Q) /\ Cached(Q) = Cached(P)
<1> DEFINE e == [P.cache[p] EXCEPT !.dirty = TRUE, !.val = v]
           R == Enter(P, p, e)
           m == IF P.dbSize < p THEN p ELSE P.dbSize
           Q == [R EXCEPT !.dbSize = m]
<1>1. P.cache[p] \in EntryAt(n) /\ p \in 1 .. MaxPage
  BY PageIs
<1>2. e \in EntryAt(n)
  BY <1>1 DEF EntryAt
<1>3. m \in Nat
  BY <1>1, PagerAssumption DEF PagerAt
<1>4. [P EXCEPT !.cache[p].dirty = TRUE, !.cache[p].val = v] = R
  BY DEF PagerAt, Cached, Enter
<1>5. Modified(P, p, v) = Q
  BY <1>4 DEF Modified
<1> HIDE DEF e, m
<1>6. R \in PagerAt(n) /\ Cached(R) = Cached(P) /\ Wider(P, R)
  BY <1>2, EntryIs
<1> HIDE DEF R
<1>7. Q \in PagerAt(n) /\ Cached(Q) = Cached(P) /\ Wider(P, Q)
  BY <1>3, <1>6 DEF PagerAt, Wider, Kin, Cached
<1> HIDE DEF Q
<1> QED
  BY <1>5, <1>7

LEMMA PageWritten ==
  ASSUME NEW n \in Nat, NEW s \in PairAt(n), NEW p \in 1 .. MaxPage, NEW v \in ContentAt(n),
         db \in Seq(ContentAt(n))
  PROVE  LET t == pager_write(s, p, v) IN
         /\ t \in PairAt(n) /\ Wider(s.P, t.P) /\ Cached(t.P) = Cached(s.P) \cup {p}
<1> DEFINE g == [s EXCEPT !.P = getPage(s.P, p)]
           t == Journaled(g, p)
           w == [t EXCEPT !.P = Modified(t.P, p, v)]
<1>1. s.P \in PagerAt(n) /\ s.P.journalOff \in Nat
  BY DEF PairAt, PagerAt
<1>2. LET Q == getPage(s.P, p) IN
      /\ Q \in PagerAt(n) /\ Kin(s.P, Q) /\ Cached(Q) = Cached(s.P) \cup {p}
      /\ Q.journalOff = s.P.journalOff
      /\ p # 1 \/ 1 \in Cached(s.P) => Q.dbFileVers = s.P.dbFileVers
  BY <1>1, GetPageIs
<1>3. g \in PairAt(n) /\ g.P = getPage(s.P, p)
  BY <1>2, PairIs
<1>4. pager_write(s, p, v) = w
  BY DEF pager_write
<1> HIDE DEF g
<1>5. g.P \in PagerAt(n) /\ Wider(s.P, g.P) /\ Cached(g.P) = Cached(s.P) \cup {p}
  BY <1>1, <1>2, <1>3 DEF Wider
<1>6. t \in PairAt(n) /\ Wider(g.P, t.P) /\ Cached(t.P) = Cached(g.P)
  BY <1>3, <1>5, JournaledIs
<1> HIDE DEF t
<1>7. t.P \in PagerAt(n) /\ p \in Cached(t.P)
  BY <1>5, <1>6, PairIs
<1>8. LET Q == Modified(t.P, p, v) IN
      Q \in PagerAt(n) /\ Wider(t.P, Q) /\ Cached(Q) = Cached(t.P)
  BY <1>7, ModifiedIs
<1>9. w \in PairAt(n) /\ w.P = Modified(t.P, p, v)
  BY <1>6, <1>8, PairIs
<1> HIDE DEF w
<1>10. Wider(s.P, w.P)
  <2>1. Wider(g.P, w.P)
    BY <1>5, <1>6, <1>7, <1>8, <1>9, WiderTrans
  <2> QED
    BY <1>1, <1>5, <1>8, <1>9, <2>1, WiderTrans
<1> QED
  BY <1>4, <1>5, <1>6, <1>8, <1>9, <1>10

LEMMA UnwantedIs ==
  ASSUME NEW n \in Nat, NEW P \in PagerAt(n), NEW p \in 1 .. MaxPage
  PROVE  LET Q == Unwanted(P, p) IN Q \in PagerAt(n) /\ Wider(P, Q)
<1> DEFINE d == p \in Cached(P) /\ P.cache[p].dirty
           b == p \in Cached(P) /\ P.cache[p].needSync
           e == [val |-> Zero, needSync |-> b, dirty |-> d]
           R == Store(P, p, e)
           Q == [R EXCEPT !.pInJournal = @ \cup ({p} \cap 1 .. P.dbOrigSize)]
<1>1. d \in BOOLEAN /\ b \in BOOLEAN
  BY PageIs
<1> HIDE DEF d, b
<1>2. e \in EntryAt(n)
  BY <1>1, ZeroIs DEF EntryAt
<1> HIDE DEF e
<1>3. /\ R \in PagerAt(n) /\ Kin(P, R) /\ Cached(R) = Cached(P) \cup {p}
      /\ R.journalOff = P.journalOff /\ R.dbFileVers = P.dbFileVers
  BY <1>2, StoreIs
<1>4. Unwanted(P, p) = Q
  BY DEF Unwanted, e, d, b
<1>5. P.journalOff \in Nat
  BY DEF PagerAt
<1> HIDE DEF R
<1>6. Q \in PagerAt(n) /\ Kin(R, Q) /\ Cached(Q) = Cached(R) /\ Q.journalOff = R.journalOff
      /\ Q.dbFileVers = R.dbFileVers
  <2>1. R.pInJournal \cup ({p} \cap 1 .. P.dbOrigSize) \in SUBSET (1 .. MaxPage)
    BY <1>3 DEF PagerAt
  <2> QED
    BY <1>3, <2>1 DEF PagerAt, Kin, Cached
<1> HIDE DEF Q
<1> QED
  BY <1>3, <1>4, <1>5, <1>6 DEF Wider, Kin

LEMMA NewPageIs ==
  ASSUME NEW n \in Nat, NEW s \in PairAt(n), NEW p \in 1 .. MaxPage
  PROVE  LET t == NewPage(s, p) IN t \in PairAt(n) /\ Wider(s.P, t.P)
<1>1. s.P \in PagerAt(n) /\ s.P.journalOff \in Nat
  BY DEF PairAt, PagerAt
<1>2. Wider(s.P, s.P)
  BY <1>1 DEF Wider, Kin
<1>3. LET Q == Unwanted(s.P, p) IN Q \in PagerAt(n) /\ Wider(s.P, Q)
  BY <1>1, UnwantedIs
<1> DEFINE Q == Unwanted(s.P, p)
           t == [s EXCEPT !.P = Q]
<1>4. NewPage(s, p) = IF s.P.bDoTruncate THEN s ELSE t
  BY DEF NewPage, NoContent
<1> HIDE DEF Q
<1>5. t \in PairAt(n) /\ t.P = Q
  BY <1>3, PairIs DEF Q
<1> HIDE DEF t
<1> QED
  BY <1>2, <1>3, <1>4, <1>5 DEF Q

-----------------------------------------------------------------------------
(* A pager that has its journal open and is not committing.                *)
Ready(P, l) ==
  /\ P.eState \in {"CACHEMOD", "DBMOD"} /\ (P.eState = "DBMOD" => l = EXCLUSIVE_LOCK)
  /\ P.at = "idle" /\ P.goal = "none" /\ 1 \in Cached(P)
  /\ P.dbFileVers.ver < P.tx /\ P.journalHdr <= P.journalOff

LEMMA ReadyIs ==
  ASSUME NEW P, NEW l \in 0 .. 4, Ready(P, l), l >= RESERVED_LOCK
  PROVE  Control(P, l, TRUE)
BY DEF Ready, Control, Acts, Counts, Spills, Writing

LEMMA ReadyWider ==
  ASSUME NEW n, NEW P \in PagerAt(n), NEW Q \in PagerAt(n), NEW l, Ready(P, l), Wider(P, Q)
  PROVE  Ready(Q, l)
<1>1. P.journalHdr \in Nat /\ Q.journalHdr \in Nat /\ P.journalOff \in Nat /\ Q.journalOff \in Nat
  BY DEF PagerAt
<1> QED
  BY <1>1 DEF Ready, Wider, Kin

LEMMA OpenedIs ==
  ASSUME IInv, NEW c \in Conns, pager[c].eState \in Writing, Idle(c)
  PROVE  LET s == Opened(c) IN
         /\ s \in PairAt(ntx) /\ Ready(s.P, lock[c]) /\ Cached(s.P) = Cached(pager[c])
         /\ lock[c] >= RESERVED_LOCK /\ c \in reserved /\ s.P.tx = pager[c].tx
<1> DEFINE P == pager[c]
           r == [P |-> P, f |-> jrnl.slots]
           Q == [P EXCEPT !.eState = "CACHEMOD", !.pInJournal = {}, !.nRec = 0, !.journalOff = 0]
           t == [r EXCEPT !.P = Q]
<1>1. /\ P \in PagerAt(ntx) /\ Control(P, lock[c], c \in reserved) /\ ntx \in Nat
      /\ jrnl.slots \in Seq(SlotsAt(ntx))
  BY PagerIs DEF FilesAt, JournalAt
<1>2. r \in PairAt(ntx) /\ r.P = P
  BY <1>1 DEF PairAt
<1>3. P.eState \in Writing /\ P.at = "idle"
  BY DEF Idle
<1> HIDE DEF P
<1>4. /\ Acts(P, lock[c], c \in reserved) /\ 1 \in Cached(P) /\ P.goal = "none"
      /\ lock[c] >= RESERVED_LOCK /\ c \in reserved /\ P.dbFileVers.ver < P.tx
      /\ (P.eState = "DBMOD" => lock[c] = EXCLUSIVE_LOCK) /\ P.journalHdr <= P.journalOff
  BY <1>1, <1>3 DEF Control, Acts, Counts, Writing
<1>5. CASE P.eState # "LOCKED"
  <2>1. Opened(c) = r
    BY <1>5 DEF Opened, P
  <2>2. Ready(P, lock[c])
    BY <1>3, <1>4, <1>5 DEF Ready, Writing
  <2> HIDE DEF r
  <2> QED
    BY <1>2, <1>4, <2>1, <2>2 DEF P
<1>6. CASE P.eState = "LOCKED"
  <2>1. Opened(c) = writeJournalHdr(t)
    BY <1>6 DEF Opened, OpenJournal, P
  <2>2. /\ Q \in PagerAt(ntx) /\ Q.eState = "CACHEMOD" /\ Q.at = "idle" /\ Q.goal = "none"
        /\ Q.cache = P.cache /\ Q.dbFileVers = P.dbFileVers /\ Q.tx = P.tx /\ Q.journalOff = 0
    BY <1>1, <1>3, <1>4 DEF PagerAt, States
  <2> HIDE DEF Q, r
  <2>3. t \in PairAt(ntx) /\ t.P = Q
    BY <1>2, <2>2, PairIs
  <2> HIDE DEF t
  <2> DEFINE w == writeJournalHdr(t)
  <2>4. /\ w \in PairAt(ntx) /\ w.P.journalHdr = 0 /\ w.P.journalOff = 0 + 1
        /\ w.P.eState = "CACHEMOD" /\ w.P.at = "idle" /\ w.P.goal = "none"
        /\ w.P.tx = P.tx /\ w.P.cache = P.cache /\ w.P.dbFileVers = P.dbFileVers
    BY <1>1, <2>2, <2>3, HeaderWritten
  <2> HIDE DEF w
  <2>5. Ready(w.P, lock[c]) /\ Cached(w.P) = Cached(P)
    BY <1>4, <2>4 DEF Ready, Cached
  <2> QED
    BY <1>4, <2>1, <2>4, <2>5 DEF P, w
<1> QED
  BY <1>5, <1>6

-----------------------------------------------------------------------------
(* Opening a read transaction.                                             *)
LEMMA Still ==
  ASSUME IInv, UNCHANGED <<files, counters>>
  PROVE  FilesAt(ntx)' /\ ntx' = ntx /\ setting' = setting
BY DEF IInv, files, counters, FilesAt

LEMMA GoesOn ==
  ASSUME IInv, NEW c \in Conns, NEW where \in Places \ {"exclusive"}, Goto(c, where), LockStep(c),
         Control([pager[c] EXCEPT !.at = where], lock'[c], c \in reserved'),
         ntx' = ntx, setting' = setting, FilesAt(ntx)'
  PROVE  IInv'
<1> DEFINE P == [pager[c] EXCEPT !.at = where]
<1>1. pager[c] \in PagerAt(ntx)
  BY PagerIs
<1>2. P \in PagerAt(ntx) /\ P.at = where
  BY <1>1, Goes
<1>3. Set(c, P) /\ Control(P, lock'[c], c \in reserved')
  BY DEF Goto
<1>4. P.at # "exclusive"
  BY <1>2
<1> HIDE DEF P
<1> QED
  BY <1>2, <1>3, <1>4, Moves

LEMMA OpenControl ==
  ASSUME NEW n, NEW P \in PagerAt(n), NEW l, NEW r, P.eState = "OPEN", Hasnt(P, l)
  PROVE  Control(P, l, r)
<1>1. P.journalHdr <= P.journalOff /\ P.goal # "spill"
  BY DEF Hasnt, PagerAt
<1> QED
  BY <1>1 DEF Control, Spills, Writing

Openings == {"access", "reserved", "version", "empty", "first", "clear", "hot", "open"}

LEMMA OpenAt ==
  ASSUME NEW n, NEW P \in PagerAt(n), NEW l, NEW r, Control(P, l, r), P.at \in Openings
  PROVE  P.eState = "OPEN" /\ Hasnt(P, l)
<1>1. P.eState \in States
  BY DEF PagerAt
<1>2. P.eState # "READER" /\ P.eState \notin Writing /\ P.eState # "FINISHED" /\ P.eState # "ERROR"
  BY DEF Control, Reads, Acts, Writing, Openings
<1>3. P.eState = "OPEN"
  BY <1>1, <1>2 DEF States, Writing
<1> QED
  BY <1>3 DEF Control

(* To another place of sqlite3PagerSharedLock.                             *)
LEMMA OpenGoes ==
  ASSUME IInv, NEW c \in Conns, NEW where \in Openings, Goto(c, where), LockStep(c),
         pager[c].eState = "OPEN", pager[c].goal = "none", pager[c].journalHdr = 0,
         Hasnt([pager[c] EXCEPT !.at = where], lock'[c]),
         ntx' = ntx, setting' = setting, FilesAt(ntx)'
  PROVE  IInv'
<1> DEFINE P == [pager[c] EXCEPT !.at = where]
<1>1. where \in Places \ {"exclusive"}
  BY DEF Openings, Places
<1>2. P \in PagerAt(ntx) /\ P.eState = "OPEN"
  BY <1>1, PagerIs, Goes
<1>3. Control(P, lock'[c], c \in reserved')
  <2> HIDE DEF P
  <2>1. Hasnt(P, lock'[c])
    BY DEF P
  <2> QED
    BY <1>2, <2>1, OpenControl
<1> QED
  BY <1>1, <1>3, GoesOn

LEMMA OpenAtIs ==
  ASSUME IInv, NEW c \in Conns, pager[c].at \in Openings
  PROVE  pager[c].eState = "OPEN" /\ Hasnt(pager[c], lock[c]) /\ pager[c].goal = "none" /\ pager[c].journalHdr = 0
<1>1. pager[c].eState = "OPEN" /\ Hasnt(pager[c], lock[c])
  BY PagerIs, OpenAt
<1> QED
  BY <1>1 DEF Hasnt, Openings

LEMMA HasntAt ==
  ASSUME NEW n, NEW P \in PagerAt(n), P.goal = "none", P.journalHdr = 0, NEW l, NEW where \in Openings,
         \/ where \in {"access", "reserved", "version", "empty", "first"} /\ l = SHARED_LOCK
         \/ where = "clear" /\ l = RESERVED_LOCK
         \/ where = "hot" /\ l \in {SHARED_LOCK, PENDING_LOCK}
         \/ where = "open" /\ l = EXCLUSIVE_LOCK
  PROVE  Hasnt([P EXCEPT !.at = where], l)
<1> DEFINE Q == [P EXCEPT !.at = where]
<1>1. where \in Places
  BY DEF Openings, Places
<1>2. Q.at = where /\ Q.goal = "none" /\ Q.journalHdr = 0
  BY <1>1, Goes
<1> HIDE DEF Q
<1>3. Hasnt(Q, l)
  BY <1>2 DEF Hasnt, Openings
<1> QED
  BY <1>3 DEF Q

LEMMA SharedLockStep == ASSUME IInv, NEW c \in Conns, SharedLock(c) PROVE IInv'
<1>1. pager[c].eState = "OPEN" /\ pager[c].at = "idle" /\ Goto(c, "access") /\ pager[c] \in PagerAt(ntx)
  BY PagerIs DEF SharedLock, Idle
<1>2. pager[c].goal = "none" /\ pager[c].journalHdr = 0
  BY <1>1, PagerIs DEF Control, Hasnt
<1>3. LockStep(c) /\ lock'[c] = SHARED_LOCK
  BY Shares DEF SharedLock
<1>4. FilesAt(ntx)' /\ ntx' = ntx /\ setting' = setting
  BY Still DEF SharedLock
<1>5. "access" \in Openings
  BY DEF Openings
<1>6. Hasnt([pager[c] EXCEPT !.at = "access"], lock'[c])
  BY <1>1, <1>2, <1>3, <1>5, HasntAt
<1> QED
  BY <1>1, <1>2, <1>3, <1>4, <1>5, <1>6, OpenGoes

(* hasHotJournal asks, under a shared lock.                                *)
LEMMA HotAsks ==
  ASSUME IInv, NEW c \in Conns, pager[c].at \in {"access", "reserved", "version", "empty", "first"},
         NEW where \in {"reserved", "version", "empty", "first", "hot"}, Goto(c, where),
         UNCHANGED <<levels, files, counters>>
  PROVE  IInv'
<1>1. pager[c].at \in Openings /\ where \in Openings
  BY DEF Openings
<1>2. /\ pager[c].eState = "OPEN" /\ Hasnt(pager[c], lock[c]) /\ pager[c].goal = "none"
      /\ pager[c].journalHdr = 0 /\ pager[c] \in PagerAt(ntx)
  BY <1>1, OpenAtIs, PagerIs
<1>3. lock[c] = SHARED_LOCK
  BY <1>2 DEF Hasnt
<1>4. LockStep(c) /\ lock'[c] = SHARED_LOCK
  BY <1>3, Unlocked
<1>5. FilesAt(ntx)' /\ ntx' = ntx /\ setting' = setting
  BY Still
<1>6. Hasnt([pager[c] EXCEPT !.at = where], lock'[c])
  BY <1>1, <1>2, <1>4, HasntAt
<1> QED
  BY <1>1, <1>2, <1>4, <1>5, <1>6, OpenGoes

LEMMA HotAccessStep == ASSUME IInv, NEW c \in Conns, HotAccess(c) PROVE IInv'
<1>1. PICK where \in {"reserved", "version"} : Goto(c, where)
  BY DEF HotAccess
<1> QED
  BY <1>1, HotAsks DEF HotAccess

LEMMA HotReservedStep == ASSUME IInv, NEW c \in Conns, HotReserved(c) PROVE IInv'
<1>1. PICK where \in {"version", "empty", "first"} : Goto(c, where)
  BY DEF HotReserved
<1> QED
  BY <1>1, HotAsks DEF HotReserved

LEMMA HotFirstStep == ASSUME IInv, NEW c \in Conns, HotFirst(c) PROVE IInv'
<1>1. PICK where \in {"version", "hot"} : Goto(c, where)
  BY DEF HotFirst
<1> QED
  BY <1>1, HotAsks DEF HotFirst

LEMMA HotEmptyStep == ASSUME IInv, NEW c \in Conns, HotEmpty(c) PROVE IInv'
<1>1. pager[c].at = "empty" /\ "empty" \in Openings /\ "clear" \in Openings
  BY DEF HotEmpty, Openings
<1>2. CASE Locks!Reserve(c) /\ Goto(c, "clear")
  <2>1. /\ pager[c].eState = "OPEN" /\ pager[c].goal = "none" /\ pager[c].journalHdr = 0
        /\ pager[c] \in PagerAt(ntx)
    BY <1>1, OpenAtIs, PagerIs
  <2>2. LockStep(c) /\ lock'[c] = RESERVED_LOCK
    BY <1>2, Reserves
  <2>3. FilesAt(ntx)' /\ ntx' = ntx /\ setting' = setting
    BY Still DEF HotEmpty
  <2>4. Hasnt([pager[c] EXCEPT !.at = "clear"], lock'[c])
    BY <1>1, <2>1, <2>2, HasntAt
  <2> QED
    BY <1>1, <1>2, <2>1, <2>2, <2>3, <2>4, OpenGoes
<1>3. CASE Goto(c, "version") /\ UNCHANGED levels
  BY <1>1, <1>3, HotAsks DEF HotEmpty
<1> QED
  BY <1>2, <1>3 DEF HotEmpty

LEMMA HotClearStep == ASSUME IInv, NEW c \in Conns, HotClear(c) PROVE IInv'
<1>1. pager[c].at = "clear" /\ "clear" \in Openings /\ "version" \in Openings /\ Goto(c, "version")
  BY DEF HotClear, Openings
<1>2. /\ pager[c].eState = "OPEN" /\ pager[c].goal = "none" /\ pager[c].journalHdr = 0
      /\ pager[c] \in PagerAt(ntx) /\ ntx \in Nat /\ FilesAt(ntx)
  BY <1>1, OpenAtIs, PagerIs
<1>3. LockStep(c) /\ lock'[c] = SHARED_LOCK
  BY Lowers DEF HotClear
<1>4. NoJournal \in JournalAt(ntx)
  BY DEF NoJournal, JournalAt
<1>5. FilesAt(ntx)' /\ ntx' = ntx /\ setting' = setting
  BY <1>2, <1>4 DEF HotClear, counters, FilesAt
<1>6. Hasnt([pager[c] EXCEPT !.at = "version"], lock'[c])
  BY <1>1, <1>2, <1>3, HasntAt
<1> QED
  BY <1>1, <1>2, <1>3, <1>5, <1>6, OpenGoes

(* pager_unlock.                                                           *)
UnlockedPager(P) ==
  [ P EXCEPT !.eState = "OPEN", !.at = "idle", !.goal = "none", !.pInJournal = {},
             !.journalOff = 0, !.journalHdr = 0, !.changeCountDone = FALSE,
             !.bDoTruncate = FALSE, !.k = 0 ]

LEMMA UnlockedIs ==
  ASSUME NEW n, NEW P \in PagerAt(n)
  PROVE  LET Q == UnlockedPager(P) IN
         /\ Q \in PagerAt(n) /\ Q.eState = "OPEN" /\ Q.at = "idle" /\ Q.goal = "none"
         /\ Q.journalHdr = 0
BY DEF PagerAt, UnlockedPager, States, Places, Goals

LEMMA UnlockStep ==
  ASSUME IInv, NEW c \in Conns, NEW P \in PagerAt(ntx), pager_unlock(c, P),
         FilesAt(ntx)', ntx' = ntx, setting' = setting
  PROVE  IInv'
<1> DEFINE R == IF P.eState = "ERROR" THEN pager_reset(P) ELSE P
           Q == UnlockedPager(R)
<1>1. R \in PagerAt(ntx)
  BY ResetIs
<1>2. Set(c, Q) /\ Locks!Vanish({c})
  BY DEF pager_unlock, UnlockedPager
<1> HIDE DEF R
<1>3. /\ Q \in PagerAt(ntx) /\ Q.eState = "OPEN" /\ Q.at = "idle" /\ Q.goal = "none"
      /\ Q.journalHdr = 0
  BY <1>1, UnlockedIs
<1> HIDE DEF Q
<1>4. LockStep(c) /\ lock'[c] = NO_LOCK
  BY <1>2, Vanishes
<1>5. Hasnt(Q, lock'[c])
  BY <1>3, <1>4 DEF Hasnt
<1>6. Control(Q, lock'[c], c \in reserved') /\ Q.at # "exclusive"
  BY <1>3, <1>5, OpenControl
<1> QED
  BY <1>2, <1>3, <1>4, <1>6, Moves

LEMMA EndReadStep == ASSUME IInv, NEW c \in Conns, EndRead(c) PROVE IInv'
BY PagerIs, Still, UnlockStep DEF EndRead

LEMMA LeaveErrorStep == ASSUME IInv, NEW c \in Conns, LeaveError(c) PROVE IInv'
BY PagerIs, Still, UnlockStep DEF LeaveError

LEMMA HotExclusiveStep == ASSUME IInv, NEW c \in Conns, HotExclusive(c) PROVE IInv'
<1>1. pager[c].at = "hot" /\ "hot" \in Openings /\ "open" \in Openings
  BY DEF HotExclusive, Openings
<1>2. /\ pager[c].eState = "OPEN" /\ Hasnt(pager[c], lock[c]) /\ pager[c].goal = "none"
      /\ pager[c].journalHdr = 0 /\ pager[c] \in PagerAt(ntx)
  BY <1>1, OpenAtIs, PagerIs
<1>3. FilesAt(ntx)' /\ ntx' = ntx /\ setting' = setting
  BY Still DEF HotExclusive
<1>4. CASE Locks!Exclude(c) /\ Goto(c, "open")
  <2>1. LockStep(c) /\ lock'[c] = EXCLUSIVE_LOCK
    BY <1>4, Excludes
  <2>2. Hasnt([pager[c] EXCEPT !.at = "open"], lock'[c])
    BY <1>1, <1>2, <2>1, HasntAt
  <2> QED
    BY <1>1, <1>2, <1>3, <1>4, <2>1, <2>2, OpenGoes
<1>5. CASE Locks!Pend(c) /\ UNCHANGED pager
  <2>1. LockStep(c) /\ lock'[c] = PENDING_LOCK
    BY <1>5, Pends
  <2> DEFINE P == pager[c]
  <2>2. Set(c, P)
    <3>1. pager \in [Conns -> PagerAt(ntx)]
      BY DEF IInv
    <3> QED
      BY <1>5, <3>1 DEF Set
  <2>3. P \in PagerAt(ntx) /\ P.eState = "OPEN" /\ P.at = "hot" /\ P.goal = "none" /\ P.journalHdr = 0
    BY <1>1, <1>2
  <2> HIDE DEF P
  <2>4. Hasnt(P, lock'[c])
    BY <2>1, <2>3 DEF Hasnt
  <2>5. Control(P, lock'[c], c \in reserved') /\ P.at # "exclusive"
    BY <2>3, <2>4, OpenControl
  <2> QED
    BY <1>3, <2>1, <2>2, <2>3, <2>5, Moves
<1>6. CASE pager_unlock(c, pager[c])
  BY <1>2, <1>3, <1>6, UnlockStep
<1> QED
  BY <1>4, <1>5, <1>6 DEF HotExclusive

LEMMA HotPlays ==
  ASSUME NEW n, NEW P \in PagerAt(n)
  PROVE  LET Q == [P EXCEPT !.at = "play", !.goal = "hot", !.k = 0, !.journalOff = 0] IN
         /\ Q \in PagerAt(n) /\ Q.eState = P.eState /\ Q.at = "play" /\ Q.goal = "hot"
         /\ Q.journalHdr = P.journalHdr
BY DEF PagerAt, Places, Goals

LEMMA HotOpenStep == ASSUME IInv, NEW c \in Conns, HotOpen(c) PROVE IInv'
<1>1. pager[c].at = "open" /\ "open" \in Openings /\ "version" \in Openings
  BY DEF HotOpen, Openings
<1>2. /\ pager[c].eState = "OPEN" /\ Hasnt(pager[c], lock[c]) /\ pager[c].goal = "none"
      /\ pager[c].journalHdr = 0 /\ pager[c] \in PagerAt(ntx) /\ ntx \in Nat /\ FilesAt(ntx)
  BY <1>1, OpenAtIs, PagerIs
<1>3. ntx' = ntx /\ setting' = setting /\ db' = db /\ ddb' = ddb
  BY DEF HotOpen, counters
<1>4. CASE jrnl.exists
  <2> DEFINE P == [pager[c] EXCEPT !.at = "play", !.goal = "hot", !.k = 0, !.journalOff = 0]
  <2>1. Set(c, P) /\ SyncJournalFile(P, jrnl, ~noSync) /\ UNCHANGED levels
    BY <1>4 DEF HotOpen
  <2>2. P \in PagerAt(ntx) /\ P.eState = "OPEN" /\ P.at = "play" /\ P.goal = "hot" /\ P.journalHdr = 0
    BY <1>2, HotPlays
  <2> HIDE DEF P
  <2>3. LockStep(c) /\ lock'[c] = EXCLUSIVE_LOCK
    BY <1>1, <1>2, <2>1, Unlocked DEF Hasnt
  <2>4. Control(P, lock'[c], c \in reserved') /\ P.at # "exclusive"
    <3>1. Hasnt(P, lock'[c])
      BY <2>2, <2>3 DEF Hasnt
    <3> QED
      BY <2>2, <3>1, OpenControl
  <2>5. jrnl' \in JournalAt(ntx) /\ djrnl' \in JournalAt(ntx)
    <3>1. (~noSync) \in BOOLEAN /\ jrnl \in JournalAt(ntx)
      BY <1>2 DEF FilesAt
    <3> QED
      BY <1>2, <2>1, <3>1, SyncedIs
  <2>6. FilesAt(ntx)'
    BY <1>2, <1>3, <2>5 DEF FilesAt
  <2> QED
    BY <1>3, <2>1, <2>2, <2>3, <2>4, <2>6, Moves
<1>5. CASE ~ jrnl.exists
  <2>1. Locks!Lower(c, SHARED_LOCK) /\ Goto(c, "version") /\ UNCHANGED <<jrnl, djrnl>>
    BY <1>5 DEF HotOpen
  <2>2. LockStep(c) /\ lock'[c] = SHARED_LOCK
    BY <2>1, Lowers
  <2>3. FilesAt(ntx)'
    BY <1>2, <1>3, <2>1 DEF FilesAt
  <2>4. Hasnt([pager[c] EXCEPT !.at = "version"], lock'[c])
    BY <1>1, <1>2, <2>2, HasntAt
  <2> QED
    BY <1>1, <1>2, <1>3, <2>1, <2>2, <2>3, <2>4, OpenGoes
<1> QED
  BY <1>4, <1>5

LEMMA SharedLockDoneStep == ASSUME IInv, NEW c \in Conns, SharedLockDone(c) PROVE IInv'
<1> DEFINE P == pager[c]
           now == IF db = <<>> THEN Zero ELSE db[1]
           Q == Revalidated(P, now)
           R == [Q EXCEPT !.eState = "READER", !.at = "idle", !.goal = "none",
                          !.hasHeldSharedLock = TRUE, !.dbSize = Len(db)]
           T == getPage(R, 1)
<1>1. /\ P.at = "version" /\ "version" \in Openings /\ UNCHANGED <<files, counters>>
      /\ (Set(c, T) /\ UNCHANGED levels) \/ pager_unlock(c, T)
  BY DEF SharedLockDone, Openings
<1>2. /\ P.eState = "OPEN" /\ Hasnt(P, lock[c]) /\ P.journalHdr = 0 /\ P \in PagerAt(ntx) /\ ntx \in Nat
      /\ db \in Seq(ContentAt(ntx))
  BY <1>1, OpenAtIs, PagerIs DEF FilesAt
<1>3. FilesAt(ntx)' /\ ntx' = ntx /\ setting' = setting
  BY <1>1, Still
<1>4. UNCHANGED levels => LockStep(c) /\ lock'[c] = SHARED_LOCK
  BY <1>1, <1>2, Unlocked DEF Hasnt
<1> HIDE DEF P, now
<1>5. Q \in PagerAt(ntx) /\ Q.journalHdr = 0
  BY <1>2, ResetIs DEF Revalidated, Kin
<1> HIDE DEF Q
<1>6. R \in PagerAt(ntx) /\ R.eState = "READER" /\ R.at = "idle" /\ R.goal = "none" /\ R.journalHdr = 0
  <2>1. Len(db) \in Nat
    BY <1>2
  <2> QED
    BY <1>5, <2>1 DEF PagerAt, States, Places, Goals
<1> HIDE DEF R
<1>7. T \in PagerAt(ntx) /\ Kin(R, T) /\ Cached(T) = Cached(R) \cup {1}
  <2>1. 1 \in 1 .. MaxPage
    BY PagerAssumption
  <2> QED
    BY <1>2, <1>6, <2>1, GetPageIs
<1> HIDE DEF T
<1>8. CASE Set(c, T) /\ UNCHANGED levels
  <2> SUFFICES Control(T, lock'[c], c \in reserved') /\ T.at # "exclusive"
    BY <1>3, <1>4, <1>7, <1>8, Moves
  <2>1. /\ T.eState = "READER" /\ T.at = "idle" /\ T.goal = "none" /\ T.journalHdr = 0
        /\ 1 \in Cached(T) /\ T.journalOff \in Nat
    BY <1>6, <1>7 DEF Kin, PagerAt
  <2>2. Reads(T, lock'[c], c \in reserved')
    BY <1>4, <1>8, <2>1 DEF Reads, SHARED_LOCK, RESERVED_LOCK
  <2>3. T.journalHdr <= T.journalOff
    BY <2>1
  <2> QED
    BY <2>1, <2>2, <2>3 DEF Control, Spills, Writing
<1>9. CASE pager_unlock(c, T)
  BY <1>3, <1>7, <1>9, UnlockStep
<1> QED
  BY <1>1, <1>8, <1>9

-----------------------------------------------------------------------------
(* Reading, and beginning to write.                                        *)
LEMMA Waits ==
  ASSUME IInv, NEW c \in Conns, UNCHANGED pager, LockStep(c),
         Control(pager[c], lock'[c], c \in reserved'),
         ntx' = ntx, setting' = setting, FilesAt(ntx)'
  PROVE  IInv'
<1> DEFINE P == pager[c]
<1>1. pager \in [Conns -> PagerAt(ntx)] /\ (P.at = "exclusive" => ntx < setting.txs)
  BY DEF IInv
<1>2. Set(c, P) /\ P \in PagerAt(ntx)
  BY <1>1 DEF Set
<1>3. Control(P, lock'[c], c \in reserved')
  OBVIOUS
<1> HIDE DEF P
<1> QED
  BY <1>1, <1>2, <1>3, MovesAnywhere

LEMMA ReaderControl ==
  ASSUME NEW n, NEW P \in PagerAt(n), NEW l \in 0 .. 4, NEW r, P.eState = "READER", Reads(P, l, r),
         1 \in Cached(P)
  PROVE  Control(P, l, r)
<1>1. P.journalHdr <= P.journalOff /\ P.goal # "spill"
  BY DEF Reads, PagerAt
<1> QED
  BY <1>1 DEF Control, Spills, Writing

LEMMA ReaderIs ==
  ASSUME IInv, NEW c \in Conns, pager[c].eState = "READER"
  PROVE  /\ Reads(pager[c], lock[c], c \in reserved) /\ 1 \in Cached(pager[c])
         /\ pager[c] \in PagerAt(ntx) /\ pager[c].cache[1].val.sz \in 0 .. MaxPage
<1>1. /\ Reads(pager[c], lock[c], c \in reserved) /\ 1 \in Cached(pager[c])
      /\ pager[c] \in PagerAt(ntx)
  BY PagerIs DEF Control
<1> QED
  BY <1>1, PageIs

LEMMA GetStep == ASSUME IInv, NEW c \in Conns, NEW p, Get(c, p) PROVE IInv'
<1> DEFINE P == pager[c]
           Q == getPage(P, p)
<1>1. P.eState = "READER" /\ P.at = "idle" /\ p \in 1 .. Size(P) /\ Set(c, Q)
  BY DEF Get, Idle
<1>2. /\ Reads(P, lock[c], c \in reserved) /\ 1 \in Cached(P)
      /\ P \in PagerAt(ntx) /\ Size(P) \in 0 .. MaxPage
  BY <1>1, ReaderIs DEF Size
<1>3. FilesAt(ntx)' /\ ntx' = ntx /\ setting' = setting
  BY Still DEF Get
<1>4. LockStep(c) /\ lock'[c] = lock[c] /\ (c \in reserved' <=> c \in reserved) /\ lock[c] \in 0 .. 4
  BY Unlocked, PagerIs DEF Get
<1> HIDE DEF P
<1>5. p \in 1 .. MaxPage
  BY <1>1, <1>2, PagerAssumption
<1>6. Q \in PagerAt(ntx) /\ Kin(P, Q) /\ Cached(Q) = Cached(P) \cup {p}
  BY <1>2, <1>5, GetPageIs, PagerIs DEF FilesAt
<1> HIDE DEF Q
<1>7. Q.eState = "READER" /\ Q.at = "idle" /\ 1 \in Cached(Q)
  BY <1>1, <1>2, <1>6 DEF Kin
<1>8. Reads(Q, lock'[c], c \in reserved')
  BY <1>2, <1>4, <1>6 DEF Reads, Kin
<1>9. Control(Q, lock'[c], c \in reserved') /\ Q.at # "exclusive"
  BY <1>4, <1>6, <1>7, <1>8, ReaderControl
<1> QED
  BY <1>1, <1>3, <1>4, <1>6, <1>9, Moves

(* With the next transaction there is one more content of pages.           *)
LEMMA MoreContent ==
  ASSUME NEW n \in Nat
  PROVE  /\ ContentAt(n) \subseteq ContentAt(n + 1) /\ SlotsAt(n) \subseteq SlotsAt(n + 1)
         /\ EntryAt(n) \subseteq EntryAt(n + 1) /\ CacheAt(n) \subseteq CacheAt(n + 1)
<1>1. ContentAt(n) \subseteq ContentAt(n + 1)
  BY DEF ContentAt
<1>2. SlotsAt(n) \subseteq SlotsAt(n + 1)
  BY <1>1 DEF SlotsAt, RecordSlots
<1>3. EntryAt(n) \subseteq EntryAt(n + 1)
  BY <1>1 DEF EntryAt
<1>4. ASSUME NEW f \in CacheAt(n)
      PROVE  f \in CacheAt(n + 1)
  <2>1. /\ DOMAIN f \subseteq 1 .. MaxPage /\ f = [p \in DOMAIN f |-> f[p]]
        /\ \A p \in DOMAIN f : f[p] \in EntryAt(n)
    BY CacheIs
  <2>2. \A p \in DOMAIN f : f[p] \in EntryAt(n + 1)
    BY <1>3, <2>1
  <2> QED
    BY <2>1, <2>2, CacheIs
<1> QED
  BY <1>1, <1>2, <1>3, <1>4

LEMMA MorePages ==
  ASSUME NEW n \in Nat, NEW d \in Seq(ContentAt(n))
  PROVE  d \in Seq(ContentAt(n + 1))
BY MoreContent

LEMMA MoreJournal ==
  ASSUME NEW n \in Nat, NEW j \in JournalAt(n)
  PROVE  j \in JournalAt(n + 1)
<1>1. j.slots \in Seq(SlotsAt(n))
  BY DEF JournalAt
<1>2. j.slots \in Seq(SlotsAt(n + 1))
  BY <1>1, MoreContent
<1> QED
  BY <1>2 DEF JournalAt

LEMMA MorePager ==
  ASSUME NEW n \in Nat, NEW P \in PagerAt(n)
  PROVE  P \in PagerAt(n + 1)
<1>1. P.cache \in CacheAt(n + 1) /\ P.dbFileVers \in ContentAt(n + 1) /\ P.tx \in 0 .. n + 1
  BY MoreContent DEF PagerAt
<1> QED
  BY <1>1 DEF PagerAt

LEMMA LockedIs ==
  ASSUME NEW n \in Nat, NEW P \in PagerAt(n)
  PROVE  LET Q == [P EXCEPT !.eState = "LOCKED", !.at = "idle", !.dbFileSize = P.dbSize,
                            !.dbOrigSize = P.dbSize, !.journalOff = 0, !.tx = n + 1]
         IN  /\ Q \in PagerAt(n + 1) /\ Q.eState = "LOCKED" /\ Q.at = "idle" /\ Q.goal = P.goal
             /\ Q.tx = n + 1 /\ Q.journalHdr = P.journalHdr /\ Q.cache = P.cache
             /\ Q.dbFileVers = P.dbFileVers /\ Q.journalOff = 0
<1>1. P \in PagerAt(n + 1) /\ n + 1 \in 0 .. n + 1
  BY MorePager
<1> QED
  BY <1>1 DEF PagerAt, States, Places

LEMMA Begins ==
  ASSUME IInv, NEW c \in Conns, Locked(c, pager[c]), LockStep(c), lock'[c] >= RESERVED_LOCK,
         c \in reserved', pager[c].eState = "READER", ntx < setting.txs,
         UNCHANGED files, setting' = setting
  PROVE  IInv'
<1> DEFINE P == pager[c]
           Q == [P EXCEPT !.eState = "LOCKED", !.at = "idle", !.dbFileSize = P.dbSize,
                          !.dbOrigSize = P.dbSize, !.journalOff = 0, !.tx = ntx + 1]
<1>1. Set(c, Q) /\ ntx' = ntx + 1
  BY DEF Locked
<1>2. /\ P \in PagerAt(ntx) /\ ntx \in Nat /\ FilesAt(ntx) /\ Reads(P, lock[c], c \in reserved)
      /\ 1 \in Cached(P) /\ ntx + 1 \in Nat
  BY PagerIs, ReaderIs
<1>3. ntx' \in 0 .. MaxTx
  <2>1. setting.txs \in 0 .. MaxTx
    BY PagerAssumption DEF IInv, Setting
  <2> QED
    BY <1>1, <1>2, <2>1, PagerAssumption
<1>a. pager \in [Conns -> PagerAt(ntx)] /\ lock' \in [Conns -> Levels]
  BY DEF IInv, LockStep
<1> HIDE DEF P
<1>4. /\ Q \in PagerAt(ntx + 1) /\ Q.eState = "LOCKED" /\ Q.at = "idle" /\ Q.goal = P.goal
      /\ Q.tx = ntx + 1 /\ Q.journalHdr = P.journalHdr /\ Q.cache = P.cache
      /\ Q.dbFileVers = P.dbFileVers /\ Q.journalOff = 0
  BY <1>2, LockedIs
<1> HIDE DEF Q
<1>5. Control(Q, lock'[c], c \in reserved')
  <2>1. P.dbFileVers.ver \in -1 .. ntx /\ lock'[c] \in 0 .. 4
    BY <1>2, <1>a, LockRange DEF PagerAt, ContentAt
  <2>2. Q.dbFileVers.ver < Q.tx
    BY <1>2, <1>4, <2>1
  <2>3. Q.goal = "none" /\ Q.journalHdr = 0 /\ 1 \in Cached(Q)
    BY <1>2, <1>4 DEF Reads, Cached
  <2>4. Q.journalHdr <= Q.journalOff
    BY <1>4, <2>3
  <2> QED
    BY <1>4, <2>1, <2>2, <2>3, <2>4 DEF Control, Acts, Counts, Spills, Writing
<1>6. /\ pager'[c] = Q /\ pager' \in [Conns -> PagerAt(ntx')]
      /\ \A d \in Conns : d # c => pager'[d] = pager[d]
  <2>1. \A d \in Conns : pager[d] \in PagerAt(ntx + 1)
    BY <1>2, <1>a, MorePager
  <2> QED
    BY <1>1, <1>4, <1>a, <2>1 DEF Set
<1>7. \A d \in Conns : Control(pager'[d], lock'[d], d \in reserved')
  <2> TAKE d \in Conns
  <2>1. CASE d = c
    BY <1>5, <1>6, <2>1
  <2>2. CASE d # c
    <3>1. Control(pager[d], lock[d], d \in reserved)
      BY DEF IInv
    <3>2. pager'[d] = pager[d] /\ lock'[d] = lock[d] /\ (d \in reserved' <=> d \in reserved)
      BY <1>6, <2>2 DEF LockStep
    <3> QED
      BY <3>1, <3>2 DEF Control, Reads, Acts
  <2> QED
    BY <2>1, <2>2
<1>8. ASSUME NEW d \in Conns
      PROVE  pager'[d].at # "exclusive"
  <2>1. CASE d = c
    BY <1>4, <1>6, <2>1
  <2>2. CASE d # c
    <3> SUFFICES ASSUME pager[d].at = "exclusive" PROVE FALSE
      BY <1>6, <2>2
    <3>1. Control(pager[d], lock[d], d \in reserved) /\ pager[d] \in PagerAt(ntx)
      BY PagerIs
    <3>2. d \in reserved
      <4>1. pager[d].eState = "READER"
        BY <3>1 DEF Control, Hasnt, Acts, Writing, PagerAt, States
      <4> QED
        BY <3>1, <4>1 DEF Control, Reads
    <3>3. d \in reserved'
      BY <2>2, <3>2 DEF LockStep
    <3> QED
      BY <2>2, <3>3 DEF LockStep
  <2> QED
    BY <2>1, <2>2
<1>9. FilesAt(ntx)' 
  <2>1. /\ db \in Seq(ContentAt(ntx + 1)) /\ ddb \in Seq(ContentAt(ntx + 1))
        /\ jrnl \in JournalAt(ntx + 1) /\ djrnl \in JournalAt(ntx + 1)
    BY <1>2, MorePages, MoreJournal DEF FilesAt
  <2> QED
    BY <1>1, <2>1 DEF FilesAt, files
<1> QED
  BY <1>3, <1>6, <1>7, <1>8, <1>9, <1>a DEF IInv, LockStep, FilesAt

LEMMA PagerBeginStep == ASSUME IInv, NEW c \in Conns, PagerBegin(c) PROVE IInv'
<1>1. /\ pager[c].eState = "READER" /\ pager[c].at = "idle" /\ ntx < setting.txs
      /\ Reserving(c) /\ UNCHANGED <<files, history, setting, mishaps>>
  BY DEF PagerBegin, Idle
<1>2. /\ Reads(pager[c], lock[c], c \in reserved) /\ 1 \in Cached(pager[c])
      /\ pager[c] \in PagerAt(ntx) /\ lock[c] \in 0 .. 4 /\ FilesAt(ntx)
  BY <1>1, ReaderIs, PagerIs
<1>3. LockStep(c) /\ lock'[c] >= RESERVED_LOCK /\ c \in reserved'
  <2>1. CASE lock[c] >= RESERVED_LOCK /\ UNCHANGED levels
    BY <1>2, <2>1, Unlocked DEF Reads
  <2>2. CASE Locks!Reserve(c)
    BY <2>2, Reserves DEF RESERVED_LOCK
  <2> QED
    BY <1>1, <2>1, <2>2 DEF Reserving
<1>4. CASE Locked(c, pager[c])
  <2>1. UNCHANGED files /\ setting' = setting
    BY <1>1
  <2> QED
    BY <1>1, <1>3, <1>4, <2>1, Begins
<1>5. CASE Goto(c, "exclusive") /\ UNCHANGED ntx
  <2> DEFINE P == [pager[c] EXCEPT !.at = "exclusive"]
  <2>1. Set(c, P) /\ ntx' = ntx /\ setting' = setting
    BY <1>1, <1>5 DEF Goto
  <2>2. FilesAt(ntx)'
    BY <1>1, <1>2, <2>1 DEF FilesAt, files
  <2>3. /\ P \in PagerAt(ntx) /\ P.at = "exclusive" /\ P.eState = "READER" /\ P.cache = pager[c].cache
        /\ P.goal = "none" /\ P.journalHdr = 0
    <3>1. "exclusive" \in Places /\ pager[c].goal = "none" /\ pager[c].journalHdr = 0
      BY <1>2 DEF Places, Reads
    <3> QED
      BY <1>1, <1>2, <3>1, Goes
  <2> HIDE DEF P
  <2>4. lock'[c] \in 0 .. 4 /\ 1 \in Cached(P)
    BY <1>2, <1>3, <2>3, LockRange DEF LockStep, Cached
  <2>5. Reads(P, lock'[c], c \in reserved')
    BY <1>3, <2>3, <2>4 DEF Reads, SHARED_LOCK, RESERVED_LOCK
  <2>6. Control(P, lock'[c], c \in reserved')
    BY <2>3, <2>4, <2>5, ReaderControl
  <2> QED
    BY <1>1, <1>3, <2>1, <2>2, <2>3, <2>6, MovesAnywhere
<1> QED
  BY <1>4, <1>5 DEF PagerBegin

LEMMA BeginExclusiveStep == ASSUME IInv, NEW c \in Conns, BeginExclusive(c) PROVE IInv'
<1>1. pager[c].at = "exclusive" /\ UNCHANGED <<files, history, setting, mishaps>>
  BY DEF BeginExclusive
<1>2. /\ pager[c] \in PagerAt(ntx) /\ Control(pager[c], lock[c], c \in reserved)
      /\ lock[c] \in 0 .. 4 /\ FilesAt(ntx)
  BY PagerIs
<1>3. pager[c].eState = "READER" /\ ntx < setting.txs
  <2>1. pager[c].eState = "READER"
    BY <1>1, <1>2 DEF Control, Hasnt, Acts, Writing, PagerAt, States
  <2> QED
    BY <1>1, <2>1 DEF IInv
<1>4. /\ Reads(pager[c], lock[c], c \in reserved) /\ 1 \in Cached(pager[c])
      /\ lock[c] >= RESERVED_LOCK /\ c \in reserved
  BY <1>1, <1>2, <1>3 DEF Control, Reads
<1>5. UNCHANGED files /\ setting' = setting
  BY <1>1
<1>a. ASSUME ntx' = ntx PROVE FilesAt(ntx)'
  BY <1>2, <1>5, <1>a DEF FilesAt, files
<1>6. CASE Locks!Exclude(c) /\ Locked(c, pager[c])
  <2>1. LockStep(c) /\ lock'[c] >= RESERVED_LOCK /\ c \in reserved'
    BY <1>4, <1>6, Excludes DEF EXCLUSIVE_LOCK, RESERVED_LOCK
  <2> QED
    BY <1>3, <1>5, <1>6, <2>1, Begins
<1>7. CASE lock[c] = EXCLUSIVE_LOCK /\ Locked(c, pager[c]) /\ UNCHANGED levels
  <2>1. LockStep(c) /\ lock'[c] >= RESERVED_LOCK /\ c \in reserved'
    BY <1>4, <1>7, Unlocked
  <2> QED
    BY <1>3, <1>5, <1>7, <2>1, Begins
<1>8. CASE Locks!Pend(c) /\ UNCHANGED <<pager, ntx>>
  <2>1. LockStep(c) /\ lock'[c] = PENDING_LOCK /\ c \in reserved'
    BY <1>4, <1>8, Pends
  <2>2. Reads(pager[c], lock'[c], c \in reserved')
    BY <1>1, <1>4, <2>1 DEF Reads, SHARED_LOCK, RESERVED_LOCK, PENDING_LOCK
  <2>3. lock'[c] \in 0 .. 4
    BY <2>1 DEF PENDING_LOCK
  <2>4. Control(pager[c], lock'[c], c \in reserved')
    BY <1>2, <1>3, <1>4, <2>2, <2>3, ReaderControl
  <2> QED
    BY <1>5, <1>8, <1>a, <2>1, <2>4, Waits
<1>9. CASE Goto(c, "idle") /\ UNCHANGED <<levels, ntx>>
  <2> DEFINE P == [pager[c] EXCEPT !.at = "idle"]
  <2>1. LockStep(c) /\ lock'[c] = lock[c] /\ (c \in reserved' <=> c \in reserved)
    BY <1>9, Unlocked
  <2>2. /\ P \in PagerAt(ntx) /\ P.at = "idle" /\ P.eState = "READER" /\ P.cache = pager[c].cache
        /\ P.goal = "none" /\ P.journalHdr = 0
    <3>1. "idle" \in Places /\ pager[c].goal = "none" /\ pager[c].journalHdr = 0
      BY <1>4 DEF Places, Reads
    <3> QED
      BY <1>2, <1>3, <3>1, Goes
  <2>3. Control(P, lock'[c], c \in reserved')
    <3> HIDE DEF P
    <3>1. Reads(P, lock'[c], c \in reserved') /\ 1 \in Cached(P)
      BY <1>4, <2>1, <2>2 DEF Reads, Cached
    <3> QED
      BY <1>2, <2>1, <2>2, <3>1, ReaderControl
  <2>4. "idle" \in Places \ {"exclusive"}
    BY DEF Places
  <2> QED
    BY <1>5, <1>9, <1>a, <2>1, <2>3, <2>4, GoesOn
<1> QED
  BY <1>6, <1>7, <1>8, <1>9 DEF BeginExclusive

-----------------------------------------------------------------------------
(* Writing pages.                                                          *)
LEMMA WroteStep ==
  ASSUME IInv, NEW c \in Conns, pager[c].eState \in Writing, Idle(c),
         NEW s \in PairAt(ntx), Wider(Opened(c).P, s.P), Wrote(c, s),
         UNCHANGED <<levels, db, ddb, djrnl, counters>>
  PROVE  IInv'
<1> DEFINE o == Opened(c)
           Q == s.P
<1>1. /\ o \in PairAt(ntx) /\ Ready(o.P, lock[c]) /\ lock[c] >= RESERVED_LOCK /\ c \in reserved
  BY OpenedIs
<1>2. Wider(o.P, Q)
  OBVIOUS
<1>3. Set(c, Q) /\ jrnl' = [exists |-> TRUE, slots |-> s.f, fresh |-> jrnl.fresh \/ ~jrnl.exists]
  BY DEF Wrote
<1>4. LockStep(c) /\ lock'[c] = lock[c] /\ c \in reserved' /\ lock[c] \in 0 .. 4
  BY <1>1, Unlocked, PagerIs
<1>5. ntx' = ntx /\ setting' = setting /\ FilesAt(ntx) /\ ntx \in Nat
  BY PagerIs DEF counters
<1>6. FilesAt(ntx)'
  <2>1. (jrnl.fresh \/ ~jrnl.exists) \in BOOLEAN /\ s.f \in Seq(SlotsAt(ntx))
    BY DEF PairAt
  <2>2. jrnl' \in JournalAt(ntx)
    BY <1>3, <1>5, <2>1, JournalIs DEF FilesAt
  <2> QED
    BY <1>5, <2>2 DEF FilesAt
<1> HIDE DEF o
<1>7. o.P \in PagerAt(ntx) /\ Q \in PagerAt(ntx)
  BY <1>1 DEF PairAt
<1> HIDE DEF Q
<1>8. Ready(Q, lock[c])
  BY <1>1, <1>2, <1>7, ReadyWider
<1>9. Control(Q, lock'[c], c \in reserved') /\ Q.at # "exclusive"
  BY <1>1, <1>4, <1>8, ReadyIs DEF Ready
<1> QED
  BY <1>3, <1>4, <1>5, <1>6, <1>7, <1>9, Moves

LEMMA SettingIs ==
  ASSUME IInv
  PROVE  setting.pages \in 0 .. MaxPage /\ setting.txs \in 0 .. MaxTx
BY PagerAssumption DEF IInv, Setting

LEMMA WriteStep == ASSUME IInv, NEW c \in Conns, NEW p, Write(c, p) PROVE IInv'
<1> DEFINE P == pager[c]
           m == Size(P)
           s == Opened(c)
           header == [ver |-> P.cache[1].val.ver, sz |-> p]
           counted == pager_write(s, 1, header)
           new == [ver |-> P.tx, sz |-> 0]
           t == CASE p = 1 -> counted
                  [] p \in 2 .. m -> pager_write(s, p, new)
                  [] OTHER -> pager_write(NewPage(counted, p), p, new)
<1>1. /\ P.eState \in Writing /\ Idle(c) /\ p \in 1 .. setting.pages
      /\ Wrote(c, t) /\ UNCHANGED <<levels, db, ddb, djrnl, counters>>
  BY DEF Write
<1>2. /\ s \in PairAt(ntx) /\ Cached(s.P) = Cached(P) /\ s.P \in PagerAt(ntx)
  BY <1>1, OpenedIs DEF PairAt
<1>3. /\ P \in PagerAt(ntx) /\ Control(P, lock[c], c \in reserved) /\ ntx \in Nat
      /\ db \in Seq(ContentAt(ntx)) /\ p \in 1 .. MaxPage /\ 1 \in 1 .. MaxPage
  BY <1>1, PagerIs, SettingIs, PagerAssumption DEF FilesAt
<1> HIDE DEF P, s
<1>4. 1 \in Cached(P)
  BY <1>1, <1>3 DEF Control
<1>5. header \in ContentAt(ntx) /\ new \in ContentAt(ntx)
  <2>1. P.cache[1].val.ver \in -1 .. ntx /\ P.tx \in 0 .. ntx
    BY <1>3, <1>4, PageIs DEF PagerAt
  <2>2. P.tx \in -1 .. ntx /\ 0 \in 0 .. MaxPage /\ p \in 0 .. MaxPage
    BY <1>3, <2>1, PagerAssumption
  <2>3. \A a \in -1 .. ntx, b \in 0 .. MaxPage : [ver |-> a, sz |-> b] \in ContentAt(ntx)
    BY DEF ContentAt
  <2> QED
    BY <2>1, <2>2, <2>3
<1> HIDE DEF header, new
<1>6. counted \in PairAt(ntx) /\ Wider(s.P, counted.P) /\ counted.P \in PagerAt(ntx)
  <2>1. counted \in PairAt(ntx) /\ Wider(s.P, counted.P)
    BY <1>2, <1>3, <1>5, PageWritten
  <2> QED
    BY <2>1 DEF PairAt
<1>7. LET u == pager_write(s, p, new) IN u \in PairAt(ntx) /\ Wider(s.P, u.P)
  BY <1>2, <1>3, <1>5, PageWritten
<1>8. LET u == pager_write(NewPage(counted, p), p, new) IN u \in PairAt(ntx) /\ Wider(s.P, u.P)
  <2> HIDE DEF counted
  <2> DEFINE q == NewPage(counted, p)
             u == pager_write(q, p, new)
  <2>1. q \in PairAt(ntx) /\ Wider(counted.P, q.P)
    BY <1>3, <1>6, NewPageIs
  <2> HIDE DEF q
  <2>2. u \in PairAt(ntx) /\ Wider(q.P, u.P)
    BY <1>3, <1>5, <2>1, PageWritten
  <2> HIDE DEF u
  <2>3. q.P \in PagerAt(ntx) /\ u.P \in PagerAt(ntx)
    BY <2>1, <2>2 DEF PairAt
  <2>4. Wider(s.P, q.P)
    BY <1>2, <1>6, <2>1, <2>3, WiderTrans
  <2>5. Wider(s.P, u.P)
    BY <1>2, <2>2, <2>3, <2>4, WiderTrans
  <2> QED
    BY <2>2, <2>5 DEF u, q
<1> HIDE DEF counted
<1>9. t \in PairAt(ntx) /\ Wider(s.P, t.P)
  BY <1>6, <1>7, <1>8
<1> HIDE DEF t
<1> QED
  BY <1>1, <1>9, WroteStep DEF s, P

LEMMA VacuumStep == ASSUME IInv, NEW c \in Conns, Vacuum(c) PROVE IInv'
<1> DEFINE P == pager[c]
           m == Size(P)
           o == Opened(c)
           v == [P.cache[1].val EXCEPT !.sz = m - 1]
           s == pager_write(o, 1, v)
           Q == [s.P EXCEPT !.bDoTruncate = TRUE]
           t == [s EXCEPT !.P = Q]
<1>1. /\ P.eState \in Writing /\ Idle(c) /\ m > 1
      /\ Wrote(c, t) /\ UNCHANGED <<levels, db, ddb, djrnl, counters>>
  BY DEF Vacuum
<1>2. o \in PairAt(ntx) /\ o.P \in PagerAt(ntx)
  BY <1>1, OpenedIs DEF PairAt
<1>3. /\ P \in PagerAt(ntx) /\ Control(P, lock[c], c \in reserved) /\ ntx \in Nat
      /\ db \in Seq(ContentAt(ntx)) /\ 1 \in 1 .. MaxPage
  BY PagerIs, PagerAssumption DEF FilesAt
<1> HIDE DEF P, o
<1>4. 1 \in Cached(P)
  BY <1>1, <1>3 DEF Control
<1>5. v \in ContentAt(ntx)
  <2>1. P.cache[1].val \in ContentAt(ntx) /\ m \in 0 .. MaxPage
    BY <1>3, <1>4, PageIs DEF Size
  <2>2. m - 1 \in 0 .. MaxPage
    BY <1>1, <2>1, PagerAssumption
  <2> HIDE DEF m
  <2> QED
    BY <2>1, <2>2 DEF ContentAt
<1> HIDE DEF v
<1>6. s \in PairAt(ntx) /\ Wider(o.P, s.P) /\ s.P \in PagerAt(ntx)
  <2>1. s \in PairAt(ntx) /\ Wider(o.P, s.P)
    BY <1>2, <1>3, <1>5, PageWritten
  <2> QED
    BY <2>1 DEF PairAt
<1> HIDE DEF s
<1>7. Q \in PagerAt(ntx) /\ Wider(s.P, Q)
  <2> DEFINE R == s.P
  <2>1. R \in PagerAt(ntx) /\ R.journalOff >= R.journalOff
    BY <1>6 DEF PagerAt
  <2> HIDE DEF R
  <2>2. LET S == [R EXCEPT !.bDoTruncate = TRUE] IN S \in PagerAt(ntx) /\ Wider(R, S)
    BY <2>1 DEF PagerAt, Wider, Kin, Cached
  <2> QED
    BY <2>2 DEF R
<1> HIDE DEF Q
<1>8. t \in PairAt(ntx) /\ t.P = Q
  BY <1>6, <1>7, PairIs
<1> HIDE DEF t
<1>9. Wider(o.P, t.P)
  BY <1>2, <1>6, <1>7, <1>8, WiderTrans
<1> QED
  BY <1>1, <1>8, <1>9, WroteStep DEF o, P

-----------------------------------------------------------------------------
(* A writer works on its transaction.                                      *)
LEMMA WriterIs ==
  ASSUME IInv, NEW c \in Conns,
         \/ pager[c].eState \in Writing
         \/ pager[c].at \in {"exclude", "one", "count", "sync", "pageout", "pages"}
  PROVE  /\ pager[c].eState \in Writing /\ Acts(pager[c], lock[c], c \in reserved)
         /\ 1 \in Cached(pager[c]) /\ Spills(pager[c])
         /\ pager[c].journalHdr <= pager[c].journalOff \/ pager[c].goal = "rollback"
         /\ pager[c] \in PagerAt(ntx) /\ lock[c] \in 0 .. 4 /\ ntx \in Nat /\ FilesAt(ntx)
<1>1. /\ pager[c] \in PagerAt(ntx) /\ Control(pager[c], lock[c], c \in reserved)
      /\ lock[c] \in 0 .. 4 /\ ntx \in Nat /\ FilesAt(ntx)
  BY PagerIs
<1>2. pager[c].eState \in Writing
  BY <1>1 DEF Control, Hasnt, Reads, Writing, PagerAt, States
<1> QED
  BY <1>1, <1>2 DEF Control

LEMMA WriterControl ==
  ASSUME NEW P, NEW l, NEW r, P.eState \in Writing, Acts(P, l, r), 1 \in Cached(P), Spills(P),
         P.journalHdr <= P.journalOff \/ P.goal = "rollback"
  PROVE  Control(P, l, r)
BY DEF Control, Writing

Aim(P, where, what, m) == [P EXCEPT !.goal = what, !.k = m, !.at = where]
AimAt(P, where, what) == [P EXCEPT !.at = where, !.goal = what]

LEMMA Aims ==
  ASSUME NEW n, NEW P \in PagerAt(n), NEW where \in Places, NEW what \in Goals, NEW m \in Nat
  PROVE  LET Q == Aim(P, where, what, m) IN
         /\ Q \in PagerAt(n) /\ Q.at = where /\ Q.goal = what /\ Q.k = m
         /\ Q.eState = P.eState /\ Q.cache = P.cache
         /\ Q.journalHdr = P.journalHdr /\ Q.journalOff = P.journalOff
         /\ Q.tx = P.tx /\ Q.dbFileVers = P.dbFileVers
BY DEF PagerAt, Aim, AimAt

LEMMA AimsAt ==
  ASSUME NEW n, NEW P \in PagerAt(n), NEW where \in Places, NEW what \in Goals
  PROVE  LET Q == AimAt(P, where, what) IN
         /\ Q \in PagerAt(n) /\ Q.at = where /\ Q.goal = what /\ Q.k = P.k
         /\ Q.eState = P.eState /\ Q.cache = P.cache
         /\ Q.journalHdr = P.journalHdr /\ Q.journalOff = P.journalOff
         /\ Q.tx = P.tx /\ Q.dbFileVers = P.dbFileVers
BY DEF PagerAt, Aim, AimAt

LEMMA SpillStep == ASSUME IInv, NEW c \in Conns, NEW p, Spill(c, p) PROVE IInv'
<1> DEFINE P == pager[c]
           where == IF MustSync(P, p) THEN "exclude" ELSE "pageout"
           Q == Aim(P, where, "spill", p)
<1>1. /\ P.eState \in {"CACHEMOD", "DBMOD"} /\ P.at = "idle" /\ p \in Cached(P) \ {1}
      /\ Set(c, Q) /\ UNCHANGED <<levels, files, counters>>
  BY DEF Spill, Idle, Aim
<1>2. P.eState \in Writing
  BY <1>1 DEF Writing
<1>3. /\ Acts(P, lock[c], c \in reserved) /\ 1 \in Cached(P)
      /\ (P.journalHdr <= P.journalOff \/ P.goal = "rollback") /\ P \in PagerAt(ntx)
  BY <1>2, WriterIs
<1>4. FilesAt(ntx)' /\ ntx' = ntx /\ setting' = setting
  BY <1>1, Still
<1>5. LockStep(c) /\ lock'[c] = lock[c] /\ (c \in reserved' <=> c \in reserved)
  BY <1>1, Unlocked
<1>6. p \in Nat
  BY <1>1, <1>3, PageIs, PagerAssumption
<1>7. where \in Places /\ (where = "pageout" => P.eState = "DBMOD") /\ where \in {"exclude", "pageout"}
  BY <1>1 DEF Places, MustSync
<1>8. P.goal = "none" /\ P.dbFileVers.ver < P.tx
  BY <1>1, <1>2, <1>3 DEF Acts, Counts
<1> HIDE DEF P, where
<1>9. /\ Q \in PagerAt(ntx) /\ Q.at = where /\ Q.goal = "spill" /\ Q.k = p
      /\ Q.eState = P.eState /\ Q.cache = P.cache
      /\ Q.journalHdr = P.journalHdr /\ Q.journalOff = P.journalOff
      /\ Q.tx = P.tx /\ Q.dbFileVers = P.dbFileVers
  BY <1>3, <1>6, <1>7, Aims DEF Goals
<1> HIDE DEF Q
<1>10. Acts(Q, lock'[c], c \in reserved')
  BY <1>1, <1>3, <1>5, <1>7, <1>8, <1>9 DEF Acts, Counts
<1>11. Spills(Q) /\ 1 \in Cached(Q) /\ Q.eState \in Writing
  BY <1>1, <1>2, <1>3, <1>9 DEF Spills, Cached
<1>12. Control(Q, lock'[c], c \in reserved') /\ Q.at # "exclusive"
  BY <1>3, <1>7, <1>8, <1>9, <1>10, <1>11, WriterControl
<1> QED
  BY <1>1, <1>4, <1>5, <1>9, <1>12, Moves

LEMMA CommitStep == ASSUME IInv, NEW c \in Conns, Commit(c) PROVE IInv'
<1> DEFINE P == pager[c]
           Q == AimAt(P, "exclude", "commit")
<1>1. /\ P.eState \in Writing /\ P.at = "idle"
      /\ Set(c, Q) /\ UNCHANGED <<levels, files, counters>>
  BY DEF Commit, Idle, AimAt
<1>3. /\ Acts(P, lock[c], c \in reserved) /\ 1 \in Cached(P)
      /\ (P.journalHdr <= P.journalOff \/ P.goal = "rollback") /\ P \in PagerAt(ntx)
  BY <1>1, WriterIs
<1>4. FilesAt(ntx)' /\ ntx' = ntx /\ setting' = setting
  BY <1>1, Still
<1>5. LockStep(c) /\ lock'[c] = lock[c] /\ (c \in reserved' <=> c \in reserved)
  BY <1>1, Unlocked
<1>8. P.goal = "none" /\ P.dbFileVers.ver < P.tx
  BY <1>1, <1>3 DEF Acts, Counts
<1>7. "exclude" \in Places /\ "commit" \in Goals
  BY DEF Places, Goals
<1> HIDE DEF P
<1>9. /\ Q \in PagerAt(ntx) /\ Q.at = "exclude" /\ Q.goal = "commit"
      /\ Q.eState = P.eState /\ Q.cache = P.cache
      /\ Q.journalHdr = P.journalHdr /\ Q.journalOff = P.journalOff
      /\ Q.tx = P.tx /\ Q.dbFileVers = P.dbFileVers
  BY <1>3, <1>7, AimsAt
<1> HIDE DEF Q
<1>10. Acts(Q, lock'[c], c \in reserved')
  BY <1>1, <1>3, <1>5, <1>8, <1>9 DEF Acts, Counts
<1>11. Spills(Q) /\ 1 \in Cached(Q) /\ Q.eState \in Writing
  BY <1>1, <1>3, <1>9 DEF Spills, Cached
<1>12. Control(Q, lock'[c], c \in reserved') /\ Q.at # "exclusive"
  BY <1>3, <1>8, <1>9, <1>10, <1>11, WriterControl
<1> QED
  BY <1>1, <1>4, <1>5, <1>9, <1>12, Moves

LEMMA ExclusiveLockStep == ASSUME IInv, NEW c \in Conns, ExclusiveLock(c) PROVE IInv'
<1> DEFINE P == pager[c]
<1>1. P.at = "exclude" /\ UNCHANGED <<files, counters>>
  BY DEF ExclusiveLock
<1>2. /\ P.eState \in Writing /\ Acts(P, lock[c], c \in reserved)
      /\ 1 \in Cached(P) /\ Spills(P) /\ (P.journalHdr <= P.journalOff \/ P.goal = "rollback")
      /\ P \in PagerAt(ntx) /\ lock[c] \in 0 .. 4
  BY <1>1, WriterIs
<1>3. FilesAt(ntx)' /\ ntx' = ntx /\ setting' = setting
  BY <1>1, Still
<1>4. /\ P.goal \in {"spill", "commit"} /\ P.dbFileVers.ver < P.tx /\ c \in reserved
      /\ lock[c] >= RESERVED_LOCK /\ (P.eState = "LOCKED" => P.goal = "commit")
      /\ P.journalHdr <= P.journalOff
  BY <1>1, <1>2 DEF Acts, Counts, Spills
<1>5. CASE \/ lock[c] = EXCLUSIVE_LOCK /\ UNCHANGED levels /\ Goto(c, Then(c))
           \/ Locks!Exclude(c) /\ Goto(c, Then(c))
  <2> DEFINE w == Then(c)
             Q == [P EXCEPT !.at = w]
  <2>1. LockStep(c) /\ lock'[c] = EXCLUSIVE_LOCK /\ c \in reserved' /\ Goto(c, w)
    BY <1>4, <1>5, Unlocked, Excludes
  <2>2. /\ w \in {"one", "count"} /\ (w = "one" <=> P.goal = "commit")
        /\ w \in Places \ {"exclusive"}
    BY DEF Then, Places
  <2> HIDE DEF w
  <2>3. Control(Q, lock'[c], c \in reserved')
    <3> HIDE DEF P
    <3>1. /\ Q \in PagerAt(ntx) /\ Q.at = w
          /\ Q.eState = P.eState /\ Q.goal = P.goal /\ Q.cache = P.cache
          /\ Q.journalHdr = P.journalHdr /\ Q.journalOff = P.journalOff
          /\ Q.tx = P.tx /\ Q.k = P.k /\ Q.dbFileVers = P.dbFileVers
      BY <1>2, <2>2, Goes
    <3> HIDE DEF Q
    <3>2. Acts(Q, lock'[c], c \in reserved')
      BY <1>2, <1>4, <2>1, <2>2, <3>1 DEF Acts, Counts, EXCLUSIVE_LOCK, RESERVED_LOCK
    <3>3. Spills(Q) /\ 1 \in Cached(Q)
      BY <1>1, <1>2, <2>2, <3>1 DEF Spills, Cached
    <3> QED
      BY <1>2, <1>4, <3>1, <3>2, <3>3, WriterControl
  <2> QED
    BY <1>3, <2>1, <2>2, <2>3, GoesOn
<1>6. CASE Locks!Pend(c) /\ UNCHANGED pager
  <2>1. LockStep(c) /\ lock'[c] = PENDING_LOCK /\ c \in reserved' /\ lock[c] \in {SHARED_LOCK, RESERVED_LOCK}
    BY <1>4, <1>6, Pends
  <2>2. Control(P, lock'[c], c \in reserved')
    <3> HIDE DEF P
    <3>1. Acts(P, lock'[c], c \in reserved')
      BY <1>1, <1>2, <2>1 DEF Acts, EXCLUSIVE_LOCK, RESERVED_LOCK, PENDING_LOCK, SHARED_LOCK
    <3> QED
      BY <1>2, <3>1, WriterControl
  <2> QED
    BY <1>3, <1>6, <2>1, <2>2, Waits
<1>7. CASE UNCHANGED levels /\ Set(c, [P EXCEPT !.at = "idle", !.goal = "none"])
  <2> DEFINE Q == AimAt(P, "idle", "none")
  <2>1. LockStep(c) /\ lock'[c] = lock[c] /\ (c \in reserved' <=> c \in reserved)
    BY <1>7, Unlocked
  <2>2. "idle" \in Places /\ "none" \in Goals /\ Set(c, Q)
    BY <1>7 DEF Places, Goals, AimAt
  <2> HIDE DEF P
  <2>3. /\ Q \in PagerAt(ntx) /\ Q.at = "idle" /\ Q.goal = "none"
        /\ Q.eState = P.eState /\ Q.cache = P.cache
        /\ Q.journalHdr = P.journalHdr /\ Q.journalOff = P.journalOff
        /\ Q.tx = P.tx /\ Q.dbFileVers = P.dbFileVers
    BY <1>2, <2>2, AimsAt
  <2> HIDE DEF Q
  <2>4. Acts(Q, lock'[c], c \in reserved')
    BY <1>1, <1>2, <1>4, <2>1, <2>3 DEF Acts, Counts
  <2>5. Spills(Q) /\ 1 \in Cached(Q) /\ Q.eState \in Writing
    BY <1>2, <2>3 DEF Spills, Cached
  <2>6. Control(Q, lock'[c], c \in reserved') /\ Q.at # "exclusive"
    BY <1>4, <2>3, <2>4, <2>5, WriterControl
  <2> QED
    BY <1>3, <2>1, <2>2, <2>3, <2>6, Moves
<1> QED
  BY <1>5, <1>6, <1>7 DEF ExclusiveLock

LEMMA Sized ==
  ASSUME NEW n, NEW P \in PagerAt(n), NEW m \in Nat
  PROVE  LET Q == [P EXCEPT !.dbSize = m] IN
         /\ Q \in PagerAt(n) /\ Kin(P, Q) /\ Q.cache = P.cache /\ Q.journalOff = P.journalOff
         /\ Q.dbFileVers = P.dbFileVers /\ Q.dbSize = m
BY DEF PagerAt, Kin

Counted(P) == [P EXCEPT !.at = "count", !.changeCountDone = TRUE]

LEMMA CountedIs ==
  ASSUME NEW n, NEW P \in PagerAt(n)
  PROVE  LET Q == Counted(P) IN
         /\ Q \in PagerAt(n) /\ Q.at = "count" /\ Q.eState = P.eState /\ Q.goal = P.goal
         /\ Q.cache = P.cache /\ Q.journalHdr = P.journalHdr /\ Q.journalOff = P.journalOff
BY DEF PagerAt, Counted, Places

(* A commit goes on to write the number of its records.                    *)
LEMMA ToCount ==
  ASSUME IInv, NEW c \in Conns, pager[c].at = "one", NEW Q \in PagerAt(ntx), Set(c, Q),
         Q.at = "count", Q.goal = "commit", Q.eState = pager[c].eState, Q.eState # "LOCKED",
         1 \in Cached(Q), Q.journalHdr = pager[c].journalHdr, Q.journalOff >= pager[c].journalOff,
         UNCHANGED levels, ntx' = ntx, setting' = setting, FilesAt(ntx)'
  PROVE  IInv'
<1> DEFINE P == pager[c]
<1>1. /\ P.eState \in Writing /\ Acts(P, lock[c], c \in reserved)
      /\ (P.journalHdr <= P.journalOff \/ P.goal = "rollback") /\ P \in PagerAt(ntx)
  BY WriterIs
<1>2. LockStep(c) /\ lock'[c] = lock[c] /\ (c \in reserved' <=> c \in reserved)
  BY Unlocked
<1>3. Acts(Q, lock'[c], c \in reserved')
  BY <1>1, <1>2 DEF Acts, Counts
<1>4. Spills(Q) /\ Q.journalHdr <= Q.journalOff
  <2>1. P.journalHdr <= P.journalOff
    BY <1>1 DEF Acts
  <2>2. P.journalHdr \in Nat /\ P.journalOff \in Nat /\ Q.journalOff \in Nat
    BY <1>1 DEF PagerAt
  <2> QED
    BY <2>1, <2>2 DEF Spills
<1>5. Control(Q, lock'[c], c \in reserved') /\ Q.at # "exclusive"
  BY <1>1, <1>3, <1>4, WriterControl
<1> QED
  BY <1>2, <1>5, Moves

LEMMA CommitPhaseOneStep == ASSUME IInv, NEW c \in Conns, CommitPhaseOne(c) PROVE IInv'
<1> DEFINE O == pager[c]
           m == IF O.bDoTruncate THEN Size(O) ELSE O.dbSize
           P == [O EXCEPT !.dbSize = m]
           s == [P |-> P, f |-> jrnl.slots]
           v == [P.cache[1].val EXCEPT !.ver = ChangeCounter(P)]
           t == pager_write(s, 1, v)
           w == [t EXCEPT !.P = Counted(t.P)]
           K == [P EXCEPT !.at = "count"]
<1>1. O.at = "one" /\ UNCHANGED <<levels, db, ddb, djrnl, counters>>
  BY DEF CommitPhaseOne
<1>2. /\ O.eState \in Writing /\ Acts(O, lock[c], c \in reserved)
      /\ 1 \in Cached(O) /\ (O.journalHdr <= O.journalOff \/ O.goal = "rollback")
      /\ O \in PagerAt(ntx) /\ lock[c] \in 0 .. 4 /\ ntx \in Nat /\ FilesAt(ntx)
  BY <1>1, WriterIs
<1>3. ntx' = ntx /\ setting' = setting
  BY <1>1 DEF counters
<1>4. O.goal = "commit" /\ lock[c] = EXCLUSIVE_LOCK /\ O.dbFileVers.ver < O.tx
  BY <1>1, <1>2 DEF Acts, Counts
<1>5. LockStep(c) /\ lock'[c] = lock[c] /\ (c \in reserved' <=> c \in reserved)
  BY <1>1, Unlocked
<1>6. \/ O.eState = "LOCKED" /\ Goto(c, "release") /\ jrnl' = jrnl
      \/ O.eState # "LOCKED" /\ Set(c, K) /\ jrnl' = jrnl
      \/ O.eState # "LOCKED" /\ Wrote(c, w)
  <2>1. P.eState = O.eState
    OBVIOUS
  <2> QED
    BY <2>1 DEF CommitPhaseOne, Counted
<1> HIDE DEF O
<1>7. /\ P \in PagerAt(ntx) /\ Kin(O, P) /\ P.cache = O.cache /\ P.journalOff = O.journalOff
      /\ P.dbFileVers = O.dbFileVers
  <2>1. m \in Nat
    <3>1. O.dbSize \in Nat
      BY <1>2 DEF PagerAt
    <3>2. Size(O) \in Nat
      BY <1>2, PageIs DEF Size
    <3> QED
      BY <3>1, <3>2
  <2> HIDE DEF m
  <2> QED
    BY <1>2, <2>1, Sized
<1> HIDE DEF P
<1>8. CASE O.eState = "LOCKED" /\ Goto(c, "release") /\ jrnl' = jrnl
  <2> DEFINE Q == [O EXCEPT !.at = "release"]
  <2>1. /\ Q \in PagerAt(ntx) /\ Q.at = "release" /\ Q.eState = O.eState /\ Q.goal = O.goal /\ Q.cache = O.cache
        /\ Q.journalHdr = O.journalHdr /\ Q.journalOff = O.journalOff /\ Q.tx = O.tx /\ Q.dbFileVers = O.dbFileVers
        /\ "release" \in Places \ {"exclusive"}
    <3>1. "release" \in Places \ {"exclusive"}
      BY DEF Places
    <3> QED
      BY <1>2, <3>1, Goes
  <2>2. FilesAt(ntx)'
    BY <1>1, <1>2, <1>3, <1>8 DEF FilesAt
  <2>3. Control(Q, lock'[c], c \in reserved')
    <3> HIDE DEF Q
    <3>1. Acts(Q, lock'[c], c \in reserved')
      BY <1>2, <1>4, <1>5, <1>8, <2>1 DEF Acts, Counts
    <3>2. Spills(Q) /\ 1 \in Cached(Q)
      BY <1>2, <1>4, <2>1 DEF Spills, Cached
    <3> QED
      BY <1>2, <2>1, <3>1, <3>2, WriterControl
  <2> QED
    BY <1>3, <1>5, <1>8, <2>1, <2>2, <2>3, GoesOn DEF O
<1>9. CASE O.eState # "LOCKED" /\ Set(c, K) /\ jrnl' = jrnl
  <2>1. /\ K \in PagerAt(ntx) /\ K.at = "count" /\ K.eState = P.eState /\ K.goal = P.goal
        /\ K.cache = P.cache /\ K.journalHdr = P.journalHdr /\ K.journalOff = P.journalOff
    <3>1. "count" \in Places
      BY DEF Places
    <3> QED
      BY <1>7, <3>1, Goes
  <2> HIDE DEF K
  <2>2. FilesAt(ntx)'
    BY <1>1, <1>2, <1>3, <1>9 DEF FilesAt
  <2>3. 1 \in Cached(K) /\ K.journalOff >= O.journalOff
    BY <1>2, <1>7, <2>1 DEF Cached, PagerAt
  <2> QED
    BY <1>1, <1>3, <1>4, <1>7, <1>9, <2>1, <2>2, <2>3, ToCount DEF O, Kin
<1>10. CASE O.eState # "LOCKED" /\ Wrote(c, w)
  <2>1. s \in PairAt(ntx) /\ s.P = P
    BY <1>2, <1>7 DEF PairAt, FilesAt, JournalAt
  <2>2. v \in ContentAt(ntx) /\ 1 \in 1 .. MaxPage
    <3>1. 1 \in Cached(P)
      BY <1>2, <1>7 DEF Cached
    <3>2. P.cache[1].val \in ContentAt(ntx) /\ 1 \in 1 .. MaxPage
      BY <1>7, <3>1, PageIs
    <3>3. P.dbFileVers.ver \in -1 .. ntx /\ P.dbFileVers.ver < P.tx /\ P.tx \in 0 .. ntx
      BY <1>4, <1>7 DEF PagerAt, Kin, ContentAt
    <3>4. ChangeCounter(P) \in -1 .. ntx
      BY <1>2, <3>3 DEF ChangeCounter
    <3> QED
      BY <3>2, <3>4 DEF ContentAt
  <2> HIDE DEF v
  <2>3. t \in PairAt(ntx) /\ Wider(P, t.P)
    <3> HIDE DEF s
    <3>1. db \in Seq(ContentAt(ntx))
      BY <1>2 DEF FilesAt
    <3>2. t \in PairAt(ntx) /\ Wider(s.P, t.P)
      BY <1>2, <2>1, <2>2, <3>1, PageWritten
    <3> HIDE DEF t
    <3> QED
      BY <2>1, <3>2
  <2> HIDE DEF s, t
  <2>4. t.P \in PagerAt(ntx) /\ t.f \in Seq(SlotsAt(ntx))
    BY <2>3 DEF PairAt
  <2> DEFINE C == Counted(t.P)
  <2>5. /\ C \in PagerAt(ntx) /\ C.at = "count" /\ C.eState = t.P.eState /\ C.goal = t.P.goal
        /\ C.cache = t.P.cache /\ C.journalHdr = t.P.journalHdr /\ C.journalOff = t.P.journalOff
    BY <2>4, CountedIs
  <2>6. w = [t EXCEPT !.P = C]
    OBVIOUS
  <2> HIDE DEF C, w
  <2>7. w.P = C /\ w.f = t.f
    BY <2>3, <2>5, <2>6, PairIs
  <2>8. Set(c, C) /\ jrnl' = [exists |-> TRUE, slots |-> t.f, fresh |-> jrnl.fresh \/ ~jrnl.exists]
    BY <1>10, <2>7 DEF Wrote
  <2>9. FilesAt(ntx)'
    <3>1. jrnl \in JournalAt(ntx)
      BY <1>2 DEF FilesAt
    <3>2. (jrnl.fresh \/ ~jrnl.exists) \in BOOLEAN
      OBVIOUS
    <3>3. jrnl' \in JournalAt(ntx)
      BY <1>2, <2>4, <2>8, <3>1, <3>2, JournalIs
    <3> QED
      BY <1>1, <1>2, <1>3, <3>3 DEF FilesAt
  <2>10. /\ C.eState = O.eState /\ C.goal = "commit" /\ 1 \in Cached(C)
         /\ C.journalHdr = O.journalHdr /\ C.journalOff >= O.journalOff
    BY <1>2, <1>4, <1>7, <2>3, <2>5 DEF Wider, Kin, Cached
  <2> QED
    BY <1>1, <1>3, <1>10, <2>5, <2>8, <2>9, <2>10, ToCount DEF O
<1> QED
  BY <1>6, <1>8, <1>9, <1>10

(* A step of the writer that holds the exclusive lock and keeps its goal.  *)
LEMMA HeaderUp ==
  ASSUME NEW n \in Nat, NEW s \in SlotsAt(n), NEW m \in Nat
  PROVE  [s EXCEPT !.magic = TRUE, !.nRec = m] \in SlotsAt(n)
<1>1. CASE s \in HeaderSlots
  BY <1>1 DEF HeaderSlots, SlotsAt
<1>2. CASE s \in RecordSlots(n)
  <2>1. [s EXCEPT !.magic = TRUE, !.nRec = m] = s
    BY <1>2 DEF RecordSlots
  <2> QED
    BY <2>1
<1>3. CASE s = ZeroSlot \/ s = Garbage
  <2>1. [s EXCEPT !.magic = TRUE, !.nRec = m] = s
    BY <1>3 DEF ZeroSlot, Garbage
  <2> QED
    BY <2>1
<1> QED
  BY <1>1, <1>2, <1>3 DEF SlotsAt

LEMMA ExceptIs ==
  ASSUME NEW S, NEW f \in Seq(S), NEW i, NEW x, i \in 1 .. Len(f) => x \in S
  PROVE  [f EXCEPT ![i] = x] \in Seq(S)
<1>1. Len(f) \in Nat /\ f \in [1 .. Len(f) -> S]
  OBVIOUS
<1>2. [f EXCEPT ![i] = x] \in [1 .. Len(f) -> S]
  BY <1>1
<1> QED
  BY <1>1, <1>2

LEMMA WithoutNextIs ==
  ASSUME NEW n \in Nat, NEW f \in Seq(SlotsAt(n)), NEW P
  PROVE  WithoutNext(f, P) \in Seq(SlotsAt(n))
<1>1. ZeroSlot \in SlotsAt(n)
  BY DEF SlotsAt
<1>2. [f EXCEPT ![P.journalOff + 1] = ZeroSlot] \in Seq(SlotsAt(n))
  BY <1>1, ExceptIs
<1> QED
  BY <1>2 DEF WithoutNext

LEMMA WriteRecordCountStep == ASSUME IInv, NEW c \in Conns, WriteRecordCount(c) PROVE IInv'
<1> DEFINE P == pager[c]
           f == WithoutNext(jrnl.slots, P)
           i == P.journalHdr + 1
           g == [f EXCEPT ![i] = [f[i] EXCEPT !.magic = TRUE, !.nRec = P.nRec]]
           synced == [jrnl EXCEPT !.slots = f, !.fresh = FALSE]
           base == IF fullSync THEN synced ELSE jrnl
           Q == [P EXCEPT !.at = "sync"]
<1>1. P.at = "count" /\ Goto(c, "sync") /\ UNCHANGED <<levels, db, ddb, counters>>
  BY DEF WriteRecordCount
<1>2. /\ P.eState \in Writing /\ Acts(P, lock[c], c \in reserved)
      /\ 1 \in Cached(P) /\ Spills(P) /\ (P.journalHdr <= P.journalOff \/ P.goal = "rollback")
      /\ P \in PagerAt(ntx) /\ ntx \in Nat /\ FilesAt(ntx)
  BY <1>1, WriterIs
<1>3. LockStep(c) /\ lock'[c] = lock[c] /\ (c \in reserved' <=> c \in reserved)
  BY <1>1, Unlocked
<1>4. ntx' = ntx /\ setting' = setting /\ db' = db /\ ddb' = ddb
  BY <1>1 DEF counters
<1>5. \/ UNCHANGED <<jrnl, djrnl>>
      \/ (djrnl' = synced \/ djrnl' = djrnl) /\ jrnl' = [base EXCEPT !.slots = g]
  BY DEF WriteRecordCount
<1> HIDE DEF P
<1>6. f \in Seq(SlotsAt(ntx)) /\ g \in Seq(SlotsAt(ntx)) /\ jrnl \in JournalAt(ntx)
  <2>1. jrnl \in JournalAt(ntx) /\ jrnl.slots \in Seq(SlotsAt(ntx)) /\ P.nRec \in Nat
    BY <1>2 DEF FilesAt, JournalAt, PagerAt
  <2>2. f \in Seq(SlotsAt(ntx))
    BY <1>2, <2>1, WithoutNextIs
  <2> HIDE DEF f, i
  <2>3. i \in 1 .. Len(f) => f[i] \in SlotsAt(ntx)
    BY <2>2
  <2>4. i \in 1 .. Len(f) => [f[i] EXCEPT !.magic = TRUE, !.nRec = P.nRec] \in SlotsAt(ntx)
    BY <1>2, <2>1, <2>3, HeaderUp
  <2>5. g \in Seq(SlotsAt(ntx))
    BY <2>2, <2>4, ExceptIs
  <2> QED
    BY <2>1, <2>2, <2>5
<1> HIDE DEF f, g, i
<1>7. synced \in JournalAt(ntx) /\ base \in JournalAt(ntx)
  BY <1>2, <1>6, JournalIs
<1> HIDE DEF synced, base
<1>8. [base EXCEPT !.slots = g] \in JournalAt(ntx)
  BY <1>6, <1>7 DEF JournalAt
<1>9. FilesAt(ntx)'
  BY <1>2, <1>4, <1>5, <1>7, <1>8 DEF FilesAt
<1>10. "sync" \in Places \ {"exclusive"}
  BY DEF Places
<1>11. Control(Q, lock'[c], c \in reserved')
  <2>1. /\ Q \in PagerAt(ntx) /\ Q.at = "sync" /\ Q.eState = P.eState /\ Q.goal = P.goal
        /\ Q.cache = P.cache /\ Q.journalHdr = P.journalHdr /\ Q.journalOff = P.journalOff
        /\ Q.tx = P.tx /\ Q.k = P.k /\ Q.dbFileVers = P.dbFileVers
    BY <1>2, <1>10, Goes
  <2> HIDE DEF Q
  <2>2. Acts(Q, lock'[c], c \in reserved')
    BY <1>1, <1>2, <1>3, <2>1 DEF Acts, Counts
  <2>3. Spills(Q) /\ 1 \in Cached(Q)
    BY <1>1, <1>2, <2>1 DEF Spills, Cached
  <2> QED
    BY <1>2, <2>1, <2>2, <2>3, WriterControl
<1> QED
  BY <1>1, <1>3, <1>4, <1>9, <1>10, <1>11, GoesOn DEF P

(* The pager whose journal is synced.                                      *)
Unneeded(P) == [p \in Cached(P) |-> [P.cache[p] EXCEPT !.needSync = FALSE]]

LEMMA UnneededIs ==
  ASSUME NEW n, NEW P \in PagerAt(n)
  PROVE  Unneeded(P) \in CacheAt(n) /\ DOMAIN Unneeded(P) = Cached(P)
<1>1. P.cache \in CacheAt(n)
  BY DEF PagerAt
<1>2. Cached(P) \subseteq 1 .. MaxPage /\ \A q \in Cached(P) : P.cache[q] \in EntryAt(n)
  BY <1>1, CacheIs DEF Cached
<1>3. \A q \in Cached(P) : [P.cache[q] EXCEPT !.needSync = FALSE] \in EntryAt(n)
  BY <1>2 DEF EntryAt
<1>4. Unneeded(P) \in [Cached(P) -> EntryAt(n)]
  BY <1>3 DEF Unneeded
<1> QED
  BY <1>2, <1>4, MakeCache

Writes(P, where) == [P EXCEPT !.eState = "DBMOD", !.at = where, !.cache = Unneeded(P)]

LEMMA WritesIs ==
  ASSUME NEW n, NEW P \in PagerAt(n), NEW where \in Places
  PROVE  LET Q == Writes(P, where) IN
         /\ Q \in PagerAt(n) /\ Q.eState = "DBMOD" /\ Q.at = where /\ Q.goal = P.goal
         /\ Cached(Q) = Cached(P) /\ Q.journalHdr = P.journalHdr /\ Q.journalOff = P.journalOff
         /\ Q.tx = P.tx /\ Q.k = P.k /\ Q.dbFileVers = P.dbFileVers
<1>1. Unneeded(P) \in CacheAt(n) /\ DOMAIN Unneeded(P) = Cached(P)
  BY UnneededIs
<1> QED
  BY <1>1 DEF PagerAt, Writes, States, Cached

LEMMA NoRecords ==
  ASSUME NEW n, NEW P \in PagerAt(n)
  PROVE  LET Q == [P EXCEPT !.nRec = 0] IN
         /\ Q \in PagerAt(n) /\ Q.eState = P.eState /\ Q.at = P.at /\ Q.goal = P.goal
         /\ Q.cache = P.cache /\ Q.journalHdr = P.journalHdr /\ Q.journalOff = P.journalOff
         /\ Q.tx = P.tx /\ Q.k = P.k /\ Q.dbFileVers = P.dbFileVers
BY DEF PagerAt

LEMMA NextHeader ==
  ASSUME NEW n, NEW P \in PagerAt(n)
  PROVE  LET Q == [P EXCEPT !.journalHdr = P.journalOff] IN
         /\ Q \in PagerAt(n) /\ Q.eState = P.eState /\ Q.at = P.at /\ Q.goal = P.goal
         /\ Q.cache = P.cache /\ Q.journalHdr = P.journalOff /\ Q.journalOff = P.journalOff
         /\ Q.tx = P.tx /\ Q.k = P.k /\ Q.dbFileVers = P.dbFileVers
BY DEF PagerAt

LEMMA PairNoRecords ==
  ASSUME NEW P, NEW f
  PROVE  [[P |-> P, f |-> f] EXCEPT !.P.nRec = 0] = [P |-> [P EXCEPT !.nRec = 0], f |-> f]
OBVIOUS

LEMMA SyncJournalStep == ASSUME IInv, NEW c \in Conns, SyncJournal(c) PROVE IInv'
<1> DEFINE P == pager[c]
           where == IF P.goal = "spill" THEN "pageout" ELSE "pages"
           Q == Writes(P, where)
           R == [Q EXCEPT !.journalHdr = Q.journalOff]
           s == [P |-> R, f |-> jrnl.slots]
           u == [P |-> [R EXCEPT !.nRec = 0], f |-> jrnl.slots]
           t == writeJournalHdr(u)
           W(X) == /\ X \in PagerAt(ntx) /\ X.eState = "DBMOD" /\ X.at = where /\ X.goal = P.goal
                   /\ Cached(X) = Cached(P) /\ X.tx = P.tx /\ X.k = P.k /\ X.dbFileVers = P.dbFileVers
                   /\ X.journalHdr <= X.journalOff
<1>1. P.at = "sync" /\ UNCHANGED <<levels, db, ddb, counters>>
  BY DEF SyncJournal
<1>2. /\ P.eState \in Writing /\ Acts(P, lock[c], c \in reserved)
      /\ 1 \in Cached(P) /\ Spills(P) /\ (P.journalHdr <= P.journalOff \/ P.goal = "rollback")
      /\ P \in PagerAt(ntx) /\ ntx \in Nat /\ FilesAt(ntx)
  BY <1>1, WriterIs
<1>3. LockStep(c) /\ lock'[c] = lock[c] /\ (c \in reserved' <=> c \in reserved)
  BY <1>1, Unlocked
<1>4. ntx' = ntx /\ setting' = setting /\ db' = db /\ ddb' = ddb
  BY <1>1 DEF counters
<1>5. \/ Set(c, Q) /\ UNCHANGED <<jrnl, djrnl>>
      \/ /\ djrnl' = SyncedJournal
         /\ \/ Set(c, t.P) /\ jrnl' = [jrnl EXCEPT !.fresh = FALSE, !.slots = t.f]
            \/ Set(c, R) /\ jrnl' = [jrnl EXCEPT !.fresh = FALSE, !.slots = jrnl.slots]
  <2>1. [s EXCEPT !.P.nRec = 0] = u
    BY PairNoRecords
  <2>2. t = writeJournalHdr([s EXCEPT !.P.nRec = 0])
    BY <2>1
  <2>3. s.P = R
    OBVIOUS
  <2> HIDE DEF t
  <2> QED
    BY <2>2, <2>3 DEF SyncJournal, Writes, Unneeded
<1> HIDE DEF P
<1>6. /\ P.goal \in {"spill", "commit"} /\ where \in Places \ {"exclusive"}
      /\ ((where = "pageout" /\ P.goal = "spill") \/ (where = "pages" /\ P.goal = "commit"))
      /\ P.journalHdr <= P.journalOff /\ lock[c] = EXCLUSIVE_LOCK /\ c \in reserved
  <2>1. /\ P.goal \in {"spill", "commit"} /\ P.eState # "LOCKED"
        /\ lock[c] = EXCLUSIVE_LOCK /\ c \in reserved
    BY <1>1, <1>2 DEF Acts
  <2>2. P.journalHdr <= P.journalOff
    BY <1>2, <2>1
  <2>3. /\ where \in Places \ {"exclusive"}
        /\ ((where = "pageout" /\ P.goal = "spill") \/ (where = "pages" /\ P.goal = "commit"))
    <3>1. "pageout" \in Places \ {"exclusive"} /\ "pages" \in Places \ {"exclusive"}
      BY DEF Places
    <3>2. CASE P.goal = "spill"
      BY <3>1, <3>2
    <3>3. CASE P.goal = "commit"
      BY <3>1, <3>3
    <3> QED
      BY <2>1, <3>2, <3>3
  <2> QED
    BY <2>1, <2>2, <2>3
<1> HIDE DEF where
<1>7. W(Q)
  <2>1. where \in Places
    BY <1>6
  <2> QED
    BY <1>2, <1>6, <2>1, WritesIs
<1> HIDE DEF Q
<1>8. W(R) /\ R.journalOff = Q.journalOff
  <2>1. Q \in PagerAt(ntx) /\ Q.journalOff \in Nat
    BY <1>7 DEF PagerAt
  <2>2. /\ R \in PagerAt(ntx) /\ R.eState = Q.eState /\ R.at = Q.at /\ R.goal = Q.goal
        /\ R.cache = Q.cache /\ R.journalHdr = Q.journalOff /\ R.journalOff = Q.journalOff
        /\ R.tx = Q.tx /\ R.k = Q.k /\ R.dbFileVers = Q.dbFileVers
    BY <2>1, NextHeader
  <2> HIDE DEF R
  <2> QED
    BY <1>7, <2>1, <2>2 DEF Cached
<1> HIDE DEF R, s
<1>9. t \in PairAt(ntx) /\ W(t.P)
  <2> DEFINE N == [R EXCEPT !.nRec = 0]
  <2>1. R \in PagerAt(ntx) /\ jrnl.slots \in Seq(SlotsAt(ntx))
    BY <1>2, <1>8 DEF FilesAt, JournalAt
  <2>2. /\ N \in PagerAt(ntx) /\ N.eState = R.eState /\ N.at = R.at /\ N.goal = R.goal
        /\ N.cache = R.cache /\ N.journalHdr = R.journalHdr /\ N.journalOff = R.journalOff
        /\ N.tx = R.tx /\ N.k = R.k /\ N.dbFileVers = R.dbFileVers
    BY <2>1, NoRecords
  <2>a. u = [P |-> N, f |-> jrnl.slots]
    OBVIOUS
  <2> HIDE DEF N, u
  <2>3. u \in PairAt(ntx) /\ u.P = N
    BY <2>1, <2>2, <2>a DEF PairAt
  <2>4. /\ t \in PairAt(ntx) /\ t.P.journalHdr = u.P.journalOff
        /\ t.P.journalOff = u.P.journalOff + 1
        /\ t.P.eState = u.P.eState /\ t.P.at = u.P.at /\ t.P.goal = u.P.goal
        /\ t.P.tx = u.P.tx /\ t.P.k = u.P.k /\ t.P.cache = u.P.cache
        /\ t.P.dbFileVers = u.P.dbFileVers
    BY <1>2, <2>3, HeaderWritten
  <2> HIDE DEF t
  <2>5. t.P \in PagerAt(ntx) /\ u.P.journalOff \in Nat
    BY <2>2, <2>3, <2>4 DEF PairAt, PagerAt
  <2>6. t.P.journalHdr <= t.P.journalOff
    BY <2>4, <2>5
  <2> QED
    BY <1>8, <2>2, <2>3, <2>4, <2>5, <2>6 DEF Cached
<1> HIDE DEF t
<1>10. FilesAt(ntx)'
  <2>1. t.f \in Seq(SlotsAt(ntx)) /\ jrnl \in JournalAt(ntx) /\ jrnl.slots \in Seq(SlotsAt(ntx))
    BY <1>2, <1>9 DEF PairAt, FilesAt, JournalAt
  <2>2. /\ [jrnl EXCEPT !.fresh = FALSE, !.slots = t.f] \in JournalAt(ntx)
        /\ [jrnl EXCEPT !.fresh = FALSE, !.slots = jrnl.slots] \in JournalAt(ntx)
        /\ SyncedJournal \in JournalAt(ntx)
    BY <1>2, <2>1, JournalIs DEF SyncedJournal
  <2> QED
    BY <1>2, <1>4, <1>5, <2>2 DEF FilesAt
<1>11. ASSUME NEW X, W(X), Set(c, X)
       PROVE  IInv'
  <2>1. Acts(X, lock'[c], c \in reserved')
    BY <1>2, <1>3, <1>6, <1>11, <1>1 DEF Acts, Counts, EXCLUSIVE_LOCK, RESERVED_LOCK
  <2>2. Spills(X) /\ 1 \in Cached(X) /\ X.eState \in Writing
    BY <1>1, <1>2, <1>6, <1>11 DEF Spills, Writing
  <2>3. Control(X, lock'[c], c \in reserved') /\ X.at # "exclusive"
    BY <1>6, <1>11, <2>1, <2>2, WriterControl
  <2> QED
    BY <1>3, <1>4, <1>10, <1>11, <2>3, Moves
<1> HIDE DEF W
<1> QED
  BY <1>5, <1>7, <1>8, <1>9, <1>11

-----------------------------------------------------------------------------
(* Writing the database file.                                              *)
LEMMA LeastNumber ==
  ASSUME NEW T \in SUBSET Nat, T # {}
  PROVE  \E x \in T : \A y \in T : x <= y
<1> DEFINE R == OpToRel(<, Nat)
<1>1. IsWellFoundedOn(R, Nat)
  BY NatLessThanWellFounded
<1>2. \A x, y \in Nat : <<y, x>> \in R <=> y < x
  BY DEF OpToRel
<1> HIDE DEF R
<1>3. PICK x \in T : \A y \in T : ~ (<<y, x>> \in R)
  BY <1>1, WFMin
<1>4. \A y \in T : ~ (y < x)
  BY <1>2, <1>3
<1> QED
  BY <1>4

LEMMA Write1Is ==
  ASSUME NEW n, NEW P \in PagerAt(n), NEW p \in Nat, p = 1 => 1 \in Cached(P)
  PROVE  LET Q == Write1(P, p) IN
         /\ Q \in PagerAt(n) /\ Kin(P, Q) /\ Q.cache = P.cache /\ Q.journalOff = P.journalOff
         /\ p # 1 => Q.dbFileVers = P.dbFileVers
<1> DEFINE m == IF P.dbFileSize < p THEN p ELSE P.dbFileSize
           v == IF p = 1 THEN P.cache[1].val ELSE P.dbFileVers
<1>1. m \in Nat /\ P.dbFileVers \in ContentAt(n)
  BY DEF PagerAt
<1>2. v \in ContentAt(n) /\ (p # 1 => v = P.dbFileVers)
  BY <1>1, PageIs
<1>3. Write1(P, p) = [P EXCEPT !.dbFileSize = m, !.dbFileVers = v]
  BY DEF Write1
<1> HIDE DEF m, v
<1> QED
  BY <1>1, <1>2, <1>3 DEF PagerAt, Kin

LEMMA OutIs ==
  ASSUME NEW n, NEW P \in PagerAt(n)
  PROVE  LET Q == [P EXCEPT !.at = "idle", !.goal = "none", !.k = 0] IN
         /\ Q \in PagerAt(n) /\ Q.at = "idle" /\ Q.goal = "none"
         /\ Q.eState = P.eState /\ Q.cache = P.cache
         /\ Q.journalHdr = P.journalHdr /\ Q.journalOff = P.journalOff
         /\ Q.tx = P.tx /\ Q.dbFileVers = P.dbFileVers
BY DEF PagerAt, Places, Goals

LEMMA PageOutStep == ASSUME IInv, NEW c \in Conns, PageOut(c) PROVE IInv'
<1> DEFINE P == pager[c]
           k == P.k
           R == Keep(P, Cached(P) \ {k})
           Q == [R EXCEPT !.at = "idle", !.goal = "none", !.k = 0]
           S == Write1(Q, k)
           W(X) == /\ X \in PagerAt(ntx) /\ X.at = "idle" /\ X.goal = "none"
                   /\ X.eState = P.eState /\ 1 \in Cached(X)
                   /\ X.journalHdr = P.journalHdr /\ X.journalOff = P.journalOff
                   /\ X.tx = P.tx /\ X.dbFileVers = P.dbFileVers
<1>1. P.at = "pageout" /\ UNCHANGED <<levels, jrnl, ddb, djrnl, counters>>
  BY DEF PageOut
<1>2. /\ P.eState \in Writing /\ Acts(P, lock[c], c \in reserved)
      /\ 1 \in Cached(P) /\ Spills(P) /\ (P.journalHdr <= P.journalOff \/ P.goal = "rollback")
      /\ P \in PagerAt(ntx) /\ ntx \in Nat /\ FilesAt(ntx)
  BY <1>1, WriterIs
<1>3. LockStep(c) /\ lock'[c] = lock[c] /\ (c \in reserved' <=> c \in reserved)
  BY <1>1, Unlocked
<1>4. ntx' = ntx /\ setting' = setting
  BY <1>1 DEF counters
<1>5. \/ db' = WritePage(db, k, P.cache[k].val) /\ Set(c, S)
      \/ db' = db /\ Set(c, Q)
  BY DEF PageOut
<1> HIDE DEF P
<1>6. /\ P.goal = "spill" /\ P.eState = "DBMOD" /\ P.dbFileVers.ver < P.tx
      /\ k \in Cached(P) /\ k # 1 /\ P.journalHdr <= P.journalOff
  <2>1. P.goal = "spill" /\ P.eState = "DBMOD" /\ P.dbFileVers.ver < P.tx
    BY <1>1, <1>2 DEF Acts, Counts
  <2> QED
    BY <1>1, <1>2, <2>1 DEF Spills
<1>7. k \in 1 .. MaxPage /\ P.cache[k].val \in ContentAt(ntx) /\ k \in Nat
  BY <1>2, <1>6, PageIs, PagerAssumption
<1> HIDE DEF k
<1>8. /\ R \in PagerAt(ntx) /\ Kin(P, R) /\ Cached(R) = Cached(P) \cap (Cached(P) \ {k})
      /\ R.journalOff = P.journalOff /\ R.dbFileVers = P.dbFileVers
  BY <1>2, KeepIs
<1> HIDE DEF R
<1>9. /\ Q \in PagerAt(ntx) /\ Q.at = "idle" /\ Q.goal = "none"
      /\ Q.eState = R.eState /\ Q.cache = R.cache
      /\ Q.journalHdr = R.journalHdr /\ Q.journalOff = R.journalOff
      /\ Q.tx = R.tx /\ Q.dbFileVers = R.dbFileVers
  BY <1>8, OutIs
<1> HIDE DEF Q
<1>10. W(Q)
  <2>1. 1 \in Cached(Q)
    BY <1>2, <1>6, <1>8, <1>9 DEF Cached
  <2> QED
    BY <1>8, <1>9, <2>1 DEF Kin
<1>11. W(S)
  <2>1. /\ S \in PagerAt(ntx) /\ Kin(Q, S) /\ S.cache = Q.cache /\ S.journalOff = Q.journalOff
        /\ k # 1 => S.dbFileVers = Q.dbFileVers
    BY <1>6, <1>7, <1>9, Write1Is
  <2> HIDE DEF S
  <2> QED
    BY <1>6, <1>10, <2>1 DEF Kin, Cached
<1> HIDE DEF S
<1>12. FilesAt(ntx)'
  <2>1. WritePage(db, k, P.cache[k].val) \in Seq(ContentAt(ntx))
    BY <1>2, <1>7, WritePageIs DEF FilesAt
  <2> QED
    BY <1>1, <1>2, <1>4, <1>5, <2>1 DEF FilesAt
<1>13. ASSUME NEW X, W(X), Set(c, X)
       PROVE  IInv'
  <2>1. Acts(X, lock'[c], c \in reserved')
    BY <1>2, <1>3, <1>6, <1>13 DEF Acts, Counts
  <2>2. Spills(X) /\ 1 \in Cached(X) /\ X.eState \in Writing
    BY <1>2, <1>13 DEF Spills
  <2>3. Control(X, lock'[c], c \in reserved') /\ X.at # "exclusive"
    BY <1>6, <1>13, <2>1, <2>2, WriterControl
  <2> QED
    BY <1>3, <1>4, <1>12, <1>13, <2>3, Moves
<1> HIDE DEF W
<1> QED
  BY <1>5, <1>10, <1>11, <1>13

(* The first dirty page.                                                   *)
LEMMA FirstDirty ==
  ASSUME NEW n, NEW P \in PagerAt(n), Dirty(P) # {}
  PROVE  LET p == CHOOSE q \in Dirty(P) : \A r \in Dirty(P) : q <= r IN p \in Cached(P)
<1>1. Dirty(P) \in SUBSET Nat /\ Dirty(P) \subseteq Cached(P)
  BY PageIs, PagerAssumption DEF Dirty
<1>2. \E q \in Dirty(P) : \A r \in Dirty(P) : q <= r
  BY <1>1, LeastNumber
<1> QED
  BY <1>1, <1>2

LEMMA Unmarked ==
  ASSUME NEW n, NEW P \in PagerAt(n), NEW p \in Cached(P)
  PROVE  LET Q == [P EXCEPT !.cache[p].dirty = FALSE] IN
         /\ Q \in PagerAt(n) /\ Kin(P, Q) /\ Cached(Q) = Cached(P)
         /\ Q.journalOff = P.journalOff /\ Q.dbFileVers = P.dbFileVers
<1> DEFINE e == [P.cache[p] EXCEPT !.dirty = FALSE]
<1>1. P.cache[p] \in EntryAt(n)
  BY PageIs
<1>2. e \in EntryAt(n)
  BY <1>1 DEF EntryAt
<1> DEFINE Q == [P EXCEPT !.cache[p].dirty = FALSE]
<1>3. Q = Enter(P, p, e)
  BY DEF PagerAt, Enter
<1> HIDE DEF e, Q
<1>4. /\ Q \in PagerAt(n) /\ Kin(P, Q) /\ Cached(Q) = Cached(P)
      /\ Q.journalOff = P.journalOff /\ Q.dbFileVers = P.dbFileVers
  BY <1>2, <1>3, EntryIs
<1> QED
  BY <1>4 DEF Q

LEMMA WriteDirtyPageStep == ASSUME IInv, NEW c \in Conns, WriteDirtyPage(c) PROVE IInv'
<1> DEFINE P == pager[c]
           p == CHOOSE q \in Dirty(P) : \A r \in Dirty(P) : q <= r
           R == [P EXCEPT !.cache[p].dirty = FALSE]
           Q == Write1(R, p)
<1>1. /\ P.at = "pages" /\ Dirty(P) # {} /\ UNCHANGED <<levels, jrnl, ddb, djrnl, counters>>
      /\ db' = WritePage(db, p, P.cache[p].val) /\ Set(c, Q)
  BY DEF WriteDirtyPage
<1>2. /\ P.eState \in Writing /\ Acts(P, lock[c], c \in reserved)
      /\ 1 \in Cached(P) /\ (P.journalHdr <= P.journalOff \/ P.goal = "rollback")
      /\ P \in PagerAt(ntx) /\ ntx \in Nat /\ FilesAt(ntx)
  BY <1>1, WriterIs
<1>3. LockStep(c) /\ lock'[c] = lock[c] /\ (c \in reserved' <=> c \in reserved)
  BY <1>1, Unlocked
<1>4. ntx' = ntx /\ setting' = setting
  BY <1>1 DEF counters
<1> HIDE DEF P
<1>5. P.goal = "commit" /\ P.eState = "DBMOD" /\ P.journalHdr <= P.journalOff
  <2>1. P.goal = "commit" /\ P.eState = "DBMOD"
    BY <1>1, <1>2 DEF Acts
  <2> QED
    BY <1>2, <2>1
<1>6. p \in Cached(P)
  BY <1>1, <1>2, FirstDirty
<1> HIDE DEF p
<1>7. p \in 1 .. MaxPage /\ P.cache[p].val \in ContentAt(ntx) /\ p \in Nat
  BY <1>2, <1>6, PageIs, PagerAssumption
<1>8. /\ R \in PagerAt(ntx) /\ Kin(P, R) /\ Cached(R) = Cached(P)
      /\ R.journalOff = P.journalOff
  BY <1>2, <1>6, Unmarked
<1> HIDE DEF R
<1>9. Q \in PagerAt(ntx) /\ Kin(R, Q) /\ Q.cache = R.cache /\ Q.journalOff = R.journalOff
  BY <1>2, <1>7, <1>8, Write1Is
<1> HIDE DEF Q
<1>10. FilesAt(ntx)'
  <2>1. WritePage(db, p, P.cache[p].val) \in Seq(ContentAt(ntx))
    BY <1>2, <1>7, WritePageIs DEF FilesAt
  <2> QED
    BY <1>1, <1>2, <1>4, <2>1 DEF FilesAt
<1>11. /\ Q.at = "pages" /\ Q.goal = "commit" /\ Q.eState = "DBMOD" /\ 1 \in Cached(Q)
       /\ Q.journalHdr <= Q.journalOff
  BY <1>1, <1>2, <1>5, <1>8, <1>9 DEF Kin, Cached
<1>12. Acts(Q, lock'[c], c \in reserved')
  BY <1>2, <1>3, <1>5, <1>11 DEF Acts, Counts
<1>13. Control(Q, lock'[c], c \in reserved') /\ Q.at # "exclusive"
  BY <1>2, <1>5, <1>11, <1>12, WriterControl DEF Spills
<1> QED
  BY <1>1, <1>3, <1>4, <1>9, <1>10, <1>13, Moves

LEMMA DoneIs ==
  ASSUME NEW n, NEW P \in PagerAt(n)
  PROVE  LET Q == [P EXCEPT !.eState = "FINISHED", !.at = "finish",
                            !.dbFileSize = IF @ < P.dbSize THEN P.dbSize ELSE @]
         IN  /\ Q \in PagerAt(n) /\ Q.eState = "FINISHED" /\ Q.at = "finish" /\ Q.goal = P.goal
             /\ Q.cache = P.cache /\ Q.journalHdr = P.journalHdr /\ Q.journalOff = P.journalOff
<1> DEFINE m == IF P.dbFileSize < P.dbSize THEN P.dbSize ELSE P.dbFileSize
<1>1. m \in Nat
  BY DEF PagerAt
<1> HIDE DEF m
<1>2. LET Q == [P EXCEPT !.eState = "FINISHED", !.at = "finish", !.dbFileSize = m]
      IN  /\ Q \in PagerAt(n) /\ Q.eState = "FINISHED" /\ Q.at = "finish" /\ Q.goal = P.goal
          /\ Q.cache = P.cache /\ Q.journalHdr = P.journalHdr /\ Q.journalOff = P.journalOff
  BY <1>1 DEF PagerAt, States, Places
<1> QED
  BY <1>2 DEF m

LEMMA FinishedControl ==
  ASSUME NEW P, NEW l, NEW r, P.eState = "FINISHED", P.at \in {"finish", "release"}, P.goal = "commit",
         l = EXCLUSIVE_LOCK, 1 \in Cached(P), P.journalHdr <= P.journalOff
  PROVE  Control(P, l, r)
BY DEF Control, Spills, Writing

LEMMA SyncDbStep == ASSUME IInv, NEW c \in Conns, SyncDb(c) PROVE IInv'
<1> DEFINE P == pager[c]
           d == IF P.dbSize > P.dbFileSize THEN Resize(db, P.dbSize) ELSE db
           R == Clean(P)
           Q == [R EXCEPT !.eState = "FINISHED", !.at = "finish",
                          !.dbFileSize = IF @ < R.dbSize THEN R.dbSize ELSE @]
<1>1. /\ P.at = "pages" /\ UNCHANGED <<levels, jrnl, djrnl, counters>>
      /\ db' = d /\ (ddb' = ddb \/ ddb' = d)
  BY DEF SyncDb
<1>2. /\ P.eState \in Writing /\ Acts(P, lock[c], c \in reserved)
      /\ 1 \in Cached(P) /\ (P.journalHdr <= P.journalOff \/ P.goal = "rollback")
      /\ P \in PagerAt(ntx) /\ ntx \in Nat /\ FilesAt(ntx)
  BY <1>1, WriterIs
<1>3. LockStep(c) /\ lock'[c] = lock[c] /\ (c \in reserved' <=> c \in reserved)
  BY <1>1, Unlocked
<1>4. ntx' = ntx /\ setting' = setting
  BY <1>1 DEF counters
<1>5. /\ R \in PagerAt(ntx) /\ Kin(P, R) /\ Cached(R) = Cached(P)
      /\ R.journalOff = P.journalOff /\ R.dbSize = P.dbSize
  BY <1>2, CleanIs
<1>6. Set(c, Q)
  BY <1>5 DEF SyncDb
<1> HIDE DEF P, R
<1>7. P.goal = "commit" /\ P.journalHdr <= P.journalOff /\ lock[c] = EXCLUSIVE_LOCK
  <2>1. P.goal = "commit" /\ lock[c] = EXCLUSIVE_LOCK
    BY <1>1, <1>2 DEF Acts
  <2> QED
    BY <1>2, <2>1
<1>8. /\ Q \in PagerAt(ntx) /\ Q.eState = "FINISHED" /\ Q.at = "finish" /\ Q.goal = R.goal
      /\ Q.cache = R.cache /\ Q.journalHdr = R.journalHdr /\ Q.journalOff = R.journalOff
  BY <1>5, DoneIs
<1> HIDE DEF Q
<1>9. d \in Seq(ContentAt(ntx))
  <2>1. db \in Seq(ContentAt(ntx)) /\ P.dbSize \in Nat
    BY <1>2 DEF FilesAt, PagerAt
  <2>2. Resize(db, P.dbSize) \in Seq(ContentAt(ntx))
    BY <1>2, <2>1, ResizeIs
  <2> QED
    BY <2>1, <2>2
<1> HIDE DEF d
<1>10. FilesAt(ntx)'
  BY <1>1, <1>2, <1>4, <1>9 DEF FilesAt
<1>11. Control(Q, lock'[c], c \in reserved') /\ Q.at # "exclusive"
  <2>1. Q.goal = "commit" /\ 1 \in Cached(Q) /\ Q.journalHdr <= Q.journalOff
    BY <1>2, <1>5, <1>7, <1>8 DEF Kin, Cached
  <2> QED
    BY <1>3, <1>7, <1>8, <2>1, FinishedControl
<1> QED
  BY <1>3, <1>4, <1>6, <1>8, <1>10, <1>11, Moves

-----------------------------------------------------------------------------
(* The slots that are played back are records.                             *)
Records(f) == { i \in 1 .. Len(f) : f[i].kind = "record" }
Fits(f, o, n) == { k \in 0 .. n : \A i \in 1 .. k : Belongs(f, o + 1 + i, o) }
From(f, own, g, o) ==
  IF ~readJournalHdr(f, o, own) THEN <<>>
  ELSE LET n == RecordCount(f, o, own)
           good == Fits(f, o, n)
       IN IF n \in good
          THEN [i \in 1 .. n |-> o + 1 + i] \o g[o + 1 + n]
          ELSE [i \in 1 .. CHOOSE k \in good : k + 1 \notin good |-> o + 1 + i]
IsFrom(f, own, m, g) == g = [o \in Len(f) - m .. Len(f) |-> From(f, own, g, o)]

LEMMA RecordCountIs ==
  ASSUME NEW n, NEW f \in Seq(SlotsAt(n)), NEW own, NEW o \in 0 .. Len(f), readJournalHdr(f, o, own)
  PROVE  RecordCount(f, o, own) \in Nat /\ o + 1 <= Len(f)
<1>1. o + 1 <= Len(f) /\ f[o + 1].kind = "header" /\ o + 1 \in 1 .. Len(f)
  BY DEF readJournalHdr, IsHeader
<1>2. f[o + 1].nRec \in Nat \cup {ALL}
  BY <1>1, SlotIs DEF HeaderSlots
<1>3. Len(f) - (o + 1) \in Nat
  BY <1>1
<1> QED
  BY <1>1, <1>2, <1>3 DEF RecordCount

LEMMA FitsIn ==
  ASSUME NEW n, NEW f \in Seq(SlotsAt(n)), NEW o \in 0 .. Len(f), NEW m \in Nat, NEW k \in Fits(f, o, m)
  PROVE  /\ k \in 0 .. m /\ [i \in 1 .. k |-> o + 1 + i] \in Seq(Records(f))
         /\ o + 1 <= Len(f) => o + 1 + k \in o + 1 .. Len(f)
<1>1. k \in 0 .. m /\ \A i \in 1 .. k : Belongs(f, o + 1 + i, o)
  BY DEF Fits
<1>2. ASSUME NEW i \in 1 .. k
      PROVE  o + 1 + i \in Records(f)
  <2>1. Belongs(f, o + 1 + i, o)
    BY <1>1
  <2>2. o \in Nat /\ i \in Nat /\ Len(f) \in Nat /\ i >= 1
    BY <1>1
  <2>3. o + 1 + i <= Len(f) /\ f[o + 1 + i].kind = "record"
    BY <2>1 DEF Belongs
  <2>4. o + 1 + i \in 1 .. Len(f)
    BY <2>2, <2>3
  <2> QED
    BY <2>3, <2>4 DEF Records
<1>3. [i \in 1 .. k |-> o + 1 + i] \in [1 .. k -> Records(f)]
  BY <1>2
<1>4. ASSUME o + 1 <= Len(f)
      PROVE  o + 1 + k \in o + 1 .. Len(f)
  <2>1. CASE k = 0
    BY <1>4, <2>1
  <2>2. CASE k # 0
    <3>1. k \in 1 .. k /\ k \in Nat /\ o \in Nat
      BY <1>1, <2>2
    <3>2. o + 1 + k \in Records(f)
      BY <1>2, <3>1
    <3>3. o + 1 + k \in 1 .. Len(f)
      BY <3>2 DEF Records
    <3> QED
      BY <3>1, <3>3
  <2> QED
    BY <2>1, <2>2
<1>5. k \in Nat
  BY <1>1
<1> DEFINE h == [i \in 1 .. k |-> o + 1 + i]
<1>6. h \in Seq(Records(f))
  <2>1. h \in [1 .. k -> Records(f)]
    BY <1>3
  <2> HIDE DEF h
  <2> QED
    BY <1>5, <2>1
<1> QED
  BY <1>1, <1>4, <1>6

LEMMA LastFit ==
  ASSUME NEW n, NEW f \in Seq(SlotsAt(n)), NEW o \in 0 .. Len(f), NEW m \in Nat, m \notin Fits(f, o, m)
  PROVE  (CHOOSE k \in Fits(f, o, m) : k + 1 \notin Fits(f, o, m)) \in Fits(f, o, m)
<1> DEFINE T == { k \in Nat : k \notin Fits(f, o, m) }
<1>1. T \in SUBSET Nat /\ T # {}
  OBVIOUS
<1>2. PICK x \in T : \A y \in T : x <= y
  BY <1>1, LeastNumber
<1>3. x # 0
  <2>1. 0 \in Fits(f, o, m)
    BY DEF Fits
  <2> QED
    BY <1>2, <2>1
<1>4. x - 1 \in Fits(f, o, m)
  BY <1>2, <1>3
<1>5. (x - 1) + 1 \notin Fits(f, o, m)
  BY <1>2
<1> QED
  BY <1>4, <1>5

LEMMA FromIs ==
  ASSUME NEW n, NEW f \in Seq(SlotsAt(n)), NEW own, NEW o \in 0 .. Len(f), NEW g,
         \A q \in o + 1 .. Len(f) : g[q] \in Seq(Records(f))
  PROVE  From(f, own, g, o) \in Seq(Records(f))
<1> DEFINE m == RecordCount(f, o, own)
           good == Fits(f, o, m)
           k == CHOOSE j \in good : j + 1 \notin good
<1>1. CASE ~readJournalHdr(f, o, own)
  BY <1>1 DEF From
<1>2. CASE readJournalHdr(f, o, own) /\ m \in good
  <2>1. m \in Nat /\ o + 1 <= Len(f)
    BY <1>2, RecordCountIs
  <2>2. From(f, own, g, o) = [i \in 1 .. m |-> o + 1 + i] \o g[o + 1 + m]
    BY <1>2 DEF From
  <2> HIDE DEF m
  <2>3. [i \in 1 .. m |-> o + 1 + i] \in Seq(Records(f)) /\ o + 1 + m \in o + 1 .. Len(f)
    BY <1>2, <2>1, FitsIn
  <2>4. g[o + 1 + m] \in Seq(Records(f))
    BY <2>3
  <2> QED
    BY <2>2, <2>3, <2>4
<1>3. CASE readJournalHdr(f, o, own) /\ m \notin good
  <2>1. m \in Nat /\ o + 1 <= Len(f)
    BY <1>3, RecordCountIs
  <2>2. From(f, own, g, o) = [i \in 1 .. k |-> o + 1 + i]
    BY <1>3 DEF From
  <2> HIDE DEF m
  <2>3. k \in good
    BY <1>3, <2>1, LastFit
  <2> HIDE DEF k
  <2>4. [i \in 1 .. k |-> o + 1 + i] \in Seq(Records(f))
    BY <2>1, <2>3, FitsIn
  <2> QED
    BY <2>2, <2>4
<1> QED
  BY <1>1, <1>2, <1>3

LEMMA FromSame ==
  ASSUME NEW n, NEW f \in Seq(SlotsAt(n)), NEW own, NEW o \in 0 .. Len(f), NEW g, NEW h,
         \A q \in o + 1 .. Len(f) : g[q] = h[q]
  PROVE  From(f, own, g, o) = From(f, own, h, o)
<1> DEFINE m == RecordCount(f, o, own)
           good == Fits(f, o, m)
<1>1. CASE readJournalHdr(f, o, own) /\ m \in good
  <2>1. m \in Nat /\ o + 1 <= Len(f)
    BY <1>1, RecordCountIs
  <2>2. o + 1 + m \in o + 1 .. Len(f)
    <3> HIDE DEF m
    <3> QED
      BY <1>1, <2>1, FitsIn
  <2>3. g[o + 1 + m] = h[o + 1 + m]
    BY <2>2
  <2> QED
    BY <1>1, <2>3 DEF From
<1>2. CASE ~ (readJournalHdr(f, o, own) /\ m \in good)
  BY <1>2 DEF From
<1> QED
  BY <1>1, <1>2

(* The recursive function of PlaybackSlots exists.                         *)
LEMMA FromExists ==
  ASSUME NEW n, NEW f \in Seq(SlotsAt(n)), NEW own
  PROVE  \E g : IsFrom(f, own, Len(f), g)
<1> DEFINE T == { m \in Nat : m <= Len(f) /\ ~ \E g : IsFrom(f, own, m, g) }
<1> SUFFICES ASSUME T # {} PROVE FALSE
  <2>1. Len(f) \in Nat /\ Len(f) <= Len(f)
    OBVIOUS
  <2> QED
    BY <2>1
<1>1. PICK m \in T : \A y \in T : m <= y
  BY LeastNumber
<1>2. m \in Nat /\ m <= Len(f) /\ Len(f) \in Nat /\ ~ \E g : IsFrom(f, own, m, g)
  BY <1>1
<1> DEFINE o == Len(f) - m
<1>3. \E g : \A q \in o + 1 .. Len(f) : q \in DOMAIN g /\ g[q] = From(f, own, g, q)
  <2>1. CASE m = 0
    <3>1. o + 1 .. Len(f) = {}
      BY <1>2, <2>1
    <3> QED
      BY <3>1
  <2>2. CASE m # 0
    <3>1. m - 1 \in Nat /\ m - 1 \notin T /\ m - 1 <= Len(f)
      BY <1>1, <1>2, <2>2
    <3>2. PICK g : IsFrom(f, own, m - 1, g)
      BY <3>1
    <3>3. Len(f) - (m - 1) = o + 1
      BY <1>2
    <3>4. g = [q \in o + 1 .. Len(f) |-> From(f, own, g, q)]
      BY <3>2, <3>3 DEF IsFrom
    <3> HIDE DEF o
    <3> QED
      BY <3>4
  <2> QED
    BY <2>1, <2>2
<1>4. PICK g : \A q \in o + 1 .. Len(f) : g[q] = From(f, own, g, q)
  BY <1>3
<1>5. o \in 0 .. Len(f)
  BY <1>2
<1>6. m = Len(f) - o
  BY <1>2
<1> HIDE DEF o
<1> DEFINE h == [q \in o .. Len(f) |-> IF q = o THEN From(f, own, g, o) ELSE g[q]]
<1>7. \A q \in o + 1 .. Len(f) : h[q] = g[q]
  BY <1>5
<1>8. h[o] = From(f, own, g, o)
  BY <1>5
<1>9. DOMAIN h = o .. Len(f) /\ h = [q \in o .. Len(f) |-> h[q]]
  OBVIOUS
<1> HIDE DEF h
<1>10. ASSUME NEW q \in o .. Len(f)
       PROVE  h[q] = From(f, own, h, q)
  <2>1. \A r \in q + 1 .. Len(f) : h[r] = g[r]
    BY <1>5, <1>7
  <2>2. q \in 0 .. Len(f)
    BY <1>5
  <2>3. From(f, own, g, q) = From(f, own, h, q)
    BY <2>1, <2>2, FromSame
  <2>4. CASE q = o
    BY <1>8, <2>3, <2>4
  <2>5. CASE q # o
    <3>1. q \in o + 1 .. Len(f)
      BY <1>5, <2>5
    <3> QED
      BY <1>4, <1>7, <2>3, <3>1
  <2> QED
    BY <2>4, <2>5
<1>11. h = [q \in o .. Len(f) |-> From(f, own, h, q)]
  BY <1>9, <1>10
<1>12. IsFrom(f, own, m, h)
  <2>1. Len(f) - m = o
    BY <1>2, <1>5, <1>6
  <2> QED
    BY <1>11, <2>1 DEF IsFrom
<1> QED
  BY <1>2, <1>12

LEMMA Unfolds ==
  ASSUME NEW n, NEW f \in Seq(SlotsAt(n)), NEW own
  PROVE  \E c : /\ PlaybackSlots(f, own) = c[0]
                /\ \A o \in 0 .. Len(f) : c[o] = From(f, own, c, o) /\ c[o] \in Seq(Records(f))
<1> DEFINE c == CHOOSE g : g = [o \in 0 .. Len(f) |-> From(f, own, g, o)]
<1>1. Len(f) \in Nat /\ Len(f) - Len(f) = 0
  OBVIOUS
<1>2. c = [o \in 0 .. Len(f) |-> From(f, own, c, o)]
  BY <1>1, FromExists DEF IsFrom
<1>3. PlaybackSlots(f, own) = c[0]
  BY DEF PlaybackSlots, From, Fits
<1> HIDE DEF c
<1> DEFINE T == { m \in Nat : m <= Len(f) /\ c[Len(f) - m] \notin Seq(Records(f)) }
<1>4. T = {}
  <2> SUFFICES ASSUME T # {} PROVE FALSE
    OBVIOUS
  <2>1. PICK m \in T : \A y \in T : m <= y
    BY LeastNumber
  <2> DEFINE o == Len(f) - m
  <2>2. m \in Nat /\ m <= Len(f) /\ c[o] \notin Seq(Records(f)) /\ o \in 0 .. Len(f)
    BY <1>1, <2>1
  <2>3. ASSUME NEW q \in o + 1 .. Len(f)
        PROVE  c[q] \in Seq(Records(f))
    <3>1. Len(f) - q \in Nat /\ Len(f) - q <= Len(f) /\ Len(f) - q < m /\ Len(f) - (Len(f) - q) = q
      BY <1>1, <2>2
    <3>2. Len(f) - q \notin T
      BY <2>1, <2>2, <3>1
    <3> QED
      BY <3>1, <3>2
  <2> HIDE DEF o
  <2>4. From(f, own, c, o) \in Seq(Records(f))
    BY <2>2, <2>3, FromIs
  <2>5. c[o] = From(f, own, c, o)
    BY <1>2, <2>2
  <2> QED
    BY <2>2, <2>4, <2>5
<1>5. ASSUME NEW o \in 0 .. Len(f)
      PROVE  c[o] \in Seq(Records(f))
  <2>1. Len(f) - o \in Nat /\ Len(f) - o <= Len(f) /\ Len(f) - (Len(f) - o) = o
    BY <1>1
  <2> QED
    BY <1>4, <2>1
<1>6. \A o \in 0 .. Len(f) : c[o] = From(f, own, c, o)
  BY <1>2
<1> QED
  BY <1>3, <1>5, <1>6

LEMMA PlayedAreRecords ==
  ASSUME NEW n, NEW f \in Seq(SlotsAt(n)), NEW own
  PROVE  PlaybackSlots(f, own) \in Seq(Records(f))
<1>1. 0 \in 0 .. Len(f)
  OBVIOUS
<1> QED
  BY <1>1, Unfolds

-----------------------------------------------------------------------------
(* A journal is played back: a hot one, or to undo a transaction.          *)
LEMMA PlaysIs ==
  ASSUME IInv, NEW c \in Conns, pager[c].at = "play"
  PROVE  /\ pager[c] \in PagerAt(ntx) /\ Control(pager[c], lock[c], c \in reserved)
         /\ ntx \in Nat /\ FilesAt(ntx)
         /\ \/ pager[c].eState = "OPEN" /\ pager[c].goal = "hot"
            \/ pager[c].eState \in {"CACHEMOD", "DBMOD"} /\ pager[c].goal = "rollback"
<1>1. /\ pager[c] \in PagerAt(ntx) /\ Control(pager[c], lock[c], c \in reserved)
      /\ ntx \in Nat /\ FilesAt(ntx)
  BY PagerIs
<1> QED
  BY <1>1 DEF Control, Hasnt, Reads, Acts, Writing, PagerAt, States

LEMMA PlayControl ==
  ASSUME NEW n, NEW P \in PagerAt(n), NEW Q \in PagerAt(n), NEW l, NEW r, Control(P, l, r),
         \/ P.eState = "OPEN" /\ P.goal = "hot"
         \/ P.eState \in {"CACHEMOD", "DBMOD"} /\ P.goal = "rollback",
         P.at = "play", Q.at \in {"play", "finish"}, Q.goal = P.goal, Q.eState = P.eState,
         Q.journalHdr = P.journalHdr, P.goal = "rollback" /\ 1 \in Cached(P) => 1 \in Cached(Q)
  PROVE  Control(Q, l, r)
<1>1. CASE P.eState = "OPEN" /\ P.goal = "hot"
  <2>1. Hasnt(Q, l)
    BY <1>1 DEF Control, Hasnt
  <2> QED
    BY <1>1, <2>1, OpenControl
<1>2. CASE P.eState \in {"CACHEMOD", "DBMOD"} /\ P.goal = "rollback"
  <2>1. P.eState \in Writing /\ Acts(P, l, r) /\ 1 \in Cached(P)
    BY <1>2 DEF Control, Writing
  <2>2. Acts(Q, l, r)
    BY <1>2, <2>1 DEF Acts, Counts
  <2>3. Spills(Q)
    BY <1>2 DEF Spills
  <2> QED
    BY <1>2, <2>1, <2>2, <2>3, WriterControl
<1> QED
  BY <1>1, <1>2

LEMMA PlayStep ==
  ASSUME IInv, NEW c \in Conns, pager[c].at = "play", NEW Q \in PagerAt(ntx), Set(c, Q),
         Q.at \in {"play", "finish"}, Q.goal = pager[c].goal, Q.eState = pager[c].eState,
         Q.journalHdr = pager[c].journalHdr,
         pager[c].goal = "rollback" /\ 1 \in Cached(pager[c]) => 1 \in Cached(Q),
         UNCHANGED levels, ntx' = ntx, setting' = setting, FilesAt(ntx)'
  PROVE  IInv'
<1>1. /\ pager[c] \in PagerAt(ntx) /\ Control(pager[c], lock[c], c \in reserved)
      /\ \/ pager[c].eState = "OPEN" /\ pager[c].goal = "hot"
         \/ pager[c].eState \in {"CACHEMOD", "DBMOD"} /\ pager[c].goal = "rollback"
  BY PlaysIs
<1>2. Control(Q, lock[c], c \in reserved)
  <2> DEFINE P == pager[c]
  <2>1. /\ P \in PagerAt(ntx) /\ Control(P, lock[c], c \in reserved) /\ P.at = "play"
        /\ Q.goal = P.goal /\ Q.eState = P.eState /\ Q.journalHdr = P.journalHdr
        /\ (P.goal = "rollback" /\ 1 \in Cached(P) => 1 \in Cached(Q))
        /\ \/ P.eState = "OPEN" /\ P.goal = "hot"
           \/ P.eState \in {"CACHEMOD", "DBMOD"} /\ P.goal = "rollback"
    BY <1>1
  <2> HIDE DEF P
  <2> QED
    BY <2>1, PlayControl
<1>3. LockStep(c) /\ lock'[c] = lock[c] /\ (c \in reserved' <=> c \in reserved)
  BY Unlocked
<1>4. Control(Q, lock'[c], c \in reserved') /\ Q.at # "exclusive"
  BY <1>2, <1>3 DEF Control, Reads, Acts
<1> QED
  BY <1>3, <1>4, Moves

LEMMA RollbackStep == ASSUME IInv, NEW c \in Conns, Rollback(c) PROVE IInv'
<1> DEFINE P == pager[c]
<1>1. P.eState \in Writing /\ P.at = "idle" /\ UNCHANGED <<levels, files, counters>>
  BY DEF Rollback, Idle
<1>2. /\ Acts(P, lock[c], c \in reserved) /\ 1 \in Cached(P)
      /\ (P.journalHdr <= P.journalOff \/ P.goal = "rollback") /\ P \in PagerAt(ntx)
  BY <1>1, WriterIs
<1>3. FilesAt(ntx)' /\ ntx' = ntx /\ setting' = setting
  BY <1>1, Still
<1>4. LockStep(c) /\ lock'[c] = lock[c] /\ (c \in reserved' <=> c \in reserved)
  BY <1>1, Unlocked
<1>5. P.goal = "none" /\ P.dbFileVers.ver < P.tx
  BY <1>1, <1>2 DEF Acts, Counts
<1>6. CASE P.eState = "LOCKED"
  <2> DEFINE Q == [P EXCEPT !.at = "release"]
  <2>1. Goto(c, "release") /\ "release" \in Places \ {"exclusive"}
    BY <1>6 DEF Rollback, Places
  <2>2. Control(Q, lock'[c], c \in reserved')
    <3> HIDE DEF P
    <3>1. /\ Q \in PagerAt(ntx) /\ Q.at = "release"
          /\ Q.eState = P.eState /\ Q.goal = P.goal /\ Q.cache = P.cache
          /\ Q.journalHdr = P.journalHdr /\ Q.journalOff = P.journalOff
          /\ Q.tx = P.tx /\ Q.k = P.k /\ Q.dbFileVers = P.dbFileVers
      BY <1>2, <2>1, Goes
    <3> HIDE DEF Q
    <3>2. Acts(Q, lock'[c], c \in reserved')
      BY <1>1, <1>2, <1>4, <1>5, <1>6, <3>1 DEF Acts, Counts
    <3>3. Spills(Q) /\ 1 \in Cached(Q) /\ Q.eState \in Writing
      BY <1>1, <1>2, <1>5, <3>1 DEF Spills, Cached
    <3> QED
      BY <1>2, <1>5, <3>1, <3>2, <3>3, WriterControl
  <2> QED
    BY <1>3, <1>4, <2>1, <2>2, GoesOn
<1>7. CASE P.eState # "LOCKED"
  <2> DEFINE Q == Aim(P, "play", "rollback", 0)
  <2>1. Set(c, Q) /\ "play" \in Places /\ "rollback" \in Goals /\ 0 \in Nat
    BY <1>7 DEF Rollback, Aim, Places, Goals
  <2> HIDE DEF P
  <2>2. /\ Q \in PagerAt(ntx) /\ Q.at = "play" /\ Q.goal = "rollback"
        /\ Q.eState = P.eState /\ Q.cache = P.cache
        /\ Q.journalHdr = P.journalHdr /\ Q.journalOff = P.journalOff
        /\ Q.tx = P.tx /\ Q.dbFileVers = P.dbFileVers
    BY <1>2, <2>1, Aims
  <2> HIDE DEF Q
  <2>3. Acts(Q, lock'[c], c \in reserved')
    BY <1>1, <1>2, <1>4, <1>7, <2>2 DEF Acts, Counts
  <2>4. Spills(Q) /\ 1 \in Cached(Q) /\ Q.eState \in Writing
    BY <1>1, <1>2, <2>2 DEF Spills, Cached
  <2>5. Control(Q, lock'[c], c \in reserved') /\ Q.at # "exclusive"
    BY <2>2, <2>3, <2>4, WriterControl
  <2> QED
    BY <1>3, <1>4, <2>1, <2>2, <2>5, Moves
<1> QED
  BY <1>6, <1>7

SizedTo(P, m, size) == [P EXCEPT !.k = 1, !.dbSize = m, !.journalOff = 1, !.dbFileSize = size]

LEMMA SizedToIs ==
  ASSUME NEW n, NEW P \in PagerAt(n), NEW m \in Nat, NEW size \in Nat
  PROVE  LET Q == SizedTo(P, m, size) IN
         /\ Q \in PagerAt(n) /\ Q.at = P.at /\ Q.goal = P.goal /\ Q.eState = P.eState
         /\ Q.journalHdr = P.journalHdr /\ Q.cache = P.cache
BY DEF PagerAt, SizedTo

At(P, m) == [P EXCEPT !.k = m]

LEMMA AtIs ==
  ASSUME NEW n, NEW P \in PagerAt(n), NEW m \in Nat
  PROVE  LET Q == At(P, m) IN
         /\ Q \in PagerAt(n) /\ Q.at = P.at /\ Q.goal = P.goal /\ Q.eState = P.eState
         /\ Q.journalHdr = P.journalHdr /\ Q.cache = P.cache
BY DEF PagerAt, At

LEMMA PlaybackSizeStep == ASSUME IInv, NEW c \in Conns, PlaybackSize(c) PROVE IInv'
<1> DEFINE P == pager[c]
           n == jrnl.slots[1].orig
           Q == IF P.goal = "hot" /\ Slots(P) # <<>> THEN pager_reset(P) ELSE P
           m == IF Touches(P) THEN n ELSE Q.dbFileSize
           R == SizedTo(Q, n, m)
<1>1. P.at = "play" /\ UNCHANGED <<levels, jrnl, ddb, djrnl, counters>>
  BY DEF PlaybackSize
<1>2. P \in PagerAt(ntx) /\ ntx \in Nat /\ FilesAt(ntx) /\ (P.goal = "hot" \/ P.goal = "rollback")
  BY <1>1, PlaysIs
<1>3. ntx' = ntx /\ setting' = setting /\ UNCHANGED levels
  BY <1>1 DEF counters
<1>4. CASE readJournalHdr(jrnl.slots, 0, Own(P))
  <2>1. Set(c, R) /\ db' = IF Touches(P) THEN Resize(db, n) ELSE db
    BY <1>4 DEF PlaybackSize, SizedTo
  <2>2. n \in Nat
    <3>1. jrnl.slots \in Seq(SlotsAt(ntx))
      BY <1>2 DEF FilesAt, JournalAt
    <3>2. 1 \in 1 .. Len(jrnl.slots) /\ jrnl.slots[1].kind = "header"
      BY <1>4, <3>1 DEF readJournalHdr, IsHeader
    <3>3. jrnl.slots[1] \in HeaderSlots
      BY <3>1, <3>2, SlotIs
    <3> QED
      BY <3>3 DEF HeaderSlots
  <2>3. FilesAt(ntx)'
    <3>1. Resize(db, n) \in Seq(ContentAt(ntx))
      BY <1>2, <2>2, ResizeIs DEF FilesAt
    <3> QED
      BY <1>1, <1>2, <1>3, <2>1, <3>1 DEF FilesAt
  <2>4. /\ Q \in PagerAt(ntx) /\ Q.at = P.at /\ Q.goal = P.goal /\ Q.eState = P.eState
        /\ Q.journalHdr = P.journalHdr /\ (P.goal = "rollback" => Q.cache = P.cache)
    <3> HIDE DEF P
    <3> QED
      BY <1>2, ResetIs DEF Kin
  <2> HIDE DEF Q, n
  <2>5. m \in Nat
    BY <2>2, <2>4 DEF PagerAt
  <2> HIDE DEF m
  <2>6. /\ R \in PagerAt(ntx) /\ R.at = Q.at /\ R.goal = Q.goal /\ R.eState = Q.eState
        /\ R.journalHdr = Q.journalHdr /\ R.cache = Q.cache
    BY <2>2, <2>4, <2>5, SizedToIs
  <2> HIDE DEF R
  <2>7. /\ R.at \in {"play", "finish"} /\ R.goal = P.goal /\ R.eState = P.eState
        /\ R.journalHdr = P.journalHdr /\ (P.goal = "rollback" /\ 1 \in Cached(P) => 1 \in Cached(R))
    BY <1>1, <2>4, <2>6 DEF Cached
  <2> QED
    BY <1>1, <1>3, <2>1, <2>3, <2>6, <2>7, PlayStep
<1>5. CASE ~ readJournalHdr(jrnl.slots, 0, Own(P))
  <2> DEFINE T == At(P, 1)
  <2>1. Set(c, T) /\ UNCHANGED db
    BY <1>5 DEF PlaybackSize, At
  <2>2. FilesAt(ntx)'
    BY <1>1, <1>2, <1>3, <2>1 DEF FilesAt
  <2> HIDE DEF P
  <2>3. /\ T \in PagerAt(ntx) /\ T.at = P.at /\ T.goal = P.goal /\ T.eState = P.eState
        /\ T.journalHdr = P.journalHdr /\ T.cache = P.cache
    BY <1>2, AtIs
  <2> HIDE DEF T
  <2>4. T.at \in {"play", "finish"} /\ (1 \in Cached(P) => 1 \in Cached(T))
    BY <1>1, <2>3 DEF Cached
  <2> USE DEF P
  <2> QED
    BY <1>1, <1>3, <2>1, <2>2, <2>3, <2>4, PlayStep
<1> QED
  BY <1>4, <1>5

(* One page is given back: to the cache, if it is there.                   *)
Replayed(P, p, val) ==
  IF p \notin Cached(P) THEN P
  ELSE [P EXCEPT !.cache[p].val = val, !.dbFileVers = IF p = 1 THEN val ELSE @]
Versioned(P, g, v) == [P EXCEPT !.cache = g, !.dbFileVers = v]

LEMMA VersionedIs ==
  ASSUME NEW n, NEW P \in PagerAt(n), NEW g \in CacheAt(n), NEW v \in ContentAt(n)
  PROVE  LET Q == Versioned(P, g, v) IN
         /\ Q \in PagerAt(n) /\ Kin(P, Q) /\ Q.cache = g
BY DEF PagerAt, Versioned, Kin

LEMMA ReplayedIs ==
  ASSUME NEW n, NEW P \in PagerAt(n), NEW p, NEW val \in ContentAt(n)
  PROVE  LET Q == Replayed(P, p, val) IN Q \in PagerAt(n) /\ Kin(P, Q) /\ Cached(Q) = Cached(P)
<1>1. CASE p \notin Cached(P)
  BY <1>1 DEF Replayed, Kin
<1>2. CASE p \in Cached(P)
  <2> DEFINE e == [P.cache[p] EXCEPT !.val = val]
             g == [P.cache EXCEPT ![p] = e]
             v == IF p = 1 THEN val ELSE P.dbFileVers
  <2>1. P.cache[p] \in EntryAt(n)
    BY <1>2, PageIs
  <2>2. e \in EntryAt(n)
    BY <2>1 DEF EntryAt
  <2>3. P.cache \in CacheAt(n) /\ v \in ContentAt(n)
    BY DEF PagerAt
  <2>4. /\ DOMAIN P.cache \subseteq 1 .. MaxPage /\ P.cache = [q \in DOMAIN P.cache |-> P.cache[q]]
        /\ \A q \in DOMAIN P.cache : P.cache[q] \in EntryAt(n)
    BY <2>3, CacheIs
  <2>5. Replayed(P, p, val) = Versioned(P, g, v)
    BY <1>2 DEF Replayed, Versioned
  <2> HIDE DEF e, v
  <2>6. g \in [DOMAIN P.cache -> EntryAt(n)]
    BY <2>2, <2>4
  <2>7. g \in CacheAt(n) /\ DOMAIN g = DOMAIN P.cache
    BY <2>4, <2>6, MakeCache
  <2> HIDE DEF g
  <2> QED
    BY <2>3, <2>5, <2>7, VersionedIs DEF Cached
<1> QED
  BY <1>1, <1>2

LEMMA PlaybackPageStep == ASSUME IInv, NEW c \in Conns, PlaybackPage(c) PROVE IInv'
<1> DEFINE P == pager[c]
           i == Slots(P)[P.k]
           r == jrnl.slots[i]
           Q == Replayed(P, r.pgno, r.val)
           S == At(P, P.k + 1)
           T == At(Q, Q.k + 1)
<1>1. /\ P.at = "play" /\ P.k \in 1 .. Len(Slots(P))
      /\ UNCHANGED <<levels, jrnl, ddb, djrnl, counters>>
      /\ Set(c, S) \/ Set(c, T)
      /\ db' = db \/ db' = WritePage(db, r.pgno, r.val)
  BY DEF PlaybackPage, Replayed, At
<1>2. P \in PagerAt(ntx) /\ ntx \in Nat /\ FilesAt(ntx)
  BY <1>1, PlaysIs
<1>3. ntx' = ntx /\ setting' = setting /\ UNCHANGED levels
  BY <1>1 DEF counters
<1>4. jrnl.slots \in Seq(SlotsAt(ntx))
  BY <1>2 DEF FilesAt, JournalAt
<1>5. i \in Records(jrnl.slots)
  <2>1. Slots(P) \in Seq(Records(jrnl.slots))
    BY <1>4, PlayedAreRecords DEF Slots
  <2> HIDE DEF P
  <2> QED
    BY <1>1, <2>1
<1>6. r \in RecordSlots(ntx)
  <2>1. i \in 1 .. Len(jrnl.slots) /\ jrnl.slots[i].kind = "record"
    BY <1>5 DEF Records
  <2> HIDE DEF i
  <2> QED
    BY <1>4, <2>1, SlotIs
<1>7. r.pgno \in 1 .. MaxPage /\ r.val \in ContentAt(ntx)
  BY <1>6 DEF RecordSlots
<1>8. FilesAt(ntx)'
  <2> HIDE DEF r
  <2>1. WritePage(db, r.pgno, r.val) \in Seq(ContentAt(ntx))
    BY <1>2, <1>7, WritePageIs DEF FilesAt
  <2> QED
    BY <1>1, <1>2, <1>3, <2>1 DEF FilesAt
<1>9. Q \in PagerAt(ntx) /\ Kin(P, Q) /\ Cached(Q) = Cached(P)
  <2> HIDE DEF P, r
  <2> QED
    BY <1>2, <1>7, ReplayedIs
<1> HIDE DEF Q
<1> DEFINE W(X) == /\ X \in PagerAt(ntx) /\ X.at \in {"play", "finish"} /\ X.goal = P.goal
                   /\ X.eState = P.eState /\ X.journalHdr = P.journalHdr /\ Cached(X) = Cached(P)
<1>10. W(S)
  <2> HIDE DEF P
  <2>1. P.k + 1 \in Nat
    BY <1>2 DEF PagerAt
  <2> QED
    BY <1>1, <1>2, <2>1, AtIs DEF Cached
<1>11. W(T)
  <2> HIDE DEF P
  <2>1. Q.k + 1 \in Nat
    BY <1>9 DEF PagerAt
  <2> QED
    BY <1>1, <1>9, <2>1, AtIs DEF Cached, Kin
<1>12. ASSUME NEW X, W(X), Set(c, X)
       PROVE  IInv'
  BY <1>1, <1>3, <1>8, <1>12, PlayStep
<1> HIDE DEF S, T, W
<1> QED
  BY <1>1, <1>10, <1>11, <1>12

PlayedOut(P) == [P EXCEPT !.at = "finish", !.k = 0, !.changeCountDone = FALSE]

LEMMA PlayedOutIs ==
  ASSUME NEW n, NEW P \in PagerAt(n)
  PROVE  LET Q == PlayedOut(P) IN
         /\ Q \in PagerAt(n) /\ Q.at = "finish" /\ Q.goal = P.goal /\ Q.eState = P.eState
         /\ Q.journalHdr = P.journalHdr /\ Q.cache = P.cache
BY DEF PagerAt, PlayedOut, Places

LEMMA PlaybackSyncStep == ASSUME IInv, NEW c \in Conns, PlaybackSync(c) PROVE IInv'
<1> DEFINE P == pager[c]
           Q == PlayedOut(P)
<1>1. /\ P.at = "play" /\ Set(c, Q) /\ UNCHANGED <<levels, db, jrnl, djrnl, counters>>
      /\ ddb' = db \/ ddb' = ddb
  BY DEF PlaybackSync, PlayedOut
<1>2. P \in PagerAt(ntx) /\ FilesAt(ntx)
  BY <1>1, PlaysIs
<1>3. ntx' = ntx /\ setting' = setting /\ UNCHANGED levels
  BY <1>1 DEF counters
<1>4. FilesAt(ntx)'
  BY <1>1, <1>2, <1>3 DEF FilesAt
<1>5. /\ Q \in PagerAt(ntx) /\ Q.at \in {"play", "finish"} /\ Q.goal = P.goal /\ Q.eState = P.eState
      /\ Q.journalHdr = P.journalHdr /\ (1 \in Cached(P) => 1 \in Cached(Q))
  <2> HIDE DEF P
  <2> QED
    BY <1>2, PlayedOutIs DEF Cached
<1> HIDE DEF Q
<1> QED
  BY <1>1, <1>3, <1>4, <1>5, PlayStep

-----------------------------------------------------------------------------
(* The end of a transaction.                                               *)
LEMMA EndsIs ==
  ASSUME IInv, NEW c \in Conns, pager[c].at \in {"finish", "release"}
  PROVE  /\ pager[c] \in PagerAt(ntx) /\ Control(pager[c], lock[c], c \in reserved)
         /\ ntx \in Nat /\ FilesAt(ntx)
         /\ \/ pager[c].eState = "OPEN" /\ pager[c].goal = "hot"
            \/ pager[c].eState \in Writing /\ pager[c].goal = "rollback"
            \/ pager[c].eState = "FINISHED" /\ pager[c].goal = "commit"
            \/ pager[c].eState = "LOCKED" /\ pager[c].at = "release" /\ pager[c].goal \in {"none", "commit"}
<1>1. /\ pager[c] \in PagerAt(ntx) /\ Control(pager[c], lock[c], c \in reserved)
      /\ ntx \in Nat /\ FilesAt(ntx)
  BY PagerIs
<1> QED
  BY <1>1 DEF Control, Hasnt, Reads, Acts, Writing, PagerAt, States

LEMMA ZeroedIs ==
  ASSUME NEW n \in Nat, NEW P \in PagerAt(n), 1 \in Cached(P)
  PROVE  LET Q == [P EXCEPT !.cache[1].val = Zero] IN
         /\ Q \in PagerAt(n) /\ Kin(P, Q) /\ Cached(Q) = Cached(P) /\ Q.journalOff = P.journalOff
<1> DEFINE e == [P.cache[1] EXCEPT !.val = Zero]
           g == [P.cache EXCEPT ![1] = e]
<1>1. P.cache[1] \in EntryAt(n) /\ Zero \in ContentAt(n)
  BY PageIs, ZeroIs
<1>2. e \in EntryAt(n)
  BY <1>1 DEF EntryAt
<1>3. P.cache \in CacheAt(n)
  BY DEF PagerAt
<1>4. /\ DOMAIN P.cache \subseteq 1 .. MaxPage /\ P.cache = [q \in DOMAIN P.cache |-> P.cache[q]]
      /\ \A q \in DOMAIN P.cache : P.cache[q] \in EntryAt(n)
  BY <1>3, CacheIs
<1>5. [P EXCEPT !.cache[1].val = Zero] = [P EXCEPT !.cache = g]
  OBVIOUS
<1> HIDE DEF e
<1>6. g \in [DOMAIN P.cache -> EntryAt(n)]
  BY <1>2, <1>4
<1>7. g \in CacheAt(n) /\ DOMAIN g = DOMAIN P.cache
  BY <1>4, <1>6, MakeCache
<1> HIDE DEF g
<1> QED
  BY <1>5, <1>7, NewCache DEF Cached

LEMMA TruncateIs ==
  ASSUME NEW n \in Nat, NEW P \in PagerAt(n), NEW m \in Nat
  PROVE  LET Q == Truncate(P, m) IN
         /\ Q \in PagerAt(n) /\ Kin(P, Q) /\ Q.journalOff = P.journalOff
         /\ 1 \in Cached(P) => 1 \in Cached(Q)
<1>1. CASE m = 0 /\ 1 \in Cached(P)
  <2> DEFINE R == Keep(P, {1})
             Q == [R EXCEPT !.cache[1].val = Zero]
  <2>1. Truncate(P, m) = Q
    BY <1>1 DEF Truncate
  <2>2. R \in PagerAt(n) /\ Kin(P, R) /\ Cached(R) = Cached(P) \cap {1} /\ R.journalOff = P.journalOff
    BY KeepIs
  <2> HIDE DEF R
  <2>3. Q \in PagerAt(n) /\ Kin(R, Q) /\ Cached(Q) = Cached(R) /\ Q.journalOff = R.journalOff
    BY <1>1, <2>2, ZeroedIs
  <2> HIDE DEF Q
  <2> QED
    BY <1>1, <2>1, <2>2, <2>3 DEF Kin
<1>2. CASE ~ (m = 0 /\ 1 \in Cached(P))
  <2> DEFINE R == Keep(P, 1 .. m)
  <2>1. Truncate(P, m) = R
    BY <1>2 DEF Truncate
  <2>2. R \in PagerAt(n) /\ Kin(P, R) /\ Cached(R) = Cached(P) \cap (1 .. m) /\ R.journalOff = P.journalOff
    BY KeepIs
  <2> HIDE DEF R
  <2> QED
    BY <1>2, <2>1, <2>2
<1> QED
  BY <1>1, <1>2

LEMMA FinishJournalIs ==
  ASSUME NEW n \in Nat, FilesAt(n), NEW P, FinishJournal(P)
  PROVE  jrnl' \in JournalAt(n) /\ djrnl' \in JournalAt(n)
<1>1. jrnl \in JournalAt(n) /\ djrnl \in JournalAt(n) /\ jrnl.slots \in Seq(SlotsAt(n))
      /\ << >> \in Seq(SlotsAt(n)) /\ NoJournal \in JournalAt(n)
  BY DEF FilesAt, JournalAt, NoJournal
<1>2. [jrnl EXCEPT !.slots = <<>>] \in JournalAt(n)
  BY <1>1 DEF JournalAt
<1>3. [jrnl EXCEPT !.slots[1] = ZeroSlot] \in JournalAt(n)
  <2> DEFINE f == [jrnl.slots EXCEPT ![1] = ZeroSlot]
  <2>1. f \in Seq(SlotsAt(n))
    BY <1>1, ExceptIs DEF SlotsAt
  <2>2. [jrnl EXCEPT !.slots[1] = ZeroSlot] = [jrnl EXCEPT !.slots = f]
    OBVIOUS
  <2> HIDE DEF f
  <2> QED
    BY <1>1, <2>1, <2>2 DEF JournalAt
<1>4. fullSync \in BOOLEAN /\ (~noSync) \in BOOLEAN
  BY DEF fullSync, noSync
<1>5. CASE JournalMode = "delete"
  BY <1>1, <1>5 DEF FinishJournal
<1>6. CASE SyncJournalFile(P, [jrnl EXCEPT !.slots = <<>>], fullSync)
  BY <1>2, <1>4, <1>6, SyncedIs
<1>7. CASE SyncJournalFile(P, [jrnl EXCEPT !.slots[1] = ZeroSlot], ~noSync)
  BY <1>3, <1>4, <1>7, SyncedIs
<1>8. CASE UNCHANGED <<jrnl, djrnl>>
  BY <1>1, <1>8
<1> QED
  BY <1>5, <1>6, <1>7, <1>8 DEF FinishJournal

LEMMA FinishStep == ASSUME IInv, NEW c \in Conns, Finish(c) PROVE IInv'
<1> DEFINE P == pager[c]
           S == Truncate(P, P.dbSize)
           R == Clean(S)
           Q == [R EXCEPT !.at = "release"]
<1>1. P.at = "finish" /\ FinishJournal(P) /\ Set(c, Q) /\ UNCHANGED <<levels, db, ddb, ntx, setting, mishaps>>
  BY DEF Finish
<1>2. /\ P \in PagerAt(ntx) /\ Control(P, lock[c], c \in reserved) /\ ntx \in Nat /\ FilesAt(ntx)
      /\ \/ P.eState = "OPEN" /\ P.goal = "hot"
         \/ P.eState \in Writing /\ P.goal = "rollback"
         \/ P.eState = "FINISHED" /\ P.goal = "commit"
  BY <1>1, EndsIs
<1>3. LockStep(c) /\ lock'[c] = lock[c] /\ (c \in reserved' <=> c \in reserved)
  BY <1>1, Unlocked
<1>4. ntx' = ntx /\ setting' = setting
  BY <1>1
<1>5. FilesAt(ntx)'
  <2>1. jrnl' \in JournalAt(ntx) /\ djrnl' \in JournalAt(ntx)
    BY <1>1, <1>2, FinishJournalIs
  <2> QED
    BY <1>1, <1>2, <2>1 DEF FilesAt
<1> HIDE DEF P
<1>6. P.dbSize \in Nat
  BY <1>2 DEF PagerAt
<1>7. /\ S \in PagerAt(ntx) /\ Kin(P, S) /\ S.journalOff = P.journalOff
      /\ (1 \in Cached(P) => 1 \in Cached(S))
  BY <1>2, <1>6, TruncateIs
<1> HIDE DEF S
<1>8. R \in PagerAt(ntx) /\ Kin(S, R) /\ Cached(R) = Cached(S) /\ R.journalOff = S.journalOff
  BY <1>7, CleanIs
<1> HIDE DEF R
<1>9. /\ Q \in PagerAt(ntx) /\ Q.at = "release"
      /\ Q.eState = R.eState /\ Q.goal = R.goal /\ Q.cache = R.cache
      /\ Q.journalHdr = R.journalHdr /\ Q.journalOff = R.journalOff
  <2>1. "release" \in Places
    BY DEF Places
  <2> QED
    BY <1>8, <2>1, Goes
<1> HIDE DEF Q
<1>10. /\ Q.eState = P.eState /\ Q.goal = P.goal /\ Q.journalHdr = P.journalHdr
       /\ Q.journalOff = P.journalOff /\ (1 \in Cached(P) => 1 \in Cached(Q))
  BY <1>7, <1>8, <1>9 DEF Kin, Cached
<1>11. Control(Q, lock'[c], c \in reserved')
  <2>1. CASE P.eState = "OPEN" /\ P.goal = "hot"
    <3>1. Hasnt(Q, lock'[c])
      BY <1>1, <1>2, <1>3, <1>9, <1>10, <2>1 DEF Control, Hasnt
    <3> QED
      BY <1>9, <1>10, <2>1, <3>1, OpenControl
  <2>2. CASE P.eState \in Writing /\ P.goal = "rollback"
    <3>1. Acts(P, lock[c], c \in reserved) /\ 1 \in Cached(P) /\ P.eState # "LOCKED"
      BY <1>1, <1>2, <2>2 DEF Control, Acts
    <3>2. Acts(Q, lock'[c], c \in reserved')
      BY <1>3, <1>9, <1>10, <2>2, <3>1 DEF Acts, Counts
    <3>3. Spills(Q)
      BY <1>9 DEF Spills
    <3> QED
      BY <1>10, <2>2, <3>1, <3>2, <3>3, WriterControl
  <2>3. CASE P.eState = "FINISHED" /\ P.goal = "commit"
    <3>1. lock[c] = EXCLUSIVE_LOCK /\ 1 \in Cached(P) /\ P.journalHdr <= P.journalOff
      BY <1>2, <2>3 DEF Control
    <3> QED
      BY <1>3, <1>9, <1>10, <2>3, <3>1, FinishedControl
  <2> QED
    BY <1>2, <2>1, <2>2, <2>3
<1>12. Q.at # "exclusive"
  BY <1>9
<1> QED
  BY <1>1, <1>3, <1>4, <1>5, <1>9, <1>11, <1>12, Moves

Released(P) ==
  [P EXCEPT !.at = "idle", !.goal = "none", !.pInJournal = {}, !.nRec = 0,
            !.journalHdr = 0, !.journalOff = 0, !.changeCountDone = FALSE,
            !.bDoTruncate = FALSE]

LEMMA ReleasedIs ==
  ASSUME NEW n, NEW P \in PagerAt(n)
  PROVE  LET Q == Released(P) IN
         /\ Q \in PagerAt(n) /\ Q.at = "idle" /\ Q.goal = "none" /\ Q.eState = P.eState
         /\ Q.journalHdr = 0 /\ Q.cache = P.cache
BY DEF PagerAt, Released, Places, Goals

LEMMA ReaderAgain ==
  ASSUME NEW n, NEW P \in PagerAt(n)
  PROVE  LET Q == [P EXCEPT !.eState = "READER"] IN
         /\ Q \in PagerAt(n) /\ Q.at = P.at /\ Q.goal = P.goal /\ Q.eState = "READER"
         /\ Q.journalHdr = P.journalHdr /\ Q.cache = P.cache
BY DEF PagerAt, States

LEMMA ReleaseStep == ASSUME IInv, NEW c \in Conns, Release(c) PROVE IInv'
<1> DEFINE P == pager[c]
           Q == Released(P)
           S == [Q EXCEPT !.at = "version"]
           T == [Q EXCEPT !.eState = "READER"]
<1>1. /\ P.at = "release" /\ Locks!Lower(c, SHARED_LOCK) /\ UNCHANGED <<jrnl, ddb, djrnl, counters>>
      /\ db' = db \/ db' = Resize(db, P.dbSize)
      /\ Set(c, IF P.goal = "hot" THEN S ELSE T)
  BY DEF Release, Released
<1>2. /\ P \in PagerAt(ntx) /\ Control(P, lock[c], c \in reserved) /\ ntx \in Nat /\ FilesAt(ntx)
      /\ \/ P.eState = "OPEN" /\ P.goal = "hot"
         \/ P.eState \in Writing \cup {"FINISHED"} /\ P.goal # "hot"
  BY <1>1, EndsIs DEF Writing
<1>3. LockStep(c) /\ lock'[c] = SHARED_LOCK
  BY <1>1, Lowers
<1>4. ntx' = ntx /\ setting' = setting
  BY <1>1 DEF counters
<1>5. FilesAt(ntx)'
  <2> HIDE DEF P
  <2>1. P.dbSize \in Nat /\ db \in Seq(ContentAt(ntx))
    BY <1>2 DEF PagerAt, FilesAt
  <2>2. Resize(db, P.dbSize) \in Seq(ContentAt(ntx))
    BY <1>2, <2>1, ResizeIs
  <2> QED
    BY <1>1, <1>2, <1>4, <2>1, <2>2 DEF FilesAt
<1> HIDE DEF P
<1>6. /\ Q \in PagerAt(ntx) /\ Q.at = "idle" /\ Q.goal = "none" /\ Q.eState = P.eState
      /\ Q.journalHdr = 0 /\ Q.cache = P.cache
  BY <1>2, ReleasedIs
<1> HIDE DEF Q
<1>7. CASE P.eState = "OPEN" /\ P.goal = "hot"
  <2>1. /\ S \in PagerAt(ntx) /\ S.at = "version" /\ S.goal = "none" /\ S.eState = "OPEN"
        /\ S.journalHdr = 0
    <3>1. "version" \in Places
      BY DEF Places
    <3> QED
      BY <1>6, <1>7, <3>1, Goes
  <2>2. Set(c, S)
    BY <1>1, <1>7
  <2> HIDE DEF S
  <2>3. Hasnt(S, lock'[c])
    BY <1>3, <2>1 DEF Hasnt
  <2>4. Control(S, lock'[c], c \in reserved') /\ S.at # "exclusive"
    BY <2>1, <2>3, OpenControl
  <2> QED
    BY <1>3, <1>4, <1>5, <2>1, <2>2, <2>4, Moves
<1>8. CASE P.eState \in Writing \cup {"FINISHED"} /\ P.goal # "hot"
  <2>1. /\ T \in PagerAt(ntx) /\ T.at = "idle" /\ T.goal = "none" /\ T.eState = "READER"
        /\ T.journalHdr = 0 /\ T.cache = P.cache
    BY <1>6, ReaderAgain
  <2>2. Set(c, T)
    BY <1>1, <1>8
  <2> HIDE DEF T
  <2>3. 1 \in Cached(T)
    BY <1>2, <1>8, <2>1 DEF Control, Cached
  <2>4. Reads(T, lock'[c], c \in reserved') /\ lock'[c] \in 0 .. 4
    BY <1>3, <2>1 DEF Reads, SHARED_LOCK, RESERVED_LOCK
  <2>5. Control(T, lock'[c], c \in reserved') /\ T.at # "exclusive"
    BY <2>1, <2>3, <2>4, ReaderControl
  <2> QED
    BY <1>3, <1>4, <1>5, <2>1, <2>2, <2>5, Moves
<1> QED
  BY <1>2, <1>7, <1>8

-----------------------------------------------------------------------------
(* What goes wrong.                                                        *)
Failed(P) == [P EXCEPT !.eState = "ERROR"]
InError(P) == [P EXCEPT !.at = "idle", !.eState = "ERROR"]

LEMMA FailedIs ==
  ASSUME NEW n, NEW P \in PagerAt(n)
  PROVE  /\ Failed(P) \in PagerAt(n)
         /\ LET Q == InError(P) IN
            /\ Q \in PagerAt(n) /\ Q.at = "idle" /\ Q.goal = P.goal /\ Q.eState = "ERROR"
            /\ Q.journalHdr = P.journalHdr /\ Q.journalOff = P.journalOff
BY DEF PagerAt, Failed, InError, States, Places

LEMMA ErrorStep ==
  ASSUME IInv, NEW c \in Conns, Set(c, InError(pager[c])), LockStep(c),
         FilesAt(ntx)', ntx' = ntx, setting' = setting
  PROVE  IInv'
<1> DEFINE P == pager[c]
           Q == InError(P)
<1>1. P \in PagerAt(ntx) /\ (P.journalHdr <= P.journalOff \/ P.goal = "rollback") /\ Set(c, Q)
  BY PagerIs DEF Control
<1> HIDE DEF P
<1>2. /\ Q \in PagerAt(ntx) /\ Q.at = "idle" /\ Q.goal = P.goal /\ Q.eState = "ERROR"
      /\ Q.journalHdr = P.journalHdr /\ Q.journalOff = P.journalOff
  BY <1>1, FailedIs
<1> HIDE DEF Q
<1>3. Control(Q, lock'[c], c \in reserved') /\ Q.at # "exclusive"
  BY <1>1, <1>2 DEF Control, Spills, Writing
<1> QED
  BY <1>1, <1>2, <1>3, Moves

LEMMA FailStep == ASSUME IInv, NEW c \in Conns, Fail(c) PROVE IInv'
<1> DEFINE P == pager[c]
<1>1. P.at \in {"count", "sync", "pageout", "pages", "play", "finish"} /\ UNCHANGED <<files, ntx, history, setting>>
  BY DEF Fail
<1>2. /\ P \in PagerAt(ntx) /\ Control(P, lock[c], c \in reserved) /\ ntx \in Nat /\ FilesAt(ntx)
  BY PagerIs
<1>3. FilesAt(ntx)' /\ ntx' = ntx /\ setting' = setting
  BY <1>1, <1>2 DEF FilesAt, files
<1>4. CASE P.goal = "hot"
  <2>1. pager_unlock(c, Failed(P))
    BY <1>4 DEF Fail, Failed
  <2>2. Failed(P) \in PagerAt(ntx)
    BY <1>2, FailedIs
  <2> QED
    BY <1>3, <2>1, <2>2, UnlockStep
<1>5. CASE P.goal = "commit" /\ P.at # "finish"
  <2> DEFINE Q == Aim(P, "play", "rollback", 0)
  <2>1. Set(c, Q) /\ UNCHANGED levels
    BY <1>5 DEF Fail, Aim
  <2>2. LockStep(c) /\ lock'[c] = lock[c] /\ (c \in reserved' <=> c \in reserved)
    BY <2>1, Unlocked
  <2>3. P.at \in {"count", "sync", "pages"} /\ P.eState \in Writing \ {"LOCKED"} /\ Acts(P, lock[c], c \in reserved)
        /\ 1 \in Cached(P)
    <3>1. P.eState \in States
      BY <1>2 DEF PagerAt
    <3> QED
      BY <1>1, <1>2, <1>5, <3>1 DEF Control, Hasnt, Reads, Acts, States, Writing
  <2>4. "play" \in Places /\ "rollback" \in Goals /\ 0 \in Nat
    BY DEF Places, Goals
  <2> HIDE DEF P
  <2>5. /\ Q \in PagerAt(ntx) /\ Q.at = "play" /\ Q.goal = "rollback"
        /\ Q.eState = P.eState /\ Q.cache = P.cache
        /\ Q.journalHdr = P.journalHdr /\ Q.journalOff = P.journalOff
    BY <1>2, <2>4, Aims
  <2> HIDE DEF Q
  <2>6. Acts(Q, lock'[c], c \in reserved')
    BY <2>2, <2>3, <2>5 DEF Acts, Counts
  <2>7. Spills(Q) /\ 1 \in Cached(Q) /\ Q.eState \in Writing
    BY <2>3, <2>5 DEF Spills, Cached
  <2>8. Control(Q, lock'[c], c \in reserved') /\ Q.at # "exclusive"
    BY <2>5, <2>6, <2>7, WriterControl
  <2> QED
    BY <1>3, <2>1, <2>2, <2>5, <2>8, Moves
<1>6. CASE P.goal # "hot" /\ ~ (P.goal = "commit" /\ P.at # "finish")
  <2>1. Set(c, InError(P)) /\ (Locks!Lower(c, SHARED_LOCK) \/ UNCHANGED levels)
    BY <1>6 DEF Fail, InError
  <2>2. LockStep(c)
    BY <2>1, Unlocked, Lowers
  <2> QED
    BY <1>3, <2>1, <2>2, ErrorStep
<1> QED
  BY <1>4, <1>5, <1>6

LEMMA FinishFailsStep == ASSUME IInv, NEW c \in Conns, FinishFails(c) PROVE IInv'
<1> DEFINE P == pager[c]
<1>1. FinishJournal(P) /\ UNCHANGED <<db, ddb, ntx, setting>>
  BY DEF FinishFails
<1>2. P \in PagerAt(ntx) /\ ntx \in Nat /\ FilesAt(ntx)
  BY PagerIs
<1>3. FilesAt(ntx)' /\ ntx' = ntx /\ setting' = setting
  <2>1. jrnl' \in JournalAt(ntx) /\ djrnl' \in JournalAt(ntx)
    BY <1>1, <1>2, FinishJournalIs
  <2> QED
    BY <1>1, <1>2, <2>1 DEF FilesAt
<1>4. CASE P.goal = "hot"
  <2>1. pager_unlock(c, Failed(P))
    BY <1>4 DEF FinishFails, Failed
  <2>2. Failed(P) \in PagerAt(ntx)
    BY <1>2, FailedIs
  <2> QED
    BY <1>3, <2>1, <2>2, UnlockStep
<1>5. CASE P.goal # "hot"
  <2>1. Set(c, InError(P)) /\ Locks!Lower(c, SHARED_LOCK)
    BY <1>5 DEF FinishFails, InError
  <2>2. LockStep(c)
    BY <2>1, Lowers
  <2> QED
    BY <1>3, <2>1, <2>2, ErrorStep
<1> QED
  BY <1>4, <1>5

LEMMA FreshIs ==
  ASSUME NEW n \in Nat, NEW r
  PROVE  Fresh \in PagerAt(n) /\ Control(Fresh, NO_LOCK, r) /\ Fresh.at # "exclusive"
<1>1. << >> \in CacheAt(n)
  <2>1. << >> \in [{} -> EntryAt(n)]
    OBVIOUS
  <2> QED
    BY <2>1, MakeCache
<1>2. Zero \in ContentAt(n)
  BY ZeroIs
<1>3. Fresh \in PagerAt(n)
  BY <1>1, <1>2 DEF Fresh, PagerAt, States, Places, Goals
<1>4. Fresh.eState = "OPEN" /\ Fresh.at = "idle" /\ Fresh.goal = "none" /\ Fresh.journalHdr = 0
  BY DEF Fresh
<1>5. Hasnt(Fresh, NO_LOCK)
  BY <1>4 DEF Hasnt
<1> QED
  BY <1>3, <1>4, <1>5, OpenControl

LEMMA CrashStep == ASSUME IInv, NEW c \in Conns, Crash(c) PROVE IInv'
<1>1. Set(c, Fresh) /\ Locks!Vanish({c}) /\ UNCHANGED <<files, ntx, history, setting>>
  BY DEF Crash, Set
<1>2. ntx \in Nat /\ FilesAt(ntx)
  BY PagerIs
<1>3. FilesAt(ntx)' /\ ntx' = ntx /\ setting' = setting
  BY <1>1, <1>2 DEF FilesAt, files
<1>4. LockStep(c) /\ lock'[c] = NO_LOCK
  BY <1>1, Vanishes
<1>5. Fresh \in PagerAt(ntx) /\ Control(Fresh, lock'[c], c \in reserved') /\ Fresh.at # "exclusive"
  BY <1>2, <1>4, FreshIs
<1> QED
  BY <1>1, <1>3, <1>4, <1>5, Moves

(* What a power failure leaves.                                            *)
LEMMA MixIs ==
  ASSUME NEW S, NEW now \in Seq(S), NEW disk \in Seq(S), NEW i \in Nat \ {0}, NEW torn \in S
  PROVE  Mix(now, disk, i, torn) \subseteq S
<1>1. i <= Len(now) => now[i] \in S
  OBVIOUS
<1>2. i <= Len(disk) => disk[i] \in S
  OBVIOUS
<1> QED
  BY <1>1, <1>2 DEF Mix

LEMMA MixesAre ==
  ASSUME NEW S, NEW now \in Seq(S), NEW disk \in Seq(S), NEW torn \in S, NEW m \in Mixes(now, disk, torn)
  PROVE  m \in Seq(S)
<1>1. PICK n \in {Len(now), Len(disk)} :
        /\ m \in [1 .. n -> UNION {Mix(now, disk, i, torn) : i \in 1 .. n}]
        /\ \A i \in 1 .. n : m[i] \in Mix(now, disk, i, torn)
  BY DEF Mixes
<1>2. n \in Nat
  BY <1>1
<1>3. \A i \in 1 .. n : m[i] \in S
  BY <1>1, <1>2, MixIs
<1>4. m \in [1 .. n -> S]
  BY <1>1, <1>3
<1> QED
  BY <1>2, <1>4

LEMMA JournalLeftIs ==
  ASSUME NEW n \in Nat, FilesAt(n), NEW j \in JournalsLeft
  PROVE  j \in JournalAt(n)
<1>1. /\ jrnl \in JournalAt(n) /\ djrnl \in JournalAt(n) /\ NoJournal \in JournalAt(n)
      /\ jrnl.slots \in Seq(SlotsAt(n)) /\ djrnl.slots \in Seq(SlotsAt(n))
      /\ << >> \in Seq(SlotsAt(n)) /\ Garbage \in SlotsAt(n)
  BY DEF FilesAt, JournalAt, NoJournal, SlotsAt
<1>2. CASE j \in {djrnl, NoJournal}
  BY <1>1, <1>2
<1>3. CASE j \in {[jrnl EXCEPT !.slots = f] : f \in Mixes(jrnl.slots, djrnl.slots, Garbage)}
  <2>1. PICK f \in Mixes(jrnl.slots, djrnl.slots, Garbage) : j = [jrnl EXCEPT !.slots = f]
    BY <1>3
  <2>2. f \in Seq(SlotsAt(n))
    BY <1>1, MixesAre
  <2> QED
    BY <1>1, <2>1, <2>2 DEF JournalAt
<1>4. CASE j \in {[jrnl EXCEPT !.slots = f, !.fresh = FALSE] : f \in Mixes(jrnl.slots, <<>>, Garbage)}
  <2>1. PICK f \in Mixes(jrnl.slots, <<>>, Garbage) : j = [jrnl EXCEPT !.slots = f, !.fresh = FALSE]
    BY <1>4
  <2>2. f \in Seq(SlotsAt(n))
    BY <1>1, MixesAre
  <2> QED
    BY <1>1, <2>1, <2>2 DEF JournalAt
<1> QED
  BY <1>2, <1>3, <1>4 DEF JournalsLeft

LEMMA PowerFailureStep == ASSUME IInv, PowerFailure PROVE IInv'
<1>1. setting \in Settings /\ ntx \in 0 .. MaxTx /\ ntx \in Nat /\ FilesAt(ntx)
  BY PagerAssumption DEF IInv, FilesAt
<1>2. ntx' = ntx /\ setting' = setting
  BY DEF PowerFailure
<1>3. db' \in Seq(ContentAt(ntx)) /\ ddb' \in Seq(ContentAt(ntx))
  <2>1. db' \in Mixes(db, ddb, Torn) /\ ddb' = db'
    BY DEF PowerFailure
  <2>2. db \in Seq(ContentAt(ntx)) /\ ddb \in Seq(ContentAt(ntx)) /\ Torn \in ContentAt(ntx)
    BY <1>1, ZeroIs DEF FilesAt
  <2> QED
    BY <2>1, <2>2, MixesAre
<1>4. jrnl' \in JournalAt(ntx) /\ djrnl' \in JournalAt(ntx)
  <2>1. jrnl' \in JournalsLeft /\ djrnl' = jrnl'
    BY DEF PowerFailure
  <2> QED
    BY <1>1, <2>1, JournalLeftIs
<1>5. pager' = [c \in Conns |-> Fresh] /\ Fresh \in PagerAt(ntx)
  BY <1>1, FreshIs DEF PowerFailure
<1>6. lock' = [c \in Conns |-> NO_LOCK] /\ reserved' = reserved \ Conns
  BY DEF PowerFailure, Locks!Vanish, Locks!NO_LOCK, NO_LOCK
<1>7. lock' \in [Conns -> Levels]
  BY <1>6, LockRange DEF NO_LOCK
<1>8. \A c, d \in reserved' : c = d
  BY <1>6 DEF IInv
<1>9. \A c \in Conns : Control(pager'[c], lock'[c], c \in reserved') /\ pager'[c].at # "exclusive"
  <2> TAKE c \in Conns
  <2>1. pager'[c] = Fresh /\ lock'[c] = NO_LOCK
    BY <1>5, <1>6
  <2>2. Control(Fresh, NO_LOCK, c \in reserved') /\ Fresh.at # "exclusive"
    BY <1>1, FreshIs
  <2> QED
    BY <2>1, <2>2
<1> QED
  BY <1>1, <1>2, <1>3, <1>4, <1>5, <1>7, <1>8, <1>9 DEF IInv

-----------------------------------------------------------------------------
LEMMA InitIInv == Init => IInv
<1> SUFFICES ASSUME Init PROVE IInv
  OBVIOUS
<1>1. /\ setting \in Settings /\ db = setting.initDb /\ ddb = db /\ ntx = (IF db = <<>> THEN 0 ELSE 1)
      /\ pager = [c \in Conns |-> Fresh] /\ lock = [c \in Conns |-> NO_LOCK] /\ reserved = {}
      /\ jrnl = NoJournal /\ djrnl = NoJournal
  BY DEF Init
<1>2. setting \in Setting
  BY <1>1, PagerAssumption
<1>3. db \in Seq([ver : {1}, sz : 0 .. MaxPage])
  <2>1. setting.initDb \in Seq([ver : {1}, sz : 0 .. MaxPage])
    BY <1>2 DEF Setting
  <2> QED
    BY <1>1, <2>1
<1>4. ntx \in 0 .. MaxTx /\ ntx \in Nat
  BY <1>1, PagerAssumption
<1>5. db \in Seq(ContentAt(ntx))
  <2>1. CASE db = <<>>
    BY <2>1
  <2>2. CASE db # <<>>
    <3>1. [ver : {1}, sz : 0 .. MaxPage] \subseteq ContentAt(1)
      BY DEF ContentAt
    <3>2. db \in Seq(ContentAt(1))
      <4> DEFINE A == [ver : {1}, sz : 0 .. MaxPage]
      <4>1. db \in Seq(A) /\ A \subseteq ContentAt(1)
        BY <1>3, <3>1
      <4> HIDE DEF A
      <4> QED
        BY <4>1
    <3> QED
      BY <1>1, <2>2, <3>2
  <2> QED
    BY <2>1, <2>2
<1>6. NoJournal \in JournalAt(ntx)
  <2>1. << >> \in Seq(SlotsAt(ntx))
    OBVIOUS
  <2> QED
    BY <2>1 DEF NoJournal, JournalAt
<1>7. /\ Fresh \in PagerAt(ntx) /\ Fresh.at # "exclusive"
      /\ \A r : Control(Fresh, NO_LOCK, r)
  BY <1>4, FreshIs
<1>8. pager \in [Conns -> PagerAt(ntx)] /\ lock \in [Conns -> Levels]
  BY <1>1, <1>7, LockRange DEF NO_LOCK
<1>9. \A c \in Conns : Control(pager[c], lock[c], c \in reserved) /\ pager[c].at # "exclusive"
  <2> TAKE c \in Conns
  <2>1. pager[c] = Fresh /\ lock[c] = NO_LOCK
    BY <1>1
  <2>2. Control(Fresh, NO_LOCK, c \in reserved)
    BY <1>7
  <2> QED
    BY <1>7, <2>1, <2>2
<1> QED
  BY <1>1, <1>4, <1>5, <1>6, <1>8, <1>9 DEF IInv

LEMMA UnchangedIs == ASSUME IInv, UNCHANGED vars PROVE IInv'
BY DEF IInv, vars, Control, Reads, Acts

LEMMA OpeningStep == ASSUME IInv, NEW c \in Conns, Opening(c) PROVE IInv'
BY SharedLockStep, HotAccessStep, HotReservedStep, HotEmptyStep, HotClearStep, HotFirstStep,
   HotExclusiveStep, HotOpenStep, SharedLockDoneStep DEF Opening

LEMMA WorkingStep == ASSUME IInv, NEW c \in Conns, Working(c) PROVE IInv'
<1>1. ASSUME NEW p \in 1 .. setting.pages, Get(c, p) \/ Write(c, p) \/ Spill(c, p)
      PROVE  IInv'
  BY <1>1, GetStep, WriteStep, SpillStep
<1> QED
  BY <1>1, EndReadStep, PagerBeginStep, BeginExclusiveStep, VacuumStep DEF Working

LEMMA SyncingStep == ASSUME IInv, NEW c \in Conns, Syncing(c) PROVE IInv'
BY CommitStep, CommitPhaseOneStep, ExclusiveLockStep, WriteRecordCountStep, SyncJournalStep,
   PageOutStep, WriteDirtyPageStep, SyncDbStep DEF Syncing

LEMMA EndingStep == ASSUME IInv, NEW c \in Conns, Ending(c) PROVE IInv'
BY RollbackStep, PlaybackSizeStep, PlaybackPageStep, PlaybackSyncStep, FinishStep, ReleaseStep,
   LeaveErrorStep DEF Ending

LEMMA MishapStep == ASSUME IInv, NEW c \in Conns, Mishap(c) PROVE IInv'
BY FailStep, FinishFailsStep, CrashStep DEF Mishap

LEMMA Preserved == IInv /\ [Next]_vars => IInv'
<1> SUFFICES ASSUME IInv, [Next]_vars PROVE IInv'
  OBVIOUS
<1>1. ASSUME NEW c \in Conns, Opening(c) \/ Working(c) \/ Syncing(c) \/ Ending(c) \/ Mishap(c)
      PROVE  IInv'
  BY <1>1, OpeningStep, WorkingStep, SyncingStep, EndingStep, MishapStep
<1>2. CASE PowerFailure
  BY <1>2, PowerFailureStep
<1>3. CASE UNCHANGED vars
  BY <1>3, UnchangedIs
<1> QED
  BY <1>1, <1>2, <1>3 DEF Next

LEMMA IInvIsTyped == IInv => TypeOK
<1> SUFFICES ASSUME IInv PROVE TypeOK
  OBVIOUS
<1>1. ntx \in 0 .. MaxTx /\ MaxTx \in Nat
  BY PagerAssumption DEF IInv
<1>2. ContentAt(ntx) \subseteq Content /\ EntryAt(ntx) \subseteq Entry
  BY <1>1 DEF ContentAt, Content, EntryAt, Entry
<1>3. db \in Seq(Content) /\ ddb \in Seq(Content) /\ lock \in [Conns -> Levels]
  <2>1. db \in Seq(ContentAt(ntx)) /\ ddb \in Seq(ContentAt(ntx)) /\ lock \in [Conns -> Levels]
    BY DEF IInv
  <2> HIDE DEF IInv
  <2> QED
    BY <1>2, <2>1
<1>4. ASSUME NEW c \in Conns
      PROVE  LET P == pager[c] IN
             /\ P.eState \in {"OPEN", "READER", "LOCKED", "CACHEMOD", "DBMOD", "FINISHED", "ERROR"}
             /\ Cached(P) \subseteq 1 .. MaxPage
             /\ \A p \in Cached(P) : P.cache[p] \in Entry
             /\ P.pInJournal \subseteq 1 .. MaxPage
             /\ P.journalHdr <= P.journalOff \/ P.goal = "rollback"
             /\ P.eState = "READER" => lock[c] >= SHARED_LOCK
             /\ P.eState \in Writing => lock[c] >= RESERVED_LOCK
             /\ P.eState \in {"DBMOD", "FINISHED"} => lock[c] = EXCLUSIVE_LOCK
  <2> DEFINE P == pager[c]
  <2>1. P \in PagerAt(ntx) /\ Control(P, lock[c], c \in reserved)
    BY PagerIs
  <2> HIDE DEF P
  <2>2. P.eState \in States /\ P.pInJournal \subseteq 1 .. MaxPage
    BY <2>1 DEF PagerAt
  <2>3. Cached(P) \subseteq 1 .. MaxPage /\ \A p \in Cached(P) : P.cache[p] \in EntryAt(ntx)
    BY <2>1, PageIs
  <2>4. /\ P.journalHdr <= P.journalOff \/ P.goal = "rollback"
        /\ P.eState = "READER" => lock[c] >= SHARED_LOCK
        /\ P.eState \in Writing => lock[c] >= RESERVED_LOCK
        /\ P.eState \in {"DBMOD", "FINISHED"} => lock[c] = EXCLUSIVE_LOCK
    BY <2>1 DEF Control, Reads, Acts, Writing
  <2> QED
    BY <1>2, <2>2, <2>3, <2>4 DEF P, States
<1> QED
  BY <1>3, <1>4 DEF TypeOK

(* Whatever connections there are, whichever journal mode and durability   *)
(* they use, and whatever dies or fails in between: who reads holds the    *)
(* shared lock, who has begun to change holds the reserved one and who has *)
(* touched the file the exclusive one; the pages in caches and files are   *)
(* pages of the database that no transaction but those begun has written,  *)
(* and the journal's open segment starts inside the journal.               *)
THEOREM PagerFitsItsLock == Spec => []TypeOK
<1>1. Init => IInv
  BY InitIInv
<1>2. IInv /\ [Next]_vars => IInv'
  BY Preserved
<1>3. IInv => TypeOK
  BY IInvIsTyped
<1> QED
  BY <1>1, <1>2, <1>3, PTL DEF Spec

-----------------------------------------------------------------------------
(* The pager and the locks.                                                *)
Exclusive(c) == lock[c] = EXCLUSIVE_LOCK /\ \A d \in Conns \ {c} : lock[d] = NO_LOCK

LInv ==
  /\ \A c, d \in Conns : c # d =>
       /\ lock[c] = EXCLUSIVE_LOCK => lock[d] = NO_LOCK
       /\ lock[c] = PENDING_LOCK => lock[d] # PENDING_LOCK
  /\ \A c \in Conns : lock[c] = RESERVED_LOCK => c \in reserved

(* What a step of one connection may do to the locks.                      *)
Climbs(c) ==
  \/ UNCHANGED levels
  \/ Locks!Share(c) \/ Locks!Reserve(c) \/ Locks!Pend(c) \/ Locks!Exclude(c)
  \/ Locks!Lower(c, SHARED_LOCK) \/ Locks!Vanish({c})

LEMMA ClimbsKeep == ASSUME IInv, LInv, NEW c \in Conns, Climbs(c) PROVE LInv'
<1> USE DEF LInv, EXCLUSIVE_LOCK, PENDING_LOCK, RESERVED_LOCK, SHARED_LOCK, NO_LOCK
<1>1. lock \in [Conns -> 0 .. 4]
  BY LockRange DEF IInv
<1>2. CASE UNCHANGED levels
  BY <1>2 DEF levels
<1>3. CASE Locks!Share(c)
  BY <1>1, <1>3 DEF Locks!Share, Locks!Set, Locks!Others, Locks!NO_LOCK, Locks!SHARED_LOCK, Locks!EXCLUSIVE_LOCK
<1>4. CASE Locks!Reserve(c)
  BY <1>1, <1>4 DEF Locks!Reserve, Locks!Set, Locks!Others, Locks!RESERVED_LOCK, Locks!SHARED_LOCK, Locks!EXCLUSIVE_LOCK
<1>5. CASE Locks!Pend(c)
  BY <1>1, <1>5 DEF Locks!Pend, Locks!Set, Locks!Others, Locks!RESERVED_LOCK, Locks!PENDING_LOCK, Locks!SHARED_LOCK, Locks!EXCLUSIVE_LOCK
<1>6. CASE Locks!Exclude(c)
  BY <1>1, <1>6 DEF Locks!Exclude, Locks!Set, Locks!Others, Locks!NO_LOCK, Locks!EXCLUSIVE_LOCK
<1>7. CASE Locks!Lower(c, SHARED_LOCK)
  <2>1. lock' = [lock EXCEPT ![c] = 1] /\ reserved' = reserved \ {c} /\ lock[c] > 1
    BY <1>7 DEF Locks!Lower, Locks!Set, Locks!SHARED_LOCK
  <2> QED
    BY <1>1, <2>1
<1>8. CASE Locks!Vanish({c})
  <2>1. lock' = [d \in Conns |-> IF d \in {c} THEN 0 ELSE lock[d]] /\ reserved' = reserved \ {c}
    BY <1>8 DEF Locks!Vanish, Locks!NO_LOCK
  <2> QED
    BY <1>1, <2>1
<1> QED
  BY <1>2, <1>3, <1>4, <1>5, <1>6, <1>7, <1>8 DEF Climbs

LEMMA AllClimb ==
  ASSUME NEW c \in Conns, Opening(c) \/ Working(c) \/ Syncing(c) \/ Ending(c) \/ Mishap(c)
  PROVE  Climbs(c)
<1>1. CASE Opening(c)
  BY <1>1 DEF Opening, SharedLock, HotAccess, HotReserved, HotEmpty, HotClear, HotFirst, HotExclusive,
     HotOpen, SharedLockDone, pager_unlock, Climbs
<1>2. CASE Working(c)
  <2>1. ASSUME NEW p, Get(c, p) \/ Write(c, p) \/ Spill(c, p)
        PROVE  UNCHANGED levels
    BY <2>1 DEF Get, Write, Spill
  <2>2. CASE EndRead(c) \/ PagerBegin(c) \/ BeginExclusive(c) \/ Vacuum(c)
    BY <2>2 DEF EndRead, PagerBegin, Reserving, BeginExclusive, Vacuum, pager_unlock, Climbs
  <2> QED
    BY <1>2, <2>1, <2>2 DEF Working, Climbs
<1>3. CASE Syncing(c)
  <2>1. CASE ExclusiveLock(c)
    BY <2>1 DEF ExclusiveLock, Climbs
  <2>2. CASE Commit(c) \/ CommitPhaseOne(c) \/ WriteRecordCount(c) \/ SyncJournal(c)
             \/ PageOut(c) \/ WriteDirtyPage(c) \/ SyncDb(c)
    BY <2>2 DEF Commit, CommitPhaseOne, WriteRecordCount, SyncJournal, PageOut, WriteDirtyPage, SyncDb, Climbs
  <2> QED
    BY <1>3, <2>1, <2>2 DEF Syncing
<1>4. CASE Ending(c)
  BY <1>4 DEF Ending, Rollback, PlaybackSize, PlaybackPage, PlaybackSync, Finish, Release, LeaveError,
     pager_unlock, Climbs
<1>5. CASE Mishap(c)
  BY <1>5 DEF Mishap, Fail, FinishFails, Crash, pager_unlock, Climbs
<1> QED
  BY <1>1, <1>2, <1>3, <1>4, <1>5

LEMMA LockedAlone ==
  ASSUME LInv, NEW c \in Conns, lock[c] = EXCLUSIVE_LOCK
  PROVE  Exclusive(c)
BY DEF LInv, Exclusive

LEMMA KeepsLocks == IInv /\ LInv /\ [Next]_vars => LInv'
<1> SUFFICES ASSUME IInv, LInv, [Next]_vars PROVE LInv'
  OBVIOUS
<1>1. ASSUME NEW c \in Conns, Opening(c) \/ Working(c) \/ Syncing(c) \/ Ending(c) \/ Mishap(c)
      PROVE  LInv'
  BY <1>1, AllClimb, ClimbsKeep
<1>2. CASE PowerFailure
  <2>1. lock' = [c \in Conns |-> NO_LOCK]
    BY <1>2 DEF PowerFailure, Locks!Vanish, Locks!NO_LOCK, NO_LOCK
  <2> QED
    BY <2>1 DEF LInv, NO_LOCK, EXCLUSIVE_LOCK, PENDING_LOCK, RESERVED_LOCK
<1>3. CASE UNCHANGED vars
  BY <1>3 DEF LInv, vars
<1> QED
  BY <1>1, <1>2, <1>3 DEF Next

(* Who writes the file holds the exclusive lock.                           *)
LEMMA WritesExclusively ==
  ASSUME IInv, NEW c \in Conns, Opening(c) \/ Working(c) \/ Syncing(c) \/ Ending(c) \/ Mishap(c), db' # db
  PROVE  lock[c] = EXCLUSIVE_LOCK
<1> DEFINE P == pager[c]
<1>1. P \in PagerAt(ntx) /\ Control(P, lock[c], c \in reserved)
  BY PagerIs
<1>2. ~ Opening(c) /\ ~ Mishap(c)
  BY DEF Opening, SharedLock, HotAccess, HotReserved, HotEmpty, HotClear, HotFirst, HotExclusive,
     HotOpen, SharedLockDone, Mishap, Fail, FinishFails, Crash, files
<1>3. ~ Working(c)
  BY DEF Working, EndRead, PagerBegin, BeginExclusive, Vacuum, Get, Write, Spill, files
<1>4. CASE PageOut(c) \/ WriteDirtyPage(c) \/ SyncDb(c)
  <2>1. P.at \in {"pageout", "pages"}
    BY <1>4 DEF PageOut, WriteDirtyPage, SyncDb
  <2>2. P.eState \in Writing /\ Acts(P, lock[c], c \in reserved)
    BY <2>1, WriterIs
  <2> QED
    BY <2>1, <2>2 DEF Acts
<1>5. CASE PlaybackSize(c) \/ PlaybackPage(c)
  <2>1. P.at = "play" /\ Touches(P)
    BY <1>5 DEF PlaybackSize, PlaybackPage
  <2> QED
    BY <1>1, <2>1 DEF Touches, Control, Hasnt, Acts, Writing
<1>6. CASE Release(c)
  <2>1. P.at = "release" /\ P.goal = "commit"
    BY <1>6 DEF Release
  <2>2. \/ P.eState = "FINISHED"
        \/ P.eState = "LOCKED"
    BY <2>1, EndsIs DEF Writing
  <2> QED
    BY <1>1, <2>1, <2>2 DEF Control, Acts, Writing
<1>7. CASE Syncing(c) /\ ~ (PageOut(c) \/ WriteDirtyPage(c) \/ SyncDb(c))
  BY <1>7 DEF Syncing, Commit, CommitPhaseOne, ExclusiveLock, WriteRecordCount, SyncJournal, files
<1>8. CASE Ending(c) /\ ~ (PlaybackSize(c) \/ PlaybackPage(c) \/ Release(c))
  BY <1>8 DEF Ending, Rollback, PlaybackSync, Finish, LeaveError, files
<1> QED
  BY <1>2, <1>3, <1>4, <1>5, <1>6, <1>7, <1>8

(* No two connections are exclusive, or pending: for any number of them,   *)
(* the pager never uses the locks so that FileLock's promise breaks.       *)
THEOREM LocksExclude == Spec => []Locks!Exclusion
<1>1. Init => IInv /\ LInv
  <2>1. Init => LInv
    BY DEF Init, LInv, NO_LOCK, EXCLUSIVE_LOCK, PENDING_LOCK, RESERVED_LOCK
  <2> QED
    BY <2>1, InitIInv
<1>2. (IInv /\ LInv) /\ [Next]_vars => (IInv /\ LInv)'
  BY Preserved, KeepsLocks
<1>3. IInv /\ LInv => Locks!Exclusion
  <2> SUFFICES ASSUME IInv, LInv, NEW c \in Conns, NEW d \in Conns \ {c}
               PROVE  /\ lock[c] = 4 => lock[d] = 0
                      /\ lock[c] = 3 => lock[d] # 3
                      /\ lock[c] = 2 => lock[d] # 2
                      /\ c \in reserved => d \notin reserved
    BY DEF Locks!Exclusion, Locks!Others, Locks!NO_LOCK, Locks!RESERVED_LOCK, Locks!PENDING_LOCK, Locks!EXCLUSIVE_LOCK
  <2>1. c # d /\ \A e, f \in reserved : e = f
    BY DEF IInv
  <2> QED
    BY <2>1 DEF LInv, NO_LOCK, RESERVED_LOCK, PENDING_LOCK, EXCLUSIVE_LOCK
<1> QED
  BY <1>1, <1>2, <1>3, PTL DEF Spec

(* The database file changes only while the connection that changes it is  *)
(* alone: nobody else holds any lock. A power failure apart, which keeps   *)
(* what was not synced or loses it.                                        *)
THEOREM FileChangesAlone ==
  Spec => [][db' # db => PowerFailure \/ \E c \in Conns : Exclusive(c)]_vars
<1>1. Init => IInv /\ LInv
  <2>1. Init => LInv
    BY DEF Init, LInv, NO_LOCK, EXCLUSIVE_LOCK, PENDING_LOCK, RESERVED_LOCK
  <2> QED
    BY <2>1, InitIInv
<1>2. (IInv /\ LInv) /\ [Next]_vars => (IInv /\ LInv)'
  BY Preserved, KeepsLocks
<1>3. (IInv /\ LInv) /\ [Next]_vars => [db' # db => PowerFailure \/ \E c \in Conns : Exclusive(c)]_vars
  <2> SUFFICES ASSUME IInv, LInv, Next, db' # db, ~ PowerFailure
               PROVE  \E c \in Conns : Exclusive(c)
    OBVIOUS
  <2>1. PICK c \in Conns : Opening(c) \/ Working(c) \/ Syncing(c) \/ Ending(c) \/ Mishap(c)
    BY DEF Next
  <2>2. Exclusive(c)
    BY <2>1, WritesExclusively, LockedAlone
  <2> QED
    BY <2>2
<1> QED
  BY <1>1, <1>2, <1>3, PTL DEF Spec

-----------------------------------------------------------------------------
(***************************************************************************)
(* What the database file and its journal hold, where the power does not   *)
(* fail: SBody is the invariant, named part by part, and the lemmas after  *)
(* it say of every operation on the two files what it keeps.  That each    *)
(* step keeps SBody, and what follows from it, is in PagerStore_proofs.    *)
(***************************************************************************)
(***************************************************************************)
(* Everything here is about values, so that it can be said of a state and  *)
(* of the next one alike: s is the setting, d the database file, f the     *)
(* slots of the journal, h the image that was committed last, hs all that  *)
(* were, P a pager.                                                        *)
(***************************************************************************)
Page == [ver : Int, sz : Int]
Lax(s) == s.synchronous = "off"

(* Where a rollback cannot meet a header that is not its own.              *)
Trusted(s) == ~ (s.journalMode = "persist" /\ s.spilling /\ ~ Lax(s) /\ s.fault > 0)

(* The images that were committed.                                         *)
Latest(hs) == hs[Len(hs)]
First(h) == IF h = << >> THEN Zero ELSE h[1]
Whole(h) == h = << >> \/ h[1].sz = Len(h)
Grows(hs) ==
  /\ hs \in Seq(Seq(Page)) /\ hs # << >>
  /\ \A i \in DOMAIN hs : Whole(hs[i]) /\ First(hs[i]).ver >= 0
  /\ \A i, j \in DOMAIN hs : i < j => First(hs[i]).ver < First(hs[j]).ver

(* A file that holds h, and a journal that gives it back.                  *)
Holds(d, h) ==
  /\ Len(h) <= Len(d) /\ (h = << >> => d = << >>)
  /\ \A p \in 1 .. Len(h) : d[p] = h[p]
Readable(f) == readJournalHdr(f, 0, -1)
Right(f, S, h) == \A i \in S : f[i].pgno <= Len(h) => f[i].val = h[f[i].pgno]
Spans(n, h) == Len(h) <= n /\ (h = << >> => n = 0)
Restores(f, d, h) ==
  LET S == Range(PlaybackSlots(f, -1)) IN
  /\ Spans(f[1].orig, h)
  /\ Right(f, S, h)
  /\ \A p \in 1 .. Len(h) : d[p] = h[p] \/ \E i \in S : f[i].pgno = p
Gives(j, d, h) == IF j.exists /\ Readable(j.slots) THEN Restores(j.slots, d, h) ELSE Holds(d, h)

(* No header behind slot n, but the one at the start: or, where nothing    *)
(* was committed yet, no records.                                          *)
Tidy(f, n) == \A i \in n + 1 .. Len(f) : f[i].kind # "header"
Careful(s) == ~ Lax(s) /\ s.fault > 0
Alone(s, f, n, h) == Careful(s) => Tidy(f, n) \/ h = << >>
Kept(s, f, h) ==
  Careful(s) => IF ~ s.spilling THEN Tidy(f, 1)
                ELSE s.journalMode # "persist" => Readable(f) \/ Tidy(f, 1) \/ h = << >>
NoneYet(f, h) == h = << >> => \A i \in DOMAIN f : f[i].kind # "record"
Stamps(f, n, t) == \A i \in n + 1 .. Len(f) : f[i].kind \in {"header", "record"} => f[i].nonce < t

(* Caches.                                                                 *)
Shows(P, h) == \A p \in Cached(P) : p <= Len(h) => P.cache[p].val = h[p]
Zeroed(P) == \A p \in Cached(P) : p = 1 /\ P.cache[p].val = Zero
Knows(P, h) == IF h = << >> THEN Zeroed(P) ELSE P.dbFileVers = h[1] /\ Shows(P, h)
Clear(P) == \A p \in Cached(P) : ~ P.cache[p].dirty
Keeps(P, hs) ==
  Zeroed(P) \/ \E i \in DOMAIN hs : hs[i] # << >> /\ P.dbFileVers = hs[i][1] /\ Shows(P, hs[i])
Settled(P) == Clear(P) /\ ~ P.changeCountDone /\ ~ P.bDoTruncate

(* Who relies on the file as it is.                                        *)
Relies(P, l, r) ==
  \/ P.eState \in {"READER", "LOCKED", "CACHEMOD"}
  \/ P.eState = "OPEN" /\ P.at \in {"version", "empty", "clear"}
  \/ r /\ l # EXCLUSIVE_LOCK

(* Recovery.                                                               *)
Left(f, S, k, p) == \E j \in k .. Len(S) : f[S[j]].pgno = p
Recovers(s, P, j, d, h) ==
  LET f == j.slots
      S == PlaybackSlots(f, -1)
  IN /\ P.at \in {"play", "finish"} => j.exists
     /\ P.at = "play" /\ P.k > 0 =>
          /\ P.k <= Len(S) + 1
          /\ \A p \in 1 .. Len(h) : d[p] = h[p] \/ Left(f, S, P.k, p)
          /\ Readable(f) => P.dbSize = f[1].orig /\ P.journalOff = 1 /\ (h = << >> => d = << >>)
          /\ S # << >> => Cached(P) = {}
     /\ P.at = "finish" => Holds(d, h) /\ (Readable(f) => P.journalOff # 0)
     /\ P.at = "release" => Holds(d, h) /\ Alone(s, f, 1, h)

Opens(s, P, j, d, h, hs) ==
  /\ P.hasHeldSharedLock \/ Cached(P) = {}
  /\ Settled(P) /\ Keeps(P, hs)
  /\ P.goal = "hot" => Recovers(s, P, j, d, h)

(* A transaction, until it ends: what is in the cache and in the file, of  *)
(* the pages in S, ...                                                     *)
Reading(P, d, h) == Knows(P, h) /\ Settled(P) /\ P.dbSize = Len(d)

Recs(f, a, b) == { i \in a .. b : f[i].kind = "record" }
Recorded(f, n, p) == \E i \in Recs(f, 1, n) : f[i].pgno = p
Synced(s, P, f, p) == Recorded(f, IF Lax(s) THEN P.journalOff ELSE P.journalHdr, p)
Committing(P) == P.goal = "commit" /\ P.at \in {"count", "sync", "pages"}

Changing(s, P, f, d, h, S) ==
  /\ \A p \in Cached(P) : p <= Len(h) => p \in P.pInJournal \/ (P.cache[p].val = h[p] /\ ~ P.cache[p].dirty)
  /\ \A p \in P.pInJournal : p <= Len(h) =>
       /\ Recorded(f, P.journalOff, p)
       /\ P.eState = "DBMOD" => Synced(s, P, f, p) \/ (p \in Cached(P) /\ P.cache[p].needSync)
  /\ \A p \in Cached(P) : p \in S /\ ~ P.cache[p].dirty => p <= Len(d) /\ d[p] = P.cache[p].val
  /\ \A p \in 1 .. Len(h) : d[p] = h[p] \/ (P.eState = "DBMOD" /\ p \in P.pInJournal /\ Synced(s, P, f, p))
Changes(s, P, f, d, h) == Changing(s, P, f, d, h, 1 .. Size(P))

Sizes(P, d, h) ==
  /\ Spans(P.dbOrigSize, h) /\ P.dbFileSize = Len(d)
  /\ P.eState = "CACHEMOD" => Len(d) = P.dbOrigSize
  /\ 1 <= Size(P) /\ Size(P) <= P.dbSize
  /\ ~ P.bDoTruncate => Len(h) <= Size(P)
  /\ ~ Committing(P) => P.dbOrigSize <= P.dbSize

Version(P, h) ==
  /\ h # << >> /\ P.at # "pages" => P.dbFileVers = h[1]
  /\ P.changeCountDone <=> Committing(P)
  /\ Committing(P) =>
       /\ First(h).ver < P.cache[1].val.ver
       /\ h # << >> => 1 \in P.pInJournal
       /\ P.cache[1].dirty \/ (P.at = "pages" /\ P.dbFileVers = P.cache[1].val)
  /\ P.goal = "spill" =>
       /\ P.cache[P.k].dirty
       /\ P.at = "pageout" => ~ P.cache[P.k].needSync

(* ... and in the journal: P's own slots, in sections of which the last    *)
(* may not have its count yet.                                             *)
Mine(P, f) ==
  /\ P.journalOff \in 1 .. Len(f)
  /\ \A i \in 1 .. P.journalOff : f[i].kind \in {"header", "record"} /\ f[i].nonce = P.tx
  /\ Stamps(f, P.journalOff, P.tx)
  /\ f[1].kind = "header" /\ f[1].orig = P.dbOrigSize

OnlyRecords(f, a, b) == \A i \in a .. b : f[i].kind = "record"
Sections(f, e) ==
  \A o \in 0 .. e - 1 : IsHeader(f, o) =>
    LET n == f[o + 1].nRec IN
    /\ f[o + 1].magic /\ n \in Nat /\ o + 1 + n <= e
    /\ OnlyRecords(f, o + 2, o + 1 + n)
    /\ o + 1 + n < e => IsHeader(f, o + 1 + n)

Ends(f, n) == ~ readJournalHdr(f, n, -1)
Filling(P, f) ==
  /\ P.journalHdr < P.journalOff /\ IsHeader(f, P.journalHdr) /\ Sections(f, P.journalHdr)
  /\ OnlyRecords(f, P.journalHdr + 2, P.journalOff) /\ P.nRec = P.journalOff - P.journalHdr - 1
Unsynced(P, f) ==
  Filling(P, f) /\ ~ f[P.journalHdr + 1].magic /\ f[P.journalHdr + 1].nRec = 0
Closed(P, f) ==
  /\ Filling(P, f) /\ f[P.journalHdr + 1].magic /\ f[P.journalHdr + 1].nRec = P.nRec
  /\ Ends(f, P.journalOff)
Done(P, f) ==
  P.journalHdr = P.journalOff /\ Sections(f, P.journalOff) /\ Ends(f, P.journalOff)
Endless(P, f) ==
  P.journalHdr = 0 /\ f[1].magic /\ f[1].nRec = ALL /\ OnlyRecords(f, 2, P.journalOff)

Journals(s, P, f, h) ==
  /\ Mine(P, f) /\ Alone(s, f, P.journalOff, h) /\ Right(f, Recs(f, 1, P.journalOff), h)
  /\ ~ Lax(s) => (P.eState = "CACHEMOD" <=> P.journalHdr = 0)
  /\ P.goal = "spill" => s.spilling
  /\ IF Lax(s) THEN Endless(P, f)
     ELSE CASE P.at = "sync" -> Closed(P, f)
            [] P.at = "pages" -> Done(P, f)
            [] OTHER -> Unsynced(P, f)

(* A rollback.                                                             *)
OwnIn(s, P, f) ==
  IF P.goal = "hot" \/ ~ ((IsHeader(f, P.journalHdr) /\ f[P.journalHdr + 1].nonce = P.tx)
                          \/ P.nRec % s.sector = 0)
  THEN -1 ELSE P.journalHdr
SlotsIn(s, P, f) == PlaybackSlots(f, OwnIn(s, P, f))
Next1(P) == IF P.k = 0 THEN 1 ELSE P.k

Plays(s, P, f, d, h) ==
  LET S == SlotsIn(s, P, f)
      k == Next1(P)
  IN /\ P.k <= Len(S) + 1
     /\ Right(f, Range(S), h)
     /\ \A p \in Cached(P) : p <= Len(h) => P.cache[p].val = h[p] \/ Left(f, S, k, p)
     /\ \A p \in 1 .. Len(h) : 
          \/ d[p] = h[p]
          \/ /\ P.eState = "DBMOD"
             /\ \E j \in k .. Len(S) : f[S[j]].pgno = p /\ (Lax(s) \/ S[j] <= P.journalHdr)
     /\ h # << >> => P.dbFileVers = h[1] \/ Left(f, S, k, 1)
     /\ readJournalHdr(f, 0, OwnIn(s, P, f)) /\ f[1].orig = P.dbOrigSize /\ Spans(P.dbOrigSize, h)
     /\ P.k > 0 => P.dbSize = P.dbOrigSize
     /\ P.k > 0 \/ P.eState = "CACHEMOD" => Len(d) = P.dbOrigSize
     /\ P.journalOff # 0

Undoes(s, P, f, d, h) ==
  /\ P.at = "play" => Plays(s, P, f, d, h)
  /\ P.at = "finish" => /\ Holds(d, h) /\ Shows(P, h) /\ P.dbSize = Len(d) /\ P.journalOff # 0
                        /\ h # << >> => P.dbFileVers = h[1]
  /\ P.at = "release" => Holds(d, h) /\ Knows(P, h) /\ Clear(P) /\ P.dbSize = Len(d) /\ Alone(s, f, 1, h)

(* A commit whose pages are written.                                       *)
Commits(s, P, f, d, h) ==
  /\ P.dbSize <= P.dbFileSize /\ P.dbFileSize = Len(d) /\ Clear(P)
  /\ P.at = "finish" =>
       /\ 1 <= Size(P) /\ Size(P) <= P.dbSize /\ P.journalOff # 0
       /\ \A p \in Cached(P) : p <= Size(P) => d[p] = P.cache[p].val
       /\ P.dbFileVers = P.cache[1].val /\ First(h).ver < P.dbFileVers.ver
  /\ P.at = "release" => h # << >> /\ Holds(d, h) /\ Knows(P, h) /\ Len(h) <= P.dbSize /\ Alone(s, f, 1, h)

(* One connection.                                                         *)
Fares(s, P, l, r, j, d, h, hs) ==
  LET f == j.slots IN
  /\ P.dbFileVers.ver >= 0 /\ (P.eState # "OPEN" => P.hasHeldSharedLock)
  /\ r => l >= RESERVED_LOCK
  /\ Relies(P, l, r) => Holds(d, h) /\ Alone(s, f, 1, h)
  /\ P.eState = "OPEN" => Opens(s, P, j, d, h, hs)
  /\ P.eState = "READER" => Reading(P, d, h)
  /\ P.eState = "LOCKED" =>
       /\ Reading(P, d, h) /\ P.dbOrigSize = P.dbSize /\ P.dbFileSize = P.dbSize
       /\ Stamps(f, 0, P.tx)
  /\ P.eState \in {"CACHEMOD", "DBMOD"} =>
       /\ j.exists \/ P.at = "release"
       /\ IF P.goal = "rollback" THEN Undoes(s, P, f, d, h)
          ELSE Changes(s, P, f, d, h) /\ Sizes(P, d, h) /\ Version(P, h) /\ Journals(s, P, f, h)
  /\ P.eState = "FINISHED" => Commits(s, P, f, d, h)

(* All of them.                                                            *)
Safe(s, j, d, n, h, hs) ==
  /\ Grows(hs) /\ h = Latest(hs)
  /\ Len(h) <= Len(d) /\ Gives(j, d, h)
  /\ ~ j.exists => j.slots = << >>
  /\ Stamps(j.slots, 0, n + 1) /\ Kept(s, j.slots, h) /\ NoneYet(j.slots, h)

Latest1 == Latest(history)
SBody ==
  /\ Safe(setting, jrnl, db, ntx, Latest1, history)
  /\ \A c \in Conns : Fares(setting, pager[c], lock[c], c \in reserved, jrnl, db, Latest1, history)
SInv ==
  /\ mishaps \in [crash : Nat, power : Nat, fault : Nat]
  /\ mishaps.power = 0 /\ Trusted(setting) => SBody


-----------------------------------------------------------------------------
LEMMA GreatestNumber ==
  ASSUME NEW n \in Nat, NEW S, S \subseteq 1 .. n, S # {}
  PROVE  \E i \in S : \A k \in S : k <= i
<1> DEFINE T == { m \in Nat : m <= n /\ n - m \in S }
<1>1. PICK i \in S : TRUE
  OBVIOUS
<1>2. n - i \in Nat /\ n - i <= n /\ n - (n - i) = i
  BY <1>1
<1>3. T \in SUBSET Nat /\ T # {}
  BY <1>1, <1>2
<1>4. PICK m \in T : \A y \in T : m <= y
  BY <1>3, LeastNumber
<1>5. n - m \in S /\ m \in Nat /\ m <= n
  BY <1>4
<1>6. ASSUME NEW k \in S
      PROVE  k <= n - m
  <2>1. k \in 1 .. n /\ n - k \in Nat /\ n - k <= n /\ n - (n - k) = k
    OBVIOUS
  <2>2. n - k \in T
    BY <2>1
  <2>3. m <= n - k
    BY <1>4, <2>2
  <2> QED
    BY <1>5, <2>1, <2>3
<1> QED
  BY <1>5, <1>6

LEMMA NotEmpty ==
  ASSUME NEW S, NEW s \in Seq(S)
  PROVE  /\ Len(s) \in Nat
         /\ s # << >> => 1 <= Len(s) /\ 1 \in 1 .. Len(s)
         /\ Len(s) = 0 <=> s = << >>
OBVIOUS

-----------------------------------------------------------------------------
(* What is played back of a journal of sections.                           *)
Unfolding(f, own, c) ==
  \A o \in 0 .. Len(f) : c[o] = From(f, own, c, o) /\ c[o] \in Seq(Records(f))

LEMMA RangeOfBoth ==
  ASSUME NEW S, NEW s \in Seq(S), NEW t \in Seq(S)
  PROVE  Range(s \o t) = Range(s) \cup Range(t)
<1>1. s \o t \in Seq(S) /\ Len(s \o t) = Len(s) + Len(t)
  OBVIOUS
<1>2. ASSUME NEW i \in 1 .. Len(s \o t)
      PROVE  (s \o t)[i] \in Range(s) \cup Range(t)
  <2>1. CASE i <= Len(s)
    <3>1. i \in DOMAIN s /\ (s \o t)[i] = s[i]
      BY <1>1, <2>1
    <3> QED
      BY <3>1 DEF Range
  <2>2. CASE i > Len(s)
    <3>1. i - Len(s) \in DOMAIN t /\ (s \o t)[i] = t[i - Len(s)]
      BY <1>1, <2>2
    <3> QED
      BY <3>1 DEF Range
  <2> QED
    BY <1>1, <2>1, <2>2
<1>3. ASSUME NEW i \in 1 .. Len(s)
      PROVE  s[i] \in Range(s \o t)
  <2>1. i \in DOMAIN (s \o t) /\ (s \o t)[i] = s[i]
    BY <1>1
  <2> QED
    BY <2>1 DEF Range
<1>4. ASSUME NEW i \in 1 .. Len(t)
      PROVE  t[i] \in Range(s \o t)
  <2>1. Len(s) + i \in DOMAIN (s \o t) /\ (s \o t)[Len(s) + i] = t[i]
    BY <1>1
  <2> QED
    BY <2>1 DEF Range
<1>5. DOMAIN (s \o t) = 1 .. Len(s \o t) /\ DOMAIN s = 1 .. Len(s) /\ DOMAIN t = 1 .. Len(t)
  BY <1>1
<1> QED
  BY <1>2, <1>3, <1>4, <1>5 DEF Range

LEMMA RangeOfRun ==
  ASSUME NEW o \in Nat, NEW n \in Nat
  PROVE  Range([i \in 1 .. n |-> o + 1 + i]) = o + 2 .. o + 1 + n
<1> DEFINE g == [i \in 1 .. n |-> o + 1 + i]
<1>1. ASSUME NEW i \in o + 2 .. o + 1 + n
      PROVE  i \in Range(g)
  <2>1. i - (o + 1) \in DOMAIN g /\ g[i - (o + 1)] = i
    OBVIOUS
  <2> QED
    BY <2>1 DEF Range
<1>2. ASSUME NEW i \in DOMAIN g
      PROVE  g[i] \in o + 2 .. o + 1 + n
  OBVIOUS
<1> QED
  BY <1>1, <1>2 DEF Range

(* One section.                                                            *)
LEMMA SectionPlayed ==
  ASSUME NEW n, NEW f \in Seq(SlotsAt(n)), NEW own, NEW c, Unfolding(f, own, c),
         NEW o \in 0 .. Len(f), readJournalHdr(f, o, own), RecordCount(f, o, own) \in Fits(f, o, RecordCount(f, o, own))
  PROVE  LET m == RecordCount(f, o, own) IN
         /\ m \in Nat /\ o + 1 + m \in 0 .. Len(f)
         /\ Range(c[o]) = (o + 2 .. o + 1 + m) \cup Range(c[o + 1 + m])
<1> DEFINE m == RecordCount(f, o, own)
           run == [i \in 1 .. m |-> o + 1 + i]
<1>1. m \in Nat /\ o + 1 <= Len(f)
  BY RecordCountIs
<1>2. c[o] = run \o c[o + 1 + m]
  BY DEF Unfolding, From
<1>3. run \in Seq(Records(f)) /\ o + 1 + m \in o + 1 .. Len(f)
  <2> HIDE DEF m
  <2>1. m \in Fits(f, o, m)
    BY DEF m
  <2> QED
    BY <1>1, <2>1, FitsIn
<1>4. o + 1 + m \in 0 .. Len(f) /\ o \in Nat
  BY <1>3
<1>5. c[o + 1 + m] \in Seq(Records(f))
  BY <1>4 DEF Unfolding
<1> HIDE DEF m
<1>6. Range(run) = o + 2 .. o + 1 + m
  BY <1>1, <1>4, RangeOfRun
<1> HIDE DEF run
<1>7. Range(c[o]) = Range(run) \cup Range(c[o + 1 + m])
  BY <1>2, <1>3, <1>5, RangeOfBoth
<1> QED
  BY <1>1, <1>4, <1>6, <1>7 DEF m

(* Sections up to offset e, all of one writer, none of which is filled.    *)
Bound(f, own, e, t) ==
  /\ Sections(f, e)
  /\ e > 0 => IsHeader(f, 0)
  /\ own \notin 0 .. e - 1
  /\ \A i \in 1 .. e : f[i].kind \in {"header", "record"} => f[i].nonce = t

Leads(f, c, e, o, k) ==
  /\ o + 1 + k <= e /\ (o + 1 + k < e => IsHeader(f, o + 1 + k))
  /\ Range(c[o]) = (o + 2 .. o + 1 + k) \cup Range(c[o + 1 + k])
  /\ OnlyRecords(f, o + 2, o + 1 + k)

LEMMA SectionStep ==
  ASSUME NEW n, NEW f \in Seq(SlotsAt(n)), NEW own, NEW c, Unfolding(f, own, c),
         NEW e \in 0 .. Len(f), NEW t, Bound(f, own, e, t),
         NEW o \in 0 .. e - 1, IsHeader(f, o)
  PROVE  \E k \in Nat : Leads(f, c, e, o, k)
<1> DEFINE k == f[o + 1].nRec
<1>1. o \in 0 .. Len(f) /\ o + 1 \in 1 .. e /\ o + 1 <= Len(f) /\ Len(f) \in Nat /\ e \in Nat
  OBVIOUS
<1>2. /\ f[o + 1].magic /\ k \in Nat /\ o + 1 + k <= e
      /\ OnlyRecords(f, o + 2, o + 1 + k)
      /\ o + 1 + k < e => IsHeader(f, o + 1 + k)
  BY DEF Bound, Sections
<1>3. readJournalHdr(f, o, own) /\ o # own
  BY <1>2 DEF readJournalHdr, Bound
<1>4. RecordCount(f, o, own) = k
  <2>1. k # ALL
    BY <1>2 DEF ALL
  <2> QED
    BY <1>3, <2>1 DEF RecordCount
<1> HIDE DEF k
<1>5. ASSUME NEW i \in 1 .. k
      PROVE  Belongs(f, o + 1 + i, o)
  <2>1. o + 1 + i \in o + 2 .. o + 1 + k /\ o + 1 + i \in 1 .. e /\ o + 1 + i <= Len(f)
    BY <1>1, <1>2
  <2>2. f[o + 1 + i].kind = "record"
    BY <1>2, <2>1 DEF OnlyRecords
  <2>3. f[o + 1].kind = "header"
    BY DEF IsHeader
  <2>4. f[o + 1 + i].nonce = t /\ f[o + 1].nonce = t
    BY <1>1, <2>1, <2>2, <2>3 DEF Bound
  <2> QED
    BY <2>1, <2>2, <2>4 DEF Belongs
<1>6. k \in Fits(f, o, k)
  BY <1>2, <1>5 DEF Fits
<1>7. Range(c[o]) = (o + 2 .. o + 1 + k) \cup Range(c[o + 1 + k])
  BY <1>1, <1>3, <1>4, <1>6, SectionPlayed
<1> QED
  BY <1>2, <1>7 DEF Leads

LEMMA RecsSplit ==
  ASSUME NEW f, NEW a \in Nat, NEW b \in Nat, NEW X \in Nat, a <= b, b <= X,
         NEW a1, a1 = a + 1, NEW b1, b1 = b + 1,
         f[a].kind # "record", OnlyRecords(f, a1, b)
  PROVE  Recs(f, a, X) = (a1 .. b) \cup Recs(f, b1, X)
<1>1. ASSUME NEW i
      PROVE  i \in a .. X <=> i = a \/ i \in a1 .. b \/ i \in b1 .. X
  OBVIOUS
<1>2. \A i : i \in Recs(f, a, X) <=> i \in (a1 .. b) \cup Recs(f, b1, X)
  BY <1>1 DEF Recs, OnlyRecords
<1> QED
  BY <1>2

(* All sections up to offset e, where X is where the records end.          *)
LEMMA SectionsPlayed ==
  ASSUME NEW n, NEW f \in Seq(SlotsAt(n)), NEW own, NEW c, Unfolding(f, own, c),
         NEW e \in 0 .. Len(f), NEW t, Bound(f, own, e, t),
         NEW X \in e .. Len(f), Range(c[e]) = Recs(f, e + 1, X)
  PROVE  Range(c[0]) = Recs(f, 1, X)
<1> DEFINE T == { m \in Nat : /\ m <= e /\ (m = 0 \/ IsHeader(f, e - m))
                              /\ Range(c[e - m]) # Recs(f, e - m + 1, X) }
<1>1. Len(f) \in Nat /\ e \in Nat /\ X \in Nat /\ e <= X /\ X <= Len(f)
  OBVIOUS
<1>2. ASSUME NEW m \in T, \A y \in T : m <= y
      PROVE  FALSE
  <2> DEFINE o == e - m
  <2>1. m \in Nat /\ m <= e /\ (m = 0 \/ IsHeader(f, o)) /\ Range(c[o]) # Recs(f, o + 1, X)
    OBVIOUS
  <2> HIDE DEF T
  <2>2. m # 0
    <3>1. m = 0 => o = e
      BY <1>1, <2>1
    <3> QED
      BY <2>1, <3>1
  <2>3. o \in 0 .. e - 1 /\ e - o = m /\ o \in Nat
    BY <1>1, <2>1, <2>2
  <2> HIDE DEF o
  <2>4. PICK k \in Nat : Leads(f, c, e, o, k)
    BY <2>1, <2>2, <2>3, SectionStep
  <2> DEFINE r == e - (o + 1 + k)
  <2>14. o + 1 + k <= e /\ k \in Nat
    BY <2>4 DEF Leads
  <2>5. r \in Nat /\ r < m /\ e - r = o + 1 + k /\ r <= e
    BY ONLY <1>1, <2>1, <2>3, <2>14
  <2>6. r = 0 \/ IsHeader(f, o + 1 + k)
    <3>1. o + 1 + k < e \/ r = 0
      BY ONLY <1>1, <2>3, <2>14
    <3> QED
      BY <2>4, <3>1 DEF Leads
  <2> HIDE DEF r
  <2>7. r \notin T
    BY <1>2, <2>1, <2>5
  <2>8. Range(c[o + 1 + k]) = Recs(f, o + 1 + k + 1, X)
    BY <2>5, <2>6, <2>7 DEF T
  <2>9. f[o + 1].kind # "record"
    BY <2>1, <2>2 DEF IsHeader
  <2>10. Recs(f, o + 1, X) = (o + 2 .. o + 1 + k) \cup Recs(f, o + 1 + k + 1, X)
    <3>1. o + 1 + k <= X
      BY ONLY <1>1, <2>3, <2>14
    <3>2. OnlyRecords(f, o + 2, o + 1 + k)
      BY <2>4 DEF Leads
    <3>3. o + 1 \in Nat /\ o + 1 + k \in Nat /\ o + 1 <= o + 1 + k /\ o + 2 = (o + 1) + 1
      BY ONLY <2>3, <2>14
    <3> QED
      BY ONLY <1>1, <2>9, <3>1, <3>2, <3>3, RecsSplit
  <2> QED
    BY <2>1, <2>4, <2>8, <2>10 DEF Leads
<1>3. T = {}
  <2>1. T \in SUBSET Nat
    OBVIOUS
  <2> HIDE DEF T
  <2> QED
    BY <1>2, <2>1, LeastNumber
<1>4. CASE e = 0
  BY <1>4
<1>5. CASE e > 0
  <2>1. e \in Nat /\ e <= e /\ e - e = 0 /\ e - e + 1 = 1
    BY <1>1
  <2>2. IsHeader(f, 0)
    BY <1>5 DEF Bound
  <2> QED
    BY <1>3, <2>1, <2>2
<1> QED
  BY <1>1, <1>4, <1>5

(* Sections, and nothing behind them.                                      *)
LEMMA EndedPlayed ==
  ASSUME NEW n, NEW f \in Seq(SlotsAt(n)), NEW own,
         NEW e \in 0 .. Len(f), NEW t, Bound(f, own, e, t),
         ~ readJournalHdr(f, e, own)
  PROVE  Range(PlaybackSlots(f, own)) = Recs(f, 1, e)
<1>1. PICK c : PlaybackSlots(f, own) = c[0] /\ Unfolding(f, own, c)
  BY Unfolds DEF Unfolding
<1>2. c[e] = << >>
  BY <1>1 DEF Unfolding, From
<1>3. Range(c[e]) = Recs(f, e + 1, e) /\ e \in e .. Len(f)
  BY <1>2 DEF Range, Recs
<1> QED
  BY <1>1, <1>3, SectionsPlayed

(* Sections, and a last one that is read until its records end, at off.    *)
LEMMA FilledPlayed ==
  ASSUME NEW n, NEW f \in Seq(SlotsAt(n)), NEW own,
         NEW e \in 0 .. Len(f), NEW t, Bound(f, own, e, t),
         NEW off \in e + 1 .. Len(f), \A i \in 1 .. off : f[i].kind \in {"header", "record"} => f[i].nonce = t,
         readJournalHdr(f, e, own), OnlyRecords(f, e + 2, off),
         off < Len(f) /\ f[off + 1].kind = "record" => f[off + 1].nonce # t,
         \/ RecordCount(f, e, own) = off - e - 1 /\ ~ readJournalHdr(f, off, own)
         \/ RecordCount(f, e, own) = Len(f) - (e + 1)
  PROVE  Range(PlaybackSlots(f, own)) = Recs(f, 1, off)
<1>1. PICK c : PlaybackSlots(f, own) = c[0] /\ Unfolding(f, own, c)
  BY Unfolds DEF Unfolding
<1>2. Len(f) \in Nat /\ e \in Nat /\ off \in Nat /\ e < off /\ off <= Len(f) /\ off \in 0 .. Len(f)
  OBVIOUS
<1> DEFINE m == RecordCount(f, e, own)
           k == off - e - 1
<1>3. f[e + 1].kind = "header" /\ f[e + 1].nonce = t
  <2>1. f[e + 1].kind = "header"
    BY DEF readJournalHdr, IsHeader
  <2> QED
    BY <1>2, <2>1
<1>4. ASSUME NEW i \in 1 .. k
      PROVE  Belongs(f, e + 1 + i, e)
  <2>1. e + 1 + i \in e + 2 .. off /\ e + 1 + i \in 1 .. off /\ e + 1 + i <= Len(f)
    BY <1>2
  <2>2. f[e + 1 + i].kind = "record"
    BY <2>1 DEF OnlyRecords
  <2> QED
    BY <1>3, <2>1, <2>2 DEF Belongs
<1>5. k \in Nat /\ e + 1 + k = off /\ m \in Nat /\ k <= m
  BY <1>2
<1>6. Range(c[e]) = e + 2 .. off
  <2>1. CASE m \in Fits(f, e, m)
    <3>1. Range(c[e]) = (e + 2 .. e + 1 + m) \cup Range(c[e + 1 + m])
      BY <1>1, <2>1, SectionPlayed
    <3>2. CASE m = k
      <4>1. ~ readJournalHdr(f, off, own)
        <5>1. off = Len(f) => ~ IsHeader(f, off)
          BY <1>2 DEF IsHeader
        <5> QED
          BY <1>2, <3>2, <5>1 DEF readJournalHdr
      <4>2. c[off] = << >>
        BY <1>1, <1>2, <4>1 DEF Unfolding, From
      <4>3. Range(c[off]) = {}
        BY <4>2 DEF Range
      <4> QED
        BY <1>5, <3>1, <3>2, <4>3
    <3>3. CASE m # k
      <4>1. k + 1 \in 1 .. m /\ e + 1 + (k + 1) = off + 1
        BY <1>5, <3>3
      <4>2. Belongs(f, off + 1, e)
        BY <2>1, <4>1 DEF Fits
      <4> QED
        BY <1>2, <1>3, <4>2 DEF Belongs
    <3> QED
      BY <3>2, <3>3
  <2>2. CASE m \notin Fits(f, e, m)
    <3>1. k \in Fits(f, e, m)
      <4> HIDE DEF m
      <4> QED
        BY <1>4, <1>5 DEF Fits
    <3>2. ASSUME NEW j \in Fits(f, e, m), j > k
          PROVE  FALSE
      <4>1. k + 1 \in 1 .. j /\ e + 1 + (k + 1) = off + 1
        BY <1>5, <3>2 DEF Fits
      <4>2. Belongs(f, off + 1, e)
        BY <4>1 DEF Fits
      <4> QED
        BY <1>2, <1>3, <4>2 DEF Belongs
    <3>3. ASSUME NEW j \in Fits(f, e, m), j < k
          PROVE  j + 1 \in Fits(f, e, m)
      <4>1. j \in Nat /\ j + 1 \in 0 .. m
        BY <1>5, <3>3 DEF Fits
      <4>2. \A i \in 1 .. j + 1 : i \in 1 .. k
        BY <1>5, <3>3, <4>1
      <4> QED
        BY <1>4, <4>1, <4>2 DEF Fits
    <3> DEFINE q == CHOOSE j \in Fits(f, e, m) : j + 1 \notin Fits(f, e, m)
    <3>4. q \in Fits(f, e, m) /\ q + 1 \notin Fits(f, e, m)
      <4>1. k + 1 \notin Fits(f, e, m)
        <5>1. k + 1 > k
          BY <1>5
        <5> QED
          BY <3>2, <5>1
      <4> QED
        BY <3>1, <4>1
    <3>5. q \in Nat
      BY <3>4 DEF Fits
    <3>6. c[e] = [i \in 1 .. q |-> e + 1 + i]
      BY <1>1, <2>2 DEF Unfolding, From
    <3> HIDE DEF q
    <3>7. q = k
      BY <1>5, <3>2, <3>3, <3>4, <3>5
    <3> QED
      BY <1>2, <1>5, <3>6, <3>7, RangeOfRun
  <2> QED
    BY <2>1, <2>2
<1>7. Recs(f, e + 1, off) = e + 2 .. off
  <2>1. \A i \in e + 2 .. off : f[i].kind = "record"
    BY DEF OnlyRecords
  <2>2. \A i : i \in e + 1 .. off <=> i = e + 1 \/ i \in e + 2 .. off
    BY <1>2
  <2>3. \A i : i \in Recs(f, e + 1, off) <=> i \in e + 2 .. off
    BY <1>3, <2>1, <2>2 DEF Recs
  <2> QED
    BY <2>3
<1>8. off \in e .. Len(f)
  BY <1>2
<1> HIDE DEF Recs
<1>9. Range(c[e]) = Recs(f, e + 1, off)
  BY <1>6, <1>7
<1> QED
  BY <1>1, <1>8, <1>9, SectionsPlayed

-----------------------------------------------------------------------------
(* What a rollback plays back, in each of the states of a journal.         *)
LEMMA OwnSlots ==
  ASSUME NEW n, NEW P \in PagerAt(n), NEW f \in Seq(SlotsAt(n)), Mine(P, f)
  PROVE  /\ P.journalOff \in 1 .. Len(f) /\ P.journalOff \in Nat /\ P.journalHdr \in Nat /\ Len(f) \in Nat
         /\ \A i \in 1 .. P.journalOff : f[i].kind \in {"header", "record"} => f[i].nonce = P.tx
         /\ IsHeader(f, 0)
         /\ P.journalOff < Len(f) /\ f[P.journalOff + 1].kind \in {"header", "record"} =>
              f[P.journalOff + 1].nonce # P.tx
<1>1. P.journalOff \in 1 .. Len(f) /\ P.journalOff \in Nat /\ P.journalHdr \in Nat /\ Len(f) \in Nat /\ P.tx \in Int
  BY DEF Mine, PagerAt
<1>2. \A i \in 1 .. P.journalOff : f[i].kind \in {"header", "record"} => f[i].nonce = P.tx
  BY DEF Mine
<1>3. IsHeader(f, 0)
  BY <1>1 DEF Mine, IsHeader
<1>4. ASSUME P.journalOff < Len(f), f[P.journalOff + 1].kind \in {"header", "record"}
      PROVE  f[P.journalOff + 1].nonce # P.tx
  <2>1. P.journalOff + 1 \in P.journalOff + 1 .. Len(f)
    BY <1>1, <1>4
  <2>2. f[P.journalOff + 1].nonce < P.tx
    BY <1>4, <2>1 DEF Mine, Stamps
  <2> QED
    BY <1>1, <2>2
<1> QED
  BY <1>1, <1>2, <1>3, <1>4

LEMMA EndlessPlayed ==
  ASSUME NEW n, NEW P \in PagerAt(n), NEW f \in Seq(SlotsAt(n)), Mine(P, f), Endless(P, f),
         NEW own \in {-1, 0}
  PROVE  /\ Range(PlaybackSlots(f, own)) = Recs(f, 1, P.journalOff)
         /\ readJournalHdr(f, 0, own)
<1> DEFINE off == P.journalOff
<1>1. /\ off \in 1 .. Len(f) /\ Len(f) \in Nat /\ IsHeader(f, 0)
      /\ \A i \in 1 .. off : f[i].kind \in {"header", "record"} => f[i].nonce = P.tx
      /\ off < Len(f) /\ f[off + 1].kind = "record" => f[off + 1].nonce # P.tx
  BY OwnSlots
<1>2. f[1].magic /\ f[1].nRec = ALL /\ OnlyRecords(f, 2, off)
  BY DEF Endless
<1>3. readJournalHdr(f, 0, own)
  BY <1>1, <1>2 DEF readJournalHdr
<1>4. Bound(f, own, 0, P.tx)
  BY DEF Bound, Sections
<1>5. RecordCount(f, 0, own) = Len(f) - (0 + 1)
  BY <1>2 DEF RecordCount
<1>6. 0 \in 0 .. Len(f) /\ off \in 0 + 1 .. Len(f) /\ 0 + 2 = 2
  BY <1>1
<1> HIDE DEF off
<1>7. Range(PlaybackSlots(f, own)) = Recs(f, 1, off)
  BY <1>1, <1>2, <1>3, <1>4, <1>5, <1>6, FilledPlayed
<1> QED
  BY <1>3, <1>7 DEF off

(* The last section has no count yet: a rollback of its own plays it, that *)
(* of a hot journal does not.                                              *)
LEMMA FillingIs ==
  ASSUME NEW n, NEW P \in PagerAt(n), NEW f \in Seq(SlotsAt(n)), Mine(P, f), Filling(P, f),
         NEW own \in {-1, P.journalHdr}
  PROVE  /\ P.journalHdr \in 0 .. Len(f) /\ P.journalOff \in P.journalHdr + 1 .. Len(f)
         /\ IsHeader(f, P.journalHdr)
         /\ Bound(f, own, P.journalHdr, P.tx)
         /\ OnlyRecords(f, P.journalHdr + 2, P.journalOff)
         /\ P.journalHdr > 0 => f[1].magic
<1>1. /\ P.journalOff \in 1 .. Len(f) /\ Len(f) \in Nat /\ IsHeader(f, 0) /\ P.journalHdr \in Nat
      /\ \A i \in 1 .. P.journalOff : f[i].kind \in {"header", "record"} => f[i].nonce = P.tx
  BY OwnSlots
<1>2. /\ P.journalHdr < P.journalOff /\ IsHeader(f, P.journalHdr) /\ Sections(f, P.journalHdr)
      /\ OnlyRecords(f, P.journalHdr + 2, P.journalOff)
  BY DEF Filling
<1>3. \A i \in 1 .. P.journalHdr : i \in 1 .. P.journalOff
  BY <1>1, <1>2
<1>4. own \notin 0 .. P.journalHdr - 1
  BY <1>1
<1>5. Bound(f, own, P.journalHdr, P.tx)
  BY <1>1, <1>2, <1>3, <1>4 DEF Bound
<1>6. P.journalHdr > 0 => f[1].magic
  <2> SUFFICES ASSUME P.journalHdr > 0 PROVE f[1].magic
    OBVIOUS
  <2>1. 0 \in 0 .. P.journalHdr - 1 /\ 0 + 1 = 1
    BY <1>1
  <2> QED
    BY <1>1, <1>2, <2>1 DEF Sections
<1>7. P.journalHdr \in 0 .. Len(f) /\ P.journalOff \in P.journalHdr + 1 .. Len(f)
  BY <1>1, <1>2
<1> QED
  BY <1>2, <1>5, <1>6, <1>7

LEMMA UnsyncedPlayed ==
  ASSUME NEW n, NEW P \in PagerAt(n), NEW f \in Seq(SlotsAt(n)), Mine(P, f), Unsynced(P, f)
  PROVE  /\ Range(PlaybackSlots(f, P.journalHdr)) = Recs(f, 1, P.journalOff)
         /\ readJournalHdr(f, 0, P.journalHdr)
         /\ Range(PlaybackSlots(f, -1)) = Recs(f, 1, P.journalHdr)
         /\ Readable(f) <=> P.journalHdr > 0
<1> DEFINE e == P.journalHdr
           off == P.journalOff
<1>1. Filling(P, f) /\ ~ f[e + 1].magic /\ f[e + 1].nRec = 0
  BY DEF Unsynced
<1>2. /\ off \in 1 .. Len(f) /\ Len(f) \in Nat /\ e \in Nat /\ IsHeader(f, 0)
      /\ \A i \in 1 .. off : f[i].kind \in {"header", "record"} => f[i].nonce = P.tx
      /\ off < Len(f) /\ f[off + 1].kind = "record" => f[off + 1].nonce # P.tx
  BY OwnSlots
<1>3. /\ e \in 0 .. Len(f) /\ off \in e + 1 .. Len(f) /\ IsHeader(f, e)
      /\ OnlyRecords(f, e + 2, off) /\ (e > 0 => f[1].magic)
      /\ Bound(f, e, e, P.tx) /\ Bound(f, -1, e, P.tx)
  BY <1>1, FillingIs
<1>4. readJournalHdr(f, e, e) /\ ~ readJournalHdr(f, e, -1) /\ RecordCount(f, e, e) = Len(f) - (e + 1)
  BY <1>1, <1>2, <1>3 DEF readJournalHdr, RecordCount
<1>5. readJournalHdr(f, 0, e) /\ (Readable(f) <=> e > 0)
  <2>1. 0 + 1 = 1
    OBVIOUS
  <2> QED
    BY <1>1, <1>2, <1>3, <2>1 DEF readJournalHdr, Readable
<1> HIDE DEF e, off
<1>6. Range(PlaybackSlots(f, -1)) = Recs(f, 1, e)
  BY <1>3, <1>4, EndedPlayed
<1>7. Range(PlaybackSlots(f, e)) = Recs(f, 1, off)
  BY <1>2, <1>3, <1>4, FilledPlayed
<1> QED
  BY <1>5, <1>6, <1>7 DEF e, off

LEMMA ClosedPlayed ==
  ASSUME NEW n, NEW P \in PagerAt(n), NEW f \in Seq(SlotsAt(n)), Mine(P, f), Closed(P, f),
         NEW own \in {-1, P.journalHdr}
  PROVE  /\ Range(PlaybackSlots(f, own)) = Recs(f, 1, P.journalOff)
         /\ readJournalHdr(f, 0, own)
<1> DEFINE e == P.journalHdr
           off == P.journalOff
<1>1. Filling(P, f) /\ f[e + 1].magic /\ f[e + 1].nRec = P.nRec /\ Ends(f, off) /\ P.nRec = off - e - 1
  BY DEF Closed, Filling
<1>2. /\ off \in 1 .. Len(f) /\ Len(f) \in Nat /\ e \in Nat /\ IsHeader(f, 0)
      /\ \A i \in 1 .. off : f[i].kind \in {"header", "record"} => f[i].nonce = P.tx
      /\ off < Len(f) /\ f[off + 1].kind = "record" => f[off + 1].nonce # P.tx
  BY OwnSlots
<1>3. /\ e \in 0 .. Len(f) /\ off \in e + 1 .. Len(f) /\ IsHeader(f, e)
      /\ OnlyRecords(f, e + 2, off) /\ (e > 0 => f[1].magic)
      /\ Bound(f, own, e, P.tx)
  BY <1>1, FillingIs
<1>4. readJournalHdr(f, e, own) /\ ~ readJournalHdr(f, off, own)
  BY <1>1, <1>2, <1>3 DEF readJournalHdr, Ends
<1>5. readJournalHdr(f, 0, own)
  <2>1. 0 + 1 = 1
    OBVIOUS
  <2> QED
    BY <1>1, <1>2, <1>3, <2>1 DEF readJournalHdr
<1>6. RecordCount(f, e, own) = off - e - 1 \/ RecordCount(f, e, own) = Len(f) - (e + 1)
  BY <1>1 DEF RecordCount
<1> HIDE DEF e, off
<1>7. Range(PlaybackSlots(f, own)) = Recs(f, 1, off)
  BY <1>2, <1>3, <1>4, <1>6, FilledPlayed
<1> QED
  BY <1>5, <1>7 DEF e, off

LEMMA DonePlayed ==
  ASSUME NEW n, NEW P \in PagerAt(n), NEW f \in Seq(SlotsAt(n)), Mine(P, f), Done(P, f),
         NEW own \in {-1, P.journalHdr}, own = -1 \/ ~ IsHeader(f, P.journalOff)
  PROVE  /\ Range(PlaybackSlots(f, own)) = Recs(f, 1, P.journalOff)
         /\ readJournalHdr(f, 0, own)
<1> DEFINE off == P.journalOff
<1>1. P.journalHdr = off /\ Sections(f, off) /\ Ends(f, off)
  BY DEF Done
<1>2. /\ off \in 1 .. Len(f) /\ Len(f) \in Nat /\ IsHeader(f, 0)
      /\ \A i \in 1 .. off : f[i].kind \in {"header", "record"} => f[i].nonce = P.tx
  BY OwnSlots
<1>3. ~ readJournalHdr(f, off, own)
  BY <1>1 DEF readJournalHdr, Ends
<1>4. own \notin 0 .. off - 1
  BY <1>1, <1>2
<1>5. Bound(f, own, off, P.tx)
  BY <1>1, <1>2, <1>4 DEF Bound
<1>6. readJournalHdr(f, 0, own)
  <2>1. 0 \in 0 .. off - 1 /\ 0 + 1 = 1
    BY <1>2
  <2> QED
    BY <1>1, <1>2, <2>1 DEF Sections, readJournalHdr
<1>7. off \in 0 .. Len(f)
  BY <1>2
<1> HIDE DEF off
<1>8. Range(PlaybackSlots(f, own)) = Recs(f, 1, off)
  BY <1>3, <1>5, <1>7, EndedPlayed
<1> QED
  BY <1>6, <1>8 DEF off

(* How far a hot journal is played, and how far its writer plays it.       *)
Upto(s, P) == IF Lax(s) \/ P.at \in {"sync", "pages"} THEN P.journalOff ELSE P.journalHdr

LEMMA HotPlayed ==
  ASSUME NEW n, NEW P \in PagerAt(n), NEW f \in Seq(SlotsAt(n)), NEW s, NEW h, Journals(s, P, f, h)
  PROVE  /\ Range(PlaybackSlots(f, -1)) = Recs(f, 1, Upto(s, P))
         /\ Readable(f) <=> Upto(s, P) > 0
<1>1. Mine(P, f) /\ P.journalOff > 0
  BY OwnSlots DEF Journals
<1>2. CASE Lax(s)
  BY <1>1, <1>2, EndlessPlayed DEF Journals, Upto, Readable
<1>3. CASE ~ Lax(s) /\ P.at = "sync"
  BY <1>1, <1>3, ClosedPlayed DEF Journals, Upto, Readable
<1>4. CASE ~ Lax(s) /\ P.at = "pages"
  BY <1>1, <1>4, DonePlayed DEF Journals, Upto, Readable
<1>5. CASE ~ Lax(s) /\ P.at \notin {"sync", "pages"}
  BY <1>1, <1>5, UnsyncedPlayed DEF Journals, Upto
<1> QED
  BY <1>2, <1>3, <1>4, <1>5

LEMMA NothingPlayed ==
  ASSUME NEW n, NEW f \in Seq(SlotsAt(n)), NEW own, NoneYet(f, << >>)
  PROVE  Range(PlaybackSlots(f, own)) = {}
<1>1. Records(f) = {}
  BY DEF NoneYet, Records
<1>2. PlaybackSlots(f, own) \in Seq({})
  BY <1>1, PlayedAreRecords
<1> QED
  BY <1>2 DEF Range

LEMMA OwnPlayed ==
  ASSUME NEW n, NEW P \in PagerAt(n), NEW f \in Seq(SlotsAt(n)), NEW s, NEW h, Journals(s, P, f, h),
         NoneYet(f, h), Careful(s) \/ Lax(s) \/ P.at # "pages",
         NEW Q, Q.goal = "rollback", Q.journalHdr = P.journalHdr, Q.nRec = P.nRec, Q.tx = P.tx
  PROVE  /\ Range(SlotsIn(s, Q, f)) = Recs(f, 1, P.journalOff)
         /\ readJournalHdr(f, 0, OwnIn(s, Q, f))
<1> DEFINE own == OwnIn(s, Q, f)
<1>1. /\ Mine(P, f) /\ P.journalOff \in 1 .. Len(f) /\ P.journalHdr \in Nat /\ Len(f) \in Nat
      /\ \A i \in 1 .. P.journalOff : f[i].kind \in {"header", "record"} => f[i].nonce = P.tx
  BY OwnSlots DEF Journals
<1>2. own \in {-1, P.journalHdr}
  BY DEF OwnIn
<1>3. IsHeader(f, P.journalHdr) /\ P.journalHdr < P.journalOff => own = P.journalHdr
  <2> SUFFICES ASSUME IsHeader(f, P.journalHdr), P.journalHdr < P.journalOff
               PROVE  own = P.journalHdr
    OBVIOUS
  <2>1. f[P.journalHdr + 1].kind = "header" /\ P.journalHdr + 1 \in 1 .. P.journalOff
    BY <1>1 DEF IsHeader
  <2>2. f[P.journalHdr + 1].nonce = P.tx
    BY <1>1, <2>1
  <2> QED
    BY <2>2 DEF OwnIn
<1> HIDE DEF own
<1>4. Range(PlaybackSlots(f, own)) = Recs(f, 1, P.journalOff) /\ readJournalHdr(f, 0, own)
  <2>1. CASE Lax(s)
    <3>1. Endless(P, f) /\ own \in {-1, 0}
      BY <1>2, <2>1 DEF Journals, Endless
    <3> QED
      BY <1>1, <3>1, EndlessPlayed
  <2>2. CASE ~ Lax(s) /\ P.at = "sync"
    <3>1. Closed(P, f)
      BY <2>2 DEF Journals
    <3> QED
      BY <1>1, <1>2, <3>1, ClosedPlayed
  <2>3. CASE ~ Lax(s) /\ P.at = "pages"
    <3>1. Done(P, f)
      BY <2>3 DEF Journals
    <3>2. Tidy(f, P.journalOff) \/ h = << >>
      BY <2>3 DEF Journals, Alone
    <3>3. CASE Tidy(f, P.journalOff)
      <4>1. ~ IsHeader(f, P.journalOff)
        <5>1. P.journalOff < Len(f) => P.journalOff + 1 \in P.journalOff + 1 .. Len(f)
          BY <1>1
        <5> QED
          BY <3>3, <5>1 DEF Tidy, IsHeader
      <4> QED
        BY <1>1, <1>2, <3>1, <4>1, DonePlayed
    <3>4. CASE h = << >>
      <4>1. Range(PlaybackSlots(f, own)) = {}
        BY <3>4, NothingPlayed
      <4>2. Recs(f, 1, P.journalOff) = {}
        <5>1. \A i \in 1 .. P.journalOff : i \in DOMAIN f
          BY <1>1
        <5> QED
          BY <3>4, <5>1 DEF NoneYet, Recs
      <4>3. readJournalHdr(f, 0, own)
        <5>1. 0 \in 0 .. P.journalOff - 1 /\ 0 + 1 = 1 /\ IsHeader(f, 0)
          BY <1>1, OwnSlots
        <5> QED
          BY <3>1, <5>1 DEF Done, Sections, readJournalHdr
      <4> QED
        BY <4>1, <4>2, <4>3
    <3> QED
      BY <3>2, <3>3, <3>4
  <2>4. CASE ~ Lax(s) /\ P.at \notin {"sync", "pages"}
    <3>1. Unsynced(P, f)
      BY <2>4 DEF Journals
    <3>2. own = P.journalHdr
      BY <1>3, <3>1 DEF Unsynced, Filling
    <3> QED
      BY <1>1, <3>1, <3>2, UnsyncedPlayed
  <2> QED
    BY <2>1, <2>2, <2>3, <2>4
<1> QED
  BY <1>4 DEF own, SlotsIn

-----------------------------------------------------------------------------
(* What is stored, if the journal gives the image back.                    *)
LEMMA FirstPages ==
  ASSUME NEW h \in Seq(Page), Whole(h), NEW n \in Nat, NEW g, Spans(n, h),
         \A p \in 1 .. Len(h) : g[p] = h[p], g = [p \in 1 .. n |-> g[p]]
  PROVE  Image(g) = h
<1>0. \A p \in 1 .. Len(h) : g[p] = h[p]
  OBVIOUS
<1>1. g \in Seq({ g[p] : p \in 1 .. n }) /\ Len(g) = n
  <2> DEFINE S == { g[p] : p \in 1 .. n }
  <2>1. \A p \in 1 .. n : g[p] \in S
    OBVIOUS
  <2> HIDE DEF S
  <2>2. g \in [1 .. n -> S]
    BY <2>1
  <2>3. g \in Seq(S) /\ Len(g) = n
    BY <2>2
  <2> QED
    BY <2>3 DEF S
<1>2. CASE h = << >>
  <2>1. n = 0
    BY <1>2 DEF Spans
  <2>2. g = << >>
    BY <1>1, <2>1
  <2> QED
    BY <1>2, <2>2 DEF Image
<1>3. CASE h # << >>
  <2>0. Len(h) \in Nat /\ Len(h) # 0
    BY <1>3
  <2>8. Len(h) <= n
    BY <1>3 DEF Spans
  <2>9. h[1].sz = Len(h) /\ 1 \in 1 .. Len(h) /\ Len(h) \in 1 .. n
    BY <1>3, <2>0, <2>8 DEF Whole
  <2>1. Len(h) \in 1 .. n /\ g[1] = h[1] /\ h[1].sz = Len(h) /\ n > 0
    BY ONLY <1>0, <2>0, <2>8, <2>9
  <2>2. g # << >>
    BY <1>1, <2>1
  <2>3. Image(g) = SubSeq(g, 1, Len(h))
    BY <1>1, <2>1, <2>2 DEF Image
  <2> DEFINE S == { g[p] : p \in 1 .. n }
             q == SubSeq(g, 1, Len(h))
  <2>4. g \in Seq(S) /\ Len(g) = n
    BY <1>1
  <2> HIDE DEF S
  <2>7. q = [p \in 1 .. Len(h) |-> g[p]]
    BY <2>1, <2>4
  <2>5. q = [p \in 1 .. Len(h) |-> h[p]]
    BY <2>7
  <2>6. h = [p \in 1 .. Len(h) |-> h[p]]
    OBVIOUS
  <2> QED
    BY <2>3, <2>5, <2>6
<1> QED
  BY <1>2, <1>3

LEMMA HeldIsStored ==
  ASSUME NEW n, NEW d \in Seq(ContentAt(n)), NEW h \in Seq(Page), Whole(h), Holds(d, h)
  PROVE  Image(d) = h
<1>1. d = [p \in 1 .. Len(d) |-> d[p]] /\ Len(d) \in Nat
  OBVIOUS
<1>2. Spans(Len(d), h)
  BY DEF Holds, Spans
<1> QED
  BY <1>1, <1>2, FirstPages DEF Holds

LEMMA GivenIsStored ==
  ASSUME NEW n, NEW d \in Seq(ContentAt(n)), NEW j \in JournalAt(n),
         NEW h \in Seq(Page), Whole(h), Len(h) <= Len(d), Gives(j, d, h)
  PROVE  Image(IF j.exists THEN Recovered(j.slots, d) ELSE d) = h
<1>1. CASE ~ (j.exists /\ Readable(j.slots))
  <2>1. (IF j.exists THEN Recovered(j.slots, d) ELSE d) = d
    BY <1>1 DEF Recovered, Readable
  <2> QED
    BY <1>1, <2>1, HeldIsStored DEF Gives
<1>2. CASE j.exists /\ Readable(j.slots)
  <2> DEFINE f == j.slots
             S == Range(PlaybackSlots(f, -1))
             g == Recovered(f, d)
             played(p) == { i \in S : f[i].pgno = p }
             last(p) == CHOOSE i \in played(p) : \A k \in played(p) : k <= i
  <2>1. f \in Seq(SlotsAt(n)) /\ readJournalHdr(f, 0, -1) /\ Restores(f, d, h)
    BY <1>2 DEF JournalAt, Readable, Gives
  <2>2. f[1].orig \in Nat
    <3>1. 1 \in 1 .. Len(f) /\ f[1].kind = "header"
      BY <2>1 DEF readJournalHdr, IsHeader
    <3> QED
      BY <2>1, <3>1, SlotIs DEF HeaderSlots
  <2>3. g = [p \in 1 .. f[1].orig |-> IF played(p) # {} THEN f[last(p)].val
                                      ELSE IF p <= Len(d) THEN d[p] ELSE Zero]
    BY <2>1 DEF Recovered
  <2> DEFINE m == f[1].orig
  <2>4. Spans(m, h) /\ Right(f, S, h) /\ \A p \in 1 .. Len(h) : d[p] = h[p] \/ \E i \in S : f[i].pgno = p
    BY <2>1 DEF Restores
  <2>5. S \subseteq 1 .. Len(f)
    <3>1. PlaybackSlots(f, -1) \in Seq(Records(f))
      BY <2>1, PlayedAreRecords
    <3>2. \A i \in DOMAIN PlaybackSlots(f, -1) : PlaybackSlots(f, -1)[i] \in Records(f)
      BY <3>1
    <3> QED
      BY <3>2 DEF Range, Records
  <2> HIDE DEF S
  <2>6. ASSUME NEW p \in 1 .. Len(h)
        PROVE  g[p] = h[p]
    <3>1. p \in 1 .. m
      BY <2>2, <2>4 DEF Spans
    <3>2. g[p] = IF played(p) # {} THEN f[last(p)].val ELSE IF p <= Len(d) THEN d[p] ELSE Zero
      BY <2>3, <3>1
    <3>3. CASE played(p) = {}
      <4>1. d[p] = h[p]
        BY <2>4, <3>3
      <4>2. p <= Len(d)
        OBVIOUS
      <4> QED
        BY <3>2, <3>3, <4>1, <4>2
    <3>4. CASE played(p) # {}
      <4>1. played(p) \subseteq 1 .. Len(f)
        BY <2>5
      <4>6. Len(f) \in Nat
        BY <2>1
      <4>2. \E i \in played(p) : \A k \in played(p) : k <= i
        BY <3>4, <4>1, <4>6, GreatestNumber
      <4>3. last(p) \in played(p)
        BY <4>2
      <4>4. last(p) \in S /\ f[last(p)].pgno = p
        BY <4>3
      <4> HIDE DEF last
      <4>5. f[last(p)].val = h[p]
        BY <2>4, <4>4 DEF Right
      <4> QED
        BY <3>2, <3>4, <4>5
    <3> QED
      BY <3>3, <3>4
  <2>7. g = [p \in 1 .. m |-> g[p]]
    <3> DEFINE e == [p \in 1 .. m |-> IF played(p) # {} THEN f[last(p)].val
                                      ELSE IF p <= Len(d) THEN d[p] ELSE Zero]
    <3>1. e = [p \in 1 .. m |-> e[p]]
      OBVIOUS
    <3> HIDE DEF e
    <3>2. g = e
      BY <2>3 DEF e
    <3> QED
      BY <3>1, <3>2
  <2> HIDE DEF g, m
  <2>8. Image(g) = h
    BY <2>2, <2>4, <2>6, <2>7, FirstPages DEF m
  <2> QED
    BY <1>2, <2>8 DEF g
<1> QED
  BY <1>1, <1>2

-----------------------------------------------------------------------------
(* A journal gives the image back, whoever has died.                       *)
LEMMA GivesKept ==
  ASSUME NEW j, NEW d, NEW e, NEW h, Gives(j, d, h), Len(h) <= Len(e),
         \A p \in 1 .. Len(h) : e[p] = d[p] \/ e[p] = h[p],
         h = << >> /\ d = << >> => e = << >>
  PROVE  Gives(j, e, h)
<1>1. CASE j.exists /\ Readable(j.slots)
  <2>1. Restores(j.slots, d, h)
    BY <1>1 DEF Gives
  <2>2. Restores(j.slots, e, h)
    BY <2>1 DEF Restores
  <2> QED
    BY <1>1, <2>2 DEF Gives
<1>2. CASE ~ (j.exists /\ Readable(j.slots))
  <2>1. Holds(d, h)
    BY <1>2 DEF Gives
  <2>2. Holds(e, h)
    BY <2>1 DEF Holds
  <2> QED
    BY <1>2, <2>2 DEF Gives
<1> QED
  BY <1>1, <1>2

LEMMA RecsIn ==
  ASSUME NEW f, NEW a \in Int, NEW b \in Int, a <= b
  PROVE  Recs(f, 1, a) \subseteq Recs(f, 1, b)
BY DEF Recs

Covers(d, h) == Len(h) <= Len(d)
LEMMA WriterGives ==
  ASSUME NEW n, NEW P \in PagerAt(n), NEW j \in JournalAt(n), NEW d \in Seq(ContentAt(n)), NEW s, NEW h,
         P.eState \in {"CACHEMOD", "DBMOD"}, j.exists,
         Changes(s, P, j.slots, d, h), Sizes(P, d, h), Journals(s, P, j.slots, h),
         Covers(d, h), P.eState = "CACHEMOD" => Holds(d, h)
  PROVE  Gives(j, d, h)
<1> DEFINE f == j.slots
           S == Range(PlaybackSlots(f, -1))
           up == Upto(s, P)
<1> Len(h) <= Len(d)
  BY DEF Covers
<1>1. f \in Seq(SlotsAt(n))
  BY DEF JournalAt
<1>2. S = Recs(f, 1, up) /\ (Readable(f) <=> up > 0)
  BY <1>1, HotPlayed
<1>3. /\ P.journalOff \in 1 .. Len(f) /\ P.journalHdr \in Nat /\ P.journalOff \in Nat
      /\ P.journalHdr <= P.journalOff
  <2>1. P.journalOff \in 1 .. Len(f) /\ P.journalHdr \in Nat /\ P.journalOff \in Nat
    BY <1>1, OwnSlots DEF Journals
  <2>2. P.journalHdr <= P.journalOff
    BY <2>1 DEF Journals, Endless, Closed, Done, Unsynced, Filling
  <2> QED
    BY <2>1, <2>2
<1>4. up \in Int /\ up <= P.journalOff /\ (IF Lax(s) THEN P.journalOff ELSE P.journalHdr) <= up
      /\ (IF Lax(s) THEN P.journalOff ELSE P.journalHdr) \in Int
  BY <1>3 DEF Upto
<1>5. CASE ~ Readable(f)
  <2>1. P.eState = "CACHEMOD"
    BY <1>2, <1>3, <1>5 DEF Upto, Journals
  <2> QED
    BY <1>5, <2>1 DEF Gives
<1>6. CASE Readable(f)
  <2>1. Spans(f[1].orig, h)
    BY DEF Journals, Mine, Sizes
  <2>2. Right(f, S, h)
    <3>1. S \subseteq Recs(f, 1, P.journalOff)
      BY <1>2, <1>3, <1>4, RecsIn
    <3> QED
      BY <3>1 DEF Journals, Right
  <2>3. ASSUME NEW p \in 1 .. Len(h), d[p] # h[p]
        PROVE  \E i \in S : f[i].pgno = p
    <3>1. Synced(s, P, f, p)
      BY <2>3 DEF Changes, Changing
    <3>2. Recs(f, 1, IF Lax(s) THEN P.journalOff ELSE P.journalHdr) \subseteq S
      BY <1>2, <1>4, RecsIn
    <3> QED
      BY <3>1, <3>2 DEF Synced, Recorded
  <2>4. Restores(f, d, h)
    BY <2>1, <2>2, <2>3 DEF Restores
  <2> QED
    BY <1>6, <2>4 DEF Gives
<1> QED
  BY <1>5, <1>6

(* A writer that rolls back has all it needs in its journal.               *)
LEMMA Played ==
  ASSUME NEW n, NEW f \in Seq(SlotsAt(n)), NEW own, NEW i \in Range(PlaybackSlots(f, own))
  PROVE  \E k \in 1 .. Len(PlaybackSlots(f, own)) : PlaybackSlots(f, own)[k] = i
<1>1. PlaybackSlots(f, own) \in Seq(Records(f))
  BY PlayedAreRecords
<1>2. DOMAIN PlaybackSlots(f, own) = 1 .. Len(PlaybackSlots(f, own))
  BY <1>1
<1> QED
  BY <1>2 DEF Range

LEMMA WriterPlays ==
  ASSUME NEW n, NEW P \in PagerAt(n), NEW f \in Seq(SlotsAt(n)), NEW d, NEW s, NEW h \in Seq(Page),
         P.eState \in {"CACHEMOD", "DBMOD"}, Changes(s, P, f, d, h), Sizes(P, d, h), Version(P, h),
         Journals(s, P, f, h), NoneYet(f, h), P.at = "pages" => P.goal = "commit",
         Careful(s) \/ Lax(s) \/ P.at # "pages",
         NEW Q, Q.eState = P.eState, Q.goal = "rollback", Q.k = 0, Q.journalHdr = P.journalHdr,
         Q.journalOff = P.journalOff, Q.nRec = P.nRec, Q.tx = P.tx, Q.cache = P.cache,
         Q.dbFileVers = P.dbFileVers, Q.dbOrigSize = P.dbOrigSize
  PROVE  Plays(s, Q, f, d, h)
<1> DEFINE own == OwnIn(s, Q, f)
           S == PlaybackSlots(f, own)
           off == P.journalOff
<1>1. Range(S) = Recs(f, 1, off) /\ readJournalHdr(f, 0, own)
  BY OwnPlayed DEF SlotsIn
<1>2. /\ off \in 1 .. Len(f) /\ off \in Nat /\ P.journalHdr \in Nat /\ f[1].orig = P.dbOrigSize
      /\ P.journalHdr <= off
  <2>1. off \in 1 .. Len(f) /\ off \in Nat /\ P.journalHdr \in Nat /\ f[1].orig = P.dbOrigSize
    BY OwnSlots DEF Journals, Mine
  <2>2. P.journalHdr <= P.journalOff
    BY <2>1 DEF Journals, Endless, Closed, Done, Unsynced, Filling
  <2> QED
    BY <2>1, <2>2
<1>3. Len(S) \in Nat
  BY PlayedAreRecords
<1>4. \A i \in Recs(f, 1, off) : \E k \in 1 .. Len(S) : S[k] = i
  BY <1>1, Played
<1> HIDE DEF S, own
<1>5. Right(f, Range(S), h)
  BY <1>1 DEF Journals
<1>6. \A p \in P.pInJournal : p <= Len(h) => Left(f, S, 1, p)
  <2> TAKE p \in P.pInJournal
  <2> HAVE p <= Len(h)
  <2>1. PICK i \in Recs(f, 1, off) : f[i].pgno = p
    BY DEF Changes, Changing, Recorded
  <2> QED
    BY <1>4, <2>1 DEF Left
<1>7. \A p \in Cached(Q) : p <= Len(h) => Q.cache[p].val = h[p] \/ Left(f, S, 1, p)
  BY <1>6 DEF Changes, Changing, Cached
<1>8. ASSUME NEW p \in 1 .. Len(h), d[p] # h[p]
      PROVE  P.eState = "DBMOD" /\ \E k \in 1 .. Len(S) : f[S[k]].pgno = p /\ (Lax(s) \/ S[k] <= P.journalHdr)
  <2>1. P.eState = "DBMOD" /\ Synced(s, P, f, p)
    BY <1>8 DEF Changes, Changing
  <2>2. PICK i \in Recs(f, 1, IF Lax(s) THEN off ELSE P.journalHdr) : f[i].pgno = p
    BY <2>1 DEF Synced, Recorded
  <2>3. i \in Recs(f, 1, off) /\ (Lax(s) \/ i <= P.journalHdr)
    BY <1>2, <2>2 DEF Recs
  <2> QED
    BY <1>4, <2>1, <2>2, <2>3
<1>9. h # << >> => P.dbFileVers = h[1] \/ Left(f, S, 1, 1)
  <2> SUFFICES ASSUME h # << >>, P.dbFileVers # h[1] PROVE Left(f, S, 1, 1)
    OBVIOUS
  <2>1. Committing(P)
    BY DEF Version, Committing
  <2>2. 1 \in P.pInJournal
    BY <2>1 DEF Version
  <2>3. 1 <= Len(h)
    BY NotEmpty
  <2> QED
    BY <1>6, <2>2, <2>3
<1>10. Next1(Q) = 1 /\ SlotsIn(s, Q, f) = S
  BY DEF Next1, SlotsIn, S, own
<1>11. Spans(P.dbOrigSize, h) /\ (P.eState = "CACHEMOD" => Len(d) = P.dbOrigSize)
  BY DEF Sizes
<1> QED
  BY <1>1, <1>2, <1>3, <1>5, <1>7, <1>8, <1>9, <1>10, <1>11 DEF Plays, own

-----------------------------------------------------------------------------
(* What a step of one connection leaves to the others.                     *)
LEMMA KeepsMore ==
  ASSUME NEW P, NEW S, NEW hs \in Seq(S), NEW x \in S, Keeps(P, hs)
  PROVE  Keeps(P, Append(hs, x))
<1>1. \A i \in DOMAIN hs : i \in DOMAIN Append(hs, x) /\ Append(hs, x)[i] = hs[i]
  OBVIOUS
<1>2. CASE Zeroed(P)
  BY <1>2 DEF Keeps
<1>3. CASE ~ Zeroed(P)
  <2>1. PICK i \in DOMAIN hs : hs[i] # << >> /\ P.dbFileVers = hs[i][1] /\ Shows(P, hs[i])
    BY <1>3 DEF Keeps
  <2> QED
    BY <1>1, <2>1 DEF Keeps
<1> QED
  BY <1>2, <1>3

LEMMA WaitingFares ==
  ASSUME NEW n, NEW P \in PagerAt(n), NEW r, NEW s, NEW j, NEW d, NEW h, NEW hs,
         NEW j2, NEW d2, NEW h2, NEW hs2,
         Fares(s, P, NO_LOCK, r, j, d, h, hs), Control(P, NO_LOCK, r), Keeps(P, hs) => Keeps(P, hs2)
  PROVE  Fares(s, P, NO_LOCK, r, j2, d2, h2, hs2)
<1>1. P.eState \in States
  BY DEF PagerAt
<1>2. P.eState \in {"OPEN", "ERROR"} /\ (P.eState = "OPEN" => P.at = "idle" /\ P.goal = "none")
  BY <1>1 DEF Control, Reads, Acts, Hasnt, Writing, States, NO_LOCK, SHARED_LOCK, RESERVED_LOCK, PENDING_LOCK, EXCLUSIVE_LOCK
<1>3. ~ r
  BY DEF Fares, NO_LOCK, RESERVED_LOCK
<1>4. ~ Relies(P, NO_LOCK, r)
  BY <1>2, <1>3 DEF Relies
<1>5. P.eState = "OPEN" => Opens(s, P, j2, d2, h2, hs2)
  BY <1>2 DEF Fares, Opens
<1>6. P.dbFileVers.ver >= 0 /\ (P.eState # "OPEN" => P.hasHeldSharedLock)
  BY DEF Fares
<1> QED
  BY <1>2, <1>3, <1>4, <1>5, <1>6 DEF Fares

LEMMA ReadingFares ==
  ASSUME NEW P, NEW l, NEW r, NEW s, NEW j, NEW d, NEW h, NEW hs, NEW j2,
         P.eState \in {"OPEN", "READER", "ERROR"}, P.goal # "hot" \/ P.eState # "OPEN",
         Fares(s, P, l, r, j, d, h, hs), Relies(P, l, r) => Alone(s, j2.slots, 1, h)
  PROVE  Fares(s, P, l, r, j2, d, h, hs)
<1>1. P.eState = "OPEN" => Opens(s, P, j2, d, h, hs)
  BY DEF Fares, Opens
<1>2. P.eState = "READER" => Reading(P, d, h)
  BY DEF Fares
<1>3. P.dbFileVers.ver >= 0 /\ (P.eState # "OPEN" => P.hasHeldSharedLock) /\ (r => l >= RESERVED_LOCK) /\ (Relies(P, l, r) => Holds(d, h))
  BY DEF Fares
<1> QED
  BY <1>1, <1>2, <1>3 DEF Fares

(* c moves the files only if it is RESERVED or EXCLUSIVE, and the database *)
(* only if it is EXCLUSIVE.                                                *)
MayMove(c) ==
  \/ jrnl' = jrnl /\ db' = db /\ history' = history
  \/ /\ c \in reserved /\ db' = db /\ history' = history
     /\ Alone(setting, jrnl'.slots, 1, Latest1)
  \/ /\ lock[c] = EXCLUSIVE_LOCK
     /\ history' = history \/ \E x \in Seq(Page) : history' = Append(history, x)

LEMMA OthersFare ==
  ASSUME IInv, LInv, SBody, NEW c \in Conns, LockStep(c), setting' = setting, MayMove(c),
         NEW d \in Conns, d # c
  PROVE  Fares(setting', pager[d], lock'[d], (d \in reserved)', jrnl', db', Latest1', history')
<1> DEFINE P == pager[d]
<1>1. lock'[d] = lock[d] /\ (d \in reserved' <=> d \in reserved)
  BY DEF LockStep
<1>2. P \in PagerAt(ntx) /\ Control(P, lock[d], d \in reserved)
  BY PagerIs
<1>3. Fares(setting, P, lock[d], d \in reserved, jrnl, db, Latest1, history)
  BY DEF SBody
<1>4. (d \in reserved') = (d \in reserved)
  BY <1>1
<1>5. CASE jrnl' = jrnl /\ db' = db /\ history' = history
  BY <1>1, <1>3, <1>4, <1>5 DEF Latest1
<1>6. CASE c \in reserved /\ db' = db /\ history' = history /\ Alone(setting, jrnl'.slots, 1, Latest1)
  <2>1. d \notin reserved
    BY <1>6 DEF IInv
  <2>2. lock[c] >= RESERVED_LOCK
    BY <1>6 DEF SBody, Fares
  <2>3. lock[d] # EXCLUSIVE_LOCK
    BY <2>2 DEF LInv, RESERVED_LOCK, NO_LOCK
  <2>4. P.eState \in States
    BY <1>2 DEF PagerAt
  <2>5. P.eState \in {"OPEN", "READER", "ERROR"}
    BY <1>2, <2>1, <2>3, <2>4 DEF Control, Acts, Writing, States
  <2>6. P.eState = "OPEN" => P.goal # "hot"
    BY <1>2, <2>3 DEF Control, Hasnt
  <2>7. Fares(setting, P, lock[d], d \in reserved, jrnl', db, Latest1, history)
    BY <1>3, <1>6, <2>5, <2>6, ReadingFares
  <2> QED
    BY <1>1, <1>4, <1>6, <2>7 DEF Latest1
<1>7. CASE lock[c] = EXCLUSIVE_LOCK /\ (history' = history \/ \E x \in Seq(Page) : history' = Append(history, x))
  <2>1. lock[d] = NO_LOCK
    BY <1>7 DEF LInv
  <2>2. history \in Seq(Seq(Page))
    BY DEF SBody, Safe, Grows
  <2>3. Keeps(P, history) => Keeps(P, history')
    <3>1. CASE history' = history
      BY <3>1
    <3>2. CASE history' # history
      <4>1. PICK x \in Seq(Page) : history' = Append(history, x)
        BY <1>7, <3>2
      <4> QED
        BY <2>2, <4>1, KeepsMore
    <3> QED
      BY <3>1, <3>2
  <2>4. Fares(setting, P, NO_LOCK, d \in reserved, jrnl', db', Latest(history'), history')
    BY <1>2, <1>3, <2>1, <2>3, WaitingFares
  <2> QED
    BY <1>1, <1>4, <2>1, <2>4 DEF Latest1
<1> QED
  BY <1>5, <1>6, <1>7 DEF MayMove

LEMMA Steps ==
  ASSUME IInv, LInv, SBody, NEW c \in Conns, NEW Q, Set(c, Q), LockStep(c), setting' = setting, MayMove(c),
         Safe(setting', jrnl', db', ntx', Latest1', history'),
         Fares(setting', Q, lock'[c], (c \in reserved)', jrnl', db', Latest1', history')
  PROVE  SBody'
<1>1. pager \in [Conns -> PagerAt(ntx)] /\ pager' = [pager EXCEPT ![c] = Q]
  BY DEF IInv, Set
<1>2. pager'[c] = Q /\ \A d \in Conns : d # c => pager'[d] = pager[d]
  BY <1>1
<1>3. ASSUME NEW d \in Conns
      PROVE  Fares(setting', pager'[d], lock'[d], (d \in reserved)', jrnl', db', Latest1', history')
  <2>1. CASE d = c
    BY <1>2, <2>1
  <2>2. CASE d # c
    BY <1>2, <2>2, OthersFare
  <2> QED
    BY <2>1, <2>2
<1> QED
  BY <1>3 DEF SBody

-----------------------------------------------------------------------------
(* Steps that leave the files alone.                                       *)
LEMMA SlotNonce ==
  ASSUME NEW n, NEW f \in Seq(SlotsAt(n)), NEW i \in 1 .. Len(f), f[i].kind \in {"header", "record"}
  PROVE  f[i].nonce \in Nat
BY SlotIs DEF HeaderSlots, RecordSlots

LEMMA Quiet ==
  ASSUME IInv, LInv, SBody, NEW c \in Conns, NEW Q, Set(c, Q), LockStep(c), setting' = setting,
         jrnl' = jrnl, db' = db, history' = history, ntx' = ntx \/ ntx' = ntx + 1,
         Fares(setting, Q, lock'[c], (c \in reserved)', jrnl, db, Latest1, history)
  PROVE  SBody'
<1>1. MayMove(c)
  BY DEF MayMove
<1>2. Safe(setting, jrnl, db, ntx, Latest1, history)
  BY DEF SBody
<1>3. Stamps(jrnl.slots, 0, ntx' + 1)
  <2>1. jrnl.slots \in Seq(SlotsAt(ntx)) /\ ntx \in Nat
    BY PagerAssumption DEF IInv, JournalAt
  <2>2. ASSUME NEW i \in 0 + 1 .. Len(jrnl.slots), jrnl.slots[i].kind \in {"header", "record"}
        PROVE  jrnl.slots[i].nonce < ntx' + 1
    <3>1. jrnl.slots[i].nonce < ntx + 1
      BY <1>2, <2>2 DEF Safe, Stamps
    <3>2. jrnl.slots[i].nonce \in Nat
      BY <2>1, <2>2, SlotNonce
    <3> QED
      BY <2>1, <3>1, <3>2
  <2> QED
    BY <2>2 DEF Stamps
<1>4. Latest1' = Latest1
  BY DEF Latest1
<1>5. Safe(setting', jrnl', db', ntx', Latest1', history')
  BY <1>2, <1>3, <1>4 DEF Safe
<1>6. Fares(setting', Q, lock'[c], (c \in reserved)', jrnl', db', Latest1', history')
  BY <1>4
<1> QED
  BY <1>1, <1>5, <1>6, Steps

(* What is known of the connection that moves.                             *)
LEMMA Known ==
  ASSUME IInv, SBody, NEW c \in Conns
  PROVE  /\ pager[c] \in PagerAt(ntx) /\ Control(pager[c], lock[c], c \in reserved)
         /\ lock[c] \in 0 .. 4 /\ ntx \in Nat
         /\ Fares(setting, pager[c], lock[c], c \in reserved, jrnl, db, Latest1, history)
         /\ Safe(setting, jrnl, db, ntx, Latest1, history)
         /\ jrnl \in JournalAt(ntx) /\ jrnl.slots \in Seq(SlotsAt(ntx)) /\ db \in Seq(ContentAt(ntx))
         /\ Latest1 \in Seq(Page)
<1>1. Safe(setting, jrnl, db, ntx, Latest1, history)
  BY DEF SBody
<1>2. Latest1 \in Seq(Page)
  <2>1. history \in Seq(Seq(Page)) /\ history # << >>
    BY <1>1 DEF Safe, Grows
  <2>2. Len(history) \in DOMAIN history
    BY <2>1
  <2> QED
    BY <2>1, <2>2 DEF Latest1, Latest
<1>3. jrnl \in JournalAt(ntx) /\ jrnl.slots \in Seq(SlotsAt(ntx)) /\ db \in Seq(ContentAt(ntx))
  BY DEF IInv, JournalAt
<1>4. Fares(setting, pager[c], lock[c], c \in reserved, jrnl, db, Latest1, history)
  BY DEF SBody
<1> QED
  BY <1>1, <1>2, <1>3, <1>4, PagerIs

(* A pager that is opening the file and keeps its cache.                   *)
SameCache(P, Q) ==
  /\ Q.cache = P.cache /\ Q.dbFileVers = P.dbFileVers
  /\ Q.hasHeldSharedLock = P.hasHeldSharedLock
  /\ Q.changeCountDone = P.changeCountDone /\ Q.bDoTruncate = P.bDoTruncate

LEMMA OpenFares ==
  ASSUME NEW P, NEW l, NEW r, NEW s, NEW j, NEW d, NEW h, NEW hs,
         P.eState = "OPEN", Fares(s, P, l, r, j, d, h, hs),
         NEW Q, Q.eState = "OPEN", Q.goal # "hot", SameCache(P, Q),
         NEW l2, NEW r2, r2 => l2 >= RESERVED_LOCK,
         NEW j2, NEW d2, NEW h2,
         Relies(Q, l2, r2) => Holds(d2, h2) /\ Alone(s, j2.slots, 1, h2)
  PROVE  Fares(s, Q, l2, r2, j2, d2, h2, hs)
<1>1. Opens(s, P, j, d, h, hs) /\ P.dbFileVers.ver >= 0
  BY DEF Fares
<1>2. Opens(s, Q, j2, d2, h2, hs)
  BY <1>1 DEF Opens, SameCache, Settled, Clear, Keeps, Zeroed, Shows, Cached
<1>3. Q.dbFileVers.ver >= 0
  BY <1>1 DEF SameCache
<1> QED
  BY <1>2, <1>3 DEF Fares

LEMMA GoesSame ==
  ASSUME NEW n, NEW P \in PagerAt(n), NEW where
  PROVE  LET Q == [P EXCEPT !.at = where] IN
         SameCache(P, Q) /\ Q.eState = P.eState /\ Q.at = where /\ Q.goal = P.goal
BY DEF PagerAt, SameCache

LEMMA Opening1 ==
  ASSUME IInv, LInv, SBody, NEW c \in Conns, NEW where, pager[c].eState = "OPEN", pager[c].goal # "hot",
         Goto(c, where), LockStep(c), UNCHANGED <<files, counters>>,
         (c \in reserved)' => lock'[c] >= RESERVED_LOCK,
         LET Q == [pager[c] EXCEPT !.at = where] IN
           Relies(Q, lock'[c], (c \in reserved)') => Holds(db, Latest1) /\ Alone(setting, jrnl.slots, 1, Latest1)
  PROVE  SBody'
<1> DEFINE P == pager[c]
           Q == [P EXCEPT !.at = where]
<1>1. P \in PagerAt(ntx) /\ Fares(setting, P, lock[c], c \in reserved, jrnl, db, Latest1, history)
  BY Known
<1>2. SameCache(P, Q) /\ Q.eState = P.eState /\ Q.at = where /\ Q.goal = P.goal
  BY <1>1, GoesSame
<1>3. Set(c, Q)
  BY DEF Goto
<1>4. Relies(Q, lock'[c], (c \in reserved)') => Holds(db, Latest1) /\ Alone(setting, jrnl.slots, 1, Latest1)
  OBVIOUS
<1> HIDE DEF Q
<1>5. Fares(setting, Q, lock'[c], (c \in reserved)', jrnl, db, Latest1, history)
  BY <1>1, <1>2, <1>4, OpenFares
<1> QED
  BY <1>3, <1>5, Quiet DEF files, counters

LEMMA AtOpening ==
  ASSUME IInv, SBody, NEW c \in Conns, pager[c].at \in Openings
  PROVE  /\ pager[c].eState = "OPEN" /\ pager[c].goal = "none" /\ lock[c] # NO_LOCK
         /\ pager[c].at \in {"access", "reserved", "version", "empty", "first"} => lock[c] = SHARED_LOCK
         /\ pager[c].at = "hot" => lock[c] \in {SHARED_LOCK, PENDING_LOCK}
         /\ pager[c].at = "clear" => lock[c] = RESERVED_LOCK
         /\ pager[c].at = "open" => lock[c] = EXCLUSIVE_LOCK
<1>1. pager[c].eState = "OPEN" /\ Hasnt(pager[c], lock[c])
  BY OpenAtIs, Known
<1> QED
  BY <1>1 DEF Hasnt, Openings, NO_LOCK, SHARED_LOCK, PENDING_LOCK, RESERVED_LOCK, EXCLUSIVE_LOCK

LEMMA Relied ==
  ASSUME SBody, NEW c \in Conns, Relies(pager[c], lock[c], c \in reserved)
  PROVE  Holds(db, Latest1) /\ Alone(setting, jrnl.slots, 1, Latest1)
BY DEF SBody, Fares

LEMMA Reserved ==
  ASSUME SBody, NEW c \in Conns, c \in reserved
  PROVE  lock[c] >= RESERVED_LOCK
BY DEF SBody, Fares

LEMMA SharedLockStores == ASSUME IInv, LInv, SBody, NEW c \in Conns, SharedLock(c) PROVE SBody'
<1> DEFINE P == pager[c]
           Q == [P EXCEPT !.at = "access"]
<1>1. /\ P.eState = "OPEN" /\ Idle(c) /\ Locks!Share(c) /\ Goto(c, "access")
      /\ UNCHANGED <<files, counters>>
  BY DEF SharedLock
<1>2. LockStep(c) /\ lock'[c] = SHARED_LOCK /\ (c \in reserved' <=> c \in reserved)
  BY <1>1, Shares
<1>3. P \in PagerAt(ntx) /\ Control(P, lock[c], c \in reserved)
  BY Known
<1>4. P.goal = "none" /\ lock[c] = NO_LOCK
  BY <1>1, <1>3 DEF Control, Hasnt, Idle
<1>5. c \notin reserved
  BY <1>4, Reserved DEF NO_LOCK, RESERVED_LOCK
<1>6. Q.eState = "OPEN" /\ Q.at = "access"
  BY <1>1, <1>3, GoesSame
<1>7. ~ Relies(Q, lock'[c], (c \in reserved)')
  BY <1>2, <1>5, <1>6 DEF Relies
<1> QED
  BY <1>1, <1>2, <1>4, <1>5, <1>7, Opening1

LEMMA Asks ==
  ASSUME IInv, LInv, SBody, NEW c \in Conns, NEW where, pager[c].at \in Openings,
         Goto(c, where), UNCHANGED <<levels, files, counters>>,
         where \in {"version", "empty"} => Holds(db, Latest1) /\ Alone(setting, jrnl.slots, 1, Latest1),
         where # "clear"
  PROVE  SBody'
<1> DEFINE P == pager[c]
           Q == [P EXCEPT !.at = where]
<1>1. P.eState = "OPEN" /\ P.goal = "none"
  BY AtOpening
<1>2. LockStep(c) /\ lock'[c] = lock[c] /\ (c \in reserved' <=> c \in reserved)
  BY Unlocked
<1>3. P \in PagerAt(ntx)
  BY Known
<1>4. Q.eState = "OPEN" /\ Q.at = where
  BY <1>1, <1>3, GoesSame
<1>5. c \in reserved => lock[c] >= RESERVED_LOCK
  BY Reserved
<1>6. Relies(Q, lock'[c], (c \in reserved)') => Holds(db, Latest1) /\ Alone(setting, jrnl.slots, 1, Latest1)
  <2> SUFFICES ASSUME Relies(Q, lock'[c], (c \in reserved)'), where \notin {"version", "empty"}
               PROVE  Holds(db, Latest1) /\ Alone(setting, jrnl.slots, 1, Latest1)
    OBVIOUS
  <2> HIDE DEF Q
  <2>1. c \in reserved /\ lock[c] # EXCLUSIVE_LOCK
    BY <1>2, <1>4 DEF Relies
  <2> QED
    BY <2>1, Relied DEF Relies
<1> HIDE DEF Q
<1>7. Relies([pager[c] EXCEPT !.at = where], lock'[c], (c \in reserved)') => Holds(db, Latest1) /\ Alone(setting, jrnl.slots, 1, Latest1)
  BY <1>6 DEF Q
<1>8. (c \in reserved)' => lock'[c] >= RESERVED_LOCK
  BY <1>2, <1>5
<1>9. UNCHANGED <<files, counters>>
  OBVIOUS
<1> QED
  BY <1>1, <1>2, <1>7, <1>8, <1>9, Opening1

LEMMA HotAccessStores == ASSUME IInv, LInv, SBody, NEW c \in Conns, HotAccess(c) PROVE SBody'
<1> DEFINE where == IF jrnl.exists THEN "reserved" ELSE "version"
<1>1. pager[c].at = "access" /\ Goto(c, where) /\ UNCHANGED <<levels, files, counters>>
  BY DEF HotAccess
<1>2. Safe(setting, jrnl, db, ntx, Latest1, history)
  BY DEF SBody
<1>3. ~ jrnl.exists => Holds(db, Latest1) /\ Alone(setting, jrnl.slots, 1, Latest1)
  <2> SUFFICES ASSUME ~ jrnl.exists PROVE Holds(db, Latest1) /\ Alone(setting, jrnl.slots, 1, Latest1)
    OBVIOUS
  <2>1. Holds(db, Latest1) /\ jrnl.slots = << >>
    BY <1>2 DEF Safe, Gives
  <2> QED
    BY <2>1 DEF Alone, Tidy
<1>4. where \in {"version", "empty"} => Holds(db, Latest1) /\ Alone(setting, jrnl.slots, 1, Latest1)
  BY <1>3
<1>5. where # "clear" /\ pager[c].at \in Openings
  BY <1>1 DEF Openings
<1> HIDE DEF where
<1> QED
  BY <1>1, <1>4, <1>5, Asks

LEMMA HotReservedStores ==
  ASSUME IInv, LInv, SBody, reserved \subseteq Conns, NEW c \in Conns, HotReserved(c)
  PROVE  SBody'
<1> DEFINE where == IF reserved # {} THEN "version" ELSE IF Len(db) = 0 THEN "empty" ELSE "first"
<1>1. pager[c].at = "reserved" /\ Goto(c, where) /\ UNCHANGED <<levels, files, counters>>
  BY DEF HotReserved
<1>2. Safe(setting, jrnl, db, ntx, Latest1, history) /\ db \in Seq(ContentAt(ntx)) /\ Latest1 \in Seq(Page)
  BY Known
<1>3. pager[c].at \in Openings
  BY <1>1 DEF Openings
<1>4. CASE reserved # {}
  <2>1. PICK w \in reserved : TRUE
    BY <1>4
  <2>2. lock[c] # NO_LOCK /\ lock[c] = SHARED_LOCK
    BY <1>1, <1>3, AtOpening
  <2>3. w \in Conns
    BY <2>1
  <2>4. lock[w] # EXCLUSIVE_LOCK
    BY <2>2, <2>3 DEF LInv, SHARED_LOCK, NO_LOCK, EXCLUSIVE_LOCK
  <2> QED
    BY <1>1, <1>3, <1>4, <2>1, <2>3, <2>4, Relied, Asks DEF Relies
<1>5. CASE reserved = {} /\ Len(db) = 0
  <2>1. Len(Latest1) = 0
    BY <1>2, <1>5, NotEmpty DEF Safe
  <2>2. Latest1 = << >> /\ db = << >>
    BY <1>2, <1>5, <2>1, NotEmpty
  <2>3. Holds(db, Latest1) /\ Alone(setting, jrnl.slots, 1, Latest1)
    BY <2>1, <2>2 DEF Holds, Alone
  <2> QED
    BY <1>1, <1>3, <1>5, <2>3, Asks
<1>6. CASE reserved = {} /\ Len(db) # 0
  BY <1>1, <1>3, <1>6, Asks
<1> QED
  BY <1>4, <1>5, <1>6

LEMMA Lowered ==
  ASSUME IInv, NEW c \in Conns, Locks!Lower(c, SHARED_LOCK) \/ Locks!Vanish({c})
  PROVE  LockStep(c) /\ (c \in reserved' <=> FALSE)
<1>1. LockStep(c)
  BY Lowers, Vanishes
<1>2. c \notin reserved'
  BY DEF Locks!Lower, Locks!Vanish
<1> QED
  BY <1>1, <1>2

LEMMA HotEmptyStores == ASSUME IInv, LInv, SBody, NEW c \in Conns, HotEmpty(c) PROVE SBody'
<1> DEFINE P == pager[c]
           Q == [P EXCEPT !.at = "clear"]
<1>1. P.at = "empty" /\ UNCHANGED <<files, counters>>
  BY DEF HotEmpty
<1>2. P.at \in Openings /\ P.eState = "OPEN" /\ P.goal = "none"
  BY <1>1, AtOpening DEF Openings
<1>3. Holds(db, Latest1) /\ Alone(setting, jrnl.slots, 1, Latest1)
  BY <1>1, <1>2, Relied DEF Relies
<1>4. CASE Locks!Reserve(c) /\ Goto(c, "clear")
  <2>1. LockStep(c) /\ lock'[c] = RESERVED_LOCK
    BY <1>4, Reserves
  <2>2. (c \in reserved)' => lock'[c] >= RESERVED_LOCK
    BY <2>1 DEF RESERVED_LOCK
  <2>3. Relies(Q, lock'[c], (c \in reserved)') => Holds(db, Latest1) /\ Alone(setting, jrnl.slots, 1, Latest1)
    BY <1>3
  <2> HIDE DEF Relies
  <2> QED
    BY <1>1, <1>2, <1>4, <2>1, <2>2, <2>3, Opening1
<1>5. CASE Goto(c, "version") /\ UNCHANGED levels
  BY <1>1, <1>2, <1>3, <1>5, Asks
<1> QED
  BY <1>4, <1>5 DEF HotEmpty

(* The journal goes, or ends: what is held is all that counts.             *)
LEMMA NoJournalSafe ==
  ASSUME NEW s, NEW j, NEW d, NEW n, NEW h, NEW hs, Safe(s, j, d, n, h, hs), Holds(d, h)
  PROVE  Safe(s, NoJournal, d, n, h, hs)
<1>1. NoJournal.exists = FALSE /\ NoJournal.slots = << >>
  BY DEF NoJournal
<1>2. Gives(NoJournal, d, h)
  BY <1>1 DEF Gives
<1>3. Stamps(<< >>, 0, n + 1) /\ Kept(s, << >>, h) /\ NoneYet(<< >>, h)
  BY DEF Stamps, Kept, NoneYet, Tidy
<1> QED
  BY <1>1, <1>2, <1>3 DEF Safe

LEMMA HotClearStores == ASSUME IInv, LInv, SBody, NEW c \in Conns, HotClear(c) PROVE SBody'
<1> DEFINE P == pager[c]
           Q == [P EXCEPT !.at = "version"]
<1>1. /\ P.at = "clear" /\ jrnl' = NoJournal /\ Locks!Lower(c, SHARED_LOCK) /\ Set(c, Q)
      /\ UNCHANGED <<db, ddb, djrnl, counters>>
  BY DEF HotClear, Goto
<1>2. P.at \in Openings /\ P.eState = "OPEN" /\ P.goal = "none" /\ lock[c] = RESERVED_LOCK
  BY <1>1, AtOpening DEF Openings
<1>3. Holds(db, Latest1)
  BY <1>1, <1>2, Relied DEF Relies
<1>4. c \in reserved
  BY <1>2 DEF LInv
<1>5. Alone(setting, NoJournal.slots, 1, Latest1)
  BY DEF NoJournal, Alone, Tidy
<1>6. MayMove(c) /\ LockStep(c) /\ ~ (c \in reserved')
  BY <1>1, <1>4, <1>5, Lowered DEF MayMove, counters
<1>7. /\ P \in PagerAt(ntx) /\ Fares(setting, P, lock[c], c \in reserved, jrnl, db, Latest1, history)
      /\ Safe(setting, jrnl, db, ntx, Latest1, history)
  BY Known
<1>8. SameCache(P, Q) /\ Q.eState = "OPEN" /\ Q.goal # "hot"
  BY <1>2, <1>7, GoesSame
<1>9. Safe(setting, NoJournal, db, ntx, Latest1, history)
  BY <1>3, <1>7, NoJournalSafe
<1> HIDE DEF Q
<1>10. Fares(setting, Q, lock'[c], (c \in reserved)', NoJournal, db, Latest1, history)
  BY <1>2, <1>3, <1>5, <1>6, <1>7, <1>8, OpenFares
<1>11. Latest1' = Latest1 /\ setting' = setting /\ jrnl' = NoJournal /\ db' = db /\ ntx' = ntx /\ history' = history
  BY <1>1 DEF counters, Latest1
<1>12. Safe(setting', jrnl', db', ntx', Latest1', history')
  BY <1>9, <1>11
<1>13. Fares(setting', Q, lock'[c], (c \in reserved)', jrnl', db', Latest1', history')
  BY <1>10, <1>11
<1> QED
  BY <1>1, <1>6, <1>11, <1>12, <1>13, Steps

LEMMA HotFirstStores ==
  ASSUME IInv, LInv, SBody, Trusted(setting), NEW c \in Conns, HotFirst(c)
  PROVE  SBody'
<1>1. pager[c].at = "first" /\ UNCHANGED <<levels, files, counters>>
  BY DEF HotFirst
<1>2. pager[c].at \in Openings
  BY <1>1 DEF Openings
<1>3. PICK first \in FirstBytes : Goto(c, IF first = "zero" THEN "version" ELSE "hot")
  BY DEF HotFirst
<1>4. CASE first # "zero"
  BY <1>1, <1>2, <1>3, <1>4, Asks
<1>5. CASE first = "zero"
  <2> DEFINE f == jrnl.slots
  <2>1. /\ Safe(setting, jrnl, db, ntx, Latest1, history)
        /\ f \in Seq(SlotsAt(ntx))
    BY Known
  <2>2. jrnl.exists
    BY <1>3, <1>5 DEF FirstBytes
  <2>3. ~ Readable(f)
    <3>1. CASE f = << >>
      <4>1. ~ 0 < Len(f)
        BY <3>1
      <4> QED
        BY <4>1 DEF Readable, readJournalHdr, IsHeader
    <3>2. CASE f # << >>
      <4> SUFFICES ASSUME f[1].kind = "header", f[1].magic PROVE FALSE
        BY DEF Readable, readJournalHdr, IsHeader
      <4>1. FirstBytes = {"nonzero"}
        BY <2>2, <3>2 DEF FirstBytes
      <4> QED
        BY <1>3, <1>5, <4>1
    <3> QED
      BY <3>1, <3>2
  <2>4. Holds(db, Latest1)
    BY <2>1, <2>3 DEF Safe, Gives
  <2>5. Alone(setting, f, 1, Latest1)
    BY <2>1, <2>3 DEF Safe, Kept, Alone, Trusted, Careful
  <2> QED
    BY <1>1, <1>2, <1>3, <1>5, <2>4, <2>5, Asks
<1> QED
  BY <1>4, <1>5

(* pager_unlock.                                                           *)
LEMMA UnlockStores ==
  ASSUME IInv, LInv, SBody, NEW c \in Conns, NEW P \in PagerAt(ntx), pager_unlock(c, P),
         jrnl' = jrnl, db' = db, history' = history, ntx' = ntx, setting' = setting,
         P.dbFileVers.ver >= 0,
         P.eState # "ERROR" => (P.hasHeldSharedLock \/ Cached(P) = {}) /\ Clear(P) /\ Keeps(P, history)
  PROVE  SBody'
<1> DEFINE R == IF P.eState = "ERROR" THEN pager_reset(P) ELSE P
           Q == UnlockedPager(R)
<1>1. R \in PagerAt(ntx) /\ R.dbFileVers = P.dbFileVers
  BY ResetIs
<1>2. Set(c, Q) /\ Locks!Vanish({c})
  BY DEF pager_unlock, UnlockedPager
<1>3. (R.hasHeldSharedLock \/ Cached(R) = {}) /\ Clear(R) /\ Keeps(R, history)
  <2>1. CASE P.eState = "ERROR"
    <3>1. R.cache = << >>
      BY <2>1 DEF PagerAt, pager_reset
    <3>2. Cached(R) = {}
      BY <3>1 DEF Cached
    <3> QED
      BY <3>2 DEF Clear, Keeps, Zeroed
  <2>2. CASE P.eState # "ERROR"
    BY <2>2
  <2> QED
    BY <2>1, <2>2
<1> HIDE DEF R
<1>4. /\ Q.eState = "OPEN" /\ Q.at = "idle" /\ Q.goal = "none" /\ Q.cache = R.cache
      /\ Q.dbFileVers = R.dbFileVers /\ Q.hasHeldSharedLock = R.hasHeldSharedLock
      /\ Q.changeCountDone = FALSE /\ Q.bDoTruncate = FALSE
  BY <1>1 DEF UnlockedPager, PagerAt
<1> HIDE DEF Q
<1>5. LockStep(c) /\ (c \in reserved' <=> FALSE)
  BY <1>2, Lowered
<1>6. ~ Relies(Q, lock'[c], (c \in reserved)')
  BY <1>4, <1>5 DEF Relies
<1>7. Opens(setting, Q, jrnl, db, Latest1, history)
  BY <1>3, <1>4 DEF Opens, Settled, Clear, Keeps, Zeroed, Shows, Cached
<1>8. Fares(setting, Q, lock'[c], (c \in reserved)', jrnl, db, Latest1, history)
  BY <1>1, <1>4, <1>5, <1>6, <1>7 DEF Fares
<1> QED
  BY <1>2, <1>5, <1>8, Quiet

LEMMA KnownKeeps ==
  ASSUME NEW P, NEW h, NEW hs, Knows(P, h), h = Latest(hs), Grows(hs)
  PROVE  Keeps(P, hs)
<1>1. Len(hs) \in DOMAIN hs
  BY DEF Grows
<1> QED
  BY <1>1 DEF Knows, Keeps, Latest

LEMMA EndReadStores == ASSUME IInv, LInv, SBody, NEW c \in Conns, EndRead(c) PROVE SBody'
<1> DEFINE P == pager[c]
<1>1. P.eState = "READER" /\ pager_unlock(c, P) /\ UNCHANGED <<files, counters>>
  BY DEF EndRead
<1>2. /\ P \in PagerAt(ntx) /\ Fares(setting, P, lock[c], c \in reserved, jrnl, db, Latest1, history)
      /\ Safe(setting, jrnl, db, ntx, Latest1, history)
  BY Known
<1>3. Reading(P, db, Latest1) /\ P.hasHeldSharedLock /\ P.dbFileVers.ver >= 0
  BY <1>1, <1>2 DEF Fares
<1>4. Keeps(P, history) /\ Clear(P)
  BY <1>2, <1>3, KnownKeeps DEF Reading, Settled, Safe
<1> QED
  BY <1>1, <1>2, <1>3, <1>4, UnlockStores DEF files, counters

LEMMA LeaveErrorStores == ASSUME IInv, LInv, SBody, NEW c \in Conns, LeaveError(c) PROVE SBody'
<1>1. pager[c].eState = "ERROR" /\ pager_unlock(c, pager[c]) /\ UNCHANGED <<files, counters>>
  BY DEF LeaveError
<1>2. /\ pager[c] \in PagerAt(ntx)
      /\ Fares(setting, pager[c], lock[c], c \in reserved, jrnl, db, Latest1, history)
  BY Known
<1>3. pager[c].dbFileVers.ver >= 0
  BY <1>2 DEF Fares
<1> QED
  BY <1>1, <1>2, <1>3, UnlockStores DEF files, counters

LEMMA HotExclusiveStores == ASSUME IInv, LInv, SBody, NEW c \in Conns, HotExclusive(c) PROVE SBody'
<1> DEFINE P == pager[c]
           Q == [P EXCEPT !.at = "open"]
<1>1. P.at = "hot" /\ UNCHANGED <<files, counters>>
  BY DEF HotExclusive
<1>2. /\ P.at \in Openings /\ P.eState = "OPEN" /\ P.goal = "none"
      /\ lock[c] \in {SHARED_LOCK, PENDING_LOCK}
  BY <1>1, AtOpening DEF Openings
<1>3. /\ P \in PagerAt(ntx) /\ Fares(setting, P, lock[c], c \in reserved, jrnl, db, Latest1, history)
      /\ pager \in [Conns -> PagerAt(ntx)]
  BY Known DEF IInv
<1>4. c \in reserved => lock[c] >= RESERVED_LOCK
  BY Reserved
<1>5. CASE Locks!Exclude(c) /\ Goto(c, "open")
  <2>1. LockStep(c) /\ lock'[c] = EXCLUSIVE_LOCK
    BY <1>5, Excludes
  <2>2. (c \in reserved)' => lock'[c] >= RESERVED_LOCK
    BY <2>1 DEF RESERVED_LOCK, EXCLUSIVE_LOCK
  <2>3. Q.eState = "OPEN" /\ Q.at = "open"
    BY <1>2, <1>3, GoesSame
  <2>4. ~ Relies(Q, lock'[c], (c \in reserved)')
    BY <2>1, <2>3 DEF Relies
  <2> QED
    BY <1>1, <1>2, <1>5, <2>1, <2>2, <2>4, Opening1
<1>6. CASE Locks!Pend(c) /\ UNCHANGED pager
  <2>1. LockStep(c) /\ lock'[c] = PENDING_LOCK /\ (c \in reserved' <=> c \in reserved)
    BY <1>6, Pends
  <2>2. Set(c, P)
    <3>1. pager = [pager EXCEPT ![c] = pager[c]]
      BY <1>3
    <3> QED
      BY <1>6, <3>1 DEF Set
  <2>3. (c \in reserved)' => lock'[c] >= RESERVED_LOCK
    BY <2>1 DEF RESERVED_LOCK, PENDING_LOCK
  <2>4. Relies(P, lock'[c], (c \in reserved)') => Holds(db, Latest1) /\ Alone(setting, jrnl.slots, 1, Latest1)
    <3> SUFFICES ASSUME Relies(P, lock'[c], (c \in reserved)') PROVE Relies(P, lock[c], c \in reserved)
      BY Relied
    <3> QED
      BY <1>1, <1>2, <2>1 DEF Relies, EXCLUSIVE_LOCK, PENDING_LOCK, SHARED_LOCK
  <2>5. SameCache(P, P)
    BY DEF SameCache
  <2>6. Fares(setting, P, lock'[c], (c \in reserved)', jrnl, db, Latest1, history)
    BY <1>2, <1>3, <2>3, <2>4, <2>5, OpenFares
  <2> QED
    BY <1>1, <2>1, <2>2, <2>6, Quiet DEF files, counters
<1>7. CASE pager_unlock(c, P)
  <2>1. Opens(setting, P, jrnl, db, Latest1, history) /\ P.dbFileVers.ver >= 0
    BY <1>2, <1>3 DEF Fares
  <2> QED
    BY <1>1, <1>3, <1>7, <2>1, UnlockStores DEF Opens, Settled, files, counters
<1> QED
  BY <1>5, <1>6, <1>7 DEF HotExclusive

LEMMA CrashStores == ASSUME IInv, LInv, SBody, NEW c \in Conns, Crash(c) PROVE SBody'
<1>1. Set(c, Fresh) /\ Locks!Vanish({c}) /\ UNCHANGED <<files, ntx, history, setting>>
  BY DEF Crash, Set
<1>2. LockStep(c) /\ (c \in reserved' <=> FALSE)
  BY <1>1, Lowered
<1>3. /\ Fresh.eState = "OPEN" /\ Fresh.at = "idle" /\ Fresh.goal = "none" /\ Fresh.cache = << >>
      /\ Fresh.dbFileVers = Zero /\ ~ Fresh.changeCountDone /\ ~ Fresh.bDoTruncate
  BY DEF Fresh
<1>4. Cached(Fresh) = {}
  BY <1>3 DEF Cached
<1>5. Opens(setting, Fresh, jrnl, db, Latest1, history)
  BY <1>3, <1>4 DEF Opens, Settled, Clear, Keeps, Zeroed
<1>6. ~ Relies(Fresh, lock'[c], (c \in reserved)')
  BY <1>2, <1>3 DEF Relies
<1>7. Fresh.dbFileVers.ver >= 0
  BY <1>3 DEF Zero
<1>8. Fares(setting, Fresh, lock'[c], (c \in reserved)', jrnl, db, Latest1, history)
  BY <1>2, <1>3, <1>5, <1>6, <1>7 DEF Fares
<1> QED
  BY <1>1, <1>2, <1>8, Quiet DEF files

-----------------------------------------------------------------------------
(* Only what a journal holds counts.                                       *)
LEMMA SameSafe ==
  ASSUME NEW s, NEW j, NEW j2, j2.exists = j.exists, j2.slots = j.slots,
         NEW d, NEW n, NEW h, NEW hs, Safe(s, j, d, n, h, hs)
  PROVE  Safe(s, j2, d, n, h, hs)
BY DEF Safe, Gives

LEMMA SyncsSame ==
  ASSUME NEW n, NEW j \in JournalAt(n), NEW P, NEW sync, SyncJournalFile(P, j, sync)
  PROVE  jrnl'.exists = j.exists /\ jrnl'.slots = j.slots
BY DEF SyncJournalFile, JournalAt

LEMMA HotPlayer ==
  ASSUME NEW n, NEW P \in PagerAt(n)
  PROVE  LET Q == [P EXCEPT !.at = "play", !.goal = "hot", !.k = 0, !.journalOff = 0] IN
         SameCache(P, Q) /\ Q.eState = P.eState /\ Q.at = "play" /\ Q.goal = "hot" /\ Q.k = 0
BY DEF PagerAt, SameCache

LEMMA SameOpens ==
  ASSUME NEW P, NEW s, NEW j, NEW d, NEW h, NEW hs, Opens(s, P, j, d, h, hs),
         NEW Q, SameCache(P, Q), NEW j2, NEW d2, NEW h2,
         Q.goal = "hot" => Recovers(s, Q, j2, d2, h2)
  PROVE  Opens(s, Q, j2, d2, h2, hs)
BY DEF Opens, SameCache, Settled, Clear, Keeps, Zeroed, Shows, Cached

LEMMA HotOpenStores == ASSUME IInv, LInv, SBody, NEW c \in Conns, HotOpen(c) PROVE SBody'
<1> DEFINE P == pager[c]
<1>1. P.at = "open" /\ UNCHANGED <<db, ddb, counters>>
  BY DEF HotOpen
<1>2. P.at \in Openings /\ P.eState = "OPEN" /\ P.goal = "none" /\ lock[c] = EXCLUSIVE_LOCK
  BY <1>1, AtOpening DEF Openings
<1>3. /\ P \in PagerAt(ntx) /\ Fares(setting, P, lock[c], c \in reserved, jrnl, db, Latest1, history)
      /\ Safe(setting, jrnl, db, ntx, Latest1, history) /\ jrnl \in JournalAt(ntx)
  BY Known
<1>4. Opens(setting, P, jrnl, db, Latest1, history) /\ P.dbFileVers.ver >= 0
  BY <1>2, <1>3 DEF Fares
<1>5. CASE jrnl.exists
  <2> DEFINE Q == [P EXCEPT !.at = "play", !.goal = "hot", !.k = 0, !.journalOff = 0]
  <2>1. Set(c, Q) /\ SyncJournalFile(Q, jrnl, ~noSync) /\ UNCHANGED levels
    BY <1>5 DEF HotOpen
  <2>2. SameCache(P, Q) /\ Q.eState = "OPEN" /\ Q.at = "play" /\ Q.goal = "hot" /\ Q.k = 0
    BY <1>2, <1>3, HotPlayer
  <2> HIDE DEF Q
  <2>3. LockStep(c) /\ lock'[c] = EXCLUSIVE_LOCK /\ (c \in reserved' <=> c \in reserved)
    BY <1>2, <2>1, Unlocked
  <2>4. jrnl'.exists = jrnl.exists /\ jrnl'.slots = jrnl.slots
    BY <1>3, <2>1, SyncsSame
  <2>5. /\ Latest1' = Latest1 /\ setting' = setting /\ db' = db /\ ntx' = ntx /\ history' = history
    BY <1>1 DEF counters, Latest1
  <2>6. Safe(setting', jrnl', db', ntx', Latest1', history')
    BY <1>3, <2>4, <2>5, SameSafe
  <2>7. Recovers(setting, Q, jrnl', db, Latest1)
    BY <1>5, <2>2, <2>4 DEF Recovers
  <2>8. Opens(setting, Q, jrnl', db, Latest1, history)
    BY <1>4, <2>2, <2>7, SameOpens
  <2>9. ~ Relies(Q, lock'[c], (c \in reserved)')
    BY <2>2, <2>3 DEF Relies
  <2>10. (c \in reserved)' => lock'[c] >= RESERVED_LOCK
    BY <2>3 DEF RESERVED_LOCK, EXCLUSIVE_LOCK
  <2>11. Q.dbFileVers.ver >= 0
    BY <1>4, <2>2 DEF SameCache
  <2>12. Fares(setting, Q, lock'[c], (c \in reserved)', jrnl', db, Latest1, history)
    BY <2>2, <2>8, <2>9, <2>10, <2>11 DEF Fares
  <2>13. Fares(setting', Q, lock'[c], (c \in reserved)', jrnl', db', Latest1', history')
    BY <2>5, <2>12
  <2>14. MayMove(c)
    BY <1>2, <2>5 DEF MayMove
  <2> QED
    BY <2>1, <2>3, <2>5, <2>6, <2>13, <2>14, Steps
<1>6. CASE ~ jrnl.exists
  <2>1. Locks!Lower(c, SHARED_LOCK) /\ Goto(c, "version") /\ UNCHANGED <<jrnl, djrnl>>
    BY <1>6 DEF HotOpen
  <2>2. LockStep(c) /\ (c \in reserved' <=> FALSE)
    BY <2>1, Lowered
  <2>3. Holds(db, Latest1) /\ jrnl.slots = << >>
    BY <1>3, <1>6 DEF Safe, Gives
  <2>4. Alone(setting, jrnl.slots, 1, Latest1)
    BY <2>3 DEF Alone, Tidy
  <2>5. UNCHANGED <<files, counters>>
    BY <1>1, <2>1 DEF files
  <2> HIDE DEF Relies
  <2> QED
    BY <1>2, <2>1, <2>2, <2>3, <2>4, <2>5, Opening1
<1> QED
  BY <1>5, <1>6

-----------------------------------------------------------------------------
(* Two pagers that differ in some of their parts only.                     *)
SamePlace(P, Q) == Q.eState = P.eState /\ Q.at = P.at /\ Q.goal = P.goal /\ Q.k = P.k
SameFlags(P, Q) ==
  /\ Q.hasHeldSharedLock = P.hasHeldSharedLock
  /\ Q.changeCountDone = P.changeCountDone /\ Q.bDoTruncate = P.bDoTruncate
SameSizes(P, Q) == Q.dbOrigSize = P.dbOrigSize /\ Q.dbFileSize = P.dbFileSize
SameLog(P, Q) == Q.journalHdr = P.journalHdr /\ Q.journalOff = P.journalOff /\ Q.nRec = P.nRec /\ Q.tx = P.tx
Same(P, Q) == SamePlace(P, Q) /\ SameFlags(P, Q) /\ SameSizes(P, Q) /\ SameLog(P, Q)

(* The caches differ in page p only.                                       *)
Differs(P, Q, p) ==
  Cached(Q) = Cached(P) \cup {p} /\ \A q \in Cached(P) : q # p => Q.cache[q] = P.cache[q]

LEMMA NewCacheSame ==
  ASSUME NEW n, NEW P \in PagerAt(n), NEW g
  PROVE  LET Q == [P EXCEPT !.cache = g] IN
         /\ Same(P, Q) /\ Q.dbSize = P.dbSize /\ Q.pInJournal = P.pInJournal /\ Q.dbFileVers = P.dbFileVers
         /\ Q.cache = g
BY DEF PagerAt, Same, SamePlace, SameFlags, SameSizes, SameLog

LEMMA StoreSame ==
  ASSUME NEW n, NEW P \in PagerAt(n), NEW p, NEW e
  PROVE  LET Q == Store(P, p, e) IN
         /\ Same(P, Q) /\ Q.dbSize = P.dbSize /\ Q.pInJournal = P.pInJournal /\ Q.dbFileVers = P.dbFileVers
         /\ Differs(P, Q, p) /\ Q.cache[p] = e
<1> DEFINE g == [q \in Cached(P) \cup {p} |-> IF q = p THEN e ELSE P.cache[q]]
<1>1. DOMAIN g = Cached(P) \cup {p} /\ g[p] = e /\ \A q \in Cached(P) : q # p => g[q] = P.cache[q]
  OBVIOUS
<1>2. Store(P, p, e) = [P EXCEPT !.cache = g]
  BY DEF Store
<1> HIDE DEF g
<1> QED
  BY <1>1, <1>2, NewCacheSame DEF Differs, Cached

(* What getPage reads.                                                     *)
Unread(v) == [val |-> v, dirty |-> FALSE, needSync |-> FALSE]
ReadFrom(P, d, p) == IF P.dbSize < p \/ ~ (p <= Len(d)) THEN Zero ELSE d[p]

LEMMA VersionSame ==
  ASSUME NEW n, NEW P \in PagerAt(n), NEW v
  PROVE  LET Q == [P EXCEPT !.dbFileVers = v] IN
         /\ Same(P, Q) /\ Q.dbSize = P.dbSize /\ Q.pInJournal = P.pInJournal /\ Q.dbFileVers = v
         /\ Q.cache = P.cache
BY DEF PagerAt, Same, SamePlace, SameFlags, SameSizes, SameLog

LEMMA GetPageSame ==
  ASSUME NEW n \in Nat, NEW P \in PagerAt(n), NEW p \in 1 .. MaxPage, db \in Seq(ContentAt(n))
  PROVE  LET Q == getPage(P, p) IN
         /\ Same(P, Q) /\ Q.dbSize = P.dbSize /\ Q.pInJournal = P.pInJournal
         /\ p \in Cached(P) => Q = P
         /\ p \notin Cached(P) => Q.cache[p] = Unread(ReadFrom(P, db, p))
         /\ Differs(P, Q, p) /\ \A q \in Cached(P) : Q.cache[q] = P.cache[q]
         /\ Q.dbFileVers = IF p = 1 /\ 1 \notin Cached(P) /\ P.dbSize >= 1 THEN ReadFrom(P, db, 1) ELSE P.dbFileVers
<1> DEFINE v == IF p <= Len(db) THEN db[p] ELSE Zero
           Q == Store(P, p, Unread(v))
<1>0. P.dbSize \in Nat /\ p \in Nat
  BY PagerAssumption DEF PagerAt
<1>1. CASE p \in Cached(P)
  <2>1. getPage(P, p) = P
    BY <1>1 DEF getPage
  <2> QED
    BY <1>1, <2>1 DEF Same, SamePlace, SameFlags, SameSizes, SameLog, Differs
<1>2. CASE p \notin Cached(P) /\ P.dbSize < p
  <2>1. getPage(P, p) = Store(P, p, Unread(Zero))
    BY <1>2 DEF getPage, Unread
  <2>2. ReadFrom(P, db, p) = Zero
    BY <1>2 DEF ReadFrom
  <2>3. ~ (p = 1 /\ P.dbSize >= 1)
    BY <1>0, <1>2
  <2> QED
    BY <1>2, <2>1, <2>2, <2>3, StoreSame DEF Differs
<1>3. CASE p \notin Cached(P) /\ ~ (P.dbSize < p)
  <2>1. getPage(P, p) = IF p = 1 THEN [Q EXCEPT !.dbFileVers = v] ELSE Q
    BY <1>3 DEF getPage, Unread
  <2>2. /\ Same(P, Q) /\ Q.dbSize = P.dbSize /\ Q.pInJournal = P.pInJournal /\ Q.dbFileVers = P.dbFileVers
        /\ Differs(P, Q, p) /\ Q.cache[p] = Unread(v)
    BY StoreSame
  <2>3. Q \in PagerAt(n)
    <3>1. v \in ContentAt(n)
      BY ZeroIs
    <3>2. Unread(v) \in EntryAt(n)
      BY <3>1 DEF EntryAt, Unread
    <3> QED
      BY <3>2, StoreIs
  <2>4. ReadFrom(P, db, p) = v
    BY <1>3 DEF ReadFrom
  <2> HIDE DEF Q, v
  <2>5. LET R == [Q EXCEPT !.dbFileVers = v] IN
         /\ Same(Q, R) /\ R.dbSize = Q.dbSize /\ R.pInJournal = Q.pInJournal /\ R.dbFileVers = v
         /\ R.cache = Q.cache
    BY <2>3, VersionSame
  <2>6. CASE p = 1
    <3>1. P.dbSize >= 1
      BY <1>0, <1>3, <2>6
    <3> DEFINE R == [Q EXCEPT !.dbFileVers = v]
    <3>2. getPage(P, p) = R
      BY <2>1, <2>6
    <3>3. /\ Same(Q, R) /\ R.dbSize = Q.dbSize /\ R.pInJournal = Q.pInJournal /\ R.dbFileVers = v
          /\ R.cache = Q.cache
      BY <2>5
    <3> HIDE DEF R
    <3>4. Same(P, R)
      BY <2>2, <3>3 DEF Same, SamePlace, SameFlags, SameSizes, SameLog
    <3>5. Cached(R) = Cached(Q)
      BY <3>3 DEF Cached
    <3> QED
      BY <1>3, <2>2, <2>4, <2>6, <3>1, <3>2, <3>3, <3>4, <3>5 DEF Differs
  <2>7. CASE p # 1
    BY <1>3, <2>1, <2>2, <2>4, <2>7 DEF Differs
  <2> QED
    BY <2>6, <2>7
<1> QED
  BY <1>1, <1>2, <1>3

-----------------------------------------------------------------------------
(* The cache that is kept is of the image that was committed last.         *)
Trusts(P, h) == Zeroed(P) \/ (h # << >> /\ P.dbFileVers = h[1] /\ Shows(P, h))

LEMMA LatestFirst ==
  ASSUME NEW hs, Grows(hs), NEW i \in DOMAIN hs, First(hs[i]).ver = First(Latest(hs)).ver
  PROVE  hs[i] = Latest(hs)
<1>1. Len(hs) \in DOMAIN hs /\ i \in 1 .. Len(hs) /\ Len(hs) \in Nat
  BY DEF Grows
<1>2. CASE i = Len(hs)
  BY <1>2 DEF Latest
<1>3. CASE i < Len(hs)
  <2>1. First(hs[i]).ver < First(hs[Len(hs)]).ver
    BY <1>1, <1>3 DEF Grows
  <2>2. First(hs[i]) \in Page
    <3>1. hs[i] \in Seq(Page)
      BY DEF Grows
    <3>2. hs[i] # << >> => hs[i][1] \in Page
      BY <3>1, NotEmpty
    <3>3. Zero \in Page
      BY DEF Zero, Page
    <3> QED
      BY <3>2, <3>3 DEF First
  <2> QED
    BY <2>1, <2>2 DEF Latest, Page
<1> QED
  BY <1>1, <1>2, <1>3

LEMMA RevalidatedTrusts ==
  ASSUME NEW n, NEW P \in PagerAt(n), NEW h, NEW hs, Grows(hs), h = Latest(hs), Keeps(P, hs),
         P.hasHeldSharedLock \/ Cached(P) = {}
  PROVE  LET W == Revalidated(P, First(h)) IN
         /\ Trusts(W, h) /\ W.dbFileVers = P.dbFileVers
         /\ Clear(P) => Clear(W)
         /\ W.changeCountDone = P.changeCountDone /\ W.bDoTruncate = P.bDoTruncate
<1> DEFINE W == Revalidated(P, First(h))
<1>1. CASE P.hasHeldSharedLock /\ P.dbFileVers # First(h)
  <2>1. W = pager_reset(P)
    BY <1>1 DEF Revalidated
  <2>2. W.cache = << >> /\ W.dbFileVers = P.dbFileVers
        /\ W.changeCountDone = P.changeCountDone /\ W.bDoTruncate = P.bDoTruncate
    BY <2>1 DEF PagerAt, pager_reset
  <2>3. Cached(W) = {}
    BY <2>2 DEF Cached
  <2> QED
    BY <2>2, <2>3 DEF Trusts, Zeroed, Clear
<1>2. CASE ~ P.hasHeldSharedLock
  <2>1. W = P /\ Cached(P) = {}
    BY <1>2 DEF Revalidated
  <2> QED
    BY <2>1 DEF Trusts, Zeroed, Clear
<1>3. CASE P.hasHeldSharedLock /\ P.dbFileVers = First(h)
  <2>1. W = P
    BY <1>3 DEF Revalidated
  <2>2. CASE Zeroed(P)
    BY <2>1, <2>2 DEF Trusts
  <2>3. CASE ~ Zeroed(P)
    <3>1. PICK i \in DOMAIN hs : hs[i] # << >> /\ P.dbFileVers = hs[i][1] /\ Shows(P, hs[i])
      BY <2>3 DEF Keeps
    <3>2. First(hs[i]) = First(h)
      BY <1>3, <3>1 DEF First
    <3>3. hs[i] = h
      BY <3>2, LatestFirst
    <3> QED
      BY <2>1, <3>1, <3>3 DEF Trusts
  <2> QED
    BY <2>2, <2>3
<1> QED
  BY <1>1, <1>2, <1>3

LEMMA FirstHeld ==
  ASSUME NEW n, NEW d \in Seq(ContentAt(n)), NEW h \in Seq(Page), Holds(d, h)
  PROVE  First(h) = IF d = << >> THEN Zero ELSE d[1]
<1>1. CASE h = << >>
  BY <1>1 DEF First, Holds
<1>2. CASE h # << >>
  <2>1. 1 \in 1 .. Len(h) /\ Len(h) <= Len(d) /\ 1 <= Len(h) /\ Len(h) \in Nat /\ Len(d) \in Nat
    BY <1>2, NotEmpty DEF Holds
  <2>2. d # << >>
    BY <2>1
  <2>3. d[1] = h[1]
    BY <2>1 DEF Holds
  <2> QED
    BY <1>2, <2>2, <2>3 DEF First
<1> QED
  BY <1>1, <1>2

Started(P, z) == [P EXCEPT !.eState = "READER", !.at = "idle", !.goal = "none",
                           !.hasHeldSharedLock = TRUE, !.dbSize = z]

LEMMA StartsReader ==
  ASSUME NEW n, NEW P \in PagerAt(n), NEW z \in Nat
  PROVE  LET Q == Started(P, z) IN
         /\ Q \in PagerAt(n) /\ Q.eState = "READER" /\ Q.at = "idle" /\ Q.goal = "none"
         /\ Q.hasHeldSharedLock /\ Q.dbSize = z /\ Q.cache = P.cache /\ Q.dbFileVers = P.dbFileVers
         /\ Q.changeCountDone = P.changeCountDone /\ Q.bDoTruncate = P.bDoTruncate
BY DEF PagerAt, States, Places, Goals, Started

(* After getPage of page 1.                                                *)
LEMMA FirstRead ==
  ASSUME NEW n \in Nat, NEW R \in PagerAt(n), db \in Seq(ContentAt(n)), NEW h \in Seq(Page), Holds(db, h),
         R.dbSize = Len(db), Trusts(R, h)
  PROVE  LET T == getPage(R, 1) IN
         /\ Same(R, T) /\ T.dbSize = R.dbSize /\ (Clear(R) => Clear(T))
         /\ Knows(T, h) \/ (Zeroed(T) /\ 1 \in Cached(T))
         /\ T.dbFileVers = R.dbFileVers \/ T.dbFileVers = First(h)
<1> DEFINE T == getPage(R, 1)
<1>0. 1 \in 1 .. MaxPage
  BY PagerAssumption
<1>1. /\ Same(R, T) /\ T.dbSize = R.dbSize
      /\ 1 \in Cached(R) => T = R
      /\ 1 \notin Cached(R) => T.cache[1] = Unread(ReadFrom(R, db, 1))
      /\ Cached(T) = Cached(R) \cup {1}
      /\ \A q \in Cached(R) : T.cache[q] = R.cache[q]
      /\ T.dbFileVers = IF 1 \notin Cached(R) /\ R.dbSize >= 1 THEN ReadFrom(R, db, 1) ELSE R.dbFileVers
  BY <1>0, GetPageSame DEF Differs
<1> HIDE DEF T
<1>2. Len(db) \in Nat /\ First(h) = ReadFrom(R, db, 1)
  <2>1. Len(db) \in Nat /\ (db = << >> <=> ~ (1 <= Len(db)))
    BY NotEmpty
  <2>2. First(h) = IF db = << >> THEN Zero ELSE db[1]
    BY FirstHeld
  <2>3. ReadFrom(R, db, 1) = IF ~ (1 <= Len(db)) THEN Zero ELSE db[1]
    BY <2>1 DEF ReadFrom
  <2> QED
    BY <2>1, <2>2, <2>3
<1>3. T.dbFileVers = R.dbFileVers \/ T.dbFileVers = First(h)
  BY <1>1, <1>2
<1>4. Clear(R) => Clear(T)
  BY <1>1 DEF Clear, Unread
<1> SUFFICES Knows(T, h) \/ (Zeroed(T) /\ 1 \in Cached(T))
  BY <1>1, <1>3, <1>4 DEF T
<1>5. CASE 1 \in Cached(R)
  BY <1>1, <1>3, <1>4, <1>5 DEF Trusts, Knows
<1>6. CASE 1 \notin Cached(R) /\ h = << >>
  <2>1. ~ (h # << >> /\ R.dbFileVers = h[1] /\ Shows(R, h))
    BY <1>6
  <2>2. Zeroed(R)
    BY <2>1 DEF Trusts
  <2>3. T.cache[1].val = Zero
    BY <1>1, <1>2, <1>6 DEF First, Unread
  <2>4. Zeroed(T)
    BY <1>1, <2>2, <2>3 DEF Zeroed
  <2> QED
    BY <1>1, <1>3, <1>4, <1>6, <2>4 DEF Knows
<1>7. CASE 1 \notin Cached(R) /\ h # << >>
  <2>1. Len(h) >= 1 /\ Len(db) >= Len(h) /\ Len(h) \in Nat
    BY <1>7, NotEmpty DEF Holds
  <2>2. T.dbFileVers = h[1] /\ T.cache[1].val = h[1]
    BY <1>1, <1>2, <1>7, <2>1 DEF First, Unread
  <2>3. Shows(R, h)
    BY <1>7 DEF Trusts, Shows, Zeroed
  <2>4. Shows(T, h)
    BY <1>1, <2>2, <2>3 DEF Shows
  <2> QED
    BY <1>1, <1>3, <1>4, <1>7, <2>2, <2>4 DEF Knows
<1> QED
  BY <1>5, <1>6, <1>7

LEMMA LatestIs ==
  ASSUME SBody
  PROVE  Grows(history) /\ Latest1 = Latest(history) /\ First(Latest1).ver >= 0
<1>1. Grows(history)
  BY DEF SBody, Safe
<1>2. Len(history) \in DOMAIN history
  BY <1>1 DEF Grows
<1> QED
  BY <1>1, <1>2 DEF Grows, Latest1, Latest

LEMMA SharedLockDoneStores == ASSUME IInv, LInv, SBody, NEW c \in Conns, SharedLockDone(c) PROVE SBody'
<1> DEFINE P == pager[c]
           h == Latest1
           now == IF db = <<>> THEN Zero ELSE db[1]
           W == Revalidated(P, now)
           R == Started(W, Len(db))
           T == getPage(R, 1)
<1>1. /\ P.at = "version" /\ UNCHANGED <<files, counters>>
      /\ (lockBtree(T) /\ Set(c, T) /\ UNCHANGED levels) \/ pager_unlock(c, T)
  BY DEF SharedLockDone, Started
<1>2. P.at \in Openings /\ P.eState = "OPEN" /\ P.goal = "none" /\ lock[c] = SHARED_LOCK
  BY <1>1, AtOpening DEF Openings
<1>3. /\ P \in PagerAt(ntx) /\ Fares(setting, P, lock[c], c \in reserved, jrnl, db, h, history)
      /\ db \in Seq(ContentAt(ntx)) /\ h \in Seq(Page) /\ ntx \in Nat
  BY Known
<1>4. Holds(db, h) /\ Alone(setting, jrnl.slots, 1, h)
  BY <1>1, <1>2, Relied DEF Relies
<1>5. Opens(setting, P, jrnl, db, h, history) /\ P.dbFileVers.ver >= 0
  BY <1>2, <1>3 DEF Fares
<1>6. Grows(history) /\ h = Latest(history) /\ First(h).ver >= 0
  BY LatestIs
<1>7. now = First(h)
  BY <1>3, <1>4, FirstHeld
<1>8. (LockStep(c) /\ lock'[c] = lock[c] /\ (c \in reserved' <=> c \in reserved)) \/ ~ UNCHANGED levels
  BY Unlocked
<1>20. (c \in reserved) => lock[c] >= RESERVED_LOCK
  BY Reserved
<1> HIDE DEF now, P, h
<1>9. W \in PagerAt(ntx)
  BY <1>3, ResetIs DEF Revalidated
<1>10. /\ Trusts(W, h) /\ W.dbFileVers = P.dbFileVers /\ Clear(W) /\ ~ W.changeCountDone /\ ~ W.bDoTruncate
  BY <1>3, <1>5, <1>6, <1>7, RevalidatedTrusts DEF Opens, Settled
<1> HIDE DEF W
<1>11. /\ R \in PagerAt(ntx) /\ R.eState = "READER" /\ R.at = "idle" /\ R.goal = "none"
       /\ R.hasHeldSharedLock /\ R.dbSize = Len(db) /\ R.cache = W.cache /\ R.dbFileVers = W.dbFileVers
       /\ R.changeCountDone = W.changeCountDone /\ R.bDoTruncate = W.bDoTruncate
  <2>1. Len(db) \in Nat
    BY <1>3
  <2> QED
    BY <1>9, <2>1, StartsReader
<1> HIDE DEF R
<1>12. Trusts(R, h) /\ Clear(R)
  BY <1>10, <1>11 DEF Trusts, Zeroed, Shows, Cached, Clear
<1>13. /\ Same(R, T) /\ T.dbSize = R.dbSize /\ Clear(T)
       /\ Knows(T, h) \/ (Zeroed(T) /\ 1 \in Cached(T))
       /\ T.dbFileVers = R.dbFileVers \/ T.dbFileVers = First(h)
  BY <1>3, <1>4, <1>11, <1>12, FirstRead
<1>14. T \in PagerAt(ntx)
  <2>1. 1 \in 1 .. MaxPage
    BY PagerAssumption
  <2> QED
    BY <1>3, <1>11, <2>1, GetPageIs
<1> HIDE DEF T
<1>15. T.dbFileVers.ver >= 0 /\ T.hasHeldSharedLock /\ T.eState = "READER" /\ Settled(T)
  BY <1>5, <1>6, <1>10, <1>11, <1>13 DEF Same, SameFlags, SamePlace, Settled
<1>16. CASE pager_unlock(c, T)
  <2>1. Keeps(T, history)
    BY <1>6, <1>13, KnownKeeps DEF Keeps
  <2> QED
    BY <1>1, <1>13, <1>14, <1>15, <1>16, <2>1, UnlockStores DEF files, counters
<1>17. CASE lockBtree(T) /\ Set(c, T) /\ UNCHANGED levels
  <2>1. Knows(T, h)
    <3>1. CASE h = << >>
      BY <1>13, <3>1 DEF Knows
    <3>2. CASE h # << >> /\ ~ Knows(T, h)
      <4>1. Size(T) = 0
        BY <1>13, <3>2 DEF Zeroed, Size, Zero
      <4>2. db = << >>
        BY <1>17, <4>1 DEF lockBtree
      <4>3. Len(h) <= 0 /\ Len(h) \in Nat
        BY <1>3, <1>4, <4>2 DEF Holds
      <4> QED
        BY <1>3, <3>2, <4>3, NotEmpty
    <3> QED
      BY <3>1, <3>2
  <2>2. Reading(T, db, h)
    BY <1>11, <1>13, <1>15, <2>1 DEF Reading
  <2>3. LockStep(c) /\ (c \in reserved)' => lock'[c] >= RESERVED_LOCK
    BY <1>8, <1>17, <1>20
  <2>4. Fares(setting, T, lock'[c], (c \in reserved)', jrnl, db, h, history)
    BY <1>4, <1>8, <1>15, <1>17, <2>2, <2>3 DEF Fares
  <2> QED
    BY <1>1, <1>8, <1>17, <2>4, Quiet DEF files, counters, h
<1> QED
  BY <1>1, <1>16, <1>17

-----------------------------------------------------------------------------
(* Readers, and the beginning of a transaction.                            *)
LEMMA ReaderKnown ==
  ASSUME IInv, SBody, NEW c \in Conns, pager[c].eState = "READER"
  PROVE  /\ Reading(pager[c], db, Latest1) /\ pager[c].hasHeldSharedLock /\ pager[c].dbFileVers.ver >= 0
         /\ Holds(db, Latest1) /\ Alone(setting, jrnl.slots, 1, Latest1)
<1>1. Fares(setting, pager[c], lock[c], c \in reserved, jrnl, db, Latest1, history)
  BY Known
<1>2. Holds(db, Latest1) /\ Alone(setting, jrnl.slots, 1, Latest1)
  BY Relied DEF Relies
<1> QED
  BY <1>1, <1>2 DEF Fares

LEMMA ReaderFares ==
  ASSUME NEW Q, Q.eState = "READER", NEW s, NEW l, NEW r, NEW j, NEW d, NEW h, NEW hs,
         Reading(Q, d, h), Q.hasHeldSharedLock, Q.dbFileVers.ver >= 0, Holds(d, h), Alone(s, j.slots, 1, h),
         r => l >= RESERVED_LOCK
  PROVE  Fares(s, Q, l, r, j, d, h, hs)
BY DEF Fares

LEMMA GetStores == ASSUME IInv, LInv, SBody, NEW c \in Conns, NEW p, Get(c, p) PROVE SBody'
<1> DEFINE P == pager[c]
           h == Latest1
           Q == getPage(P, p)
<1>1. /\ P.eState = "READER" /\ p \in 1 .. Size(P) /\ p \notin Cached(P) /\ Set(c, Q)
      /\ UNCHANGED <<levels, files, counters>>
  BY DEF Get
<1>2. 1 \in Cached(P) /\ P \in PagerAt(ntx) /\ Size(P) \in 0 .. MaxPage
  BY <1>1, ReaderIs DEF Size
<1>3. /\ Reading(P, db, h) /\ P.hasHeldSharedLock /\ P.dbFileVers.ver >= 0
      /\ Holds(db, h) /\ Alone(setting, jrnl.slots, 1, h)
  BY <1>1, ReaderKnown
<1>4. ntx \in Nat /\ db \in Seq(ContentAt(ntx)) /\ h \in Seq(Page)
  BY Known
<1>5. LockStep(c) /\ ((c \in reserved)' => lock'[c] >= RESERVED_LOCK)
  BY <1>1, Unlocked, Reserved
<1> HIDE DEF P, h
<1>6. p \in 1 .. MaxPage /\ p # 1
  BY <1>1, <1>2, PagerAssumption
<1>7. /\ Same(P, Q) /\ Q.dbSize = P.dbSize /\ Q.cache[p] = Unread(ReadFrom(P, db, p))
      /\ Cached(Q) = Cached(P) \cup {p} /\ \A q \in Cached(P) : Q.cache[q] = P.cache[q]
      /\ Q.dbFileVers = P.dbFileVers
  BY <1>1, <1>2, <1>4, <1>6, GetPageSame DEF Differs
<1> HIDE DEF Q
<1>8. h # << >>
  <2> SUFFICES ASSUME h = << >> PROVE FALSE
    OBVIOUS
  <2>1. Zeroed(P)
    BY <1>3 DEF Reading, Knows
  <2>2. Size(P) = 0
    BY <1>2, <2>1 DEF Zeroed, Size, Zero
  <2> QED
    BY <1>1, <2>2
<1>9. p <= Len(h) => Q.cache[p].val = h[p]
  <2> SUFFICES ASSUME p <= Len(h) PROVE Q.cache[p].val = h[p]
    OBVIOUS
  <2>1. Len(h) \in Nat /\ Len(db) \in Nat /\ Len(h) <= Len(db) /\ P.dbSize = Len(db) /\ p \in Nat
    BY <1>1, <1>2, <1>3, <1>4 DEF Reading, Holds
  <2>2. ReadFrom(P, db, p) = db[p]
    BY <2>1 DEF ReadFrom
  <2>3. p \in 1 .. Len(h)
    BY <1>1, <1>2, <2>1
  <2> QED
    BY <1>3, <1>7, <2>2, <2>3 DEF Holds, Unread
<1>10. Knows(Q, h)
  BY <1>3, <1>7, <1>8, <1>9 DEF Reading, Knows, Shows
<1>11. Settled(Q)
  BY <1>3, <1>7 DEF Reading, Settled, Clear, Same, SameFlags, Unread
<1>12. Reading(Q, db, h)
  BY <1>3, <1>7, <1>10, <1>11 DEF Reading
<1>13. Fares(setting, Q, lock'[c], (c \in reserved)', jrnl, db, h, history)
  BY <1>1, <1>3, <1>5, <1>7, <1>12, ReaderFares DEF Same, SamePlace, SameFlags
<1> QED
  BY <1>1, <1>5, <1>13, Quiet DEF files, counters, h

LEMMA LockedSame ==
  ASSUME NEW n \in Nat, NEW P \in PagerAt(n)
  PROVE  LET Q == [P EXCEPT !.eState = "LOCKED", !.at = "idle", !.dbFileSize = P.dbSize,
                            !.dbOrigSize = P.dbSize, !.journalOff = 0, !.tx = n + 1]
         IN  /\ Q.eState = "LOCKED" /\ Q.tx = n + 1 /\ Q.cache = P.cache /\ Q.dbFileVers = P.dbFileVers
             /\ Q.dbSize = P.dbSize /\ Q.dbOrigSize = P.dbSize /\ Q.dbFileSize = P.dbSize
             /\ SameFlags(P, Q)
BY DEF PagerAt, SameFlags

LEMMA BeginsStores ==
  ASSUME IInv, LInv, SBody, NEW c \in Conns, Locked(c, pager[c]), LockStep(c), lock'[c] >= RESERVED_LOCK,
         pager[c].eState = "READER", UNCHANGED <<files, history, setting, mishaps>>
  PROVE  SBody'
<1> DEFINE P == pager[c]
           h == Latest1
           Q == [P EXCEPT !.eState = "LOCKED", !.at = "idle", !.dbFileSize = P.dbSize,
                          !.dbOrigSize = P.dbSize, !.journalOff = 0, !.tx = ntx + 1]
<1>1. Set(c, Q) /\ ntx' = ntx + 1
  BY DEF Locked
<1>2. P \in PagerAt(ntx) /\ ntx \in Nat /\ Safe(setting, jrnl, db, ntx, h, history)
  BY Known
<1>3. /\ Reading(P, db, h) /\ P.hasHeldSharedLock /\ P.dbFileVers.ver >= 0
      /\ Holds(db, h) /\ Alone(setting, jrnl.slots, 1, h)
  BY ReaderKnown
<1>4. lock'[c] >= RESERVED_LOCK
  OBVIOUS
<1> HIDE DEF P, h
<1>5. /\ Q.eState = "LOCKED" /\ Q.tx = ntx + 1 /\ Q.cache = P.cache /\ Q.dbFileVers = P.dbFileVers
      /\ Q.dbSize = P.dbSize /\ Q.dbOrigSize = P.dbSize /\ Q.dbFileSize = P.dbSize
      /\ SameFlags(P, Q)
  BY <1>2, LockedSame
<1> HIDE DEF Q
<1>6. Reading(Q, db, h)
  BY <1>3, <1>5 DEF Reading, Knows, Zeroed, Shows, Settled, Clear, Cached, SameFlags
<1>7. Stamps(jrnl.slots, 0, Q.tx)
  BY <1>2, <1>5 DEF Safe
<1>8. Fares(setting, Q, lock'[c], (c \in reserved)', jrnl, db, h, history)
  BY <1>3, <1>4, <1>5, <1>6, <1>7 DEF Fares, SameFlags
<1> QED
  BY <1>1, <1>8, Quiet DEF files, h

(* A pager only goes on to another place.                                  *)
LEMMA GoesCache ==
  ASSUME NEW n, NEW P \in PagerAt(n), NEW where
  PROVE  LET Q == [P EXCEPT !.at = where] IN
         /\ Q.eState = P.eState /\ Q.at = where /\ Q.goal = P.goal /\ Q.k = P.k /\ SameFlags(P, Q)
         /\ SameSizes(P, Q) /\ SameLog(P, Q) /\ Q.dbSize = P.dbSize /\ Q.pInJournal = P.pInJournal
         /\ Q.cache = P.cache /\ Q.dbFileVers = P.dbFileVers
BY DEF PagerAt, SameFlags, SameSizes, SameLog

LEMMA ReaderGoes ==
  ASSUME IInv, LInv, SBody, NEW c \in Conns, pager[c].eState = "READER", NEW where, Goto(c, where),
         LockStep(c), (c \in reserved)' => lock'[c] >= RESERVED_LOCK,
         UNCHANGED <<files, ntx, history, setting, mishaps>>
  PROVE  SBody'
<1> DEFINE P == pager[c]
           h == Latest1
           Q == [P EXCEPT !.at = where]
<1>1. Set(c, Q)
  BY DEF Goto
<1>2. P \in PagerAt(ntx)
  BY Known
<1>3. /\ Reading(P, db, h) /\ P.hasHeldSharedLock /\ P.dbFileVers.ver >= 0
      /\ Holds(db, h) /\ Alone(setting, jrnl.slots, 1, h)
  BY ReaderKnown
<1>4. Q.eState = "READER" /\ SameFlags(P, Q) /\ Q.dbSize = P.dbSize /\ Q.cache = P.cache /\ Q.dbFileVers = P.dbFileVers
  BY <1>2, GoesCache
<1> HIDE DEF P, h, Q
<1>5. Reading(Q, db, h)
  BY <1>3, <1>4 DEF Reading, Knows, Zeroed, Shows, Settled, Clear, Cached, SameFlags
<1>6. Fares(setting, Q, lock'[c], (c \in reserved)', jrnl, db, h, history)
  BY <1>3, <1>4, <1>5, ReaderFares DEF SameFlags
<1> QED
  BY <1>1, <1>6, Quiet DEF files, h

LEMMA PagerBeginStores == ASSUME IInv, LInv, SBody, NEW c \in Conns, PagerBegin(c) PROVE SBody'
<1>1. /\ pager[c].eState = "READER" /\ Reserving(c) /\ UNCHANGED <<files, history, setting, mishaps>>
  BY DEF PagerBegin
<1>2. LockStep(c) /\ lock'[c] >= RESERVED_LOCK
  <2>1. CASE lock[c] >= RESERVED_LOCK /\ UNCHANGED levels
    BY <2>1, Unlocked
  <2>2. CASE Locks!Reserve(c)
    BY <2>2, Reserves DEF RESERVED_LOCK
  <2> QED
    BY <1>1, <2>1, <2>2 DEF Reserving
<1>3. CASE Locked(c, pager[c])
  BY <1>1, <1>2, <1>3, BeginsStores
<1>4. CASE Goto(c, "exclusive") /\ UNCHANGED ntx
  <2>1. UNCHANGED <<files, ntx, history, setting, mishaps>>
    BY <1>1, <1>4
  <2> QED
    BY <1>1, <1>2, <1>4, <2>1, ReaderGoes
<1> QED
  BY <1>3, <1>4 DEF PagerBegin

LEMMA ReaderWaits ==
  ASSUME IInv, LInv, SBody, NEW c \in Conns, pager[c].eState = "READER", UNCHANGED pager,
         LockStep(c), (c \in reserved)' => lock'[c] >= RESERVED_LOCK,
         UNCHANGED <<files, ntx, history, setting, mishaps>>
  PROVE  SBody'
<1> DEFINE P == pager[c]
<1>1. Set(c, P)
  <2>1. pager \in [Conns -> PagerAt(ntx)]
    BY DEF IInv
  <2> QED
    BY <2>1 DEF Set
<1>2. Fares(setting, P, lock'[c], (c \in reserved)', jrnl, db, Latest1, history)
  BY ReaderKnown, ReaderFares
<1> QED
  BY <1>1, <1>2, Quiet DEF files

LEMMA BeginExclusiveStores == ASSUME IInv, LInv, SBody, NEW c \in Conns, BeginExclusive(c) PROVE SBody'
<1>1. pager[c].at = "exclusive" /\ UNCHANGED <<files, history, setting, mishaps>>
  BY DEF BeginExclusive
<1>2. pager[c] \in PagerAt(ntx) /\ Control(pager[c], lock[c], c \in reserved) /\ lock[c] \in 0 .. 4
  BY PagerIs
<1>3. pager[c].eState = "READER"
  BY <1>1, <1>2 DEF Control, Hasnt, Acts, Writing, PagerAt, States
<1>4. lock[c] >= RESERVED_LOCK
  BY <1>1, <1>2, <1>3 DEF Control, Reads
<1>6. CASE Locks!Exclude(c) /\ Locked(c, pager[c])
  <2>1. LockStep(c) /\ lock'[c] >= RESERVED_LOCK
    BY <1>6, Excludes DEF EXCLUSIVE_LOCK, RESERVED_LOCK
  <2> QED
    BY <1>1, <1>3, <1>6, <2>1, BeginsStores
<1>7. CASE lock[c] = EXCLUSIVE_LOCK /\ Locked(c, pager[c]) /\ UNCHANGED levels
  <2>1. LockStep(c) /\ lock'[c] >= RESERVED_LOCK
    BY <1>4, <1>7, Unlocked
  <2> QED
    BY <1>1, <1>3, <1>7, <2>1, BeginsStores
<1>8. CASE Locks!Pend(c) /\ UNCHANGED <<pager, ntx>>
  <2>1. LockStep(c) /\ lock'[c] >= RESERVED_LOCK
    BY <1>8, Pends DEF RESERVED_LOCK, PENDING_LOCK
  <2>2. UNCHANGED pager /\ UNCHANGED <<files, ntx, history, setting, mishaps>>
    BY <1>1, <1>8
  <2> QED
    BY <1>3, <2>1, <2>2, ReaderWaits
<1>9. CASE Goto(c, "idle") /\ UNCHANGED <<levels, ntx>>
  <2>1. LockStep(c) /\ lock'[c] >= RESERVED_LOCK
    BY <1>4, <1>9, Unlocked
  <2>2. UNCHANGED <<files, ntx, history, setting, mishaps>>
    BY <1>1, <1>9
  <2> QED
    BY <1>3, <1>9, <2>1, <2>2, ReaderGoes
<1> QED
  BY <1>6, <1>7, <1>8, <1>9 DEF BeginExclusive

-----------------------------------------------------------------------------
(* A writer only turns to something else.                                  *)
Alike(P, Q) ==
  /\ Q.eState = P.eState /\ SameFlags(P, Q) /\ SameSizes(P, Q) /\ SameLog(P, Q)
  /\ Q.dbSize = P.dbSize /\ Q.pInJournal = P.pInJournal /\ Q.cache = P.cache /\ Q.dbFileVers = P.dbFileVers

SpillFits(s, P) ==
  P.goal = "spill" => /\ s.spilling /\ P.cache[P.k].dirty
                      /\ P.at = "pageout" => ~ P.cache[P.k].needSync

LEMMA AlikeChanging ==
  ASSUME NEW P, NEW Q, Alike(P, Q), NEW s, NEW f, NEW d, NEW h
  PROVE  /\ Changes(s, P, f, d, h) => Changes(s, Q, f, d, h)
         /\ Mine(P, f) => Mine(Q, f)
         /\ Unsynced(P, f) => Unsynced(Q, f)
         /\ Endless(P, f) => Endless(Q, f)
         /\ Size(Q) = Size(P) /\ Cached(Q) = Cached(P)
<1>1. Size(Q) = Size(P) /\ Cached(Q) = Cached(P)
  BY DEF Alike, Size, Cached
<1>2. Changes(s, P, f, d, h) => Changes(s, Q, f, d, h)
  BY <1>1 DEF Changes, Changing, Synced, Alike, SameLog
<1>3. Mine(P, f) => Mine(Q, f)
  BY DEF Mine, Alike, SameLog, SameSizes
<1>4. Unsynced(P, f) => Unsynced(Q, f)
  BY DEF Unsynced, Filling, Alike, SameLog
<1>5. Endless(P, f) => Endless(Q, f)
  BY DEF Endless, Alike, SameLog
<1> QED
  BY <1>1, <1>2, <1>3, <1>4, <1>5

LEMMA TurnFares ==
  ASSUME NEW P, NEW Q, Alike(P, Q), P.eState \in Writing, P.goal # "rollback", Q.goal # "rollback",
         ~ Committing(P), ~ Committing(Q), P.at \notin {"sync", "pages", "release"}, Q.at \notin {"sync", "pages"},
         NEW s, NEW l, NEW r, NEW j, NEW d, NEW h, NEW hs, Fares(s, P, l, r, j, d, h, hs),
         SpillFits(s, Q), NEW l2, NEW r2, r2 => l2 >= RESERVED_LOCK, P.eState = "DBMOD" => l2 = EXCLUSIVE_LOCK
  PROVE  Fares(s, Q, l2, r2, j, d, h, hs)
<1> DEFINE f == j.slots
<1>1. P.eState \in {"LOCKED", "CACHEMOD", "DBMOD"} /\ Q.eState = P.eState
  BY DEF Writing, Alike
<1>2. Q.dbFileVers.ver >= 0 /\ Q.hasHeldSharedLock
  BY <1>1 DEF Fares, Alike, SameFlags
<1>3. Relies(Q, l2, r2) => Holds(d, h) /\ Alone(s, f, 1, h)
  BY <1>1 DEF Relies, Fares
<1>4. CASE P.eState = "LOCKED"
  <2>1. Reading(P, d, h) /\ P.dbOrigSize = P.dbSize /\ P.dbFileSize = P.dbSize /\ Stamps(f, 0, P.tx)
    BY <1>4 DEF Fares
  <2>2. Reading(Q, d, h)
    BY <2>1 DEF Reading, Knows, Zeroed, Shows, Settled, Clear, Cached, Alike, SameFlags
  <2>3. Q.dbOrigSize = Q.dbSize /\ Q.dbFileSize = Q.dbSize /\ Stamps(f, 0, Q.tx)
    BY <2>1 DEF Alike, SameSizes, SameLog
  <2> QED
    BY <1>1, <1>2, <1>3, <1>4, <2>2, <2>3 DEF Fares
<1>5. CASE P.eState \in {"CACHEMOD", "DBMOD"}
  <2>1. j.exists /\ Changes(s, P, f, d, h) /\ Sizes(P, d, h) /\ Version(P, h) /\ Journals(s, P, f, h)
    BY <1>5 DEF Fares
  <2>2. Changes(s, Q, f, d, h) /\ Size(Q) = Size(P) /\ Cached(Q) = Cached(P)
    BY <2>1, AlikeChanging
  <2>3. Sizes(Q, d, h)
    BY <2>1, <2>2 DEF Sizes, Alike, SameSizes, SameFlags
  <2>4. Version(Q, h)
    BY <2>1 DEF Version, SpillFits, Alike, SameFlags
  <2>5. Journals(s, Q, f, h)
    <3>1. Mine(Q, f)
      BY <2>1, AlikeChanging DEF Journals
    <3>2. Alone(s, f, Q.journalOff, h) /\ Right(f, Recs(f, 1, Q.journalOff), h)
      BY <2>1 DEF Journals, Alike, SameLog
    <3>3. ~ Lax(s) => (Q.eState = "CACHEMOD" <=> Q.journalHdr = 0)
      BY <2>1 DEF Journals, Alike, SameLog
    <3>4. IF Lax(s) THEN Endless(Q, f) ELSE Unsynced(Q, f)
      BY <2>1, AlikeChanging DEF Journals
    <3> QED
      BY <3>1, <3>2, <3>3, <3>4 DEF Journals, SpillFits
  <2> QED
    BY <1>1, <1>2, <1>3, <1>5, <2>1, <2>2, <2>3, <2>4, <2>5 DEF Fares
<1> QED
  BY <1>1, <1>4, <1>5

LEMMA TurnStores ==
  ASSUME IInv, LInv, SBody, NEW c \in Conns, NEW Q, Set(c, Q), Alike(pager[c], Q),
         pager[c].eState \in Writing, pager[c].at \in {"idle", "exclude"}, Q.goal # "rollback",
         ~ Committing(Q), Q.at \notin {"sync", "pages"},
         SpillFits(setting, Q), LockStep(c), lock'[c] >= RESERVED_LOCK,
         pager[c].eState = "DBMOD" => lock'[c] = EXCLUSIVE_LOCK,
         UNCHANGED <<files, counters>>
  PROVE  SBody'
<1> DEFINE P == pager[c]
<1>1. Fares(setting, P, lock[c], c \in reserved, jrnl, db, Latest1, history)
  BY Known
<1>2. P.goal # "rollback"
  BY WriterIs DEF Acts
<1>3. ~ Committing(P)
  BY DEF Committing
<1>4. Fares(setting, Q, lock'[c], (c \in reserved)', jrnl, db, Latest1, history)
  BY <1>1, <1>2, <1>3, TurnFares
<1> QED
  BY <1>4, Quiet DEF files, counters

LEMMA AimAlike ==
  ASSUME NEW n, NEW P \in PagerAt(n), NEW where, NEW what, NEW m
  PROVE  LET Q == Aim(P, where, what, m) IN
         Alike(P, Q) /\ Q.at = where /\ Q.goal = what /\ Q.k = m
BY DEF PagerAt, Aim, Alike, SameFlags, SameSizes, SameLog

LEMMA AimAtAlike ==
  ASSUME NEW n, NEW P \in PagerAt(n), NEW where, NEW what
  PROVE  LET Q == AimAt(P, where, what) IN
         Alike(P, Q) /\ Q.at = where /\ Q.goal = what /\ Q.k = P.k
BY DEF PagerAt, AimAt, Alike, SameFlags, SameSizes, SameLog

LEMMA GoesAlike ==
  ASSUME NEW n, NEW P \in PagerAt(n), NEW where
  PROVE  LET Q == [P EXCEPT !.at = where] IN
         Alike(P, Q) /\ Q.at = where /\ Q.goal = P.goal /\ Q.k = P.k
BY DEF PagerAt, Alike, SameFlags, SameSizes, SameLog

LEMMA WriterLock ==
  ASSUME IInv, NEW c \in Conns, pager[c].eState \in Writing
  PROVE  /\ lock[c] >= RESERVED_LOCK /\ c \in reserved /\ (pager[c].eState = "DBMOD" => lock[c] = EXCLUSIVE_LOCK)
         /\ pager[c].at \in {"one", "count", "sync", "pageout", "pages"} => lock[c] = EXCLUSIVE_LOCK
         /\ lock[c] \in 0 .. 4
BY WriterIs DEF Acts, Writing

LEMMA SpillStores == ASSUME IInv, LInv, SBody, NEW c \in Conns, NEW p, Spill(c, p) PROVE SBody'
<1> DEFINE P == pager[c]
           where == IF MustSync(P, p) THEN "exclude" ELSE "pageout"
           Q == Aim(P, where, "spill", p)
<1>1. /\ P.eState \in {"CACHEMOD", "DBMOD"} /\ P.at = "idle" /\ P.cache[p].dirty /\ setting.spilling
      /\ Set(c, Q) /\ UNCHANGED <<levels, files, counters>>
  BY DEF Spill, Idle, Aim
<1>2. P.eState \in Writing /\ P \in PagerAt(ntx)
  BY <1>1, Known DEF Writing
<1>3. where \in {"exclude", "pageout"} /\ (where = "pageout" => ~ P.cache[p].needSync)
  BY DEF MustSync
<1>4. LockStep(c) /\ lock'[c] >= RESERVED_LOCK /\ (P.eState = "DBMOD" => lock'[c] = EXCLUSIVE_LOCK)
  BY <1>1, <1>2, Unlocked, WriterLock
<1> HIDE DEF where
<1>5. Alike(P, Q) /\ Q.at = where /\ Q.goal = "spill" /\ Q.k = p
  BY <1>2, AimAlike
<1> HIDE DEF Q
<1>6. SpillFits(setting, Q)
  BY <1>1, <1>3, <1>5 DEF SpillFits, Alike
<1>7. ~ Committing(Q) /\ Q.at \notin {"sync", "pages"} /\ Q.goal # "rollback"
  BY <1>3, <1>5 DEF Committing
<1> QED
  BY <1>1, <1>2, <1>4, <1>5, <1>6, <1>7, TurnStores

LEMMA CommitStores == ASSUME IInv, LInv, SBody, NEW c \in Conns, Commit(c) PROVE SBody'
<1> DEFINE P == pager[c]
           Q == AimAt(P, "exclude", "commit")
<1>1. /\ P.eState \in Writing /\ P.at = "idle"
      /\ Set(c, Q) /\ UNCHANGED <<levels, files, counters>>
  BY DEF Commit, Idle, AimAt
<1>2. P \in PagerAt(ntx)
  BY Known
<1>4. LockStep(c) /\ lock'[c] >= RESERVED_LOCK /\ (P.eState = "DBMOD" => lock'[c] = EXCLUSIVE_LOCK)
  BY <1>1, Unlocked, WriterLock
<1>5. Alike(P, Q) /\ Q.at = "exclude" /\ Q.goal = "commit"
  BY <1>2, AimAtAlike
<1> HIDE DEF Q
<1>6. SpillFits(setting, Q)
  BY <1>5 DEF SpillFits
<1>7. ~ Committing(Q) /\ Q.at \notin {"sync", "pages"} /\ Q.goal # "rollback"
  BY <1>5 DEF Committing
<1> QED
  BY <1>1, <1>4, <1>5, <1>6, <1>7, TurnStores

LEMMA SpillIs ==
  ASSUME IInv, SBody, NEW c \in Conns, pager[c].at \in {"exclude", "count", "sync", "pageout"}
  PROVE  /\ pager[c].eState \in Writing /\ pager[c].goal \in {"spill", "commit"}
         /\ pager[c].goal = "spill" => /\ setting.spilling /\ pager[c].cache[pager[c].k].dirty
                                       /\ pager[c].at = "pageout" => ~ pager[c].cache[pager[c].k].needSync
<1>1. pager[c].eState \in Writing /\ Spills(pager[c]) /\ Acts(pager[c], lock[c], c \in reserved)
  BY WriterIs
<1>2. pager[c].goal \in {"spill", "commit"}
  BY <1>1 DEF Acts
<1>3. ASSUME pager[c].goal = "spill" PROVE pager[c].eState \in {"CACHEMOD", "DBMOD"}
  BY <1>1, <1>3 DEF Spills, Writing
<1>4. ASSUME pager[c].goal = "spill"
      PROVE  Version(pager[c], Latest1) /\ Journals(setting, pager[c], jrnl.slots, Latest1)
  BY <1>3, <1>4, Known DEF Fares
<1> QED
  BY <1>1, <1>2, <1>4 DEF Version, Journals

LEMMA ExclusiveLockStores == ASSUME IInv, LInv, SBody, NEW c \in Conns, ExclusiveLock(c) PROVE SBody'
<1> DEFINE P == pager[c]
<1>1. P.at = "exclude" /\ UNCHANGED <<files, counters>>
  BY DEF ExclusiveLock
<1>2. /\ P.eState \in Writing /\ P.goal \in {"spill", "commit"}
      /\ P.goal = "spill" => setting.spilling /\ P.cache[P.k].dirty
  BY <1>1, SpillIs
<1>3. P \in PagerAt(ntx) /\ pager \in [Conns -> PagerAt(ntx)] /\ lock[c] \in 0 .. 4
  BY Known DEF IInv
<1>4. lock[c] >= RESERVED_LOCK /\ (P.eState = "DBMOD" => lock[c] = EXCLUSIVE_LOCK)
  BY <1>2, WriterLock
<1>5. CASE \/ lock[c] = EXCLUSIVE_LOCK /\ UNCHANGED levels /\ Goto(c, Then(c))
           \/ Locks!Exclude(c) /\ Goto(c, Then(c))
  <2> DEFINE w == Then(c)
             Q == [P EXCEPT !.at = w]
  <2>1. LockStep(c) /\ lock'[c] = EXCLUSIVE_LOCK /\ Set(c, Q)
    BY <1>5, Unlocked, Excludes DEF Goto
  <2>2. w \in {"one", "count"} /\ (w = "one" <=> P.goal = "commit")
    BY DEF Then
  <2> HIDE DEF w
  <2>3. Alike(P, Q) /\ Q.at = w /\ Q.goal = P.goal /\ Q.k = P.k
    BY <1>3, GoesAlike
  <2> HIDE DEF Q
  <2>4. SpillFits(setting, Q)
    BY <1>2, <2>2, <2>3 DEF SpillFits, Alike
  <2>5. ~ Committing(Q) /\ Q.at \notin {"sync", "pages"} /\ Q.goal # "rollback"
    BY <1>2, <2>2, <2>3 DEF Committing
  <2>6. lock'[c] >= RESERVED_LOCK
    BY <2>1 DEF EXCLUSIVE_LOCK, RESERVED_LOCK
  <2> QED
    BY <1>1, <1>2, <2>1, <2>3, <2>4, <2>5, <2>6, TurnStores
<1>6. CASE Locks!Pend(c) /\ UNCHANGED pager
  <2>1. LockStep(c) /\ lock'[c] = PENDING_LOCK /\ lock[c] \in {SHARED_LOCK, RESERVED_LOCK}
    BY <1>6, Pends
  <2>2. Set(c, P)
    <3>1. pager = [pager EXCEPT ![c] = pager[c]]
      BY <1>3
    <3> QED
      BY <1>6, <3>1 DEF Set
  <2>3. Alike(P, P)
    BY DEF Alike, SameFlags, SameSizes, SameLog
  <2>4. SpillFits(setting, P) /\ ~ Committing(P)
    BY <1>1, <1>2 DEF SpillFits, Committing
  <2>5. P.eState # "DBMOD" /\ lock'[c] >= RESERVED_LOCK
    BY <1>4, <2>1 DEF EXCLUSIVE_LOCK, RESERVED_LOCK, SHARED_LOCK, PENDING_LOCK
  <2> QED
    BY <1>1, <1>2, <2>1, <2>2, <2>3, <2>4, <2>5, TurnStores
<1>7. CASE UNCHANGED levels /\ Set(c, [P EXCEPT !.at = "idle", !.goal = "none"])
  <2> DEFINE Q == AimAt(P, "idle", "none")
  <2>1. LockStep(c) /\ lock'[c] = lock[c] /\ Set(c, Q)
    BY <1>7, Unlocked DEF AimAt
  <2>2. Alike(P, Q) /\ Q.at = "idle" /\ Q.goal = "none"
    BY <1>3, AimAtAlike
  <2> HIDE DEF Q
  <2>3. SpillFits(setting, Q) /\ ~ Committing(Q)
    BY <2>2 DEF SpillFits, Committing
  <2> QED
    BY <1>1, <1>2, <1>4, <2>1, <2>2, <2>3, TurnStores
<1> QED
  BY <1>5, <1>6, <1>7 DEF ExclusiveLock

(* The writer turns back.                                                  *)
Back(P) == [P EXCEPT !.at = "play", !.goal = "rollback", !.k = 0]

LEMMA BackIs ==
  ASSUME NEW n, NEW P \in PagerAt(n)
  PROVE  LET Q == Back(P) IN
         /\ Alike(P, Q) /\ Q.at = "play" /\ Q.goal = "rollback" /\ Q.k = 0
BY DEF PagerAt, Back, Alike, SameFlags, SameSizes, SameLog

LEMMA BackStores ==
  ASSUME IInv, LInv, SBody, NEW c \in Conns, Set(c, Back(pager[c])), UNCHANGED <<levels, files, ntx, history, setting>>,
         pager[c].eState \in {"CACHEMOD", "DBMOD"}, pager[c].goal # "rollback",
         Careful(setting) \/ Lax(setting) \/ pager[c].at # "pages"
  PROVE  SBody'
<1> DEFINE P == pager[c]
           f == jrnl.slots
           h == Latest1
           Q == Back(P)
<1>1. /\ P \in PagerAt(ntx) /\ Fares(setting, P, lock[c], c \in reserved, jrnl, db, h, history)
      /\ Safe(setting, jrnl, db, ntx, h, history) /\ f \in Seq(SlotsAt(ntx)) /\ h \in Seq(Page)
  BY Known
<1>2. P.eState \in Writing
  BY DEF Writing
<1>3. lock[c] >= RESERVED_LOCK /\ (P.eState = "DBMOD" => lock[c] = EXCLUSIVE_LOCK)
  BY <1>2, WriterLock
<1>4. Acts(P, lock[c], c \in reserved)
  BY <1>2, WriterIs
<1>5. LockStep(c) /\ lock'[c] = lock[c] /\ ((c \in reserved)' => lock'[c] >= RESERVED_LOCK)
  BY <1>3, Unlocked
<1>6. Set(c, Q) /\ P.eState \in {"CACHEMOD", "DBMOD"} /\ P.goal # "rollback" /\ (Careful(setting) \/ Lax(setting) \/ P.at # "pages")
  OBVIOUS
<1> HIDE DEF P, h
<1>7. Alike(P, Q) /\ Q.at = "play" /\ Q.goal = "rollback" /\ Q.k = 0
  BY <1>1, BackIs
<1> HIDE DEF Q
<1>8. P.at # "release" /\ (P.at = "pages" => P.goal = "commit")
  BY <1>4, <1>6 DEF Acts
<1>9. jrnl.exists /\ Changes(setting, P, f, db, h) /\ Sizes(P, db, h) /\ Version(P, h) /\ Journals(setting, P, f, h)
  BY <1>1, <1>6, <1>8 DEF Fares
<1>10. NoneYet(f, h)
  BY <1>1 DEF Safe
<1>11. Plays(setting, Q, f, db, h)
  BY <1>1, <1>6, <1>7, <1>8, <1>9, <1>10, WriterPlays DEF Alike, SameLog, SameSizes
<1>12. Undoes(setting, Q, f, db, h)
  BY <1>7, <1>11 DEF Undoes
<1>13. Q.eState \in {"CACHEMOD", "DBMOD"} /\ Q.hasHeldSharedLock /\ Q.dbFileVers.ver >= 0
  BY <1>1, <1>6, <1>7 DEF Alike, SameFlags, Fares
<1>14. Relies(Q, lock'[c], (c \in reserved)') => Holds(db, h) /\ Alone(setting, f, 1, h)
  <2>1. Relies(P, lock[c], c \in reserved) => Holds(db, h) /\ Alone(setting, f, 1, h)
    BY <1>1 DEF Fares
  <2>2. Q.eState = P.eState
    BY <1>7 DEF Alike
  <2> QED
    BY <1>3, <1>5, <1>6, <2>1, <2>2 DEF Relies
<1>15. Fares(setting, Q, lock'[c], (c \in reserved)', jrnl, db, h, history)
  BY <1>5, <1>7, <1>9, <1>12, <1>13, <1>14 DEF Fares
<1> QED
  BY <1>5, <1>6, <1>15, Quiet DEF files, h

LEMMA RollbackStores == ASSUME IInv, LInv, SBody, NEW c \in Conns, Rollback(c) PROVE SBody'
<1> DEFINE P == pager[c]
<1>1. P.eState \in Writing /\ P.at = "idle" /\ UNCHANGED <<levels, files, counters>>
  BY DEF Rollback, Idle
<1>2. P \in PagerAt(ntx)
  BY Known
<1>3. CASE P.eState = "LOCKED"
  <2> DEFINE Q == [P EXCEPT !.at = "release"]
  <2>1. Set(c, Q)
    BY <1>3 DEF Rollback, Goto
  <2>2. Alike(P, Q) /\ Q.at = "release" /\ Q.goal = P.goal
    BY <1>2, GoesAlike
  <2> HIDE DEF Q
  <2>3. P.goal = "none"
    BY <1>1, WriterIs DEF Acts
  <2>4. SpillFits(setting, Q) /\ ~ Committing(Q)
    BY <2>2, <2>3 DEF SpillFits, Committing
  <2>5. LockStep(c) /\ lock'[c] >= RESERVED_LOCK
    BY <1>1, Unlocked, WriterLock
  <2> QED
    BY <1>1, <1>3, <2>1, <2>2, <2>3, <2>4, <2>5, TurnStores
<1>4. CASE P.eState # "LOCKED"
  <2>1. Set(c, Back(P))
    BY <1>4 DEF Rollback, Back
  <2>2. P.eState \in {"CACHEMOD", "DBMOD"} /\ P.goal # "rollback"
    BY <1>1, <1>4, WriterIs DEF Acts, Writing
  <2>3. UNCHANGED <<levels, files, ntx, history, setting>>
    BY <1>1 DEF counters
  <2> QED
    BY <1>1, <2>1, <2>2, <2>3, BackStores
<1> QED
  BY <1>3, <1>4

-----------------------------------------------------------------------------
(* The pages of a file that is resized or written.                         *)
LEMMA ResizedPages ==
  ASSUME NEW n \in Nat, NEW d \in Seq(ContentAt(n)), NEW m \in Nat
  PROVE  /\ Len(Resize(d, m)) = m
         /\ \A p \in 1 .. m : p <= Len(d) => Resize(d, m)[p] = d[p]
         /\ m = 0 => Resize(d, m) = << >>
<1>1. Len(Resize(d, m)) = m /\ Resize(d, m) \in Seq(ContentAt(n))
  BY ResizeIs
<1>2. \A p \in 1 .. m : p <= Len(d) => Resize(d, m)[p] = d[p]
  BY DEF Resize
<1> QED
  BY <1>1, <1>2, NotEmpty

LEMMA WrittenPages ==
  ASSUME NEW n \in Nat, NEW d \in Seq(ContentAt(n)), NEW p \in 1 .. MaxPage, NEW v \in ContentAt(n)
  PROVE  LET e == WritePage(d, p, v) IN
         /\ Len(e) = (IF p > Len(d) THEN p ELSE Len(d)) /\ e[p] = v
         /\ \A q \in 1 .. Len(d) : q # p => e[q] = d[q]
<1> DEFINE m == IF p > Len(d) THEN p ELSE Len(d)
           e == Resize(d, m)
<1>1. m \in Nat /\ p \in 1 .. m /\ Len(d) <= m /\ Len(d) \in Nat
  BY PagerAssumption
<1>2. e \in Seq(ContentAt(n)) /\ Len(e) = m
  BY <1>1, ResizeIs
<1>3. WritePage(d, p, v) = [e EXCEPT ![p] = v]
  BY DEF WritePage
<1>4. \A q \in 1 .. m : q <= Len(d) => e[q] = d[q]
  BY <1>1, ResizedPages
<1>5. Len([e EXCEPT ![p] = v]) = m
  <2> HIDE DEF m, e
  <2> QED
    BY <1>1, <1>2
<1>6. /\ [e EXCEPT ![p] = v][p] = v
      /\ \A q \in 1 .. m : q # p => [e EXCEPT ![p] = v][q] = e[q]
  <2> HIDE DEF m, e
  <2> QED
    BY <1>1, <1>2
<1>7. \A q \in 1 .. Len(d) : q \in 1 .. m /\ q <= Len(d)
  <2> HIDE DEF e
  <2> QED
    BY <1>1
<1> HIDE DEF e
<1> QED
  BY <1>3, <1>4, <1>5, <1>6, <1>7

-----------------------------------------------------------------------------
(* A journal is played back.                                               *)
Runs(P, Q) ==
  /\ Q.eState = P.eState /\ Q.goal = P.goal /\ Q.hasHeldSharedLock = P.hasHeldSharedLock
  /\ Q.bDoTruncate = P.bDoTruncate
  /\ Q.dbOrigSize = P.dbOrigSize
  /\ Q.journalHdr = P.journalHdr /\ Q.nRec = P.nRec /\ Q.tx = P.tx

LEMMA PlayLock ==
  ASSUME IInv, NEW c \in Conns, pager[c].at \in {"play", "finish"}, pager[c].goal \in {"hot", "rollback"}
  PROVE  /\ Touches(pager[c]) \/ pager[c].goal = "hot" => lock[c] = EXCLUSIVE_LOCK
         /\ lock[c] >= RESERVED_LOCK
<1>1. Control(pager[c], lock[c], c \in reserved) /\ pager[c] \in PagerAt(ntx)
  BY PagerIs
<1>2. pager[c].eState \in States
  BY <1>1 DEF PagerAt
<1> QED
  BY <1>1, <1>2 DEF Control, Hasnt, Reads, Acts, Writing, Touches, States, RESERVED_LOCK, EXCLUSIVE_LOCK

LEMMA HotIs ==
  ASSUME IInv, SBody, NEW c \in Conns, pager[c].goal = "hot", pager[c].at # "idle"
  PROVE  /\ pager[c].eState = "OPEN" /\ lock[c] = EXCLUSIVE_LOCK
         /\ Opens(setting, pager[c], jrnl, db, Latest1, history)
         /\ Recovers(setting, pager[c], jrnl, db, Latest1)
<1>1. Control(pager[c], lock[c], c \in reserved) /\ pager[c].eState \in States
  BY PagerIs DEF PagerAt
<1>2. pager[c].eState = "OPEN" /\ lock[c] = EXCLUSIVE_LOCK
  BY <1>1 DEF Control, Hasnt, Reads, Acts, Writing, States
<1>3. Opens(setting, pager[c], jrnl, db, Latest1, history)
  BY <1>2 DEF SBody, Fares
<1> QED
  BY <1>2, <1>3 DEF Opens

LEMMA UndoIs ==
  ASSUME IInv, SBody, NEW c \in Conns, pager[c].goal = "rollback", pager[c].at # "idle",
         pager[c].eState # "LOCKED"
  PROVE  /\ pager[c].eState \in {"CACHEMOD", "DBMOD"} /\ pager[c].hasHeldSharedLock
         /\ pager[c].at \in {"play", "finish", "release"}
         /\ (jrnl.exists \/ pager[c].at = "release") /\ 1 \in Cached(pager[c])
         /\ Undoes(setting, pager[c], jrnl.slots, db, Latest1)
<1>1. Control(pager[c], lock[c], c \in reserved) /\ pager[c].eState \in States
  BY PagerIs DEF PagerAt
<1>2. /\ pager[c].eState \in {"CACHEMOD", "DBMOD"} /\ pager[c].at \in {"play", "finish", "release"}
      /\ 1 \in Cached(pager[c])
  BY <1>1 DEF Control, Hasnt, Reads, Acts, Writing, States
<1> QED
  BY <1>2 DEF SBody, Fares

(* What a step of a playback has to show.                                  *)
LEMMA PlayStores ==
  ASSUME IInv, LInv, SBody, NEW c \in Conns, pager[c].at = "play", NEW Q, Set(c, Q), Runs(pager[c], Q),
         UNCHANGED levels, jrnl' = jrnl, UNCHANGED counters,
         db' = db \/ Touches(pager[c]), Q.dbFileVers.ver >= 0, Q.at \in {"play", "finish"},
         Len(Latest1) <= Len(db'), Gives(jrnl, db', Latest1),
         pager[c].goal = "hot" => Opens(setting, Q, jrnl, db', Latest1, history),
         pager[c].goal = "rollback" => Undoes(setting, Q, jrnl.slots, db', Latest1)
  PROVE  SBody'
<1> DEFINE P == pager[c]
<1>1. \/ P.eState = "OPEN" /\ P.goal = "hot"
      \/ P.eState \in {"CACHEMOD", "DBMOD"} /\ P.goal = "rollback"
  BY PlaysIs
<1>2. (Touches(P) \/ P.goal = "hot" => lock[c] = EXCLUSIVE_LOCK) /\ lock[c] >= RESERVED_LOCK
  BY <1>1, PlayLock
<1>3. LockStep(c) /\ lock'[c] = lock[c] /\ (c \in reserved' <=> c \in reserved)
  BY Unlocked
<1>4. /\ Fares(setting, P, lock[c], c \in reserved, jrnl, db, Latest1, history)
      /\ Safe(setting, jrnl, db, ntx, Latest1, history)
  BY Known
<1>5. Latest1' = Latest1 /\ setting' = setting /\ ntx' = ntx /\ history' = history
  BY DEF counters, Latest1
<1>6. MayMove(c)
  BY <1>2, <1>5 DEF MayMove
<1>7. Safe(setting', jrnl', db', ntx', Latest1', history')
  BY <1>4, <1>5 DEF Safe
<1>8. Q.eState = P.eState /\ Q.goal = P.goal /\ Q.hasHeldSharedLock = P.hasHeldSharedLock
  BY DEF Runs
<1>9. Relies(Q, lock'[c], (c \in reserved)') => Holds(db', Latest1) /\ Alone(setting, jrnl.slots, 1, Latest1)
  <2>1. CASE Touches(P)
    BY <1>1, <1>2, <1>3, <1>8, <2>1 DEF Relies, Touches
  <2>2. CASE ~ Touches(P)
    <3>1. P.eState = "CACHEMOD"
      BY <1>1, <2>2 DEF Touches
    <3>2. Relies(P, lock[c], c \in reserved)
      BY <3>1 DEF Relies
    <3>3. Holds(db, Latest1) /\ Alone(setting, jrnl.slots, 1, Latest1)
      BY <3>2, Relied
    <3> QED
      BY <2>2, <3>3
  <2> QED
    BY <2>1, <2>2
<1>10. P.goal = "rollback" => jrnl.exists /\ P.hasHeldSharedLock
  BY <1>1, <1>4 DEF Fares
<1>11. Fares(setting, Q, lock'[c], (c \in reserved)', jrnl, db', Latest1, history)
  BY <1>1, <1>2, <1>3, <1>8, <1>9, <1>10 DEF Fares
<1>12. Fares(setting', Q, lock'[c], (c \in reserved)', jrnl', db', Latest1', history')
  BY <1>5, <1>11
<1> QED
  BY <1>3, <1>5, <1>6, <1>7, <1>12, Steps

LEMMA SizedToSame ==
  ASSUME NEW n, NEW P \in PagerAt(n), NEW m, NEW size
  PROVE  LET Q == SizedTo(P, m, size) IN
         /\ Runs(P, Q) /\ Q.at = P.at /\ Q.k = 1 /\ Q.dbSize = m /\ Q.journalOff = 1
         /\ Q.changeCountDone = P.changeCountDone /\ Q.cache = P.cache /\ Q.dbFileVers = P.dbFileVers
BY DEF PagerAt, SizedTo, Runs

LEMMA AtSame ==
  ASSUME NEW n, NEW P \in PagerAt(n), NEW m
  PROVE  LET Q == At(P, m) IN
         /\ Runs(P, Q) /\ Q.at = P.at /\ Q.k = m /\ Q.dbSize = P.dbSize /\ Q.journalOff = P.journalOff
         /\ Q.changeCountDone = P.changeCountDone /\ Q.cache = P.cache /\ Q.dbFileVers = P.dbFileVers
BY DEF PagerAt, At, Runs

LEMMA ResetSame ==
  ASSUME NEW n, NEW P \in PagerAt(n)
  PROVE  LET Q == pager_reset(P) IN
         /\ Runs(P, Q) /\ Q.at = P.at /\ Q.k = P.k /\ Q.dbSize = P.dbSize /\ Q.journalOff = P.journalOff
         /\ Q.changeCountDone = P.changeCountDone /\ Q.cache = << >> /\ Q.dbFileVers = P.dbFileVers
BY DEF PagerAt, pager_reset, Runs

LEMMA RunsAlong ==
  ASSUME NEW P, NEW Q, Runs(P, Q), NEW s, NEW f
  PROVE  OwnIn(s, Q, f) = OwnIn(s, P, f) /\ SlotsIn(s, Q, f) = SlotsIn(s, P, f)
BY DEF Runs, OwnIn, SlotsIn

LEMMA SlotsAre ==
  ASSUME NEW P
  PROVE  Own(P) = OwnIn(setting, P, jrnl.slots) /\ Slots(P) = SlotsIn(setting, P, jrnl.slots)
BY DEF Own, OwnIn, Slots, SlotsIn, Fills

LEMMA HotSlots ==
  ASSUME NEW P, P.goal = "hot", NEW s, NEW f
  PROVE  OwnIn(s, P, f) = -1 /\ SlotsIn(s, P, f) = PlaybackSlots(f, -1)
BY DEF OwnIn, SlotsIn

LEMMA NothingReadable ==
  ASSUME NEW n, NEW f \in Seq(SlotsAt(n)), ~ Readable(f)
  PROVE  PlaybackSlots(f, -1) = << >>
<1>1. PICK g : PlaybackSlots(f, -1) = g[0] /\ \A o \in 0 .. Len(f) : g[o] = From(f, -1, g, o)
  BY Unfolds
<1>2. 0 \in 0 .. Len(f) /\ From(f, -1, g, 0) = << >>
  BY DEF From, Readable
<1> QED
  BY <1>1, <1>2

LEMMA PlaybackSizeStores == ASSUME IInv, LInv, SBody, NEW c \in Conns, PlaybackSize(c) PROVE SBody'
<1> DEFINE P == pager[c]
           f == jrnl.slots
           h == Latest1
           n == f[1].orig
           S == PlaybackSlots(f, -1)
<1>1. P.at = "play" /\ P.k = 0 /\ UNCHANGED <<levels, jrnl, ddb, djrnl, counters>>
  BY DEF PlaybackSize
<1>2. /\ P \in PagerAt(ntx) /\ Fares(setting, P, lock[c], c \in reserved, jrnl, db, h, history)
      /\ Safe(setting, jrnl, db, ntx, h, history) /\ f \in Seq(SlotsAt(ntx)) /\ h \in Seq(Page)
      /\ db \in Seq(ContentAt(ntx)) /\ ntx \in Nat /\ P.dbFileVers.ver >= 0
  BY Known DEF Fares
<1>3. \/ P.eState = "OPEN" /\ P.goal = "hot"
      \/ P.eState \in {"CACHEMOD", "DBMOD"} /\ P.goal = "rollback"
  BY <1>1, PlaysIs
<1>4. Own(P) = OwnIn(setting, P, f) /\ Slots(P) = SlotsIn(setting, P, f)
  BY SlotsAre
<1>5. Len(h) <= Len(db) /\ Gives(jrnl, db, h) /\ Len(h) \in Nat /\ Len(db) \in Nat
  BY <1>2, NotEmpty DEF Safe
<1>6. IsHeader(f, 0) => n \in Nat
  <2> SUFFICES ASSUME IsHeader(f, 0) PROVE n \in Nat
    OBVIOUS
  <2>1. 1 \in 1 .. Len(f) /\ f[1].kind = "header"
    BY <1>2 DEF IsHeader
  <2>2. f[1] \in HeaderSlots
    BY <1>2, <2>1, SlotIs
  <2> QED
    BY <2>2 DEF HeaderSlots
<1>7. \A m \in Nat : Spans(m, h) => /\ Len(h) <= Len(Resize(db, m)) /\ (h = << >> => Resize(db, m) = << >>)
                                     /\ \A p \in 1 .. Len(h) : Resize(db, m)[p] = db[p]
  <2> SUFFICES ASSUME NEW m \in Nat, Spans(m, h)
               PROVE  /\ Len(h) <= Len(Resize(db, m)) /\ (h = << >> => Resize(db, m) = << >>)
                      /\ \A p \in 1 .. Len(h) : Resize(db, m)[p] = db[p]
    OBVIOUS
  <2>1. /\ Len(Resize(db, m)) = m
        /\ \A p \in 1 .. m : p <= Len(db) => Resize(db, m)[p] = db[p]
        /\ m = 0 => Resize(db, m) = << >>
    BY <1>2, ResizedPages
  <2>2. \A p \in 1 .. Len(h) : p \in 1 .. m /\ p <= Len(db)
    BY <1>5 DEF Spans
  <2> QED
    BY <2>1, <2>2 DEF Spans
<1>8. \A m \in Nat : Spans(m, h) => Gives(jrnl, Resize(db, m), h)
  BY <1>5, <1>7, GivesKept
<1>9. CASE P.goal = "hot"
  <2>1. Opens(setting, P, jrnl, db, h, history) /\ Recovers(setting, P, jrnl, db, h) /\ P.eState = "OPEN"
    BY <1>1, <1>9, HotIs
  <2>2. Own(P) = -1 /\ Slots(P) = S /\ jrnl.exists
    BY <1>1, <1>4, <1>9, <2>1, HotSlots DEF Recovers
  <2>3. S \in Seq(Records(f)) /\ Len(S) \in Nat
    BY <1>2, PlayedAreRecords, NotEmpty
  <2>4. CASE Readable(f)
    <3> DEFINE Q == IF S # << >> THEN pager_reset(P) ELSE P
               R == SizedTo(Q, n, n)
               e == Resize(db, n)
    <3>1. Set(c, R) /\ db' = e
      BY <1>9, <2>1, <2>2, <2>4 DEF PlaybackSize, SizedTo, Readable, Touches
    <3>2. n \in Nat /\ Restores(f, db, h)
      BY <1>5, <1>6, <2>2, <2>4 DEF Gives, Readable, readJournalHdr
    <3>3. Spans(n, h)
      BY <3>2 DEF Restores
    <3>4. /\ Len(h) <= Len(e) /\ (h = << >> => e = << >>) /\ Gives(jrnl, e, h)
          /\ \A p \in 1 .. Len(h) : e[p] = db[p]
      BY <1>7, <1>8, <3>2, <3>3
    <3>5. /\ Q \in PagerAt(ntx) /\ Runs(P, Q) /\ Q.at = P.at
          /\ Q.changeCountDone = P.changeCountDone /\ Q.dbFileVers = P.dbFileVers
          /\ Q.cache = P.cache \/ Q.cache = << >>
          /\ S # << >> => Q.cache = << >>
      <4>1. CASE S # << >>
        <5>1. pager_reset(P) \in PagerAt(ntx)
          BY <1>2, ResetIs
        <5> QED
          BY <1>2, <4>1, <5>1, ResetSame
      <4>2. CASE ~ (S # << >>)
        BY <1>2, <4>2 DEF Runs
      <4> QED
        BY <4>1, <4>2
    <3> HIDE DEF Q
    <3>6. /\ Runs(Q, R) /\ R.at = Q.at /\ R.k = 1 /\ R.dbSize = n /\ R.journalOff = 1
          /\ R.changeCountDone = Q.changeCountDone /\ R.cache = Q.cache /\ R.dbFileVers = Q.dbFileVers
      BY <3>5, SizedToSame
    <3> HIDE DEF R, e, P, h
    <3>7. Runs(P, R)
      BY <3>5, <3>6 DEF Runs
    <3>8. \A p \in 1 .. Len(h) : e[p] = h[p] \/ Left(f, S, 1, p)
      <4> SUFFICES ASSUME NEW p \in 1 .. Len(h), e[p] # h[p] PROVE Left(f, S, 1, p)
        OBVIOUS
      <4>1. PICK i \in Range(S) : f[i].pgno = p
        BY <3>2, <3>4 DEF Restores
      <4>2. PICK k \in 1 .. Len(S) : S[k] = i
        BY <1>2, <4>1, Played
      <4> QED
        BY <4>1, <4>2 DEF Left
    <3>9. Recovers(setting, R, jrnl, e, h)
      <4>1. S # << >> => Cached(R) = {}
        BY <3>5, <3>6 DEF Cached
      <4>2. R.at = "play" /\ R.k = 1
        BY <1>1, <3>5, <3>6
      <4> QED
        BY <2>2, <2>3, <3>4, <3>6, <3>8, <4>1, <4>2 DEF Recovers
    <3>10. Opens(setting, R, jrnl, e, h, history)
      <4>1. R.cache = P.cache \/ R.cache = << >>
        BY <3>5, <3>6
      <4>2. /\ R.hasHeldSharedLock = P.hasHeldSharedLock /\ R.dbFileVers = P.dbFileVers
            /\ R.changeCountDone = P.changeCountDone /\ R.bDoTruncate = P.bDoTruncate
        BY <3>5, <3>6, <3>7 DEF Runs
      <4>3. CASE R.cache = P.cache
        BY <2>1, <3>9, <4>2, <4>3 DEF Opens, Settled, Clear, Keeps, Zeroed, Shows, Cached
      <4>4. CASE R.cache = << >>
        <5>1. Cached(R) = {}
          BY <4>4 DEF Cached
        <5> QED
          BY <2>1, <3>9, <4>2, <5>1 DEF Opens, Settled, Clear, Keeps, Zeroed
      <4> QED
        BY <4>1, <4>3, <4>4
    <3>11. R.dbFileVers.ver >= 0 /\ R.at \in {"play", "finish"}
      BY <1>1, <1>2, <3>5, <3>6
    <3>12. Touches(P)
      BY <2>1 DEF Touches
    <3> USE DEF P, h
    <3> QED
      BY <1>1, <1>9, <3>1, <3>4, <3>7, <3>10, <3>11, <3>12, PlayStores
  <2>5. CASE ~ Readable(f)
    <3> DEFINE T == At(P, 1)
    <3>1. Set(c, T) /\ db' = db
      BY <2>2, <2>5 DEF PlaybackSize, At, Readable
    <3>2. /\ Runs(P, T) /\ T.at = P.at /\ T.k = 1 /\ T.dbSize = P.dbSize
          /\ T.changeCountDone = P.changeCountDone /\ T.cache = P.cache /\ T.dbFileVers = P.dbFileVers
      BY <1>2, AtSame
    <3> HIDE DEF T
    <3>3. S = << >> /\ Len(S) = 0
      BY <1>2, <2>5, NothingReadable
    <3>4. Holds(db, h)
      BY <1>5, <2>2, <2>5 DEF Gives
    <3>5. Recovers(setting, T, jrnl, db, h)
      BY <1>1, <2>2, <2>5, <3>2, <3>3, <3>4 DEF Recovers, Holds
    <3>6. SameCache(P, T)
      BY <3>2 DEF SameCache, Runs
    <3>7. Opens(setting, T, jrnl, db, h, history)
      BY <2>1, <3>5, <3>6, SameOpens
    <3>8. T.dbFileVers.ver >= 0 /\ T.at \in {"play", "finish"}
      BY <1>1, <1>2, <3>2
    <3> QED
      BY <1>1, <1>5, <1>9, <3>1, <3>2, <3>7, <3>8, PlayStores
  <2> QED
    BY <2>4, <2>5
<1>10. CASE P.goal = "rollback"
  <2> DEFINE m == IF Touches(P) THEN n ELSE P.dbFileSize
             R == SizedTo(P, n, m)
             e == IF Touches(P) THEN Resize(db, n) ELSE db
  <2>1. P.eState \in {"CACHEMOD", "DBMOD"} /\ Undoes(setting, P, f, db, h)
    BY <1>1, <1>3, <1>10, UndoIs
  <2>2. Plays(setting, P, f, db, h)
    BY <1>1, <2>1 DEF Undoes
  <2>3. readJournalHdr(f, 0, OwnIn(setting, P, f)) /\ n = P.dbOrigSize /\ Spans(P.dbOrigSize, h)
    BY <2>2 DEF Plays
  <2>4. Set(c, R) /\ db' = e
    BY <1>4, <1>10, <2>3 DEF PlaybackSize, SizedTo
  <2>5. /\ Runs(P, R) /\ R.at = P.at /\ R.k = 1 /\ R.dbSize = n /\ R.journalOff = 1
        /\ R.changeCountDone = P.changeCountDone /\ R.cache = P.cache /\ R.dbFileVers = P.dbFileVers
    BY <1>2, SizedToSame
  <2>6. n \in Nat
    BY <1>6, <2>3 DEF readJournalHdr
  <2> HIDE DEF R, m
  <2>7. /\ Len(h) <= Len(e) /\ Gives(jrnl, e, h) /\ \A p \in 1 .. Len(h) : e[p] = db[p]
    BY <1>5, <1>7, <1>8, <2>3, <2>6
  <2>8. Len(e) = P.dbOrigSize
    <3>1. CASE Touches(P)
      BY <1>2, <2>3, <2>6, <3>1, ResizeIs
    <3>2. CASE ~ Touches(P)
      <4>1. P.eState = "CACHEMOD"
        BY <2>1, <3>2 DEF Touches
      <4> QED
        BY <2>2, <3>2, <4>1 DEF Plays
    <3> QED
      BY <3>1, <3>2
  <2> HIDE DEF e, P, h
  <2>9. OwnIn(setting, R, f) = OwnIn(setting, P, f) /\ SlotsIn(setting, R, f) = SlotsIn(setting, P, f)
    BY <2>5, RunsAlong
  <2>10. Next1(R) = 1 /\ Next1(P) = 1 /\ Cached(R) = Cached(P) /\ R.eState = P.eState /\ R.journalHdr = P.journalHdr
         /\ R.dbOrigSize = P.dbOrigSize
    BY <1>1, <2>5 DEF Next1, Cached, Runs
  <2>11. Plays(setting, R, f, e, h)
    <3> DEFINE S2 == SlotsIn(setting, P, f)
    <3>1. S2 \in Seq(Records(f)) /\ Len(S2) \in Nat
      BY <1>2, PlayedAreRecords, NotEmpty DEF SlotsIn
    <3> HIDE DEF S2
    <3>2. SlotsIn(setting, R, f) = S2
      BY <2>9 DEF S2
    <3>3. /\ Right(f, Range(S2), h)
          /\ \A p \in Cached(P) : p <= Len(h) => P.cache[p].val = h[p] \/ Left(f, S2, 1, p)
          /\ \A p \in 1 .. Len(h) : 
               \/ db[p] = h[p]
               \/ /\ P.eState = "DBMOD"
                  /\ \E j \in 1 .. Len(S2) : f[S2[j]].pgno = p /\ (Lax(setting) \/ S2[j] <= P.journalHdr)
          /\ h # << >> => P.dbFileVers = h[1] \/ Left(f, S2, 1, 1)
      BY <2>2, <2>10 DEF Plays, S2
    <3>4. R.k <= Len(S2) + 1 /\ R.journalOff # 0
      BY <2>5, <3>1
    <3>5. \A p \in Cached(R) : p <= Len(h) => R.cache[p].val = h[p] \/ Left(f, S2, 1, p)
      BY <2>5, <2>10, <3>3
    <3>6. \A p \in 1 .. Len(h) : 
               \/ e[p] = h[p]
               \/ /\ R.eState = "DBMOD"
                  /\ \E j \in 1 .. Len(S2) : f[S2[j]].pgno = p /\ (Lax(setting) \/ S2[j] <= R.journalHdr)
      BY <2>7, <2>10, <3>3
    <3>7. h # << >> => R.dbFileVers = h[1] \/ Left(f, S2, 1, 1)
      BY <2>5, <3>3
    <3>8. /\ readJournalHdr(f, 0, OwnIn(setting, R, f)) /\ f[1].orig = R.dbOrigSize /\ Spans(R.dbOrigSize, h)
          /\ R.dbSize = R.dbOrigSize /\ Len(e) = R.dbOrigSize
      BY <2>3, <2>5, <2>8, <2>9, <2>10
    <3> QED
      BY <2>10, <3>2, <3>3, <3>4, <3>5, <3>6, <3>7, <3>8 DEF Plays
  <2>12. Undoes(setting, R, f, e, h)
    BY <1>1, <2>5, <2>11 DEF Undoes
  <2>13. R.dbFileVers.ver >= 0 /\ R.at \in {"play", "finish"}
    BY <1>1, <1>2, <2>5
  <2>14. db' = db \/ Touches(P)
    BY <2>4 DEF e
  <2> USE DEF P, h
  <2> QED
    BY <1>1, <1>10, <2>4, <2>5, <2>7, <2>12, <2>13, <2>14, PlayStores
<1> QED
  BY <1>3, <1>9, <1>10

(* A record is given back.                                                 *)
LEMMA ReplayedSame ==
  ASSUME NEW n, NEW P \in PagerAt(n), NEW p, NEW v \in ContentAt(n)
  PROVE  LET Q == Replayed(P, p, v) IN
         /\ Runs(P, Q) /\ Q.at = P.at /\ Q.k = P.k /\ Q.dbSize = P.dbSize /\ Q.journalOff = P.journalOff
         /\ Q.changeCountDone = P.changeCountDone /\ Cached(Q) = Cached(P)
         /\ \A q \in Cached(P) : q # p => Q.cache[q] = P.cache[q]
         /\ p \in Cached(P) => Q.cache[p].val = v
         /\ Q.dbFileVers = IF p = 1 /\ 1 \in Cached(P) THEN v ELSE P.dbFileVers
<1>1. CASE p \notin Cached(P)
  BY <1>1 DEF Replayed, Runs
<1>2. CASE p \in Cached(P)
  <2> DEFINE e == [P.cache[p] EXCEPT !.val = v]
             g == [P.cache EXCEPT ![p] = e]
             w == IF p = 1 THEN v ELSE P.dbFileVers
             Q == Versioned(P, g, w)
  <2>1. P.cache[p] \in EntryAt(n)
    BY <1>2, PageIs
  <2>2. e \in EntryAt(n) /\ e.val = v
    BY <2>1 DEF EntryAt
  <2>3. P.cache = [q \in DOMAIN P.cache |-> P.cache[q]] /\ p \in DOMAIN P.cache
    <3>1. P.cache \in CacheAt(n)
      BY DEF PagerAt
    <3> QED
      BY <1>2, <3>1, CacheIs DEF Cached
  <2>4. Replayed(P, p, v) = Q
    BY <1>2 DEF Replayed, Versioned
  <2> HIDE DEF e
  <2>5. DOMAIN g = DOMAIN P.cache /\ g[p] = e /\ \A q \in DOMAIN P.cache : q # p => g[q] = P.cache[q]
    BY <2>3
  <2>6. w = IF p = 1 /\ 1 \in Cached(P) THEN v ELSE P.dbFileVers
    BY <1>2
  <2> HIDE DEF g, w
  <2>7. /\ Runs(P, Q) /\ Q.at = P.at /\ Q.k = P.k /\ Q.dbSize = P.dbSize /\ Q.journalOff = P.journalOff
        /\ Q.changeCountDone = P.changeCountDone /\ Q.cache = g /\ Q.dbFileVers = w
    BY DEF PagerAt, Versioned, Runs
  <2> HIDE DEF Q
  <2> QED
    BY <1>2, <2>2, <2>4, <2>5, <2>6, <2>7 DEF Cached
<1> QED
  BY <1>1, <1>2

LEMMA LeftBehind ==
  ASSUME NEW f, NEW S, Len(S) \in Nat, NEW k \in 1 .. Len(S), NEW m, m = k + 1, NEW p, Left(f, S, k, p), f[S[k]].pgno # p
  PROVE  Left(f, S, m, p)
<1>1. PICK j \in k .. Len(S) : f[S[j]].pgno = p
  BY DEF Left
<1>2. j \in m .. Len(S)
  BY <1>1
<1> QED
  BY <1>1, <1>2 DEF Left

LEMMA NothingLeft ==
  ASSUME NEW f, NEW S, Len(S) \in Nat, NEW k, k = Len(S) + 1, NEW p
  PROVE  ~ Left(f, S, k, p) /\ k .. Len(S) = {}
BY DEF Left

LEMMA RecordAt ==
  ASSUME NEW n, NEW f \in Seq(SlotsAt(n)), NEW own, NEW k \in 1 .. Len(PlaybackSlots(f, own)),
         NEW i, i = PlaybackSlots(f, own)[k]
  PROVE  /\ i \in Range(PlaybackSlots(f, own)) /\ i \in 1 .. Len(f) /\ f[i].kind = "record"
         /\ f[i].pgno \in 1 .. MaxPage /\ f[i].val \in ContentAt(n)
<1>1. PlaybackSlots(f, own) \in Seq(Records(f))
  BY PlayedAreRecords
<1>2. i \in Records(f) /\ i \in Range(PlaybackSlots(f, own))
  BY <1>1 DEF Range
<1>3. i \in 1 .. Len(f) /\ f[i].kind = "record"
  BY <1>2 DEF Records
<1>4. f[i] \in RecordSlots(n)
  BY <1>3, SlotIs
<1> QED
  BY <1>2, <1>3, <1>4 DEF RecordSlots

(* A page that is written is one of the image, or none that counts.        *)
LEMMA Corrects ==
  ASSUME NEW n \in Nat, NEW d \in Seq(ContentAt(n)), NEW h \in Seq(Page), Len(h) <= Len(d), h # << >>,
         NEW p \in 1 .. MaxPage, NEW v \in ContentAt(n), p <= Len(h) => v = h[p], NEW j, Gives(j, d, h)
  PROVE  LET e == WritePage(d, p, v) IN
         /\ Len(h) <= Len(e) /\ Gives(j, e, h)
         /\ \A q \in 1 .. Len(h) : e[q] = IF q = p THEN h[q] ELSE d[q]
<1> DEFINE e == WritePage(d, p, v)
<1>1. /\ Len(e) = (IF p > Len(d) THEN p ELSE Len(d)) /\ e[p] = v
      /\ \A q \in 1 .. Len(d) : q # p => e[q] = d[q]
  BY WrittenPages
<1>2. Len(h) \in Nat /\ Len(d) \in Nat /\ p \in Nat
  BY PagerAssumption
<1> HIDE DEF e
<1>3. Len(h) <= Len(e)
  BY <1>1, <1>2
<1>4. \A q \in 1 .. Len(h) : e[q] = IF q = p THEN h[q] ELSE d[q]
  BY <1>1, <1>2
<1>5. Gives(j, e, h)
  BY <1>3, <1>4, GivesKept
<1> QED
  BY <1>3, <1>4, <1>5 DEF e

LEMMA PlaybackPageStores == ASSUME IInv, LInv, SBody, NEW c \in Conns, PlaybackPage(c) PROVE SBody'
<1> DEFINE P == pager[c]
           f == jrnl.slots
           h == Latest1
           S == SlotsIn(setting, P, f)
           i == S[P.k]
           pg == f[i].pgno
           v == f[i].val
           synced == Lax(setting) \/ P.goal = "hot" \/ i <= P.journalHdr
           e == IF Touches(P) /\ synced THEN WritePage(db, pg, v) ELSE db
           m == P.k + 1
           T == At(P, m)
           Q == Replayed(P, pg, v)
           R == At(Q, Q.k + 1)
<1>1. P.at = "play" /\ UNCHANGED <<levels, jrnl, ddb, djrnl, counters>>
  BY DEF PlaybackPage
<1>2. /\ P \in PagerAt(ntx) /\ Fares(setting, P, lock[c], c \in reserved, jrnl, db, h, history)
      /\ Safe(setting, jrnl, db, ntx, h, history) /\ f \in Seq(SlotsAt(ntx)) /\ h \in Seq(Page)
      /\ db \in Seq(ContentAt(ntx)) /\ ntx \in Nat /\ P.dbFileVers.ver >= 0
  BY Known DEF Fares
<1>3. \/ P.eState = "OPEN" /\ P.goal = "hot"
      \/ P.eState \in {"CACHEMOD", "DBMOD"} /\ P.goal = "rollback"
  BY <1>1, PlaysIs
<1>4. Slots(P) = S
  BY SlotsAre
<1>5. P.k \in 1 .. Len(S)
  BY <1>4 DEF PlaybackPage
<1>6. IF pg > P.dbSize THEN db' = db /\ Set(c, T) ELSE db' = e /\ Set(c, R)
  BY <1>4 DEF PlaybackPage, Replayed, At, noSync, Synchronous, Lax
<1>7. /\ i \in Range(S) /\ i \in 1 .. Len(f) /\ f[i].kind = "record"
      /\ pg \in 1 .. MaxPage /\ v \in ContentAt(ntx) /\ pg \in Nat
  <2> DEFINE own == OwnIn(setting, P, f)
  <2>1. S = PlaybackSlots(f, own)
    BY DEF SlotsIn
  <2> HIDE DEF P, own, f, S, pg, v
  <2>2. i = PlaybackSlots(f, own)[P.k] /\ P.k \in 1 .. Len(PlaybackSlots(f, own))
    BY <1>5, <2>1
  <2> QED
    BY <1>2, <2>1, <2>2, RecordAt, PagerAssumption DEF pg, v
<1>8. Len(h) <= Len(db) /\ Gives(jrnl, db, h) /\ NoneYet(f, h) /\ Grows(history) /\ h = Latest(history)
  BY <1>2 DEF Safe
<1>9. h # << >>
  <2> SUFFICES ASSUME h = << >> PROVE FALSE
    OBVIOUS
  <2>1. Range(S) = {}
    BY <1>2, <1>8, NothingPlayed DEF SlotsIn
  <2> QED
    BY <1>7, <2>1
<1>10. S \in Seq(Records(f)) /\ Len(S) \in Nat
  BY <1>2, PlayedAreRecords, NotEmpty DEF SlotsIn
<1>11. /\ Runs(P, T) /\ T.at = P.at /\ T.k = m /\ T.dbSize = P.dbSize /\ T.journalOff = P.journalOff
       /\ T.changeCountDone = P.changeCountDone /\ T.cache = P.cache /\ T.dbFileVers = P.dbFileVers
  BY <1>2, AtSame
<1>12. /\ Runs(P, Q) /\ Q.at = P.at /\ Q.k = P.k /\ Q.dbSize = P.dbSize /\ Q.journalOff = P.journalOff
       /\ Q.changeCountDone = P.changeCountDone /\ Cached(Q) = Cached(P)
       /\ \A q \in Cached(P) : q # pg => Q.cache[q] = P.cache[q]
       /\ pg \in Cached(P) => Q.cache[pg].val = v
       /\ Q.dbFileVers = IF pg = 1 /\ 1 \in Cached(P) THEN v ELSE P.dbFileVers
       /\ Q \in PagerAt(ntx)
       /\ pg \notin Cached(P) => Q = P
  <2> HIDE DEF P, pg, v
  <2>1. Q \in PagerAt(ntx)
    BY <1>2, <1>7, ReplayedIs
  <2>2. pg \notin Cached(P) => Q = P
    BY DEF Replayed
  <2> QED
    BY <1>2, <1>7, <2>1, <2>2, ReplayedSame
<1> HIDE DEF Q
<1>13. /\ Runs(Q, R) /\ R.at = Q.at /\ R.k = m /\ R.dbSize = Q.dbSize /\ R.journalOff = Q.journalOff
       /\ R.changeCountDone = Q.changeCountDone /\ R.cache = Q.cache /\ R.dbFileVers = Q.dbFileVers
  <2>1. R = At(Q, m) /\ Q \in PagerAt(ntx)
    BY <1>12
  <2> HIDE DEF R, m
  <2> QED
    BY ONLY <2>1, AtSame
<1> HIDE DEF R, T
<1>14. Runs(P, R)
  BY <1>12, <1>13 DEF Runs
<1>15. P.k \in Nat /\ m \in Nat /\ m > 0 /\ m <= Len(S) + 1 /\ P.k # 0
  BY <1>5, <1>10
<1> DEFINE X == IF pg > P.dbSize THEN T ELSE R
           x == IF pg > P.dbSize THEN db ELSE e
<1>16. Set(c, X) /\ db' = x /\ Runs(P, X) /\ X.at = "play" /\ X.k = m
  BY <1>1, <1>6, <1>11, <1>12, <1>13, <1>14
<1>17. Right(f, Range(S), h) /\ Len(h) <= P.dbSize
       => /\ Len(h) <= Len(x) /\ Gives(jrnl, x, h) /\ x # << >>
          /\ \A p \in 1 .. Len(h) : x[p] = IF Touches(P) /\ synced /\ p = pg THEN h[p] ELSE db[p]
  <2> SUFFICES ASSUME Right(f, Range(S), h), Len(h) <= P.dbSize
               PROVE  /\ Len(h) <= Len(x) /\ Gives(jrnl, x, h) /\ x # << >>
                      /\ \A p \in 1 .. Len(h) : x[p] = IF Touches(P) /\ synced /\ p = pg THEN h[p] ELSE db[p]
    OBVIOUS
  <2>1. pg <= Len(h) => v = h[pg]
    BY <1>7 DEF Right
  <2>2. Len(h) >= 1 /\ Len(h) \in Nat /\ Len(db) \in Nat /\ P.dbSize \in Nat
    BY <1>2, <1>9, NotEmpty DEF PagerAt
  <2>3. /\ Len(h) <= Len(x) /\ Gives(jrnl, x, h)
        /\ \A p \in 1 .. Len(h) : x[p] = IF Touches(P) /\ synced /\ p = pg THEN h[p] ELSE db[p]
    <3>1. CASE pg > P.dbSize
      <4> HIDE DEF pg, synced, P
      <4>1. \A p \in 1 .. Len(h) : p # pg
        BY <1>7, <2>2, <3>1
      <4> QED
        BY <1>8, <3>1, <4>1
    <3>2. CASE ~ (pg > P.dbSize) /\ ~ (Touches(P) /\ synced)
      BY <1>8, <3>2
    <3>3. CASE ~ (pg > P.dbSize) /\ Touches(P) /\ synced
      <4> HIDE DEF pg, synced, P, v, h
      <4>1. LET w == WritePage(db, pg, v) IN
            /\ Len(h) <= Len(w) /\ Gives(jrnl, w, h)
            /\ \A q \in 1 .. Len(h) : w[q] = IF q = pg THEN h[q] ELSE db[q]
        BY <1>2, <1>7, <1>8, <1>9, <2>1, Corrects
      <4>2. x = WritePage(db, pg, v)
        BY <3>3
      <4> QED
        BY <3>3, <4>1, <4>2
    <3> QED
      BY <3>1, <3>2, <3>3
  <2> HIDE DEF x
  <2>4. x # << >>
    BY <2>2, <2>3
  <2> QED
    BY <2>3, <2>4
<1> HIDE DEF X, x, e
<1>18. SlotsIn(setting, X, f) = S /\ OwnIn(setting, X, f) = OwnIn(setting, P, f)
  BY <1>16, RunsAlong
<1>19. CASE P.goal = "hot"
  <2>1. Opens(setting, P, jrnl, db, h, history) /\ Recovers(setting, P, jrnl, db, h) /\ P.eState = "OPEN"
    BY <1>1, <1>19, HotIs
  <2>2. S = PlaybackSlots(f, -1)
    BY <1>19, HotSlots
  <2>3. S # << >> /\ Readable(f)
    <3>1. S # << >>
      BY <1>5
    <3> QED
      BY <1>2, <2>2, <3>1, NothingReadable
  <2>4. /\ jrnl.exists /\ Cached(P) = {} /\ P.dbSize = f[1].orig /\ P.journalOff = 1
        /\ \A p \in 1 .. Len(h) : db[p] = h[p] \/ Left(f, S, P.k, p)
    <3>1. P.at = "play" /\ P.k > 0
      BY <1>1, <1>15
    <3> HIDE DEF P, h
    <3> QED
      BY <2>1, <2>2, <2>3, <3>1 DEF Recovers
  <2>5. Restores(f, db, h)
    BY <1>8, <2>3, <2>4 DEF Gives
  <2>6. Right(f, Range(S), h) /\ Len(h) <= P.dbSize
    BY <2>2, <2>4, <2>5 DEF Restores, Spans
  <2>7. /\ Len(h) <= Len(x) /\ Gives(jrnl, x, h) /\ x # << >>
        /\ \A p \in 1 .. Len(h) : x[p] = IF Touches(P) /\ synced /\ p = pg THEN h[p] ELSE db[p]
    BY <1>17, <2>6
  <2>8. synced /\ Touches(P)
    BY <1>19, <2>1 DEF Touches
  <2>9. /\ X.cache = P.cache /\ X.dbFileVers = P.dbFileVers /\ X.journalOff = P.journalOff
        /\ X.dbSize = P.dbSize /\ X.changeCountDone = P.changeCountDone
    BY <1>11, <1>12, <1>13, <2>4 DEF X
  <2>10. \A p \in 1 .. Len(h) : x[p] = h[p] \/ Left(f, S, m, p)
    <3> SUFFICES ASSUME NEW p \in 1 .. Len(h), x[p] # h[p] PROVE Left(f, S, m, p)
      OBVIOUS
    <3>1. p # pg /\ Left(f, S, P.k, p)
      BY <2>4, <2>7, <2>8
    <3> HIDE DEF S, P
    <3> QED
      BY <1>5, <1>10, <3>1, LeftBehind
  <2>11. X.goal = "hot" /\ X.hasHeldSharedLock = P.hasHeldSharedLock /\ X.bDoTruncate = P.bDoTruncate
    BY <1>16, <1>19 DEF Runs
  <2>12. Recovers(setting, X, jrnl, x, h)
    <3>1. Cached(X) = {}
      BY <2>4, <2>9 DEF Cached
    <3> QED
      BY <1>9, <1>15, <1>16, <2>2, <2>4, <2>9, <2>10, <3>1 DEF Recovers
  <2>13. SameCache(P, X)
    BY <2>9, <2>11 DEF SameCache
  <2>14. Opens(setting, X, jrnl, x, h, history)
    BY <2>1, <2>12, <2>13, SameOpens
  <2>15. X.dbFileVers.ver >= 0
    BY <1>2, <2>9
  <2> QED
    BY <1>1, <1>16, <1>19, <2>7, <2>8, <2>14, <2>15, PlayStores
<1>20. CASE P.goal = "rollback"
  <2>1. P.eState \in {"CACHEMOD", "DBMOD"} /\ Undoes(setting, P, f, db, h) /\ 1 \in Cached(P)
    BY <1>1, <1>3, <1>20, UndoIs
  <2>2. Plays(setting, P, f, db, h) /\ P.k > 0 /\ Next1(P) = P.k
    BY <1>1, <1>15, <2>1 DEF Undoes, Next1
  <2> HIDE DEF P, h, S, x
  <2>3. /\ Right(f, Range(S), h) /\ P.dbSize = P.dbOrigSize /\ Spans(P.dbOrigSize, h) /\ Len(db) = P.dbOrigSize
        /\ P.journalOff # 0
        /\ \A p \in Cached(P) : p <= Len(h) => P.cache[p].val = h[p] \/ Left(f, S, P.k, p)
        /\ h # << >> => P.dbFileVers = h[1] \/ Left(f, S, P.k, 1)
        /\ readJournalHdr(f, 0, OwnIn(setting, P, f)) /\ f[1].orig = P.dbOrigSize
    BY <2>2 DEF Plays, S
  <2>4. \A p \in 1 .. Len(h) : 
          \/ db[p] = h[p]
          \/ /\ P.eState = "DBMOD"
             /\ \E j \in P.k .. Len(S) : f[S[j]].pgno = p /\ (Lax(setting) \/ S[j] <= P.journalHdr)
    BY <2>2 DEF Plays, S
  <2>5. /\ Len(h) <= Len(x) /\ Gives(jrnl, x, h) /\ x # << >>
        /\ \A p \in 1 .. Len(h) : x[p] = IF Touches(P) /\ synced /\ p = pg THEN h[p] ELSE db[p]
    BY <1>17, <2>3 DEF Spans
  <2>6. pg <= Len(h) => v = h[pg]
    BY <1>7, <2>3 DEF Right
  <2>7. /\ X.journalOff = P.journalOff /\ X.dbSize = P.dbSize /\ Cached(X) = Cached(P)
        /\ \A q \in Cached(P) : q # pg => X.cache[q] = P.cache[q]
        /\ pg <= P.dbSize /\ pg \in Cached(P) => X.cache[pg].val = v
        /\ X.dbFileVers = IF pg <= P.dbSize /\ pg = 1 THEN v ELSE P.dbFileVers
    <3>1. P.dbSize \in Nat
      BY <1>2 DEF PagerAt
    <3>2. CASE pg > P.dbSize
      <4>1. X = T /\ ~ (pg <= P.dbSize)
        BY <1>7, <3>1, <3>2 DEF X
      <4> QED
        BY <1>11, <4>1 DEF Cached
    <3>3. CASE ~ (pg > P.dbSize)
      <4>1. X = R
        BY <3>3 DEF X
      <4>2. pg <= P.dbSize
        BY <1>7, <3>1, <3>3
      <4> HIDE DEF pg, v
      <4> QED
        BY <1>12, <1>13, <2>1, <4>1, <4>2 DEF Cached
    <3> QED
      BY <3>2, <3>3
  <2>8. Len(x) = P.dbOrigSize
    <3>1. CASE pg > P.dbSize \/ ~ (Touches(P) /\ synced)
      BY <2>3, <3>1 DEF x, e
    <3>2. CASE ~ (pg > P.dbSize) /\ Touches(P) /\ synced
      <4>1. x = WritePage(db, pg, v) /\ ~ (pg > Len(db))
        BY <2>3, <3>2 DEF x, e
      <4> HIDE DEF pg, v
      <4> QED
        BY <1>2, <1>7, <2>3, <4>1, WrittenPages
    <3> QED
      BY <3>1, <3>2
  <2>9. Len(h) \in Nat /\ Len(h) >= 1 /\ Len(h) <= P.dbSize /\ P.dbSize \in Nat
    BY <1>2, <1>9, <2>3, NotEmpty DEF Spans, PagerAt
  <2> HIDE DEF pg, v, X
  <2>10. \A p \in Cached(X) : p <= Len(h) => X.cache[p].val = h[p] \/ Left(f, S, m, p)
    <3> SUFFICES ASSUME NEW p \in Cached(P), p <= Len(h), ~ Left(f, S, m, p) PROVE X.cache[p].val = h[p]
      BY <2>7
    <3>1. CASE p = pg
      <4>1. pg <= P.dbSize
        BY <1>7, <2>9, <3>1
      <4> QED
        BY <2>6, <2>7, <3>1, <4>1
    <3>2. CASE p # pg
      <4>1. ~ Left(f, S, P.k, p)
        BY <1>5, <1>10, <3>2, LeftBehind DEF pg
      <4> QED
        BY <2>3, <2>7, <3>2, <4>1
    <3> QED
      BY <3>1, <3>2
  <2>11. X.dbFileVers = h[1] \/ Left(f, S, m, 1)
    <3>1. CASE pg = 1
      <4>1. pg <= P.dbSize /\ pg <= Len(h)
        BY <2>9, <3>1
      <4> QED
        BY <2>6, <2>7, <3>1, <4>1
    <3>2. CASE pg # 1
      <4>1. Left(f, S, P.k, 1) => Left(f, S, m, 1)
        BY <1>5, <1>10, <3>2, LeftBehind DEF pg
      <4> QED
        BY <1>9, <2>3, <2>7, <3>2, <4>1
    <3> QED
      BY <3>1, <3>2
  <2>12. X.eState = P.eState /\ X.journalHdr = P.journalHdr /\ X.dbOrigSize = P.dbOrigSize /\ X.goal = "rollback"
    BY <1>16, <1>20 DEF Runs
  <2>13. \A p \in 1 .. Len(h) : 
          \/ x[p] = h[p]
          \/ /\ X.eState = "DBMOD"
             /\ \E j \in m .. Len(S) : f[S[j]].pgno = p /\ (Lax(setting) \/ S[j] <= X.journalHdr)
    <3> SUFFICES ASSUME NEW p \in 1 .. Len(h), x[p] # h[p]
                 PROVE  /\ P.eState = "DBMOD"
                        /\ \E j \in m .. Len(S) : f[S[j]].pgno = p /\ (Lax(setting) \/ S[j] <= P.journalHdr)
      BY <2>12
    <3>1. x[p] = db[p] /\ ~ (Touches(P) /\ synced /\ p = pg)
      BY <2>5
    <3>2. /\ P.eState = "DBMOD"
          /\ \E j \in P.k .. Len(S) : f[S[j]].pgno = p /\ (Lax(setting) \/ S[j] <= P.journalHdr)
      BY <2>4, <3>1
    <3>3. PICK j \in P.k .. Len(S) : f[S[j]].pgno = p /\ (Lax(setting) \/ S[j] <= P.journalHdr)
      BY <3>2
    <3>4. j # P.k
      <4> SUFFICES ASSUME j = P.k PROVE FALSE
        OBVIOUS
      <4>1. p = pg /\ synced /\ Touches(P)
        BY <3>2, <3>3 DEF pg, Touches
      <4> QED
        BY <3>1, <4>1
    <3>5. j \in m .. Len(S)
      BY <1>10, <1>15, <3>4
    <3> QED
      BY <3>2, <3>3, <3>5
  <2>14. Plays(setting, X, f, x, h)
    <3>1. Next1(X) = m /\ X.k = m /\ X.k <= Len(S) + 1
      BY <1>15, <1>16 DEF Next1
    <3> QED
      BY <1>18, <2>3, <2>7, <2>8, <2>10, <2>11, <2>12, <2>13, <3>1 DEF Plays
  <2>15. Undoes(setting, X, f, x, h)
    BY <1>16, <2>14 DEF Undoes
  <2>16. X.dbFileVers.ver >= 0
    <3>1. CASE pg = 1
      <4>1. pg <= P.dbSize /\ pg <= Len(h)
        BY <2>9, <3>1
      <4>2. X.dbFileVers = First(h)
        BY <1>9, <2>6, <2>7, <3>1, <4>1 DEF First
      <4>3. First(h).ver >= 0
        <5>1. Len(history) \in DOMAIN history
          BY <1>8 DEF Grows
        <5> QED
          BY <1>8, <5>1 DEF Grows, Latest
      <4> QED
        BY <4>2, <4>3
    <3>2. CASE pg # 1
      BY <1>2, <2>7, <3>2
    <3> QED
      BY <3>1, <3>2
  <2>17. x = db \/ Touches(P)
    BY DEF x, e
  <2> USE DEF P, h
  <2> QED
    BY <1>1, <1>16, <1>20, <2>5, <2>15, <2>16, <2>17, PlayStores
<1> QED
  BY <1>3, <1>19, <1>20

LEMMA PlayedOutSame ==
  ASSUME NEW n, NEW P \in PagerAt(n)
  PROVE  LET Q == PlayedOut(P) IN
         /\ Runs(P, Q) /\ Q.at = "finish" /\ Q.k = 0 /\ Q.dbSize = P.dbSize /\ Q.journalOff = P.journalOff
         /\ Q.changeCountDone = FALSE /\ Q.cache = P.cache /\ Q.dbFileVers = P.dbFileVers
BY DEF PagerAt, PlayedOut, Runs

LEMMA PlaybackSyncStores == ASSUME IInv, LInv, SBody, NEW c \in Conns, PlaybackSync(c) PROVE SBody'
<1> DEFINE P == pager[c]
           f == jrnl.slots
           h == Latest1
           S == SlotsIn(setting, P, f)
           Q == PlayedOut(P)
<1>1. P.at = "play" /\ UNCHANGED <<levels, db, jrnl, djrnl, counters>> /\ Set(c, Q)
  BY DEF PlaybackSync, PlayedOut
<1>2. /\ P \in PagerAt(ntx) /\ Fares(setting, P, lock[c], c \in reserved, jrnl, db, h, history)
      /\ Safe(setting, jrnl, db, ntx, h, history) /\ f \in Seq(SlotsAt(ntx)) /\ h \in Seq(Page)
      /\ db \in Seq(ContentAt(ntx)) /\ ntx \in Nat /\ P.dbFileVers.ver >= 0
  BY Known DEF Fares
<1>3. \/ P.eState = "OPEN" /\ P.goal = "hot"
      \/ P.eState \in {"CACHEMOD", "DBMOD"} /\ P.goal = "rollback"
  BY <1>1, PlaysIs
<1>4. Slots(P) = S
  BY SlotsAre
<1>5. P.k = Len(S) + 1
  BY <1>4 DEF PlaybackSync
<1>6. Len(h) <= Len(db) /\ Gives(jrnl, db, h)
  BY <1>2 DEF Safe
<1>7. S \in Seq(Records(f)) /\ Len(S) \in Nat
  BY <1>2, PlayedAreRecords, NotEmpty DEF SlotsIn
<1>8. /\ Runs(P, Q) /\ Q.at = "finish" /\ Q.k = 0 /\ Q.dbSize = P.dbSize /\ Q.journalOff = P.journalOff
      /\ Q.changeCountDone = FALSE /\ Q.cache = P.cache /\ Q.dbFileVers = P.dbFileVers
  BY <1>2, PlayedOutSame
<1> HIDE DEF Q
<1>9. P.k > 0 /\ \A p : ~ Left(f, S, P.k, p)
  <2> HIDE DEF S, P
  <2> QED
    BY <1>5, <1>7, NothingLeft
<1>10. P.k .. Len(S) = {}
  BY <1>5, <1>7, NothingLeft
<1>11. CASE P.goal = "hot"
  <2>1. Opens(setting, P, jrnl, db, h, history) /\ Recovers(setting, P, jrnl, db, h) /\ P.eState = "OPEN"
    BY <1>1, <1>11, HotIs
  <2>2. S = PlaybackSlots(f, -1)
    BY <1>11, HotSlots
  <2>3. /\ jrnl.exists /\ \A p \in 1 .. Len(h) : db[p] = h[p] \/ Left(f, S, P.k, p)
        /\ Readable(f) => P.journalOff = 1 /\ (h = << >> => db = << >>)
    <3> HIDE DEF P, h
    <3> QED
      BY <1>1, <1>9, <2>1, <2>2 DEF Recovers
  <2>4. Holds(db, h)
    <3>1. CASE Readable(f)
      BY <1>6, <1>9, <2>3, <3>1 DEF Holds
    <3>2. CASE ~ Readable(f)
      BY <1>6, <3>2 DEF Gives, Holds
    <3> QED
      BY <3>1, <3>2
  <2>5. Recovers(setting, Q, jrnl, db, h)
    BY <1>8, <2>3, <2>4 DEF Recovers
  <2>6. SameCache(P, Q)
    <3>1. P.changeCountDone = FALSE
      BY <1>2, <2>1 DEF PagerAt, Opens, Settled
    <3> QED
      BY <1>8, <3>1 DEF SameCache, Runs
  <2>7. Opens(setting, Q, jrnl, db, h, history)
    BY <2>1, <2>5, <2>6, SameOpens
  <2>8. Q.dbFileVers.ver >= 0
    BY <1>2, <1>8
  <2> QED
    BY <1>1, <1>6, <1>8, <1>11, <2>7, <2>8, PlayStores
<1>12. CASE P.goal = "rollback"
  <2>1. P.eState \in {"CACHEMOD", "DBMOD"} /\ Undoes(setting, P, f, db, h)
    BY <1>1, <1>3, <1>12, UndoIs
  <2>2. Plays(setting, P, f, db, h) /\ Next1(P) = P.k
    BY <1>1, <1>9, <2>1 DEF Undoes, Next1
  <2> HIDE DEF P, h, S
  <2>3. /\ P.dbSize = P.dbOrigSize /\ Spans(P.dbOrigSize, h) /\ Len(db) = P.dbOrigSize
        /\ P.journalOff # 0
        /\ \A p \in Cached(P) : p <= Len(h) => P.cache[p].val = h[p]
        /\ h # << >> => P.dbFileVers = h[1]
    BY <1>9, <2>2 DEF Plays, S
  <2>4. \A p \in 1 .. Len(h) : db[p] = h[p]
    BY <1>10, <2>2 DEF Plays, S
  <2>5. Holds(db, h)
    <3>1. h = << >> => db = << >>
      BY <1>2, <2>3, NotEmpty DEF Spans
    <3> QED
      BY <1>6, <2>4, <3>1 DEF Holds
  <2>6. Undoes(setting, Q, f, db, h)
    BY <1>8, <2>3, <2>5 DEF Undoes, Shows, Cached
  <2>7. Q.dbFileVers.ver >= 0
    BY <1>2, <1>8
  <2> USE DEF P, h
  <2> QED
    BY <1>1, <1>6, <1>8, <1>12, <2>6, <2>7, PlayStores
<1> QED
  BY <1>3, <1>11, <1>12

-----------------------------------------------------------------------------
(* The end of a transaction, or of a recovery: the journal counts no more. *)
LEMMA SettingFits ==
  ASSUME IInv
  PROVE  setting.journalMode \in {"delete", "truncate", "persist"} /\ setting.fault \in Nat
<1>1. setting \in Setting
  BY PagerAssumption DEF IInv
<1> QED
  BY <1>1 DEF Setting

LEMMA EndedJournal ==
  ASSUME IInv, NEW P, FinishJournal(P)
  PROVE  \/ jrnl'.exists = FALSE /\ jrnl'.slots = << >>
         \/ jrnl'.exists = jrnl.exists /\ jrnl'.slots = << >>
         \/ /\ setting.journalMode = "persist"
            /\ jrnl'.exists = jrnl.exists /\ jrnl'.slots = [jrnl.slots EXCEPT ![1] = ZeroSlot]
         \/ P.journalOff = 0 /\ jrnl'.exists = jrnl.exists /\ jrnl'.slots = jrnl.slots
<1>1. jrnl \in JournalAt(ntx) /\ jrnl.slots \in Seq(SlotsAt(ntx)) /\ << >> \in Seq(SlotsAt(ntx))
  BY DEF IInv, JournalAt
<1>2. CASE JournalMode = "delete"
  BY <1>2 DEF FinishJournal, NoJournal
<1>3. CASE JournalMode = "truncate" /\ P.journalOff # 0
  <2> DEFINE j == [jrnl EXCEPT !.slots = <<>>]
  <2>1. SyncJournalFile(P, j, fullSync)
    BY <1>3 DEF FinishJournal
  <2>2. j \in JournalAt(ntx) /\ j.exists = jrnl.exists /\ j.slots = << >>
    BY <1>1 DEF JournalAt
  <2> HIDE DEF j
  <2> QED
    BY <2>1, <2>2, SyncsSame
<1>4. CASE JournalMode = "persist" /\ P.journalOff # 0
  <2> DEFINE f == [jrnl.slots EXCEPT ![1] = ZeroSlot]
             j == [jrnl EXCEPT !.slots = f]
  <2>1. SyncJournalFile(P, j, ~noSync)
    BY <1>4 DEF FinishJournal
  <2>2. f \in Seq(SlotsAt(ntx))
    BY <1>1, ExceptIs DEF SlotsAt
  <2>3. f = [jrnl.slots EXCEPT ![1] = ZeroSlot]
    OBVIOUS
  <2> HIDE DEF f
  <2>4. j \in JournalAt(ntx) /\ j.exists = jrnl.exists /\ j.slots = f
    BY <1>1, <2>2 DEF JournalAt
  <2> HIDE DEF j
  <2> QED
    BY <1>4, <2>1, <2>3, <2>4, SyncsSame DEF JournalMode
<1>5. CASE P.journalOff = 0 /\ UNCHANGED <<jrnl, djrnl>>
  BY <1>5
<1>6. JournalMode \in {"delete", "truncate", "persist"}
  BY SettingFits DEF JournalMode
<1>7. ASSUME JournalMode # "delete", P.journalOff = 0 PROVE UNCHANGED <<jrnl, djrnl>>
  BY <1>7 DEF FinishJournal
<1> QED
  BY <1>2, <1>3, <1>4, <1>5, <1>6, <1>7

LEMMA ZeroedStart ==
  ASSUME NEW n, NEW f \in Seq(SlotsAt(n)), NEW g, g = [f EXCEPT ![1] = ZeroSlot]
  PROVE  /\ ~ Readable(g)
         /\ Tidy(f, 1) => Tidy(g, 1)
         /\ \A m : Stamps(f, 0, m) => Stamps(g, 0, m)
         /\ \A h : NoneYet(f, h) => NoneYet(g, h)
<1>1. ZeroSlot.kind = "zero"
  BY DEF ZeroSlot
<1>2. /\ Len(g) = Len(f) /\ DOMAIN g = DOMAIN f /\ Len(f) \in Nat /\ (0 < Len(f) => g[1] = ZeroSlot)
      /\ \A i \in 1 .. Len(f) : i # 1 => g[i] = f[i]
      /\ \A i \in 1 .. Len(f) : g[i] = ZeroSlot \/ g[i] = f[i]
  OBVIOUS
<1>3. DOMAIN f = 1 .. Len(f)
  OBVIOUS
<1>4. ~ Readable(g)
  BY <1>1, <1>2 DEF Readable, readJournalHdr, IsHeader
<1>5. Tidy(f, 1) => Tidy(g, 1)
  BY <1>2 DEF Tidy
<1>6. \A m : Stamps(f, 0, m) => Stamps(g, 0, m)
  BY <1>1, <1>2 DEF Stamps
<1>7. \A h : NoneYet(f, h) => NoneYet(g, h)
  BY <1>1, <1>2, <1>3 DEF NoneYet
<1> QED
  BY <1>4, <1>5, <1>6, <1>7

LEMMA FinishSafe ==
  ASSUME IInv, SBody, Trusted(setting), NEW P, FinishJournal(P), NEW h, Holds(db, h), h = << >> => Latest1 = << >>,
         P.journalOff = 0 => ~ Readable(jrnl.slots) /\ h = Latest1,
         NEW hs, Grows(hs), h = Latest(hs)
  PROVE  Safe(setting, jrnl', db, ntx, h, hs) /\ Alone(setting, jrnl'.slots, 1, h)
<1> DEFINE f == jrnl.slots
           g == jrnl'.slots
<1>1. Safe(setting, jrnl, db, ntx, Latest1, history) /\ f \in Seq(SlotsAt(ntx))
  BY DEF SBody, IInv, JournalAt
<1>2. Len(h) <= Len(db)
  BY DEF Holds
<1>3. CASE g = << >>
  <2>1. Stamps(g, 0, ntx + 1) /\ Kept(setting, g, h) /\ NoneYet(g, h) /\ Alone(setting, g, 1, h) /\ ~ Readable(g)
    BY <1>3 DEF Stamps, Kept, NoneYet, Tidy, Alone, Readable, readJournalHdr, IsHeader
  <2> QED
    BY <1>2, <1>3, <2>1 DEF Safe, Gives
<1>4. CASE setting.journalMode = "persist" /\ jrnl'.exists = jrnl.exists /\ g = [f EXCEPT ![1] = ZeroSlot]
  <2> HIDE DEF f, g
  <2>1. /\ ~ Readable(g)
        /\ Tidy(f, 1) => Tidy(g, 1)
        /\ \A m : Stamps(f, 0, m) => Stamps(g, 0, m)
        /\ \A x : NoneYet(f, x) => NoneYet(g, x)
    BY <1>1, <1>4, ZeroedStart
  <2>2. Careful(setting) => ~ setting.spilling
    BY <1>4 DEF Trusted, Careful
  <2>3. Careful(setting) => Tidy(g, 1)
    BY <1>1, <2>1, <2>2 DEF Safe, Kept, f
  <2>4. Kept(setting, g, h) /\ Alone(setting, g, 1, h)
    BY <2>2, <2>3 DEF Kept, Alone
  <2>5. NoneYet(g, h) /\ Stamps(g, 0, ntx + 1)
    BY <1>1, <2>1 DEF Safe, NoneYet, f
  <2>6. ~ jrnl'.exists => g = << >>
    <3>1. f = << >> => [f EXCEPT ![1] = ZeroSlot] = << >>
      OBVIOUS
    <3> QED
      BY <1>1, <1>4, <3>1 DEF Safe, f
  <2> QED
    BY <1>2, <2>1, <2>4, <2>5, <2>6 DEF Safe, Gives, g
<1>5. CASE P.journalOff = 0 /\ jrnl'.exists = jrnl.exists /\ g = f
  <2>1. ~ Readable(f) /\ h = Latest1
    BY <1>5
  <2>2. Safe(setting, jrnl', db, ntx, h, hs)
    BY <1>1, <1>5, <2>1 DEF Safe, Gives
  <2>3. Alone(setting, g, 1, h)
    BY <1>5, <2>1, <2>2 DEF Safe, Kept, Alone, Trusted, Careful
  <2> QED
    BY <2>2, <2>3
<1> QED
  BY <1>3, <1>4, <1>5, EndedJournal

(* The cache that is left.                                                 *)
OtherCache(P, Q) == Same(P, Q) /\ Q.dbSize = P.dbSize /\ Q.pInJournal = P.pInJournal /\ Q.dbFileVers = P.dbFileVers
Narrows(P, Q) == Cached(Q) \subseteq Cached(P) /\ \A p \in Cached(Q) : Q.cache[p].val = P.cache[p].val

LEMMA OtherCacheTrans ==
  ASSUME NEW P, NEW Q, NEW R, OtherCache(P, Q), OtherCache(Q, R)
  PROVE  OtherCache(P, R)
BY DEF OtherCache, Same, SamePlace, SameFlags, SameSizes, SameLog

LEMMA KeepSame ==
  ASSUME NEW n, NEW P \in PagerAt(n), NEW S
  PROVE  LET Q == Keep(P, S) IN
         /\ OtherCache(P, Q) /\ Cached(Q) = Cached(P) \cap S /\ \A p \in Cached(Q) : Q.cache[p] = P.cache[p]
<1> DEFINE g == [q \in Cached(P) \cap S |-> P.cache[q]]
<1>1. DOMAIN g = Cached(P) \cap S /\ \A q \in DOMAIN g : g[q] = P.cache[q]
  OBVIOUS
<1>2. Keep(P, S) = [P EXCEPT !.cache = g]
  BY DEF Keep
<1> HIDE DEF g
<1> QED
  BY <1>1, <1>2, NewCacheSame DEF OtherCache, Cached

LEMMA CleanSame ==
  ASSUME NEW n, NEW P \in PagerAt(n)
  PROVE  LET Q == Clean(P) IN
         /\ OtherCache(P, Q) /\ Cached(Q) = Cached(P) /\ Narrows(P, Q) /\ Clear(Q)
<1> DEFINE g == [q \in Cached(P) |-> [P.cache[q] EXCEPT !.dirty = FALSE, !.needSync = FALSE]]
<1>1. \A q \in Cached(P) : P.cache[q] \in EntryAt(n)
  BY PageIs
<1>2. \A q \in Cached(P) : LET e == [P.cache[q] EXCEPT !.dirty = FALSE, !.needSync = FALSE] IN
        e.dirty = FALSE /\ e.val = P.cache[q].val
  BY <1>1 DEF EntryAt
<1>3. DOMAIN g = Cached(P) /\ \A q \in Cached(P) : ~ g[q].dirty /\ g[q].val = P.cache[q].val
  BY <1>2
<1>4. Clean(P) = [P EXCEPT !.cache = g]
  BY DEF Clean
<1> HIDE DEF g
<1> DEFINE Q == [P EXCEPT !.cache = g]
<1>5. Same(P, Q) /\ Q.dbSize = P.dbSize /\ Q.pInJournal = P.pInJournal /\ Q.dbFileVers = P.dbFileVers /\ Q.cache = g
  BY NewCacheSame
<1> HIDE DEF Q
<1> QED
  BY <1>3, <1>4, <1>5 DEF OtherCache, Narrows, Clear, Cached, Q

LEMMA EmptiedSame ==
  ASSUME NEW n \in Nat, NEW P \in PagerAt(n), 1 \in Cached(P)
  PROVE  LET Q == [P EXCEPT !.cache[1].val = Zero] IN
         OtherCache(P, Q) /\ Cached(Q) = Cached(P) /\ Q.cache[1].val = Zero
<1> DEFINE e == [P.cache[1] EXCEPT !.val = Zero]
           g == [P.cache EXCEPT ![1] = e]
           Q == [P EXCEPT !.cache = g]
<1>1. P.cache[1] \in EntryAt(n)
  BY PageIs
<1>2. e.val = Zero
  BY <1>1 DEF EntryAt
<1>3. P.cache = [q \in DOMAIN P.cache |-> P.cache[q]] /\ 1 \in DOMAIN P.cache
  <2>1. P.cache \in CacheAt(n)
    BY DEF PagerAt
  <2> QED
    BY <2>1, CacheIs DEF Cached
<1> HIDE DEF e
<1>4. DOMAIN g = DOMAIN P.cache /\ g[1] = e
  BY <1>3
<1>5. [P EXCEPT !.cache[1].val = Zero] = Q
  BY DEF e
<1> HIDE DEF g
<1>6. Same(P, Q) /\ Q.dbSize = P.dbSize /\ Q.pInJournal = P.pInJournal /\ Q.dbFileVers = P.dbFileVers /\ Q.cache = g
  BY NewCacheSame
<1> HIDE DEF Q
<1> QED
  BY <1>2, <1>4, <1>5, <1>6 DEF OtherCache, Cached

Within(Q, m) == \A p \in Cached(Q) : p \in 1 .. m

LEMMA TruncateSame ==
  ASSUME NEW n \in Nat, NEW P \in PagerAt(n), NEW m \in Nat
  PROVE  LET Q == Truncate(P, m) IN
         /\ OtherCache(P, Q)
         /\ IF m = 0 /\ 1 \in Cached(P) THEN Zeroed(Q) ELSE Narrows(P, Q) /\ Within(Q, m)
         /\ Cached(P) = {} => Cached(Q) = {}
<1>1. CASE m = 0 /\ 1 \in Cached(P)
  <2> DEFINE R == Keep(P, {1})
             Q == [R EXCEPT !.cache[1].val = Zero]
  <2>1. Truncate(P, m) = Q
    BY <1>1 DEF Truncate
  <2>2. R \in PagerAt(n) /\ OtherCache(P, R) /\ Cached(R) = Cached(P) \cap {1}
    BY KeepIs, KeepSame
  <2> HIDE DEF R
  <2>3. OtherCache(R, Q) /\ Cached(Q) = Cached(R) /\ Q.cache[1].val = Zero
    BY <1>1, <2>2, EmptiedSame
  <2> HIDE DEF Q
  <2>4. OtherCache(P, Q)
    BY <2>2, <2>3, OtherCacheTrans
  <2>5. Zeroed(Q)
    BY <2>2, <2>3 DEF Zeroed
  <2> QED
    BY <1>1, <2>1, <2>4, <2>5
<1>2. CASE ~ (m = 0 /\ 1 \in Cached(P))
  <2> DEFINE Q == Keep(P, 1 .. m)
  <2>1. Truncate(P, m) = Q
    BY <1>2 DEF Truncate
  <2>2. OtherCache(P, Q) /\ Cached(Q) = Cached(P) \cap (1 .. m) /\ \A p \in Cached(Q) : Q.cache[p] = P.cache[p]
    BY KeepSame
  <2> HIDE DEF Q
  <2> QED
    BY <1>2, <2>1, <2>2 DEF Narrows, Within
<1> QED
  BY <1>1, <1>2

Ended(P) == [Clean(Truncate(P, P.dbSize)) EXCEPT !.at = "release"]

LEMMA EndedSame ==
  ASSUME NEW n \in Nat, NEW P \in PagerAt(n)
  PROVE  LET Q == Ended(P) IN
         /\ Runs(P, Q) /\ Q.at = "release" /\ Q.dbSize = P.dbSize /\ Q.dbFileSize = P.dbFileSize
         /\ Q.dbFileVers = P.dbFileVers /\ Q.changeCountDone = P.changeCountDone
         /\ Clear(Q)
         /\ IF P.dbSize = 0 /\ 1 \in Cached(P) THEN Zeroed(Q) ELSE Narrows(P, Q) /\ Within(Q, P.dbSize)
         /\ Cached(P) = {} => Cached(Q) = {}
<1> DEFINE m == P.dbSize
           S == Truncate(P, m)
           R == Clean(S)
           Q == [R EXCEPT !.at = "release"]
<1>1. m \in Nat
  BY DEF PagerAt
<1>2. S \in PagerAt(n) /\ OtherCache(P, S) /\ (Cached(P) = {} => Cached(S) = {})
      /\ IF m = 0 /\ 1 \in Cached(P) THEN Zeroed(S) ELSE Narrows(P, S) /\ Within(S, m)
  <2> HIDE DEF m
  <2> QED
    BY <1>1, TruncateIs, TruncateSame
<1> HIDE DEF S
<1>3. R \in PagerAt(n) /\ OtherCache(S, R) /\ Cached(R) = Cached(S) /\ Narrows(S, R) /\ Clear(R)
  BY <1>2, CleanIs, CleanSame
<1> HIDE DEF R
<1>4. /\ Q.at = "release" /\ Q.cache = R.cache /\ Q.dbSize = R.dbSize /\ Q.dbFileSize = R.dbFileSize
      /\ Q.dbFileVers = R.dbFileVers /\ Q.changeCountDone = R.changeCountDone /\ Runs(R, Q)
  BY <1>3 DEF PagerAt, Runs
<1>5. Ended(P) = Q
  BY DEF Ended, Q, R, S
<1> HIDE DEF Q
<1>6. OtherCache(P, R)
  BY <1>2, <1>3, OtherCacheTrans
<1>7. Runs(P, Q) /\ Q.dbSize = P.dbSize /\ Q.dbFileSize = P.dbFileSize /\ Q.dbFileVers = P.dbFileVers
      /\ Q.changeCountDone = P.changeCountDone
  BY <1>4, <1>6 DEF OtherCache, Same, SamePlace, SameFlags, SameSizes, SameLog, Runs
<1>8. Cached(Q) = Cached(S) /\ Narrows(S, Q) /\ Clear(Q)
  BY <1>3, <1>4 DEF Narrows, Clear, Cached
<1>9. Zeroed(S) => Zeroed(Q)
  BY <1>8 DEF Zeroed, Narrows
<1>10. Narrows(P, S) => Narrows(P, Q)
  BY <1>8 DEF Narrows
<1>11. Within(S, m) => Within(Q, m)
  BY <1>8 DEF Within
<1> QED
  BY <1>2, <1>4, <1>5, <1>7, <1>8, <1>9, <1>10, <1>11

(* The image that is committed.                                            *)
LEMMA PageContent == ASSUME NEW n PROVE ContentAt(n) \subseteq Page
BY PagerAssumption DEF ContentAt, Page

LEMMA ImageIs ==
  ASSUME NEW n, NEW d \in Seq(ContentAt(n)), NEW m, m = d[1].sz, 1 <= m, m <= Len(d), m \in Nat
  PROVE  /\ Image(d) \in Seq(Page) /\ Len(Image(d)) = m /\ Image(d) # << >>
         /\ \A p \in 1 .. m : Image(d)[p] = d[p]
<1>1. d # << >> /\ ~ (d[1].sz > Len(d)) /\ Len(d) \in Nat
  OBVIOUS
<1>2. Image(d) = SubSeq(d, 1, m)
  BY <1>1 DEF Image
<1>3. \A p \in 1 .. m : d[p] \in Page
  BY <1>1, PageContent
<1>4. SubSeq(d, 1, m) = [p \in 1 .. m |-> d[p]]
  BY <1>1
<1> DEFINE x == [p \in 1 .. m |-> d[p]]
<1>5. x \in [1 .. m -> Page] /\ \A p \in 1 .. m : x[p] = d[p]
  BY <1>3
<1>6. x \in Seq(Page) /\ Len(x) = m
  <2> HIDE DEF Page, x
  <2> QED
    BY <1>5
<1> QED
  BY <1>2, <1>4, <1>5, <1>6

LEMMA LastIs ==
  ASSUME NEW S, NEW s \in Seq(S), NEW x \in S, NEW n, n = Len(s), NEW m, m = n + 1
  PROVE  LET g == Append(s, x) IN
         /\ g \in Seq(S) /\ Len(g) = m /\ DOMAIN g = 1 .. m /\ g[m] = x /\ g # << >>
         /\ \A i \in 1 .. n : g[i] = s[i]
         /\ \A i \in 1 .. m : i \in 1 .. n \/ i = m
BY ONLY n = Len(s), m = n + 1, s \in Seq(S), x \in S

LEMMA GrowsMore ==
  ASSUME NEW hs, Grows(hs), NEW x \in Seq(Page), Whole(x), First(Latest(hs)).ver < First(x).ver, First(x).ver \in Int,
         \A i \in DOMAIN hs : First(hs[i]).ver \in Int
  PROVE  Grows(Append(hs, x)) /\ Latest(Append(hs, x)) = x
<1> DEFINE g == Append(hs, x)
           N == Len(hs)
<1>1. hs \in Seq(Seq(Page)) /\ N \in Nat \ {0} /\ DOMAIN hs = 1 .. N
  BY DEF Grows
<1>2. g \in Seq(Seq(Page)) /\ Len(g) = N + 1 /\ DOMAIN g = 1 .. N + 1 /\ g[N + 1] = x /\ g # << >>
      /\ \A i \in 1 .. N : g[i] = hs[i]
  BY <1>1, LastIs
<1> HIDE DEF g, N
<1>3. \A i \in 1 .. N : First(hs[i]).ver < First(x).ver
  <2> SUFFICES ASSUME NEW i \in 1 .. N PROVE First(hs[i]).ver < First(x).ver
    OBVIOUS
  <2>1. CASE i = N
    BY <2>1 DEF Latest, N
  <2>2. CASE i # N
    <3>1. i < N /\ N \in DOMAIN hs /\ i \in DOMAIN hs
      BY <1>1, <2>2
    <3> USE DEF N
    <3>2. First(hs[i]).ver < First(hs[N]).ver
      BY <3>1 DEF Grows
    <3>3. First(hs[N]).ver < First(x).ver
      BY DEF Latest
    <3>4. First(hs[i]).ver \in Int /\ First(hs[N]).ver \in Int
      BY <3>1
    <3> QED
      BY <3>2, <3>3, <3>4
  <2> QED
    BY <2>1, <2>2
<1>4. First(x).ver >= 0
  <2>1. 1 \in 1 .. N
    BY <1>1
  <2>2. First(hs[1]).ver >= 0 /\ First(hs[1]).ver < First(x).ver /\ First(hs[1]).ver \in Int
    BY <1>1, <1>3, <2>1 DEF Grows
  <2> QED
    BY <2>2
<1>5. \A i \in DOMAIN g : Whole(g[i]) /\ First(g[i]).ver >= 0
  <2>1. \A i \in 1 .. N + 1 : i \in 1 .. N \/ i = N + 1
    BY <1>1
  <2>2. \A i \in 1 .. N : Whole(hs[i]) /\ First(hs[i]).ver >= 0
    BY <1>1 DEF Grows
  <2> QED
    BY <1>2, <1>4, <2>1, <2>2
<1>6. \A i, j \in DOMAIN g : i < j => First(g[i]).ver < First(g[j]).ver
  <2> SUFFICES ASSUME NEW i \in DOMAIN g, NEW j \in DOMAIN g, i < j PROVE First(g[i]).ver < First(g[j]).ver
    OBVIOUS
  <2>1. i \in 1 .. N /\ j \in 1 .. N + 1 /\ (j = N + 1 \/ j \in 1 .. N)
    BY <1>1, <1>2
  <2>2. CASE j = N + 1
    BY <1>2, <1>3, <2>1, <2>2
  <2>3. CASE j \in 1 .. N
    BY <1>1, <1>2, <2>1, <2>3 DEF Grows
  <2> QED
    BY <2>1, <2>2, <2>3
<1>7. Latest(g) = x
  BY <1>2 DEF Latest
<1>8. Grows(g)
  BY <1>2, <1>5, <1>6 DEF Grows
<1> QED
  BY <1>7, <1>8 DEF g

LEMMA FirstIsInt ==
  ASSUME NEW hs, Grows(hs)
  PROVE  \A i \in DOMAIN hs : First(hs[i]).ver \in Int
<1>1. Zero.ver = 0
  BY DEF Zero
<1>2. hs \in Seq(Seq(Page))
  BY DEF Grows
<1> SUFFICES ASSUME NEW i \in DOMAIN hs PROVE First(hs[i]).ver \in Int
  OBVIOUS
<1>3. hs[i] \in Seq(Page)
  BY <1>2
<1>4. CASE hs[i] = << >>
  BY <1>1, <1>4 DEF First
<1>5. CASE hs[i] # << >>
  <2>1. hs[i][1] \in Page
    BY <1>3, <1>5, NotEmpty
  <2> QED
    BY <1>5, <2>1 DEF First, Page
<1> QED
  BY <1>4, <1>5

LEMMA CommittedIs ==
  ASSUME IInv, SBody, NEW c \in Conns, pager[c].eState = "FINISHED", pager[c].at = "finish"
  PROVE  LET P == pager[c]
             x == Image(db)
         IN /\ x \in Seq(Page) /\ x # << >> /\ Holds(db, x) /\ Len(x) = Size(P) /\ x[1] = P.dbFileVers
            /\ \A p \in Cached(P) : p <= Len(x) => P.cache[p].val = x[p]
            /\ Grows(Append(history, x)) /\ Latest(Append(history, x)) = x
            /\ P.dbSize <= P.dbFileSize /\ P.dbFileSize = Len(db) /\ Clear(P) /\ Len(x) <= P.dbSize /\ P.journalOff # 0
            /\ 1 \in Cached(P) /\ lock[c] = EXCLUSIVE_LOCK /\ P.goal = "commit"
<1> DEFINE P == pager[c]
           x == Image(db)
           m == Size(P)
<1>1. /\ P \in PagerAt(ntx) /\ Control(P, lock[c], c \in reserved)
      /\ Fares(setting, P, lock[c], c \in reserved, jrnl, db, Latest1, history)
      /\ Safe(setting, jrnl, db, ntx, Latest1, history) /\ db \in Seq(ContentAt(ntx))
  BY Known
<1>2. Commits(setting, P, jrnl.slots, db, Latest1) /\ 1 \in Cached(P) /\ lock[c] = EXCLUSIVE_LOCK /\ P.goal = "commit"
  BY <1>1 DEF Fares, Control
<1>3. P.at = "finish"
  OBVIOUS
<1> HIDE DEF P
<1>4. P.cache[1] \in EntryAt(ntx) /\ P.dbSize \in Nat /\ P.dbFileSize \in Nat /\ Cached(P) \subseteq 1 .. MaxPage
  BY <1>1, <1>2, PageIs, CacheIs DEF PagerAt, Cached
<1>5. m \in Nat
  BY <1>4, PagerAssumption DEF Size, EntryAt, ContentAt
<1>6. /\ 1 <= m /\ m <= P.dbSize /\ P.journalOff # 0 /\ Clear(P)
      /\ \A p \in Cached(P) : p <= m => db[p] = P.cache[p].val
      /\ P.dbFileVers = P.cache[1].val /\ First(Latest1).ver < P.dbFileVers.ver
      /\ P.dbSize <= P.dbFileSize /\ P.dbFileSize = Len(db)
  BY <1>2, <1>3 DEF Commits
<1>7. db[1] = P.dbFileVers /\ m = db[1].sz
  BY <1>2, <1>6 DEF Size
<1>8. m <= Len(db)
  BY <1>4, <1>5, <1>6
<1> HIDE DEF m
<1>9. x \in Seq(Page) /\ Len(x) = m /\ x # << >> /\ \A p \in 1 .. m : x[p] = db[p]
  BY <1>1, <1>5, <1>6, <1>7, <1>8, ImageIs
<1> HIDE DEF x
<1>10. 1 \in 1 .. m /\ Len(db) \in Nat
  BY <1>1, <1>5, <1>6
<1>11. x[1] = P.dbFileVers /\ First(x) = x[1] /\ Whole(x)
  BY <1>7, <1>9, <1>10 DEF First, Whole
<1>12. Holds(db, x)
  BY <1>8, <1>9 DEF Holds
<1>13. \A p \in Cached(P) : p <= Len(x) => P.cache[p].val = x[p]
  <2>1. \A p \in Cached(P) : p <= m => p \in 1 .. m
    BY <1>4, <1>5, PagerAssumption
  <2> QED
    BY <1>6, <1>9, <2>1
<1>14. First(x).ver \in Int /\ First(Latest(history)).ver < First(x).ver
  <2>1. P.dbFileVers \in ContentAt(ntx)
    BY <1>1 DEF PagerAt
  <2>2. P.dbFileVers.ver \in Int
    BY <2>1, PageContent DEF Page
  <2> QED
    BY <1>6, <1>11, <2>2 DEF Latest1
<1>15. Grows(Append(history, x)) /\ Latest(Append(history, x)) = x
  BY <1>1, <1>9, <1>11, <1>14, FirstIsInt, GrowsMore DEF Safe
<1> QED
  BY <1>2, <1>6, <1>9, <1>11, <1>12, <1>13, <1>15 DEF P, x, m

(* What the end of a journal makes of the files.                           *)
LEMMA Concludes ==
  ASSUME IInv, LInv, SBody, Trusted(setting), NEW c \in Conns, pager[c].at = "finish",
         FinishJournal(pager[c]), RecordCommit(pager[c]), UNCHANGED <<db, ddb, ntx, setting>>
  PROVE  /\ Safe(setting', jrnl', db', ntx', Latest1', history')
         /\ Holds(db, Latest1') /\ Alone(setting, jrnl'.slots, 1, Latest1') /\ MayMove(c)
         /\ pager[c].goal # "commit" => Latest1' = Latest1 /\ history' = history
         /\ pager[c].goal = "commit" => Latest1' = Image(db)
         /\ \/ pager[c].eState = "OPEN" /\ pager[c].goal = "hot"
            \/ pager[c].eState \in {"CACHEMOD", "DBMOD"} /\ pager[c].goal = "rollback"
            \/ pager[c].eState = "FINISHED" /\ pager[c].goal = "commit"
<1> DEFINE P == pager[c]
           h == Latest1
<1>1. /\ P \in PagerAt(ntx) /\ Control(P, lock[c], c \in reserved)
      /\ Safe(setting, jrnl, db, ntx, h, history)
  BY Known
<1>2. \/ P.eState = "OPEN" /\ P.goal = "hot"
      \/ P.eState \in Writing /\ P.goal = "rollback"
      \/ P.eState = "FINISHED" /\ P.goal = "commit"
  BY EndsIs
<1>3. P.eState # "LOCKED"
  BY <1>1 DEF Control, Acts, Writing
<1>4. db' = db /\ ntx' = ntx /\ setting' = setting /\ Latest1' = Latest(history') /\ Grows(history) /\ h = Latest(history)
  BY <1>1 DEF Safe, Latest1
<1>5. CASE P.eState = "OPEN" /\ P.goal = "hot"
  <2>1. Recovers(setting, P, jrnl, db, h) /\ lock[c] = EXCLUSIVE_LOCK
    BY <1>5, HotIs
  <2>2. Holds(db, h) /\ (Readable(jrnl.slots) => P.journalOff # 0)
    BY <2>1 DEF Recovers
  <2>3. history' = history
    BY <1>5 DEF RecordCommit
  <2>4. Safe(setting, jrnl', db, ntx, h, history) /\ Alone(setting, jrnl'.slots, 1, h)
    BY <1>4, <2>2, FinishSafe
  <2>5. MayMove(c)
    BY <2>1, <2>3 DEF MayMove
  <2> QED
    BY <1>4, <1>5, <2>2, <2>3, <2>4, <2>5
<1>6. CASE P.eState \in Writing /\ P.goal = "rollback"
  <2>1. Undoes(setting, P, jrnl.slots, db, h)
    BY <1>3, <1>6, UndoIs
  <2>2. Holds(db, h) /\ P.journalOff # 0
    BY <2>1 DEF Undoes
  <2>3. history' = history
    BY <1>6 DEF RecordCommit
  <2>4. Safe(setting, jrnl', db, ntx, h, history) /\ Alone(setting, jrnl'.slots, 1, h)
    BY <1>4, <2>2, FinishSafe
  <2>5. MayMove(c)
    BY <1>4, <1>6, <2>3, <2>4, WriterLock DEF MayMove
  <2> QED
    BY <1>3, <1>4, <1>6, <2>2, <2>3, <2>4, <2>5 DEF Writing
<1>7. CASE P.eState = "FINISHED" /\ P.goal = "commit"
  <2> DEFINE x == Image(db)
             g == Append(history, x)
  <2>1. /\ x \in Seq(Page) /\ x # << >> /\ Holds(db, x) /\ Grows(g) /\ Latest(g) = x
        /\ P.journalOff # 0 /\ lock[c] = EXCLUSIVE_LOCK
    BY <1>7, CommittedIs
  <2>2. history' = g
    BY <1>7 DEF RecordCommit
  <2> HIDE DEF x, g
  <2>3. Safe(setting, jrnl', db, ntx, x, g) /\ Alone(setting, jrnl'.slots, 1, x)
    BY <2>1, FinishSafe
  <2>4. MayMove(c)
    BY <2>1, <2>2 DEF MayMove, g
  <2> QED
    BY <1>4, <1>7, <2>1, <2>2, <2>3, <2>4 DEF x
<1> QED
  BY <1>2, <1>5, <1>6, <1>7

LEMMA Narrowed ==
  ASSUME NEW P, NEW Q, Narrows(P, Q), NEW h, Shows(P, h)
  PROVE  Shows(Q, h)
BY DEF Narrows, Shows

LEMMA NarrowedKeeps ==
  ASSUME NEW P, NEW Q, Narrows(P, Q) \/ Zeroed(Q), Q.dbFileVers = P.dbFileVers, NEW hs, Keeps(P, hs)
  PROVE  Keeps(Q, hs)
<1>1. CASE Zeroed(Q)
  BY <1>1 DEF Keeps
<1>2. CASE Narrows(P, Q)
  <2>1. Zeroed(P) => Zeroed(Q)
    BY <1>2 DEF Narrows, Zeroed
  <2>2. \A h : Shows(P, h) => Shows(Q, h)
    BY <1>2, Narrowed
  <2> QED
    BY <2>1, <2>2 DEF Keeps
<1> QED
  BY <1>1, <1>2

LEMMA FinishStores == ASSUME IInv, LInv, SBody, Trusted(setting), NEW c \in Conns, Finish(c) PROVE SBody'
<1> DEFINE P == pager[c]
           Q == Ended(P)
           h == Latest1'
<1>1. P.at = "finish" /\ FinishJournal(P) /\ RecordCommit(P) /\ Set(c, Q)
      /\ UNCHANGED <<levels, db, ddb, ntx, setting, mishaps>>
  BY DEF Finish, Ended
<1>2. /\ P \in PagerAt(ntx) /\ Control(P, lock[c], c \in reserved) /\ ntx \in Nat
      /\ Fares(setting, P, lock[c], c \in reserved, jrnl, db, Latest1, history)
  BY Known
<1>3. /\ Safe(setting', jrnl', db', ntx', h, history')
      /\ Holds(db, h) /\ Alone(setting, jrnl'.slots, 1, h) /\ MayMove(c)
      /\ P.goal # "commit" => h = Latest1 /\ history' = history
      /\ P.goal = "commit" => h = Image(db)
      /\ \/ P.eState = "OPEN" /\ P.goal = "hot"
         \/ P.eState \in {"CACHEMOD", "DBMOD"} /\ P.goal = "rollback"
         \/ P.eState = "FINISHED" /\ P.goal = "commit"
  BY <1>1, Concludes
<1>4. LockStep(c) /\ lock'[c] = lock[c] /\ (c \in reserved' <=> c \in reserved)
  BY <1>1, Unlocked
<1>5. /\ Runs(P, Q) /\ Q.at = "release" /\ Q.dbSize = P.dbSize /\ Q.dbFileSize = P.dbFileSize
      /\ Q.dbFileVers = P.dbFileVers /\ Q.changeCountDone = P.changeCountDone
      /\ Clear(Q)
      /\ IF P.dbSize = 0 /\ 1 \in Cached(P) THEN Zeroed(Q) ELSE Narrows(P, Q) /\ Within(Q, P.dbSize)
      /\ Cached(P) = {} => Cached(Q) = {}
  BY <1>2, EndedSame
<1> HIDE DEF Q
<1>6. Q.eState = P.eState /\ Q.goal = P.goal /\ Q.hasHeldSharedLock = P.hasHeldSharedLock
      /\ Q.bDoTruncate = P.bDoTruncate
  BY <1>5 DEF Runs
<1>7. P.dbFileVers.ver >= 0 /\ (P.eState # "OPEN" => P.hasHeldSharedLock) /\ (c \in reserved => lock[c] >= RESERVED_LOCK)
  BY <1>2 DEF Fares
<1>8. Q.eState = "OPEN" => Opens(setting, Q, jrnl', db, h, history')
  <2> SUFFICES ASSUME P.eState = "OPEN" PROVE Opens(setting, Q, jrnl', db, h, history')
    BY <1>6
  <2>1. P.goal = "hot" /\ history' = history
    BY <1>3
  <2>2. Opens(setting, P, jrnl, db, Latest1, history)
    BY <1>1, <2>1, HotIs
  <2>3. Keeps(Q, history)
    BY <1>5, <2>2, NarrowedKeeps DEF Opens
  <2>4. Recovers(setting, Q, jrnl', db, h)
    BY <1>3, <1>5 DEF Recovers
  <2>5. Settled(Q)
    BY <1>5, <1>6, <2>2 DEF Opens, Settled
  <2> QED
    BY <1>5, <1>6, <2>1, <2>2, <2>3, <2>4, <2>5 DEF Opens
<1>9. Q.goal = "rollback" => Undoes(setting, Q, jrnl'.slots, db, h)
  <2> SUFFICES ASSUME P.goal = "rollback" PROVE Undoes(setting, Q, jrnl'.slots, db, h)
    BY <1>6
  <2>1. h = Latest1
    BY <1>3
  <2>2. Undoes(setting, P, jrnl.slots, db, Latest1) /\ 1 \in Cached(P)
    BY <1>1, <1>3, UndoIs
  <2>3. Shows(P, h) /\ P.dbSize = Len(db) /\ (h # << >> => P.dbFileVers = h[1])
    BY <1>1, <2>1, <2>2 DEF Undoes
  <2>4. Knows(Q, h)
    <3>1. CASE h = << >>
      <4>1. P.dbSize = 0
        BY <1>3, <2>3, <3>1 DEF Holds
      <4> QED
        BY <1>5, <2>2, <3>1, <4>1 DEF Knows
    <3>2. CASE h # << >>
      <4>1. P.dbSize # 0
        <5>1. h \in Seq(Page) /\ Len(db) \in Nat
          BY <2>1, Known
        <5>2. Len(h) >= 1 /\ Len(h) <= Len(db)
          BY <1>3, <3>2, <5>1, NotEmpty DEF Holds
        <5> QED
          BY <2>3, <5>1, <5>2, NotEmpty
      <4>2. Narrows(P, Q)
        BY <1>5, <4>1
      <4> QED
        BY <1>5, <2>3, <3>2, <4>2, Narrowed DEF Knows
    <3> QED
      BY <3>1, <3>2
  <2> QED
    BY <1>3, <1>5, <2>3, <2>4 DEF Undoes
<1>10. Q.eState = "FINISHED" => Commits(setting, Q, jrnl'.slots, db, h)
  <2> SUFFICES ASSUME P.eState = "FINISHED" PROVE Commits(setting, Q, jrnl'.slots, db, h)
    BY <1>6
  <2>1. /\ h \in Seq(Page) /\ h # << >> /\ h[1] = P.dbFileVers
        /\ \A p \in Cached(P) : p <= Len(h) => P.cache[p].val = h[p]
        /\ P.dbSize <= P.dbFileSize /\ P.dbFileSize = Len(db) /\ Len(h) <= P.dbSize
    BY <1>1, <1>3, CommittedIs
  <2>2. Len(h) >= 1 /\ Len(h) \in Nat /\ P.dbSize \in Nat
    BY <1>2, <2>1, NotEmpty DEF PagerAt
  <2> HIDE DEF h
  <2>3. Narrows(P, Q)
    BY <1>5, <2>1, <2>2
  <2>4. Knows(Q, h)
    BY <1>5, <2>1, <2>3 DEF Knows, Shows, Narrows
  <2> QED
    BY <1>3, <1>5, <2>1, <2>4 DEF Commits
<1>11. Fares(setting, Q, lock'[c], (c \in reserved)', jrnl', db, h, history')
  <2>1. Q.eState \notin {"READER", "LOCKED"} /\ (Q.eState \in {"CACHEMOD", "DBMOD"} => Q.goal = "rollback")
    BY <1>3, <1>6
  <2> QED
    BY <1>3, <1>4, <1>5, <1>6, <1>7, <1>8, <1>9, <1>10, <2>1 DEF Fares
<1>12. db' = db /\ setting' = setting
  BY <1>1
<1> QED
  BY <1>1, <1>3, <1>4, <1>11, <1>12, Steps

LEMMA FinishFailsStores == ASSUME IInv, LInv, SBody, Trusted(setting), NEW c \in Conns, FinishFails(c) PROVE SBody'
<1> DEFINE P == pager[c]
           h == Latest1'
<1>1. P.at = "finish" /\ FinishJournal(P) /\ RecordCommit(P)
      /\ UNCHANGED <<db, ddb, ntx, setting>>
      /\ IF P.goal = "hot" THEN pager_unlock(c, Failed(P)) ELSE Set(c, InError(P)) /\ Locks!Lower(c, SHARED_LOCK)
  BY DEF FinishFails, Failed, InError
<1>2. /\ P \in PagerAt(ntx) /\ ntx \in Nat
      /\ Fares(setting, P, lock[c], c \in reserved, jrnl, db, Latest1, history)
  BY Known
<1>3. /\ Safe(setting', jrnl', db', ntx', h, history')
      /\ Holds(db, h) /\ Alone(setting, jrnl'.slots, 1, h) /\ MayMove(c)
      /\ \/ P.eState = "OPEN" /\ P.goal = "hot"
         \/ P.eState \in {"CACHEMOD", "DBMOD"} /\ P.goal = "rollback"
         \/ P.eState = "FINISHED" /\ P.goal = "commit"
  BY <1>1, Concludes
<1>4. P.dbFileVers.ver >= 0 /\ (P.eState # "OPEN" => P.hasHeldSharedLock) /\ setting' = setting /\ db' = db
  BY <1>1, <1>2 DEF Fares
<1>5. CASE P.goal = "hot"
  <2> DEFINE R == pager_reset(Failed(P))
             Q == [ R EXCEPT
                !.eState = "OPEN", !.at = "idle", !.goal = "none", !.pInJournal = {},
                !.journalOff = 0, !.journalHdr = 0, !.changeCountDone = FALSE,
                !.bDoTruncate = FALSE, !.k = 0 ]
  <2>1. Failed(P) \in PagerAt(ntx) /\ Failed(P).eState = "ERROR" /\ Failed(P).dbFileVers = P.dbFileVers
    BY <1>2, FailedIs DEF Failed, PagerAt
  <2>2. R \in PagerAt(ntx) /\ R.dbFileVers = P.dbFileVers /\ R.cache = << >>
    BY <2>1, ResetIs, ResetSame
  <2>3. Set(c, Q) /\ Locks!Vanish({c})
    BY <1>1, <1>5, <2>1 DEF pager_unlock
  <2> HIDE DEF R
  <2>4. /\ Q.eState = "OPEN" /\ Q.at = "idle" /\ Q.goal = "none" /\ Q.cache = << >>
        /\ Q.dbFileVers = P.dbFileVers /\ Q.changeCountDone = FALSE /\ Q.bDoTruncate = FALSE
    BY <2>2 DEF PagerAt
  <2> HIDE DEF Q
  <2>5. LockStep(c) /\ (c \in reserved' <=> FALSE)
    BY <2>3, Lowered
  <2>6. Cached(Q) = {}
    BY <2>4 DEF Cached
  <2>7. Fares(setting, Q, lock'[c], (c \in reserved)', jrnl', db, h, history')
    BY <1>4, <2>4, <2>5, <2>6 DEF Fares, Relies, Opens, Settled, Clear, Keeps, Zeroed
  <2> QED
    BY <1>3, <1>4, <2>3, <2>5, <2>7, Steps
<1>6. CASE P.goal # "hot"
  <2> DEFINE Q == InError(P)
  <2>1. Q.eState = "ERROR" /\ Q.dbFileVers = P.dbFileVers /\ Q.hasHeldSharedLock = P.hasHeldSharedLock
    BY <1>2 DEF InError, PagerAt
  <2>2. Set(c, Q) /\ LockStep(c) /\ (c \in reserved' <=> FALSE)
    BY <1>1, <1>6, Lowered
  <2> HIDE DEF Q
  <2>3. P.eState # "OPEN"
    BY <1>3, <1>6
  <2>4. Fares(setting, Q, lock'[c], (c \in reserved)', jrnl', db, h, history')
    BY <1>4, <2>1, <2>2, <2>3 DEF Fares, Relies
  <2> QED
    BY <1>3, <1>4, <2>2, <2>4, Steps
<1> QED
  BY <1>5, <1>6

(* The transaction is over, the lock goes.                                 *)
Rereads(P) == [Released(P) EXCEPT !.at = "version"]
Reads1(P) == [Released(P) EXCEPT !.eState = "READER"]

LEMMA ReleasedSame ==
  ASSUME NEW n, NEW P \in PagerAt(n)
  PROVE  /\ LET Q == Rereads(P) IN
            /\ Q.eState = P.eState /\ Q.at = "version" /\ Q.goal = "none" /\ Q.cache = P.cache
            /\ Q.dbFileVers = P.dbFileVers /\ Q.hasHeldSharedLock = P.hasHeldSharedLock
            /\ Q.changeCountDone = FALSE /\ Q.bDoTruncate = FALSE /\ Q.dbSize = P.dbSize
         /\ LET Q == Reads1(P) IN
            /\ Q.eState = "READER" /\ Q.at = "idle" /\ Q.goal = "none" /\ Q.cache = P.cache
            /\ Q.dbFileVers = P.dbFileVers /\ Q.hasHeldSharedLock = P.hasHeldSharedLock
            /\ Q.changeCountDone = FALSE /\ Q.bDoTruncate = FALSE /\ Q.dbSize = P.dbSize
BY DEF PagerAt, Released, Rereads, Reads1

LEMMA ReleaseStores == ASSUME IInv, LInv, SBody, NEW c \in Conns, Release(c) PROVE SBody'
<1> DEFINE P == pager[c]
           h == Latest1
           R == Reads1(P)
           e == IF P.goal = "commit" /\ P.dbFileSize > P.dbSize THEN Resize(db, P.dbSize) ELSE db
<1>1. /\ P.at = "release" /\ db' = e /\ Locks!Lower(c, SHARED_LOCK)
      /\ Set(c, IF P.goal = "hot" THEN Rereads(P) ELSE R)
      /\ UNCHANGED <<jrnl, ddb, djrnl, counters>>
  BY DEF Release, Released, Rereads, Reads1
<1>2. /\ P \in PagerAt(ntx) /\ Fares(setting, P, lock[c], c \in reserved, jrnl, db, h, history)
      /\ Safe(setting, jrnl, db, ntx, h, history) /\ h \in Seq(Page)
      /\ db \in Seq(ContentAt(ntx)) /\ ntx \in Nat /\ P.dbFileVers.ver >= 0
  BY Known DEF Fares
<1>3. \/ P.eState = "OPEN" /\ P.goal = "hot"
      \/ P.eState \in Writing /\ P.goal = "rollback"
      \/ P.eState = "FINISHED" /\ P.goal = "commit"
      \/ P.eState = "LOCKED" /\ P.at = "release" /\ P.goal \in {"none", "commit"}
  BY <1>1, EndsIs
<1>4. LockStep(c) /\ (c \in reserved' <=> FALSE)
  BY <1>1, Lowered
<1>5. jrnl' = jrnl /\ ntx' = ntx /\ setting' = setting /\ history' = history /\ h' = h
  BY <1>1 DEF counters, Latest1
<1>6. CASE P.eState = "OPEN" /\ P.goal = "hot"
  <2> DEFINE Q == Rereads(P)
  <2>1. Opens(setting, P, jrnl, db, h, history) /\ Recovers(setting, P, jrnl, db, h)
    BY <1>1, <1>6, HotIs
  <2>2. Holds(db, h) /\ Alone(setting, jrnl.slots, 1, h)
    BY <1>1, <2>1 DEF Recovers
  <2>3. /\ Q.eState = P.eState /\ Q.goal = "none" /\ Q.cache = P.cache
        /\ Q.dbFileVers = P.dbFileVers /\ Q.hasHeldSharedLock = P.hasHeldSharedLock
        /\ Q.changeCountDone = FALSE /\ Q.bDoTruncate = FALSE
    BY <1>2, ReleasedSame
  <2>4. Set(c, Q) /\ db' = db
    BY <1>1, <1>6
  <2> HIDE DEF Q
  <2>5. P.changeCountDone = FALSE /\ P.bDoTruncate = FALSE
    BY <1>2, <2>1 DEF Opens, Settled, PagerAt
  <2>6. SameCache(P, Q)
    BY <2>3, <2>5 DEF SameCache
  <2>7. Fares(setting, Q, lock'[c], (c \in reserved)', jrnl, db, h, history)
    BY <1>2, <1>4, <1>6, <2>2, <2>3, <2>6, OpenFares
  <2> QED
    BY <1>4, <1>5, <2>4, <2>7, Quiet
<1>7. CASE P.eState # "OPEN"
  <2>1. Set(c, R)
    BY <1>1, <1>3, <1>7
  <2>2. /\ R.eState = "READER" /\ R.goal = "none" /\ R.cache = P.cache
        /\ R.dbFileVers = P.dbFileVers /\ R.hasHeldSharedLock = P.hasHeldSharedLock
        /\ R.changeCountDone = FALSE /\ R.bDoTruncate = FALSE /\ R.dbSize = P.dbSize
    BY <1>2, ReleasedSame
  <2> HIDE DEF R
  <2>3. P.hasHeldSharedLock
    BY <1>2, <1>7 DEF Fares
  <2>4. ASSUME NEW x, Knows(P, h), Clear(P), P.dbSize = Len(x), Holds(x, h), Alone(setting, jrnl.slots, 1, h)
        PROVE  Fares(setting, R, lock'[c], (c \in reserved)', jrnl, x, h, history)
    <3>1. Reading(R, x, h)
      BY <2>2, <2>4 DEF Reading, Knows, Shows, Zeroed, Settled, Clear, Cached
    <3> QED
      BY <1>2, <1>4, <2>2, <2>3, <2>4, <3>1 DEF Fares
  <2>5. CASE P.eState = "LOCKED"
    <3>1. Reading(P, db, h) /\ P.dbFileSize = P.dbSize /\ Relies(P, lock[c], c \in reserved)
      BY <1>2, <2>5 DEF Fares, Relies
    <3>2. Holds(db, h) /\ Alone(setting, jrnl.slots, 1, h)
      BY <3>1, Relied
    <3>3. P.dbSize \in Nat
      BY <1>2 DEF PagerAt
    <3>4. db' = db
      BY <1>1, <3>1, <3>3
    <3>5. Fares(setting, R, lock'[c], (c \in reserved)', jrnl, db, h, history)
      BY <2>4, <3>1, <3>2 DEF Reading, Settled
    <3> QED
      BY <1>4, <1>5, <2>1, <3>4, <3>5, Quiet
  <2>6. CASE P.eState # "LOCKED" /\ P.goal = "rollback"
    <3>1. Undoes(setting, P, jrnl.slots, db, h)
      BY <1>1, <2>6, UndoIs
    <3>2. db' = db
      BY <1>1, <2>6
    <3>3. Fares(setting, R, lock'[c], (c \in reserved)', jrnl, db, h, history)
      BY <1>1, <2>4, <3>1 DEF Undoes
    <3> QED
      BY <1>4, <1>5, <2>1, <3>2, <3>3, Quiet
  <2>7. CASE P.eState = "FINISHED" /\ P.goal = "commit"
    <3>1. Commits(setting, P, jrnl.slots, db, h) /\ lock[c] = EXCLUSIVE_LOCK
      BY <1>2, <2>7, Known DEF Fares, Control
    <3>2. /\ h # << >> /\ Holds(db, h) /\ Knows(P, h) /\ Len(h) <= P.dbSize /\ Alone(setting, jrnl.slots, 1, h)
          /\ P.dbSize <= P.dbFileSize /\ P.dbFileSize = Len(db) /\ Clear(P)
      BY <1>1, <3>1 DEF Commits
    <3>3. P.dbSize \in Nat /\ P.dbFileSize \in Nat /\ Len(h) \in Nat /\ Len(db) \in Nat
      BY <1>2, NotEmpty DEF PagerAt
    <3>4. Len(e) = P.dbSize /\ \A p \in 1 .. Len(h) : e[p] = db[p]
      <4>1. CASE P.dbFileSize > P.dbSize
        <5>1. \A p \in 1 .. Len(h) : p \in 1 .. P.dbSize /\ p <= Len(db)
          BY <3>2, <3>3
        <5>2. e = Resize(db, P.dbSize)
          BY <2>7, <4>1
        <5> HIDE DEF e, P
        <5> QED
          BY <1>2, <3>3, <5>1, <5>2, ResizedPages
      <4>2. CASE ~ (P.dbFileSize > P.dbSize)
        BY <3>2, <3>3, <4>2
      <4> QED
        BY <4>1, <4>2
    <3> HIDE DEF e, h
    <3>5. Holds(e, h) /\ Len(h) <= Len(e)
      BY <3>2, <3>4 DEF Holds
    <3>6. Gives(jrnl, e, h)
      BY <1>2, <3>2, <3>4, <3>5, GivesKept DEF Safe
    <3>7. Safe(setting, jrnl, e, ntx, h, history)
      BY <1>2, <3>5, <3>6 DEF Safe
    <3>8. Fares(setting, R, lock'[c], (c \in reserved)', jrnl, e, h, history)
      BY <2>4, <3>2, <3>4, <3>5
    <3>9. MayMove(c)
      BY <1>5, <3>1 DEF MayMove
    <3> USE DEF h
    <3> QED
      BY <1>1, <1>4, <1>5, <2>1, <3>7, <3>8, <3>9, Steps
  <2> QED
    BY <1>3, <1>7, <2>5, <2>6, <2>7
<1> QED
  BY <1>3, <1>6, <1>7 DEF Writing

(* A call fails.                                                           *)
LEMMA FailStores ==
  ASSUME IInv, LInv, SBody, mishaps.fault \in Nat, NEW c \in Conns, Fail(c)
  PROVE  SBody'
<1> DEFINE P == pager[c]
           h == Latest1
<1>1. /\ mishaps.fault < setting.fault
      /\ P.at \in {"count", "sync", "pageout", "pages", "play", "finish"}
      /\ UNCHANGED <<files, ntx, history, setting>>
      /\ \/ P.goal = "hot" /\ pager_unlock(c, Failed(P))
         \/ P.goal = "commit" /\ P.at # "finish" /\ Set(c, Back(P)) /\ UNCHANGED levels
         \/ /\ P.goal # "hot" /\ Set(c, InError(P))
            /\ IF P.at = "finish" THEN Locks!Lower(c, SHARED_LOCK) ELSE UNCHANGED levels
  BY DEF Fail, Failed, Back, InError
<1>2. /\ P \in PagerAt(ntx) /\ Fares(setting, P, lock[c], c \in reserved, jrnl, db, h, history)
      /\ Control(P, lock[c], c \in reserved) /\ P.dbFileVers.ver >= 0
  BY Known DEF Fares
<1>3. jrnl' = jrnl /\ db' = db /\ ntx' = ntx /\ setting' = setting /\ history' = history
  BY <1>1 DEF files
<1>4. CASE P.goal = "hot" /\ pager_unlock(c, Failed(P))
  <2>1. Failed(P) \in PagerAt(ntx) /\ Failed(P).eState = "ERROR" /\ Failed(P).dbFileVers = P.dbFileVers
    BY <1>2, FailedIs DEF Failed, PagerAt
  <2> QED
    BY <1>2, <1>3, <1>4, <2>1, UnlockStores
<1>5. CASE P.goal = "commit" /\ P.at # "finish" /\ Set(c, Back(P)) /\ UNCHANGED levels
  <2>1. P.eState \in {"CACHEMOD", "DBMOD"}
    <3>1. P.eState \in States
      BY <1>2 DEF PagerAt
    <3> QED
      BY <1>1, <1>2, <1>5, <3>1 DEF Control, Hasnt, Reads, Acts, Writing, States
  <2>2. Careful(setting) \/ Lax(setting)
    BY <1>1, SettingFits DEF Careful
  <2> QED
    BY <1>1, <1>5, <2>1, <2>2, BackStores
<1>6. CASE /\ P.goal # "hot" /\ Set(c, InError(P))
           /\ IF P.at = "finish" THEN Locks!Lower(c, SHARED_LOCK) ELSE UNCHANGED levels
  <2> DEFINE Q == InError(P)
  <2>1. Q.eState = "ERROR" /\ Q.dbFileVers = P.dbFileVers /\ Q.hasHeldSharedLock = P.hasHeldSharedLock
    BY <1>2 DEF InError, PagerAt
  <2>8. Set(c, Q)
    BY <1>6
  <2> HIDE DEF Q
  <2>2. P.eState # "OPEN"
    BY <1>1, <1>2, <1>6 DEF Control, Hasnt
  <2>3. LockStep(c) /\ ((c \in reserved' <=> FALSE) \/ (lock'[c] = lock[c] /\ (c \in reserved' <=> c \in reserved)))
    BY <1>6, Lowered, Unlocked
  <2>4. Relies(Q, lock'[c], (c \in reserved)') => Relies(P, lock[c], c \in reserved)
    BY <2>1, <2>3 DEF Relies
  <2>5. Relies(Q, lock'[c], (c \in reserved)') => Holds(db, h) /\ Alone(setting, jrnl.slots, 1, h)
    BY <2>4, Relied
  <2>6. (c \in reserved)' => lock'[c] >= RESERVED_LOCK
    BY <2>3, Reserved
  <2>7. Fares(setting, Q, lock'[c], (c \in reserved)', jrnl, db, h, history)
    BY <1>2, <2>1, <2>2, <2>5, <2>6 DEF Fares
  <2> QED
    BY <1>3, <2>3, <2>7, <2>8, Quiet
<1> QED
  BY <1>1, <1>4, <1>5, <1>6
=============================================================================
