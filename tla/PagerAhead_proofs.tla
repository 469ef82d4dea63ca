-------------------------- MODULE PagerAhead_proofs --------------------------
(***************************************************************************)
(* The pager writes its journal before the file: where the power has not   *)
(* failed, what is on the disk at any moment would give back the image     *)
(* that was committed last.  The argument is that of PagerStore_proofs     *)
(* once more, about the journal on the disk.                               *)
(***************************************************************************)
EXTENDS PagerStore_proofs

-----------------------------------------------------------------------------
(* The journal is ahead of the file.  Where syncs are on, what is on the   *)
(* disk gives back the image that was committed last, or the file needs no *)
(* journal; and of a writer that has been let to the file, all records     *)
(* that it may have overwritten are there, in sections that are complete.  *)
Ahead(P, f, k) ==
  LET e == P.journalHdr IN
  /\ k.exists /\ e <= Len(k.slots) /\ \A i \in 1 .. e : k.slots[i] = f[i]
  /\ Sections(k.slots, e) /\ Ends(k.slots, e)
Restored(k, d, h) == k.exists /\ Readable(k.slots) /\ Restores(k.slots, d, h)
Saved(k, d, h) == Holds(d, h) \/ Restored(k, d, h)
Written(P) == P.eState = "DBMOD" /\ P.goal # "rollback"

DBody ==
  ~ Lax(setting) =>
    /\ Saved(djrnl, db, Latest1)
    /\ \A c \in Conns : Written(pager[c]) => Ahead(pager[c], jrnl.slots, djrnl)
DInv == mishaps.power = 0 /\ Trusted(setting) => DBody

LEMMA RestoredKept ==
  ASSUME NEW k, NEW d, NEW e, NEW h, Restored(k, d, h), \A p \in 1 .. Len(h) : e[p] = d[p] \/ e[p] = h[p]
  PROVE  Restored(k, e, h)
BY DEF Restored, Restores

(* The records on the disk are those up to the last header, ...            *)
LEMMA AheadPlayed ==
  ASSUME NEW n, NEW P \in PagerAt(n), NEW f \in Seq(SlotsAt(n)), NEW k \in JournalAt(n),
         Mine(P, f), P.journalHdr <= P.journalOff, P.journalHdr # 0, Ahead(P, f, k)
  PROVE  /\ Readable(k.slots) /\ k.slots[1].orig = P.dbOrigSize
         /\ Range(PlaybackSlots(k.slots, -1)) = Recs(f, 1, P.journalHdr)
         /\ \A i \in Recs(f, 1, P.journalHdr) : k.slots[i] = f[i]
<1> DEFINE e == P.journalHdr
           g == k.slots
<1>1. /\ P.journalOff \in 1 .. Len(f) /\ P.journalOff \in Nat /\ e \in Nat /\ Len(f) \in Nat
      /\ \A i \in 1 .. P.journalOff : f[i].kind \in {"header", "record"} => f[i].nonce = P.tx
      /\ IsHeader(f, 0)
  BY OwnSlots
<1>2. g \in Seq(SlotsAt(n)) /\ Len(g) \in Nat
  <2>1. g \in Seq(SlotsAt(n))
    BY DEF JournalAt
  <2> HIDE DEF g
  <2> QED
    BY <2>1
<1>3. e <= Len(g) /\ (\A i \in 1 .. e : g[i] = f[i]) /\ Sections(g, e) /\ Ends(g, e)
  BY DEF Ahead
<1>6. f[1].kind = "header" /\ f[1].orig = P.dbOrigSize /\ e <= P.journalOff /\ e # 0
  BY DEF Mine
<1> HIDE DEF e, g
<1>4. 1 <= e /\ 1 \in 1 .. e /\ e \in 0 .. Len(g) /\ \A i \in 1 .. e : i \in 1 .. P.journalOff
  BY <1>1, <1>2, <1>3, <1>6
<1>5. g[1] = f[1] /\ IsHeader(g, 0)
  BY <1>1, <1>2, <1>3, <1>4, <1>6 DEF IsHeader
<1>7. \A i \in 1 .. e : g[i].kind \in {"header", "record"} => g[i].nonce = P.tx
  BY <1>1, <1>3, <1>4
<1>8. -1 \notin 0 .. e - 1
  BY <1>1
<1>9. Bound(g, -1, e, P.tx)
  BY <1>3, <1>5, <1>7, <1>8 DEF Bound
<1>10. Range(PlaybackSlots(g, -1)) = Recs(g, 1, e)
  BY <1>2, <1>3, <1>4, <1>9, EndedPlayed DEF Ends
<1>11. Recs(g, 1, e) = Recs(f, 1, e)
  BY <1>3 DEF Recs
<1>12. Readable(g)
  <2>1. 0 \in 0 .. e - 1 /\ 0 + 1 = 1
    BY <1>1, <1>4
  <2>2. g[1].magic
    BY <1>3, <1>5, <2>1 DEF Sections
  <2> QED
    BY <1>5, <2>1, <2>2 DEF Readable, readJournalHdr
<1>13. \A i \in Recs(f, 1, e) : g[i] = f[i]
  BY <1>3 DEF Recs
<1> QED
  BY <1>5, <1>6, <1>10, <1>11, <1>12, <1>13 DEF e, g

(* ... and they are enough.                                                *)
LEMMA AheadRestores ==
  ASSUME NEW n, NEW P \in PagerAt(n), NEW f \in Seq(SlotsAt(n)), NEW k \in JournalAt(n), NEW d, NEW s, NEW h,
         ~ Lax(s), P.eState = "DBMOD", Changes(s, P, f, d, h), Sizes(P, d, h), Journals(s, P, f, h), Ahead(P, f, k)
  PROVE  Restored(k, d, h)
<1> DEFINE e == P.journalHdr
           g == k.slots
           S == Range(PlaybackSlots(g, -1))
<1>1. Mine(P, f) /\ Right(f, Recs(f, 1, P.journalOff), h) /\ (P.eState = "CACHEMOD" <=> e = 0)
  BY DEF Journals
<1>2. P.journalOff \in Nat /\ e \in Nat
  BY <1>1, OwnSlots
<1>3. e <= P.journalOff
  BY <1>2 DEF Journals, Closed, Done, Unsynced, Filling
<1>4. e # 0 /\ k.exists
  BY <1>1 DEF Ahead
<1>5. /\ Readable(g) /\ g[1].orig = P.dbOrigSize /\ S = Recs(f, 1, e)
      /\ \A i \in Recs(f, 1, e) : g[i] = f[i]
  BY <1>1, <1>3, <1>4, AheadPlayed
<1>6. Spans(P.dbOrigSize, h)
  BY DEF Sizes
<1>7. \A p \in 1 .. Len(h) : d[p] = h[p] \/ Synced(s, P, f, p)
  BY DEF Changes, Changing
<1> HIDE DEF e, g, S
<1>8. Right(g, S, h)
  <2>1. Recs(f, 1, e) \subseteq Recs(f, 1, P.journalOff)
    BY <1>2, <1>3, RecsIn
  <2> QED
    BY <1>1, <1>5, <2>1 DEF Right
<1>9. \A p \in 1 .. Len(h) : d[p] = h[p] \/ \E i \in S : g[i].pgno = p
  BY <1>5, <1>7 DEF Synced, Recorded, e
<1>10. Restores(g, d, h)
  BY <1>5, <1>6, <1>8, <1>9 DEF Restores, S
<1> QED
  BY <1>4, <1>5, <1>10 DEF Restored, g

(* So a writer that is at the file is safe, in this state and in the next. *)
Writer(c) ==
  /\ Written(pager[c]) /\ Ahead(pager[c], jrnl.slots, djrnl)
WritersSaved == ~ Lax(setting) => \A c \in Conns : Writer(c) => Restored(djrnl, db, Latest1)
LEMMA AheadSaves == IInv /\ SBody => WritersSaved
<1> SUFFICES ASSUME IInv, SBody, ~ Lax(setting), NEW c \in Conns, Writer(c) PROVE Restored(djrnl, db, Latest1)
  BY DEF WritersSaved
<1> DEFINE P == pager[c]
           f == jrnl.slots
<1>1. /\ P \in PagerAt(ntx) /\ f \in Seq(SlotsAt(ntx))
      /\ Fares(setting, P, lock[c], c \in reserved, jrnl, db, Latest1, history)
  BY Known
<1>2. djrnl \in JournalAt(ntx)
  BY DEF IInv, FilesAt
<1>3. P.eState = "DBMOD" /\ P.goal # "rollback" /\ Ahead(P, f, djrnl)
  BY DEF Writer, Written
<1>4. Changes(setting, P, f, db, Latest1) /\ Sizes(P, db, Latest1) /\ Journals(setting, P, f, Latest1)
  BY <1>1, <1>3 DEF Fares
<1> QED
  BY <1>1, <1>2, <1>3, <1>4, AheadRestores

(* What a step of c leaves to the others: who is at the file is there      *)
(* alone, and who has no lock touches neither file.                        *)
LEMMA AheadStep ==
  ASSUME IInv, LInv, DBody, ~ Lax(setting), NEW c \in Conns,
         pager' = [pager EXCEPT ![c] = pager'[c]], lock[c] # NO_LOCK \/ (jrnl' = jrnl /\ djrnl' = djrnl),
         setting' = setting, Saved(djrnl', db', Latest1'),
         Written(pager'[c]) => Ahead(pager'[c], jrnl'.slots, djrnl')
  PROVE  DBody'
<1>1. \A d \in Conns : d # c => pager'[d] = pager[d]
  BY DEF IInv
<1>2. ASSUME NEW d \in Conns, d # c, Written(pager[d])
      PROVE  jrnl' = jrnl /\ djrnl' = djrnl
  <2>1. lock[d] = EXCLUSIVE_LOCK
    BY <1>2, WriterLock DEF Written, Writing
  <2>2. lock[c] = NO_LOCK
    BY <1>2, <2>1 DEF LInv
  <2> QED
    BY <2>2
<1>3. \A d \in Conns : Written(pager[d]) => Ahead(pager[d], jrnl.slots, djrnl)
  BY DEF DBody
<1>4. ASSUME NEW d \in Conns, Written(pager'[d])
      PROVE  Ahead(pager'[d], jrnl'.slots, djrnl')
  <2>1. CASE d = c
    BY <1>4, <2>1
  <2>2. CASE d # c
    BY <1>1, <1>2, <1>3, <1>4, <2>2
  <2> QED
    BY <2>1, <2>2
<1> QED
  BY <1>4 DEF DBody

LEMMA AheadSame ==
  ASSUME NEW P, NEW Q, NEW f, NEW g, NEW k, Ahead(P, f, k), Q.journalHdr = P.journalHdr,
         \A i \in 1 .. P.journalHdr : g[i] = f[i]
  PROVE  Ahead(Q, g, k)
BY DEF Ahead

(* Steps that lead no writer to the file, and leave both files alone.      *)
LEMMA NoWriter ==
  ASSUME IInv, LInv, SBody, NEW c \in Conns, Opening(c) \/ Working(c) \/ Syncing(c) \/ Ending(c) \/ Mishap(c),
         pager[c].eState \notin Writing \cup {"FINISHED"} \/ pager[c].goal = "rollback"
  PROVE  ~ Written(pager'[c]) /\ pager' = [pager EXCEPT ![c] = pager'[c]]
BY AllAdvance DEF Alters, Owns, Undoing, Written

LEMMA StillSaved ==
  ASSUME DBody, ~ Lax(setting), UNCHANGED <<db, djrnl, history>>
  PROVE  Saved(djrnl', db', Latest1')
BY DEF DBody, Latest1

LEMMA OpeningAhead ==
  ASSUME IInv, LInv, SBody, DBody, ~ Lax(setting), NEW c \in Conns, Opening(c)
  PROVE  DBody'
<1> DEFINE P == pager[c]
<1>1. P.eState = "OPEN" /\ (lock[c] # NO_LOCK \/ (jrnl' = jrnl /\ djrnl' = djrnl))
  <2>1. CASE SharedLock(c)
    BY <2>1 DEF SharedLock, files
  <2>2. CASE ~ SharedLock(c)
    <3>1. P.at \in Openings
      BY <2>2 DEF Opening, HotAccess, HotReserved, HotEmpty, HotClear, HotFirst, HotExclusive, HotOpen,
         SharedLockDone, Openings
    <3> QED
      BY <3>1, AtOpening
  <2> QED
    BY <2>1, <2>2
<1>2. ~ Written(pager'[c]) /\ pager' = [pager EXCEPT ![c] = pager'[c]]
  BY <1>1, NoWriter DEF Writing
<1>3. setting' = setting /\ db' = db /\ history' = history /\ (HotOpen(c) \/ djrnl' = djrnl)
  BY DEF Opening, SharedLock, HotAccess, HotReserved, HotEmpty, HotClear, HotFirst, HotExclusive, HotOpen,
     SharedLockDone, counters, files
<1>4. Saved(djrnl', db', Latest1')
  <2>1. CASE djrnl' = djrnl
    BY <1>3, <2>1, StillSaved
  <2>2. CASE djrnl' # djrnl
    <3>1. HotOpen(c)
      BY <1>3, <2>2
    <3>2. jrnl.exists /\ \E Q : SyncJournalFile(Q, jrnl, ~ noSync)
      BY <2>2, <3>1 DEF HotOpen
    <3>3. PICK b : djrnl' = [jrnl EXCEPT !.fresh = b]
      BY <2>2, <3>2 DEF SyncJournalFile
    <3>4. jrnl \in JournalAt(ntx) /\ Gives(jrnl, db, Latest1)
      BY Known DEF Safe
    <3>5. djrnl'.exists /\ djrnl'.slots = jrnl.slots
      BY <3>2, <3>3, <3>4 DEF JournalAt
    <3>6. Saved(djrnl', db, Latest1)
      BY <3>2, <3>4, <3>5 DEF Saved, Restored, Gives
    <3> QED
      BY <1>3, <3>6 DEF Latest1
  <2> QED
    BY <2>1, <2>2
<1> QED
  BY <1>1, <1>2, <1>3, <1>4, AheadStep

LEMMA ReadingAhead ==
  ASSUME IInv, LInv, SBody, DBody, ~ Lax(setting), NEW c \in Conns,
         EndRead(c) \/ PagerBegin(c) \/ BeginExclusive(c) \/ (\E p : Get(c, p) /\ p \in 1 .. setting.pages)
         \/ LeaveError(c) \/ PlaybackSync(c)
  PROVE  DBody'
<1>1. pager[c].eState \in {"READER", "ERROR", "OPEN"} \/ pager[c].goal = "rollback"
  <2>1. BeginExclusive(c) => pager[c].eState = "READER"
    BY ExclusiveWaits DEF BeginExclusive
  <2>2. PlaybackSync(c) => pager[c].eState = "OPEN" \/ pager[c].goal = "rollback"
    BY PlaysIs DEF PlaybackSync
  <2> QED
    BY <2>1, <2>2 DEF EndRead, PagerBegin, Get, LeaveError
<1>2. ~ Written(pager'[c]) /\ pager' = [pager EXCEPT ![c] = pager'[c]]
  BY <1>1, NoWriter DEF Working, Ending, Writing
<1>3. UNCHANGED <<db, jrnl, djrnl, history, setting>>
  BY DEF EndRead, PagerBegin, BeginExclusive, Get, LeaveError, PlaybackSync, files, counters
<1> QED
  BY <1>2, <1>3, StillSaved, AheadStep

LEMMA RollbackAhead ==
  ASSUME IInv, LInv, SBody, DBody, ~ Lax(setting), NEW c \in Conns, Rollback(c)
  PROVE  DBody'
<1> DEFINE P == pager[c]
           Q == [P EXCEPT !.at = "play", !.goal = "rollback", !.k = 0]
           R == [P EXCEPT !.at = "release"]
<1>1. P \in PagerAt(ntx) /\ pager \in [Conns -> PagerAt(ntx)]
  BY Known DEF IInv
<1>2. (P.eState = "LOCKED" /\ Set(c, R)) \/ Set(c, Q)
  BY DEF Rollback, Goto
<1>3. Q.goal = "rollback" /\ (P.eState = "LOCKED" => R.eState = "LOCKED")
  BY <1>1 DEF PagerAt
<1> HIDE DEF Q, R
<1>4. pager' = [pager EXCEPT ![c] = pager'[c]] /\ ~ Written(pager'[c])
  BY <1>1, <1>2, <1>3 DEF Set, Written
<1>5. UNCHANGED <<db, jrnl, djrnl, history, setting>>
  BY DEF Rollback, files, counters
<1> QED
  BY <1>4, <1>5, StillSaved, AheadStep

LEMMA FailAhead ==
  ASSUME IInv, LInv, SBody, DBody, ~ Lax(setting), NEW c \in Conns, Fail(c) \/ Crash(c)
  PROVE  DBody'
<1> DEFINE P == pager[c]
<1>1. P \in PagerAt(ntx) /\ pager \in [Conns -> PagerAt(ntx)]
  BY Known DEF IInv
<1>2. UNCHANGED <<db, jrnl, djrnl, history, setting>>
  BY DEF Fail, Crash, files
<1>3. pager' = [pager EXCEPT ![c] = pager'[c]]
  BY AllAdvance DEF Mishap
<1>4. ~ Written(pager'[c])
  <2>1. CASE Crash(c)
    BY <1>1, <2>1 DEF Crash, Fresh, Written
  <2>2. CASE Fail(c)
    <3>1. InError(P).eState = "ERROR" /\ Back(P).goal = "rollback"
      BY <1>1 DEF InError, Back, PagerAt
    <3>2. P.goal = "hot" \/ Set(c, Back(P)) \/ Set(c, InError(P))
      BY <2>2 DEF Fail, Back, InError
    <3>3. CASE P.goal = "hot"
      <4>1. P.at # "idle"
        BY <2>2 DEF Fail
      <4>2. P.eState = "OPEN"
        BY <3>3, <4>1, HotIs
      <4> QED
        BY <2>2, <4>2, NoWriter DEF Mishap, Writing
    <3>4. CASE Set(c, Back(P)) \/ Set(c, InError(P))
      <4>1. pager'[c] = Back(P) \/ pager'[c] = InError(P)
        BY <1>1, <3>4 DEF Set
      <4> QED
        BY <3>1, <4>1 DEF Written
    <3> QED
      BY <3>2, <3>3, <3>4
  <2> QED
    BY <2>1, <2>2
<1> QED
  BY <1>2, <1>3, <1>4, StillSaved, AheadStep

(* A writer adds to the journal, and leaves what it has written.           *)
Lengthens(s, t) ==
  /\ t.P.eState = s.P.eState /\ t.P.journalHdr = s.P.journalHdr /\ s.P.journalOff <= t.P.journalOff /\ t.P.journalOff <= Len(t.f)
  /\ \A i \in 1 .. s.P.journalOff : t.f[i] = s.f[i]

LEMMA LengthensTrans ==
  ASSUME NEW n, NEW s \in PairAt(n), NEW t \in PairAt(n), NEW u \in PairAt(n), Lengthens(s, t), Lengthens(t, u)
  PROVE  Lengthens(s, u)
<1>1. s.P.journalOff \in Nat /\ t.P.journalOff \in Nat /\ u.P.journalOff \in Nat
  BY DEF PairAt, PagerAt
<1> QED
  BY <1>1 DEF Lengthens

LEMMA SameLengthens ==
  ASSUME NEW n, NEW s \in PairAt(n), NEW t, t.f = s.f, Same(s.P, t.P), s.P.journalOff <= Len(s.f)
  PROVE  Lengthens(s, t)
<1>1. s.P.journalOff \in Nat
  BY DEF PairAt, PagerAt
<1> QED
  BY <1>1 DEF Lengthens, Same, SameLog, SamePlace

LEMMA JournaledLengthens ==
  ASSUME NEW n \in Nat, NEW t \in PairAt(n), NEW p \in Cached(t.P), t.P.journalOff <= Len(t.f)
  PROVE  Lengthens(t, Journaled(t, p))
<1> DEFINE P == t.P
           f == t.f
<1>1. P \in PagerAt(n) /\ f \in Seq(SlotsAt(n)) /\ p \in Cached(P) /\ Same(P, P) /\ P.journalOff <= Len(f)
  BY DEF PairAt, Same, SamePlace, SameFlags, SameSizes, SameLog
<1>2. CASE p \in P.pInJournal
  <2>1. Journaled(t, p) = t
    BY <1>2 DEF Journaled
  <2> QED
    BY <1>1, <2>1, SameLengthens
<1>3. CASE p \notin P.pInJournal /\ p <= P.dbOrigSize
  <2> DEFINE u == AddToJournal(t, p)
             Q == u.P
             g == u.f
             r == Record(p, P.cache[p].val, P.tx)
             m == P.journalOff
             o == Q.journalOff
             e == Len(f) + 1
  <2>1. Journaled(t, p) = u
    BY <1>3 DEF Journaled
  <2>2. AddsTo(P, Q) /\ g = Put(f, o, r)
    BY AddedSame
  <2>3. r \in SlotsAt(n)
    BY <1>1, RecordIs
  <2>4. m \in Nat /\ Len(f) \in Nat
    BY <1>1 DEF PagerAt
  <2> HIDE DEF u, r, P, f
  <2>5. o = m + 1 /\ Q.journalHdr = P.journalHdr /\ Q.eState = P.eState
    BY <2>2 DEF AddsTo
  <2>6. e = Len(f) + 1 /\ o \in 1 .. e
    BY <1>1, <2>4, <2>5
  <2> HIDE DEF e, m, o
  <2>7. LET x == Put(f, o, r) IN
        /\ x \in Seq(SlotsAt(n)) /\ Len(x) \in Nat /\ Len(f) \in Nat /\ Len(f) <= Len(x) /\ o <= Len(x) /\ Len(x) <= e
        /\ x[o] = r /\ \A k \in 1 .. Len(f) : k # o => x[k] = f[k]
        /\ \A k \in 1 .. Len(x) : k = o \/ k \in 1 .. Len(f)
    BY <1>1, <2>3, <2>6, PutSame
  <2>8. o <= Len(g) /\ \A k \in 1 .. Len(f) : k # o => g[k] = f[k]
    BY <2>2, <2>7
  <2>9. m <= o /\ \A k \in 1 .. m : g[k] = f[k]
    <3>1. m <= Len(f)
      BY <1>1 DEF m
    <3> QED
      BY <2>4, <2>5, <2>8, <3>1
  <2> QED
    BY <2>1, <2>5, <2>8, <2>9 DEF Lengthens, P, f, m, o
<1>4. CASE p \notin P.pInJournal /\ ~ (p <= P.dbOrigSize)
  <2> DEFINE Q == Appended(P, p)
             u == [t EXCEPT !.P = Q]
  <2>1. Journaled(t, p) = u
    BY <1>4 DEF Journaled
  <2>2. Same(P, Q)
    BY <1>1, AppendedSame DEF OtherCache
  <2>3. u.P = Q /\ u.f = f
    <3> HIDE DEF Q
    <3> QED
      BY DEF PairAt
  <2> HIDE DEF Q, u
  <2> QED
    BY <1>1, <2>1, <2>2, <2>3, SameLengthens
<1> QED
  BY <1>2, <1>3, <1>4

LEMMA WriteLengthens ==
  ASSUME NEW n \in Nat, NEW t \in PairAt(n), NEW p \in 1 .. MaxPage, NEW v \in ContentAt(n), db \in Seq(ContentAt(n)),
         t.P.journalOff <= Len(t.f)
  PROVE  Lengthens(t, pager_write(t, p, v)) /\ pager_write(t, p, v) \in PairAt(n)
<1> DEFINE P == t.P
           Q == getPage(P, p)
           g == [t EXCEPT !.P = getPage(t.P, p)]
           w == Journaled(g, p)
           R == Modified(w.P, p, v)
           u == [w EXCEPT !.P = Modified(w.P, p, v)]
<1>1. P \in PagerAt(n) /\ t.f \in Seq(SlotsAt(n)) /\ P.journalOff <= Len(t.f)
  BY DEF PairAt
<1>2. pager_write(t, p, v) = u /\ u \in PairAt(n)
  BY PageWritten DEF pager_write
<1>3. Same(P, Q) /\ Q \in PagerAt(n) /\ Cached(Q) = Cached(P) \cup {p}
  BY <1>1, GetPageSame, GetPageIs
<1> HIDE DEF Q
<1>4. g \in PairAt(n) /\ g.P = Q /\ g.f = t.f
  BY <1>3, PairIs DEF Q
<1> HIDE DEF g
<1>5. Lengthens(t, g) /\ g.P.journalOff <= Len(g.f)
  <2>1. Lengthens(t, g)
    BY <1>1, <1>3, <1>4, SameLengthens
  <2> QED
    BY <2>1 DEF Lengthens
<1>6. p \in Cached(g.P)
  BY <1>3, <1>4
<1>7. w \in PairAt(n) /\ Cached(w.P) = Cached(g.P)
  BY <1>4, <1>6, JournaledIs
<1>8. Lengthens(g, w)
  BY <1>4, <1>5, <1>6, JournaledLengthens
<1> HIDE DEF w
<1>9. w.P \in PagerAt(n) /\ p \in Cached(w.P) /\ w.P.journalOff <= Len(w.f)
  BY <1>6, <1>7, <1>8 DEF PairAt, Lengthens
<1>10. Same(w.P, R) /\ R \in PagerAt(n)
  BY <1>9, ModifiedSame, ModifiedIs
<1>11. u = [w EXCEPT !.P = R]
  OBVIOUS
<1> HIDE DEF R, u
<1>12. u.P = R /\ u.f = w.f
  BY <1>7, <1>10, <1>11, PairIs
<1>13. Lengthens(w, u)
  BY <1>7, <1>9, <1>10, <1>12, SameLengthens
<1> QED
  BY <1>2, <1>4, <1>5, <1>7, <1>8, <1>13, LengthensTrans

LEMMA NewLengthens ==
  ASSUME NEW n \in Nat, NEW t \in PairAt(n), NEW p \in 1 .. MaxPage, t.P.journalOff <= Len(t.f)
  PROVE  Lengthens(t, NewPage(t, p)) /\ NewPage(t, p) \in PairAt(n)
<1> DEFINE P == t.P
           Q == Unwanted(P, p)
           u == [t EXCEPT !.P = Q]
<1>1. P \in PagerAt(n) /\ Same(P, P) /\ NewPage(t, p) \in PairAt(n)
  BY NewPageIs DEF PairAt, Same, SamePlace, SameFlags, SameSizes, SameLog
<1>2. CASE P.bDoTruncate
  <2>1. NewPage(t, p) = t
    BY <1>2 DEF NewPage
  <2> QED
    BY <1>1, <2>1, SameLengthens
<1>3. CASE ~ P.bDoTruncate
  <2>1. NewPage(t, p) = u
    BY <1>3 DEF NewPage, NoContent
  <2>2. Same(P, Q) /\ Q \in PagerAt(n)
    BY <1>1, UnwantedSame, UnwantedIs
  <2> HIDE DEF Q
  <2>3. u.P = Q /\ u.f = t.f
    BY <2>2, PairIs
  <2> HIDE DEF u
  <2> QED
    BY <1>1, <2>1, <2>2, <2>3, SameLengthens
<1> QED
  BY <1>2, <1>3

(* What a writer at the file has written of its journal.                   *)
LEMMA WriterLogs ==
  ASSUME IInv, SBody, ~ Lax(setting), NEW c \in Conns, Written(pager[c])
  PROVE  LET P == pager[c]
             f == jrnl.slots
         IN /\ Journals(setting, P, f, Latest1) /\ Changes(setting, P, f, db, Latest1) /\ Sizes(P, db, Latest1)
            /\ P \in PagerAt(ntx) /\ f \in Seq(SlotsAt(ntx)) /\ Len(f) \in Nat
            /\ P.journalHdr \in Nat /\ P.journalOff \in Nat
            /\ P.journalHdr <= P.journalOff /\ P.journalOff <= Len(f) /\ jrnl.exists
<1> DEFINE P == pager[c]
           f == jrnl.slots
<1>1. /\ P \in PagerAt(ntx) /\ f \in Seq(SlotsAt(ntx)) /\ jrnl \in JournalAt(ntx)
      /\ Fares(setting, P, lock[c], c \in reserved, jrnl, db, Latest1, history)
  BY Known
<1>2. P.eState = "DBMOD" /\ P.goal # "rollback"
  BY DEF Written
<1>3. Journals(setting, P, f, Latest1) /\ Changes(setting, P, f, db, Latest1) /\ Sizes(P, db, Latest1)
  BY <1>1, <1>2 DEF Fares
<1>4. Mine(P, f)
  BY <1>3 DEF Journals
<1>5. P.journalOff \in 1 .. Len(f) /\ P.journalHdr \in Nat /\ Len(f) \in Nat /\ P.journalOff \in Nat
  BY <1>1, <1>4, OwnSlots
<1>6. P.journalHdr <= P.journalOff
  BY <1>3, <1>5 DEF Journals, Closed, Done, Unsynced, Filling
<1>7. P.at # "release"
  BY <1>2, WriterIs DEF Acts, Writing
<1> QED
  BY <1>1, <1>2, <1>3, <1>5, <1>6, <1>7 DEF Fares

LEMMA AheadWrote ==
  ASSUME IInv, LInv, SBody, DBody, ~ Lax(setting), NEW c \in Conns, NEW w \in PairAt(ntx), Wrote(c, w),
         UNCHANGED <<db, djrnl, history, setting>>, lock[c] # NO_LOCK,
         w.P.eState = "DBMOD" => Written(pager[c]) /\ Lengthens([P |-> pager[c], f |-> jrnl.slots], w)
  PROVE  DBody'
<1> DEFINE P == pager[c]
           Q == w.P
<1>1. pager' = [pager EXCEPT ![c] = Q] /\ jrnl'.slots = w.f
  BY DEF Wrote, Set
<1>2. pager'[c] = Q /\ pager' = [pager EXCEPT ![c] = pager'[c]]
  BY <1>1 DEF IInv
<1>3. ASSUME Written(Q)
      PROVE  Ahead(Q, w.f, djrnl)
  <2>1. Written(P) /\ Lengthens([P |-> P, f |-> jrnl.slots], w)
    BY <1>3 DEF Written
  <2>2. Ahead(P, jrnl.slots, djrnl)
    BY <2>1 DEF DBody
  <2>3. P.journalHdr \in Nat /\ P.journalOff \in Nat /\ P.journalHdr <= P.journalOff
    BY <2>1, WriterLogs
  <2>4. Q.journalHdr = P.journalHdr /\ \A i \in 1 .. P.journalOff : w.f[i] = jrnl.slots[i]
    BY <2>1 DEF Lengthens
  <2>5. \A i \in 1 .. P.journalHdr : w.f[i] = jrnl.slots[i]
    BY <2>3, <2>4
  <2> QED
    BY <2>2, <2>4, <2>5, AheadSame
<1>4. Saved(djrnl', db', Latest1')
  BY StillSaved
<1>5. Written(pager'[c]) => Ahead(pager'[c], jrnl'.slots, djrnl')
  BY <1>1, <1>2, <1>3
<1> QED
  BY <1>2, <1>4, <1>5, AheadStep

(* The pair that a writer begins with.                                     *)
LEMMA OpenedAhead ==
  ASSUME IInv, SBody, ~ Lax(setting), NEW c \in Conns, pager[c].eState \in Writing, Idle(c)
  PROVE  LET o == Opened(c)
             s == [P |-> pager[c], f |-> jrnl.slots]
         IN /\ o \in PairAt(ntx) /\ o.P.journalOff <= Len(o.f)
            /\ o.P.eState = "DBMOD" => o = s /\ s.P = pager[c] /\ s \in PairAt(ntx) /\ Written(pager[c])
            /\ lock[c] # NO_LOCK
<1> DEFINE P == pager[c]
           o == Opened(c)
           s == [P |-> P, f |-> jrnl.slots]
<1>1. /\ o \in PairAt(ntx) /\ o.P.goal = "none"
      /\ Filed(setting, o, db, Latest1, ntx, o.P.eState # "DBMOD", 1 .. Size(P))
      /\ (o.P.eState = "DBMOD" <=> P.eState = "DBMOD")
  BY OpenedFiled
<1>2. Mine(o.P, o.f)
  BY <1>1 DEF Filed, Logged, Journals
<1>3. o.P.journalOff <= Len(o.f)
  BY <1>1, <1>2, OwnSlots DEF PairAt
<1>4. lock[c] # NO_LOCK
  BY WriterLock DEF NO_LOCK, RESERVED_LOCK
<1>5. ASSUME P.eState = "DBMOD"
      PROVE  o = s
  BY <1>5 DEF Opened
<1>6. s.P = P
  OBVIOUS
<1> HIDE DEF s
<1>7. ASSUME o.P.eState = "DBMOD"
      PROVE  o = s /\ s.P = P /\ s \in PairAt(ntx) /\ Written(P)
  <2>1. o = s /\ P.eState = "DBMOD"
    BY <1>1, <1>5, <1>7
  <2> HIDE DEF o
  <2> QED
    BY <1>1, <1>6, <2>1 DEF Written
<1> HIDE DEF o
<1> QED
  BY <1>1, <1>3, <1>4, <1>7 DEF o, s

LEMMA VacuumAhead ==
  ASSUME IInv, LInv, SBody, DBody, ~ Lax(setting), NEW c \in Conns, Vacuum(c)
  PROVE  DBody'
<1> DEFINE P == pager[c]
           z == Size(P) - 1
           o == Opened(c)
           v == [P.cache[1].val EXCEPT !.sz = z]
           t == pager_write(o, 1, v)
           Q == [t.P EXCEPT !.bDoTruncate = TRUE]
           w == [t EXCEPT !.P = Q]
           s == [P |-> P, f |-> jrnl.slots]
<1>1. /\ P.eState \in Writing /\ Idle(c) /\ Size(P) > 1
      /\ Wrote(c, w) /\ UNCHANGED <<db, djrnl, history, setting>>
  BY DEF Vacuum, counters
<1>2. /\ o \in PairAt(ntx) /\ o.P.journalOff <= Len(o.f)
      /\ (o.P.eState = "DBMOD" => o = s /\ Written(P)) /\ lock[c] # NO_LOCK
  BY <1>1, OpenedAhead
<1>3. P \in PagerAt(ntx) /\ ntx \in Nat /\ db \in Seq(ContentAt(ntx)) /\ 1 \in Cached(P)
  BY <1>1, Known, WriterIs
<1>4. v \in ContentAt(ntx) /\ 1 \in 1 .. MaxPage
  <2>1. P.cache[1].val \in ContentAt(ntx) /\ Size(P) \in 0 .. MaxPage
    BY <1>3, PageIs DEF Size
  <2>2. z \in 0 .. MaxPage
    BY <1>1, <2>1, PagerAssumption
  <2> HIDE DEF z
  <2>3. [P.cache[1].val EXCEPT !.sz = z] \in ContentAt(ntx)
    BY <2>1, <2>2 DEF ContentAt
  <2> QED
    BY <2>3, PagerAssumption
<1> HIDE DEF P, o, v, s
<1>5. Lengthens(o, t) /\ t \in PairAt(ntx)
  BY ONLY <1>2, <1>3, <1>4, WriteLengthens
<1> HIDE DEF t
<1>6. Q \in PagerAt(ntx) /\ Q.eState = t.P.eState /\ SameLog(t.P, Q)
  BY <1>5 DEF PairAt, PagerAt, SameLog
<1>7. w = [t EXCEPT !.P = Q]
  OBVIOUS
<1> HIDE DEF Q, w
<1>8. w \in PairAt(ntx) /\ w.P = Q /\ w.f = t.f
  BY <1>5, <1>6, <1>7, PairIs
<1>9. Lengthens(o, w)
  BY <1>5, <1>6, <1>8 DEF Lengthens, SameLog
<1>10. w.P.eState = o.P.eState
  BY <1>9 DEF Lengthens
<1>11. w.P.eState = "DBMOD" => Written(P) /\ Lengthens(s, w)
  BY <1>2, <1>9, <1>10
<1> QED
  BY <1>1, <1>2, <1>8, <1>11, AheadWrote DEF P, s

LEMMA WriteAhead1 ==
  ASSUME IInv, LInv, SBody, DBody, ~ Lax(setting), NEW c \in Conns, NEW p, Write(c, p)
  PROVE  DBody'
<1> DEFINE P == pager[c]
           m == Size(P)
           o == Opened(c)
           header == [ver |-> P.cache[1].val.ver, sz |-> p]
           counted == pager_write(o, 1, header)
           new == [ver |-> P.tx, sz |-> 0]
           u == pager_write(o, p, new)
           q == NewPage(counted, p)
           x == pager_write(q, p, new)
           t == CASE p = 1 -> counted
                  [] p \in 2 .. m -> u
                  [] OTHER -> x
           s == [P |-> P, f |-> jrnl.slots]
<1>1. /\ P.eState \in Writing /\ Idle(c) /\ p \in 1 .. setting.pages /\ p <= m + 1 /\ (p = 1 => m = 0)
      /\ Wrote(c, t) /\ UNCHANGED <<db, djrnl, history, setting>>
  BY DEF Write, counters
<1>2. /\ o \in PairAt(ntx) /\ o.P.journalOff <= Len(o.f)
      /\ (o.P.eState = "DBMOD" => o = s /\ Written(P)) /\ lock[c] # NO_LOCK
  BY <1>1, OpenedAhead
<1>3. P \in PagerAt(ntx) /\ ntx \in Nat /\ db \in Seq(ContentAt(ntx)) /\ 1 \in Cached(P)
  BY <1>1, Known, WriterIs
<1>4. p \in 1 .. MaxPage /\ 1 \in 1 .. MaxPage /\ p \in Nat
  BY <1>1, SettingIs, PagerAssumption
<1>5. header \in ContentAt(ntx) /\ new \in ContentAt(ntx)
  <2>1. P.cache[1].val.ver \in -1 .. ntx /\ P.tx \in 0 .. ntx
    BY <1>3, PageIs DEF PagerAt
  <2>2. P.tx \in -1 .. ntx /\ 0 \in 0 .. MaxPage /\ p \in 0 .. MaxPage
    BY <1>3, <1>4, <2>1, PagerAssumption
  <2>3. \A i \in -1 .. ntx, y \in 0 .. MaxPage : [ver |-> i, sz |-> y] \in ContentAt(ntx)
    BY DEF ContentAt
  <2> QED
    BY <2>1, <2>2, <2>3
<1> HIDE DEF P, o, header, new, s
<1>6. Lengthens(o, counted) /\ counted \in PairAt(ntx)
  BY ONLY <1>2, <1>3, <1>4, <1>5, WriteLengthens
<1>7. Lengthens(o, u) /\ u \in PairAt(ntx)
  BY ONLY <1>2, <1>3, <1>4, <1>5, WriteLengthens
<1> HIDE DEF counted, u
<1>8. Lengthens(counted, q) /\ q \in PairAt(ntx)
  BY <1>3, <1>4, <1>6, NewLengthens DEF Lengthens
<1> HIDE DEF q
<1>9. q.P.journalOff <= Len(q.f)
  BY <1>8 DEF Lengthens
<1>10. Lengthens(q, x) /\ x \in PairAt(ntx)
  BY ONLY <1>3, <1>4, <1>5, <1>8, <1>9, WriteLengthens
<1> HIDE DEF x
<1>11. Lengthens(o, x)
  <2>1. Lengthens(o, q)
    BY <1>2, <1>6, <1>8, LengthensTrans
  <2> QED
    BY <1>2, <1>8, <1>10, <2>1, LengthensTrans
<1> HIDE DEF m
<1>12. t \in {counted, u, x}
  OBVIOUS
<1> HIDE DEF t
<1>13. Lengthens(o, t) /\ t \in PairAt(ntx)
  BY <1>6, <1>7, <1>10, <1>11, <1>12
<1>14. t.P.eState = o.P.eState
  BY <1>13 DEF Lengthens
<1>15. t.P.eState = "DBMOD" => Written(P) /\ Lengthens(s, t)
  BY <1>2, <1>13, <1>14
<1> QED
  BY <1>1, <1>2, <1>13, <1>15, AheadWrote DEF P, s

LEMMA CommitPhaseOneAhead ==
  ASSUME IInv, LInv, SBody, DBody, ~ Lax(setting), NEW c \in Conns, CommitPhaseOne(c)
  PROVE  DBody'
<1> DEFINE O == pager[c]
           m == IF O.bDoTruncate THEN Size(O) ELSE O.dbSize
           P == [O EXCEPT !.dbSize = m]
           r == [P |-> P, f |-> jrnl.slots]
           v == [P.cache[1].val EXCEPT !.ver = ChangeCounter(P)]
           t == pager_write(r, 1, v)
           w == [t EXCEPT !.P = Counted(t.P)]
           s == [P |-> O, f |-> jrnl.slots]
<1>1. O.at = "one" /\ UNCHANGED <<db, djrnl, history, setting>>
  BY DEF CommitPhaseOne, counters
<1>2. /\ O.eState \in Writing /\ Acts(O, lock[c], c \in reserved) /\ 1 \in Cached(O)
  BY <1>1, WriterIs
<1>3. /\ O \in PagerAt(ntx) /\ ntx \in Nat /\ db \in Seq(ContentAt(ntx)) /\ jrnl.slots \in Seq(SlotsAt(ntx))
      /\ Fares(setting, O, lock[c], c \in reserved, jrnl, db, Latest1, history)
  BY Known
<1>4. O.goal = "commit" /\ O.dbFileVers.ver < O.tx /\ lock[c] # NO_LOCK
  BY <1>1, <1>2 DEF Acts, Counts, NO_LOCK, EXCLUSIVE_LOCK
<1>5. \/ O.eState = "LOCKED" /\ Goto(c, "release") /\ jrnl' = jrnl
      \/ O.eState # "LOCKED" /\ Set(c, [P EXCEPT !.at = "count"]) /\ jrnl' = jrnl
      \/ O.eState # "LOCKED" /\ Wrote(c, w)
  <2>1. P.eState = O.eState
    OBVIOUS
  <2> QED
    BY <2>1 DEF CommitPhaseOne, Counted
<1>6. m \in Nat /\ v \in ContentAt(ntx) /\ 1 \in 1 .. MaxPage
  <2>1. O.cache[1].val \in ContentAt(ntx) /\ Size(O) \in Nat /\ O.dbSize \in Nat
    <3>1. O.cache[1].val \in ContentAt(ntx) /\ O.cache[1].val.sz \in 0 .. MaxPage
      BY <1>2, <1>3, PageIs
    <3>2. O.dbSize \in Nat
      BY <1>3 DEF PagerAt
    <3> QED
      BY <3>1, <3>2 DEF Size
  <2>2. m \in Nat
    BY <2>1
  <2>3. O.dbFileVers.ver \in -1 .. ntx /\ O.tx \in 0 .. ntx
    BY <1>3 DEF PagerAt, ContentAt
  <2> DEFINE i == O.dbFileVers.ver + 1
  <2>4. i \in -1 .. ntx
    BY <1>3, <1>4, <2>3
  <2>5. v = [O.cache[1].val EXCEPT !.ver = i]
    BY DEF ChangeCounter
  <2> HIDE DEF i, v, m
  <2>6. v \in ContentAt(ntx)
    BY <2>1, <2>4, <2>5 DEF ContentAt
  <2> QED
    BY <2>2, <2>6, PagerAssumption
<1> HIDE DEF O, m
<1>7. P \in PagerAt(ntx) /\ Same(O, P)
  BY <1>3, <1>6, SizedSame
<1>8. CASE O.eState = "LOCKED" /\ Goto(c, "release") /\ jrnl' = jrnl
  <2> DEFINE Q == [O EXCEPT !.at = "release"]
  <2>1. Set(c, Q) /\ Q.eState = "LOCKED"
    BY <1>3, <1>8 DEF Goto, O, PagerAt
  <2> HIDE DEF Q
  <2>2. pager'[c] = Q /\ pager' = [pager EXCEPT ![c] = pager'[c]]
    BY <2>1 DEF Set, IInv
  <2> QED
    BY <1>1, <1>4, <1>8, <2>1, <2>2, StillSaved, AheadStep DEF Written
<1>9. CASE O.eState # "LOCKED" /\ Set(c, [P EXCEPT !.at = "count"]) /\ jrnl' = jrnl
  <2> DEFINE Q == [P EXCEPT !.at = "count"]
  <2>1. Q.eState = O.eState /\ Q.journalHdr = O.journalHdr
    BY <1>7 DEF Same, SamePlace, SameLog, PagerAt
  <2> HIDE DEF P
  <2>2. Set(c, Q)
    BY <1>9
  <2> HIDE DEF Q
  <2>3. pager'[c] = Q /\ pager' = [pager EXCEPT ![c] = pager'[c]]
    BY <2>2 DEF Set, IInv
  <2>4. Written(Q) => Ahead(Q, jrnl.slots, djrnl)
    <3>1. Written(Q) => Written(O)
      BY <1>4, <2>1 DEF Written
    <3>2. Written(O) => Ahead(O, jrnl.slots, djrnl)
      BY DEF DBody, O
    <3> QED
      BY <2>1, <3>1, <3>2, AheadSame
  <2> QED
    BY <1>1, <1>4, <1>9, <2>3, <2>4, StillSaved, AheadStep
<1>10. CASE O.eState # "LOCKED" /\ Wrote(c, w)
  <2>1. O.eState \in {"CACHEMOD", "DBMOD"}
    BY <1>2, <1>10 DEF Writing
  <2>2. Journals(setting, O, jrnl.slots, Latest1)
    BY <1>3, <1>4, <2>1 DEF Fares
  <2>3. O.journalOff <= Len(jrnl.slots)
    BY <1>3, <2>2, OwnSlots DEF Journals
  <2> HIDE DEF P
  <2>4. r \in PairAt(ntx) /\ r.P = P /\ r.f = jrnl.slots /\ s \in PairAt(ntx) /\ s.P = O /\ s.f = jrnl.slots
    BY <1>3, <1>7 DEF PairAt
  <2> HIDE DEF r, s
  <2>5. Lengthens(s, r) /\ r.P.journalOff <= Len(r.f)
    <3>1. Lengthens(s, r)
      BY <1>7, <2>3, <2>4, SameLengthens
    <3> QED
      BY <3>1 DEF Lengthens
  <2> HIDE DEF v
  <2>6. Lengthens(r, t) /\ t \in PairAt(ntx)
    BY ONLY <1>3, <1>6, <2>4, <2>5, WriteLengthens
  <2> HIDE DEF t
  <2> DEFINE Q == Counted(t.P)
  <2>7. Q \in PagerAt(ntx) /\ Q.eState = t.P.eState /\ SameLog(t.P, Q)
    <3>1. t.P \in PagerAt(ntx)
      BY <2>6 DEF PairAt
    <3> QED
      BY <3>1, CountedSame
  <2>8. w = [t EXCEPT !.P = Q]
    OBVIOUS
  <2> HIDE DEF Q, w
  <2>9. w \in PairAt(ntx) /\ w.P = Q /\ w.f = t.f
    BY <2>6, <2>7, <2>8, PairIs
  <2>10. Lengthens(r, w)
    BY <2>6, <2>7, <2>9 DEF Lengthens, SameLog
  <2>11. Lengthens(s, w)
    BY <2>4, <2>5, <2>9, <2>10, LengthensTrans
  <2>12. w.P.eState = O.eState
    BY <2>4, <2>11 DEF Lengthens
  <2>13. w.P.eState = "DBMOD" => Written(O) /\ Lengthens(s, w)
    BY <1>4, <2>11, <2>12 DEF Written
  <2> QED
    BY <1>1, <1>4, <1>10, <2>9, <2>13, AheadWrote DEF O, s
<1> QED
  BY <1>5, <1>8, <1>9, <1>10

(* The steps of a writer that leave its journal alone.                     *)
LEMMA AheadKept ==
  ASSUME IInv, LInv, DBody, ~ Lax(setting), NEW c \in Conns, NEW Q, Set(c, Q), Q.eState = pager[c].eState,
         Q.journalHdr = pager[c].journalHdr, pager[c].goal # "rollback", UNCHANGED <<jrnl, djrnl, setting>>,
         Saved(djrnl', db', Latest1')
  PROVE  DBody'
<1> DEFINE P == pager[c]
<1>1. pager'[c] = Q /\ pager' = [pager EXCEPT ![c] = pager'[c]]
  BY DEF Set, IInv
<1>2. Written(Q) => Ahead(Q, jrnl.slots, djrnl)
  <2>1. Written(Q) => Written(P)
    BY DEF Written
  <2>2. Written(P) => Ahead(P, jrnl.slots, djrnl)
    BY DEF DBody
  <2> QED
    BY <2>1, <2>2, AheadSame
<1> QED
  BY <1>1, <1>2, AheadStep

LEMMA AimAhead ==
  ASSUME IInv, LInv, SBody, DBody, ~ Lax(setting), NEW c \in Conns, Commit(c) \/ ExclusiveLock(c) \/ \E p : Spill(c, p)
  PROVE  DBody'
<1> DEFINE P == pager[c]
<1>1. UNCHANGED <<db, jrnl, djrnl, history, setting>>
  BY Zenon DEF Commit, ExclusiveLock, Spill, files, counters
<1>2. P \in PagerAt(ntx) /\ pager \in [Conns -> PagerAt(ntx)]
  BY Known DEF IInv
<1>3. P.goal # "rollback"
  <2>1. CASE ExclusiveLock(c)
    BY <2>1, SpillIs DEF ExclusiveLock
  <2>2. CASE Commit(c) \/ \E p : Spill(c, p)
    <3>1. P.eState \in Writing /\ P.at = "idle"
      BY Zenon, <2>2 DEF Commit, Spill, Idle, Writing
    <3> QED
      BY <3>1, WriterIs DEF Acts
  <2> QED
    BY <2>1, <2>2
<1>5. ASSUME NEW Q, Set(c, Q), Q.eState = P.eState, Q.journalHdr = P.journalHdr
      PROVE  DBody'
  BY <1>1, <1>3, <1>5, StillSaved, AheadKept
<1>6. CASE \E p : Spill(c, p)
  <2>1. PICK p : Spill(c, p)
    BY <1>6
  <2> DEFINE a == IF MustSync(P, p) THEN "exclude" ELSE "pageout"
             Q == Aim(P, a, "spill", p)
  <2>2. Set(c, Q)
    BY Zenon, <2>1 DEF Spill, Aim
  <2> HIDE DEF a
  <2>3. Alike(P, Q)
    BY <1>2, AimAlike
  <2> QED
    BY <1>5, <2>2, <2>3 DEF Alike, SameLog
<1>7. CASE Commit(c)
  <2> DEFINE Q == AimAt(P, "exclude", "commit")
  <2>1. Set(c, Q)
    BY <1>7 DEF Commit, AimAt
  <2>2. Alike(P, Q)
    BY <1>2, AimAtAlike
  <2> QED
    BY <1>5, <2>1, <2>2 DEF Alike, SameLog
<1>8. CASE ExclusiveLock(c)
  <2> DEFINE Q == AimAt(P, "idle", "none")
             R == [P EXCEPT !.at = Then(c)]
  <2>1. Set(c, P) \/ Set(c, Q) \/ Set(c, R)
    <3>1. pager = [pager EXCEPT ![c] = pager[c]]
      BY <1>2
    <3> QED
      BY <1>8, <3>1 DEF ExclusiveLock, AimAt, Goto, Set
  <2>2. Alike(P, Q) /\ Alike(P, R)
    BY <1>2, AimAtAlike, GoesAlike
  <2> QED
    BY <1>5, <2>1, <2>2 DEF Alike, SameLog
<1> QED
  BY <1>6, <1>7, <1>8

(* The count is written, and the journal synced.                           *)
LEMMA SavesNext == IInv' /\ SBody' => WritersSaved'
BY AheadSaves, PTL

LEMMA WriterNext ==
  ASSUME IInv', SBody', ~ Lax(setting), setting' = setting, NEW c \in Conns,
         Written(pager'[c]), Ahead(pager'[c], jrnl'.slots, djrnl')
  PROVE  Saved(djrnl', db', Latest1')
BY SavesNext DEF WritersSaved, Writer, Saved

LEMMA SameSections ==
  ASSUME NEW f, NEW g, Len(f) \in Nat, Len(g) \in Nat, NEW e \in Nat, e <= Len(f), e <= Len(g),
         \A i \in 1 .. e : g[i] = f[i], Sections(f, e)
  PROVE  Sections(g, e)
<1>1. \A k \in 0 .. e - 1 : IsHeader(g, k) <=> IsHeader(f, k)
  <2> SUFFICES ASSUME NEW k \in 0 .. e - 1 PROVE IsHeader(g, k) <=> IsHeader(f, k)
    OBVIOUS
  <2>1. k + 1 \in 1 .. e /\ k < Len(f) /\ k < Len(g)
    OBVIOUS
  <2> QED
    BY <2>1 DEF IsHeader
<1> SUFFICES ASSUME NEW k \in 0 .. e - 1, IsHeader(g, k)
             PROVE  LET c == g[k + 1].nRec IN
                    /\ g[k + 1].magic /\ c \in Nat /\ k + 1 + c <= e
                    /\ OnlyRecords(g, k + 2, k + 1 + c)
                    /\ k + 1 + c < e => IsHeader(g, k + 1 + c)
  BY DEF Sections
<1>2. k + 1 \in 1 .. e
  OBVIOUS
<1>3. IsHeader(f, k) /\ g[k + 1] = f[k + 1]
  BY <1>1, <1>2
<1> DEFINE c == f[k + 1].nRec
<1>4. /\ f[k + 1].magic /\ c \in Nat /\ k + 1 + c <= e
      /\ OnlyRecords(f, k + 2, k + 1 + c)
      /\ k + 1 + c < e => IsHeader(f, k + 1 + c)
  BY <1>3 DEF Sections
<1> HIDE DEF c
<1>5. OnlyRecords(g, k + 2, k + 1 + c)
  <2>1. \A i \in k + 2 .. k + 1 + c : i \in 1 .. e
    BY <1>4
  <2> QED
    BY <1>4, <2>1 DEF OnlyRecords
<1>6. k + 1 + c < e => IsHeader(g, k + 1 + c)
  <2>1. k + 1 + c < e => k + 1 + c \in 0 .. e - 1
    BY <1>4
  <2> QED
    BY <1>1, <1>4, <2>1
<1>7. g[k + 1].nRec = c
  BY <1>3 DEF c
<1> QED
  BY <1>3, <1>4, <1>5, <1>6, <1>7

LEMMA CountAhead ==
  ASSUME IInv, LInv, SBody, DBody, ~ Lax(setting), IInv', SBody', NEW c \in Conns, WriteRecordCount(c)
  PROVE  DBody'
<1> DEFINE P == pager[c]
           Q == [P EXCEPT !.at = "sync"]
           f == jrnl.slots
           e == P.journalHdr
           m == P.journalOff
           i == e + 1
           o == m + 1
           w == WithoutNext(f, P)
           g == [w EXCEPT ![P.journalHdr + 1] = [@ EXCEPT !.magic = TRUE, !.nRec = P.nRec]]
           synced == [jrnl EXCEPT !.slots = w, !.fresh = FALSE]
           base == IF fullSync THEN synced ELSE jrnl
<1>1. P.at = "count" /\ Goto(c, "sync") /\ UNCHANGED <<db, ddb, setting, history>>
  BY DEF WriteRecordCount, counters
<1>2. /\ P.eState \in {"CACHEMOD", "DBMOD"} /\ P.goal \in {"spill", "commit"} /\ lock[c] = EXCLUSIVE_LOCK
      /\ P \in PagerAt(ntx) /\ ntx \in Nat /\ jrnl \in JournalAt(ntx) /\ jrnl.exists
      /\ f \in Seq(SlotsAt(ntx)) /\ Logged(setting, P, f, Latest1, ntx, P.eState # "DBMOD")
      /\ (P.eState = "CACHEMOD" => Holds(db, Latest1))
  BY <1>1, WriterAt
<1>3. Q.eState = P.eState /\ Q.goal = P.goal /\ Q.journalHdr = e
  BY <1>2 DEF PagerAt
<1>4. Set(c, Q)
  BY <1>1 DEF Goto
<1> HIDE DEF Q
<1>5. pager'[c] = Q /\ pager' = [pager EXCEPT ![c] = pager'[c]]
  BY <1>4 DEF Set, IInv
<1>6. jrnl' = [base EXCEPT !.slots = g] /\ djrnl' = (IF fullSync THEN synced ELSE djrnl)
  <2>1. ~ noSync
    BY DEF noSync, Lax, Synchronous
  <2> QED
    BY <2>1 DEF WriteRecordCount
<1>7. /\ e < m /\ m <= Len(f) /\ e \in Nat /\ m \in Nat /\ Len(f) \in Nat /\ Unsynced(P, f)
  <2>1. Unsynced(P, f) /\ Mine(P, f)
    BY <1>1, <1>2 DEF Logged, Journals
  <2>2. e \in Nat /\ m \in Nat
    BY <1>2 DEF PagerAt
  <2> QED
    BY <1>2, <2>1, <2>2 DEF Unsynced, Filling, Mine
<1>8. /\ w \in Seq(SlotsAt(ntx)) /\ Len(w) = Len(f) /\ \A k \in 1 .. m : w[k] = f[k]
  <2>1. w \in Seq(SlotsAt(ntx))
    BY <1>2, WithoutNextIs
  <2>2. w = f \/ w = [f EXCEPT ![o] = ZeroSlot]
    BY DEF WithoutNext
  <2>3. Len(w) = Len(f) /\ \A k \in 1 .. Len(f) : k # o => w[k] = f[k]
    BY <1>2, <2>2
  <2>4. \A k \in 1 .. m : k # o /\ k \in 1 .. Len(f)
    BY <1>7
  <2> QED
    BY <2>1, <2>3, <2>4
<1> HIDE DEF w
<1>9. Len(g) = Len(w) /\ \A k \in 1 .. e : g[k] = w[k]
  <2>1. \A k \in 1 .. Len(w) : k # i => g[k] = w[k]
    BY <1>8
  <2>2. \A k \in 1 .. e : k # i /\ k \in 1 .. Len(w)
    BY <1>7, <1>8
  <2>3. Len(g) = Len(w)
    BY <1>8
  <2> HIDE DEF g
  <2> QED
    BY <2>1, <2>2, <2>3
<1>10. g \in Seq(SlotsAt(ntx)) /\ base \in JournalAt(ntx) /\ synced \in JournalAt(ntx)
       /\ synced.exists /\ synced.slots = w
  <2>1. synced \in JournalAt(ntx) /\ synced.exists /\ synced.slots = w
    BY Zenon, <1>2, <1>8, JournalIs DEF JournalAt
  <2> DEFINE x == [w[i] EXCEPT !.magic = TRUE, !.nRec = P.nRec]
  <2>2. i \in 1 .. Len(w) /\ w[i] \in SlotsAt(ntx) /\ P.nRec \in Nat
    BY <1>2, <1>7, <1>8 DEF PagerAt
  <2>3. w[i].kind = "header"
    <3>1. i \in 1 .. m
      BY <1>7
    <3> QED
      BY <1>7, <1>8, <3>1 DEF Unsynced, Filling, IsHeader
  <2>4. x \in SlotsAt(ntx)
    BY Zenon, <1>2, <2>2, <2>3, HeaderUp
  <2>5. g = [w EXCEPT ![i] = x]
    OBVIOUS
  <2> HIDE DEF x
  <2>6. g \in Seq(SlotsAt(ntx))
    BY <1>8, <2>4, <2>5, ExceptIs
  <2> HIDE DEF synced, g
  <2> QED
    BY <1>2, <2>1, <2>6
<1> HIDE DEF g, base
<1>11. jrnl'.slots = g
  BY <1>6, <1>10 DEF JournalAt
<1>12. \A k \in 1 .. e : g[k] = f[k] /\ w[k] = f[k]
  BY <1>7, <1>8, <1>9
<1>13. Written(Q) => Ahead(Q, g, djrnl')
  <2> SUFFICES ASSUME Written(Q) PROVE Ahead(Q, g, djrnl')
    OBVIOUS
  <2>1. Ahead(P, f, djrnl)
    BY <1>2, <1>3 DEF Written, DBody
  <2>2. CASE ~ fullSync
    <3>1. djrnl' = djrnl
      BY <1>6, <2>2
    <3> HIDE DEF P, f
    <3> QED
      BY <1>3, <1>12, <2>1, <3>1, AheadSame
  <2>3. CASE fullSync
    <3>1. djrnl'.exists /\ djrnl'.slots = w
      BY <1>6, <1>10, <2>3
    <3>2. e <= Len(w)
      BY <1>7, <1>8
    <3>3. Sections(f, e) /\ IsHeader(f, e) /\ ~ f[i].magic
      BY <1>7 DEF Unsynced, Filling
    <3>4. Sections(w, e)
      <4>1. Len(w) \in Nat /\ e <= Len(f)
        BY <1>7, <1>8
      <4>2. \A k \in 1 .. e : w[k] = f[k]
        BY <1>12
      <4> HIDE DEF e, f
      <4> QED
        BY ONLY <1>7, <3>2, <3>3, <4>1, <4>2, SameSections
    <3>5. Ends(w, e)
      <4>1. i \in 1 .. m
        BY <1>7
      <4>2. ~ w[i].magic
        BY <1>8, <3>3, <4>1
      <4>3. e # -1
        BY <1>7
      <4> HIDE DEF e
      <4> QED
        BY <4>2, <4>3 DEF Ends, readJournalHdr
    <3> QED
      BY <1>3, <1>12, <3>1, <3>2, <3>4, <3>5 DEF Ahead
  <2> QED
    BY <2>2, <2>3
<1>14. Saved(djrnl', db', Latest1')
  <2>1. CASE P.eState = "CACHEMOD"
    BY <1>1, <1>2, <2>1 DEF Saved, Latest1
  <2>2. CASE P.eState = "DBMOD"
    <3>1. Written(Q)
      BY <1>2, <1>3, <2>2 DEF Written
    <3> QED
      BY <1>1, <1>5, <1>11, <1>13, <3>1, WriterNext
  <2> QED
    BY <1>2, <2>1, <2>2
<1>15. lock[c] # NO_LOCK
  BY <1>2 DEF NO_LOCK, EXCLUSIVE_LOCK
<1> QED
  BY <1>1, <1>5, <1>11, <1>13, <1>14, <1>15, AheadStep

LEMMA SyncAhead ==
  ASSUME IInv, LInv, SBody, DBody, ~ Lax(setting), IInv', SBody', NEW c \in Conns, SyncJournal(c)
  PROVE  DBody'
<1> DEFINE P == pager[c]
           f == jrnl.slots
           m == P.journalOff
           o == m + 1
           z == Len(f) + 1
           where == IF P.goal = "spill" THEN "pageout" ELSE "pages"
           Q == Writes(P, where)
           R == [Q EXCEPT !.journalHdr = Q.journalOff]
           N == [R EXCEPT !.nRec = 0]
           r == [P |-> R, f |-> f]
           u == [P |-> N, f |-> f]
           t == writeJournalHdr(u)
<1>1. P.at = "sync" /\ UNCHANGED <<db, setting, history>>
  BY Zenon DEF SyncJournal, counters
<1>2. /\ P.goal \in {"spill", "commit"} /\ lock[c] = EXCLUSIVE_LOCK
      /\ P \in PagerAt(ntx) /\ ntx \in Nat /\ jrnl \in JournalAt(ntx) /\ jrnl.exists
      /\ f \in Seq(SlotsAt(ntx)) /\ Logged(setting, P, f, Latest1, ntx, P.eState # "DBMOD")
  BY <1>1, WriterAt
<1>3. ~ noSync
  BY DEF noSync, Lax, Synchronous
<1>4. /\ djrnl' = SyncedJournal
      /\ \/ Set(c, t.P) /\ jrnl' = [jrnl EXCEPT !.fresh = FALSE, !.slots = t.f]
         \/ Set(c, R) /\ jrnl' = [jrnl EXCEPT !.fresh = FALSE, !.slots = f]
  <2>1. [r EXCEPT !.P.nRec = 0] = u
    BY PairNoRecords
  <2>2. t = writeJournalHdr([r EXCEPT !.P.nRec = 0])
    BY <2>1
  <2>3. r.P = R
    OBVIOUS
  <2> HIDE DEF t
  <2> QED
    BY Zenon, <1>3, <2>2, <2>3 DEF SyncJournal, Writes, Unneeded
<1>5. Sections(f, m) /\ Ends(f, m) /\ m \in 1 .. Len(f) /\ m \in Nat /\ Len(f) \in Nat
  <2>1. m \in Nat
    BY <1>2 DEF PagerAt
  <2> QED
    BY <1>1, <1>2, <2>1, SyncedLog
<1>6. where \in Places
  BY DEF Places
<1> HIDE DEF P, where
<1>7. Q \in PagerAt(ntx) /\ Marked(P, Q) /\ SameLog(P, Q) /\ Q.eState = "DBMOD"
  BY <1>2, <1>6, WritesSame, WritesIs
<1> HIDE DEF Q
<1>8. /\ R \in PagerAt(ntx) /\ N \in PagerAt(ntx) /\ SamePlace(Q, R) /\ R.journalHdr = Q.journalOff
      /\ SamePlace(Q, N) /\ N.journalOff = Q.journalOff
  <2>1. R \in PagerAt(ntx)
    BY <1>7, NextHeader
  <2>2. N \in PagerAt(ntx)
    BY <2>1, NoRecords
  <2> QED
    BY Zenon, <1>7, <2>1, <2>2, NextSame
<1> HIDE DEF R, N
<1>9. u \in PairAt(ntx) /\ u.P = N /\ u.f = f
  BY <1>2, <1>8 DEF PairAt
<1> HIDE DEF u
<1>10. /\ t \in PairAt(ntx) /\ t.P.eState = "DBMOD" /\ t.P.goal = P.goal /\ t.P.journalHdr = m
       /\ \A k \in 1 .. m : t.f[k] = f[k]
  <2>1. /\ t \in PairAt(ntx) /\ t.P.journalHdr = N.journalOff /\ t.P.eState = N.eState /\ t.P.goal = N.goal
    BY <1>2, <1>9, HeaderWritten
  <2>2. t.f = Put(f, N.journalOff + 1, Header(noSync, InitialCount, N.dbOrigSize, N.tx))
    BY <1>9 DEF writeJournalHdr
  <2>3. N.journalOff = m /\ N.eState = "DBMOD" /\ N.goal = P.goal
    BY <1>7, <1>8 DEF SamePlace, Marked, SameLog
  <2> DEFINE x == Header(noSync, InitialCount, N.dbOrigSize, N.tx)
  <2>4. x \in SlotsAt(ntx)
    BY <1>2, <1>8, HeaderIs
  <2>5. t.f = Put(f, o, x)
    BY <2>2, <2>3
  <2> HIDE DEF x, t, f
  <2>6. o \in 1 .. z /\ z = Len(f) + 1
    BY <1>5
  <2> HIDE DEF o, z
  <2>7. \A k \in 1 .. Len(f) : k # o => t.f[k] = f[k]
    BY <1>2, <2>4, <2>5, <2>6, PutSame
  <2>8. \A k \in 1 .. m : k # o /\ k \in 1 .. Len(f)
    BY <1>5 DEF o
  <2> QED
    BY <2>1, <2>3, <2>7, <2>8
<1>11. R.eState = "DBMOD" /\ R.goal = P.goal /\ R.journalHdr = m
  BY <1>7, <1>8 DEF SamePlace, Marked, SameLog
<1>12. djrnl'.exists /\ djrnl'.slots = f
  <2>1. djrnl' = [jrnl EXCEPT !.fresh = FALSE]
    BY <1>4 DEF SyncedJournal
  <2> QED
    BY <1>2, <2>1 DEF JournalAt
<1>13. t.f \in Seq(SlotsAt(ntx))
  BY <1>10 DEF PairAt
<1> HIDE DEF t
<1>14. \E Z, g : /\ Set(c, Z) /\ jrnl'.slots = g /\ Z.eState = "DBMOD" /\ Z.goal = P.goal /\ Z.journalHdr = m
                 /\ \A k \in 1 .. m : g[k] = f[k]
  <2>1. CASE Set(c, t.P) /\ jrnl' = [jrnl EXCEPT !.fresh = FALSE, !.slots = t.f]
    <3>1. jrnl'.slots = t.f
      BY <1>2, <2>1 DEF JournalAt
    <3> QED
      BY <1>10, <2>1, <3>1
  <2>2. CASE Set(c, R) /\ jrnl' = [jrnl EXCEPT !.fresh = FALSE, !.slots = f]
    <3>1. jrnl'.slots = f
      BY <1>2, <2>2 DEF JournalAt
    <3> QED
      BY <1>11, <2>2, <3>1
  <2> QED
    BY <1>4, <2>1, <2>2
<1>15. PICK Z, g : /\ Set(c, Z) /\ jrnl'.slots = g /\ Z.eState = "DBMOD" /\ Z.goal = P.goal /\ Z.journalHdr = m
                   /\ \A k \in 1 .. m : g[k] = f[k]
  BY <1>14
<1>16. pager'[c] = Z /\ pager' = [pager EXCEPT ![c] = pager'[c]]
  BY <1>15 DEF Set, IInv
<1>17. Ahead(Z, g, djrnl') /\ Written(Z)
  <2>1. m <= Len(f)
    BY <1>5
  <2> HIDE DEF m, f
  <2> QED
    BY <1>2, <1>5, <1>12, <1>15, <2>1 DEF Ahead, Written
<1>18. Saved(djrnl', db', Latest1')
  BY <1>1, <1>15, <1>16, <1>17, WriterNext
<1>19. lock[c] # NO_LOCK
  BY <1>2 DEF NO_LOCK, EXCLUSIVE_LOCK
<1> QED
  BY <1>1, <1>15, <1>16, <1>17, <1>18, <1>19, AheadStep

(* Pages go to the file.                                                   *)
LEMMA AheadWrites ==
  ASSUME IInv, LInv, DBody, ~ Lax(setting), IInv', SBody', NEW c \in Conns, NEW Q, Set(c, Q), Q.eState = "DBMOD",
         pager[c].eState = "DBMOD", Q.journalHdr = pager[c].journalHdr, pager[c].goal # "rollback", Q.goal # "rollback",
         UNCHANGED <<jrnl, djrnl, setting>>
  PROVE  DBody'
<1> DEFINE P == pager[c]
<1>1. pager'[c] = Q
  BY DEF Set, IInv
<1>2. Written(P) /\ Written(Q)
  BY DEF Written
<1>3. Ahead(P, jrnl.slots, djrnl)
  BY <1>2 DEF DBody
<1>4. Ahead(Q, jrnl.slots, djrnl)
  BY <1>3, AheadSame
<1>5. Saved(djrnl', db', Latest1')
  BY <1>1, <1>2, <1>4, WriterNext
<1> QED
  BY <1>5, AheadKept

LEMMA PageOutAhead ==
  ASSUME IInv, LInv, SBody, DBody, ~ Lax(setting), IInv', SBody', NEW c \in Conns, PageOut(c)
  PROVE  DBody'
<1> DEFINE P == pager[c]
           k == P.k
           R == Keep(P, Cached(P) \ {k})
           Q == [R EXCEPT !.at = "idle", !.goal = "none", !.k = 0]
           W == Write1(Q, k)
<1>1. UNCHANGED <<jrnl, djrnl, setting>> /\ P.at = "pageout"
  BY DEF PageOut, counters
<1>2. Set(c, W) \/ Set(c, Q)
  BY DEF PageOut
<1>3. P.eState = "DBMOD" /\ P.goal = "spill" /\ P \in PagerAt(ntx) /\ ntx \in Nat /\ 1 \in Cached(P) /\ k \in Cached(P) \ {1}
  BY <1>1, WriterAt
<1> HIDE DEF P
<1>4. k \in Nat /\ k # 1
  BY <1>3, PageIs, PagerAssumption
<1> HIDE DEF k
<1>5. OtherCache(P, R) /\ R \in PagerAt(ntx)
  BY <1>3, KeepSame, KeepIs
<1> HIDE DEF R
<1>6. Q.eState = R.eState /\ SameLog(R, Q) /\ Q \in PagerAt(ntx) /\ Q.goal = "none"
  BY Zenon, <1>5, OutSame, OutIs
<1> HIDE DEF Q
<1>7. SamePlace(Q, W) /\ SameLog(Q, W)
  BY <1>4, <1>6, Write1Same
<1> HIDE DEF W
<1>8. Q.eState = "DBMOD" /\ Q.journalHdr = P.journalHdr /\ Q.goal = "none"
  BY <1>3, <1>5, <1>6 DEF OtherCache, Same, SamePlace, SameLog
<1>9. W.eState = "DBMOD" /\ W.journalHdr = P.journalHdr /\ W.goal = "none"
  BY <1>7, <1>8 DEF SamePlace, SameLog
<1> QED
  BY <1>1, <1>2, <1>3, <1>8, <1>9, AheadWrites DEF P

LEMMA WriteDirtyPageAhead ==
  ASSUME IInv, LInv, SBody, DBody, ~ Lax(setting), IInv', SBody', NEW c \in Conns, WriteDirtyPage(c)
  PROVE  DBody'
<1> DEFINE P == pager[c]
           p == CHOOSE q \in Dirty(P) : \A r \in Dirty(P) : q <= r
           R == [P EXCEPT !.cache[p].dirty = FALSE]
           W == Write1(R, p)
<1>1. P.at = "pages" /\ Dirty(P) # {} /\ UNCHANGED <<jrnl, djrnl, setting>> /\ Set(c, W)
  BY DEF WriteDirtyPage, counters
<1>2. P.eState = "DBMOD" /\ P.goal = "commit" /\ P \in PagerAt(ntx) /\ ntx \in Nat
  BY <1>1, WriterAt
<1> HIDE DEF P
<1>3. p \in Dirty(P)
  <2>1. Dirty(P) \in SUBSET Nat
    BY <1>2, PageIs, PagerAssumption DEF Dirty
  <2>2. \E q \in Dirty(P) : \A r \in Dirty(P) : q <= r
    BY <1>1, <2>1, LeastNumber DEF P
  <2> QED
    BY <2>2
<1> HIDE DEF p
<1>4. p \in Cached(P) /\ p \in Nat
  BY <1>2, <1>3, PageIs, PagerAssumption DEF Dirty
<1>5. OtherCache(P, R) /\ R \in PagerAt(ntx)
  <2>1. R \in PagerAt(ntx)
    BY <1>2, <1>4, Unmarked
  <2>2. OtherCache(P, R)
    BY ONLY <1>2, <1>4, UnmarkedSame
  <2> QED
    BY <2>1, <2>2
<1> HIDE DEF R
<1>6. SamePlace(R, W) /\ SameLog(R, W)
  BY <1>4, <1>5, Write1Same
<1> HIDE DEF W
<1>7. W.eState = "DBMOD" /\ W.journalHdr = P.journalHdr /\ W.goal = "commit"
  BY <1>2, <1>5, <1>6 DEF OtherCache, Same, SamePlace, SameLog
<1> QED
  BY <1>1, <1>2, <1>7, AheadWrites DEF P

LEMMA SyncDbAhead ==
  ASSUME IInv, LInv, SBody, DBody, ~ Lax(setting), NEW c \in Conns, SyncDb(c)
  PROVE  DBody'
<1> DEFINE P == pager[c]
           h == Latest1
           R == Clean(P)
           Q == [R EXCEPT !.eState = "FINISHED", !.at = "finish",
                          !.dbFileSize = IF @ < P.dbSize THEN P.dbSize ELSE @]
<1>1. /\ P.at = "pages" /\ UNCHANGED <<jrnl, djrnl, setting, history>> /\ Set(c, Q)
      /\ db' = (IF P.dbSize > P.dbFileSize THEN Resize(db, P.dbSize) ELSE db)
  BY DEF SyncDb, counters
<1>2. /\ P.eState = "DBMOD" /\ P.goal = "commit" /\ P \in PagerAt(ntx) /\ ntx \in Nat /\ lock[c] = EXCLUSIVE_LOCK
      /\ db \in Seq(ContentAt(ntx)) /\ h \in Seq(Page) /\ Len(h) <= Len(db) /\ Sizes(P, db, h)
  BY <1>1, WriterAt
<1>3. Q.eState = "FINISHED"
  <2>1. R \in PagerAt(ntx)
    BY <1>2, CleanIs
  <2> HIDE DEF R
  <2> QED
    BY <2>1 DEF PagerAt
<1> HIDE DEF Q
<1>4. pager'[c] = Q /\ pager' = [pager EXCEPT ![c] = pager'[c]] /\ ~ Written(Q)
  BY <1>1, <1>3 DEF Set, IInv, Written
<1>5. Restored(djrnl, db, h)
  <2>1. Written(P)
    BY <1>2 DEF Written
  <2>2. Ahead(P, jrnl.slots, djrnl)
    BY <2>1 DEF DBody
  <2> QED
    BY <2>1, <2>2, AheadSaves DEF WritersSaved, Writer
<1>6. P.dbSize \in Nat /\ P.dbFileSize = Len(db) /\ Len(db) \in Nat /\ Len(h) \in Nat
  BY <1>2 DEF Sizes, PagerAt
<1>7. \A p \in 1 .. Len(h) : db'[p] = db[p]
  <2>1. CASE P.dbSize > P.dbFileSize
    <3>1. db' = Resize(db, P.dbSize)
      BY <1>1, <2>1
    <3>2. \A p \in 1 .. Len(h) : p \in 1 .. P.dbSize /\ p <= Len(db)
      BY <1>2, <1>6, <2>1
    <3> QED
      BY <1>2, <1>6, <3>1, <3>2, ResizedPages
  <2>2. CASE ~ (P.dbSize > P.dbFileSize)
    BY <1>1, <2>2
  <2> QED
    BY <2>1, <2>2
<1>8. Saved(djrnl', db', Latest1')
  <2>1. Restored(djrnl, db', h)
    BY <1>5, <1>7, RestoredKept
  <2> QED
    BY <1>1, <2>1 DEF Saved, Latest1
<1>9. lock[c] # NO_LOCK
  BY <1>2 DEF NO_LOCK, EXCLUSIVE_LOCK
<1> QED
  BY <1>1, <1>4, <1>8, <1>9, AheadStep

(* What a playback does to the file: no page of the image is lost.         *)
Mends(d, e, h) ==
  /\ Len(h) <= Len(e) /\ (h = << >> => e = d \/ e = << >>)
  /\ \A p \in 1 .. Len(h) : e[p] = d[p] \/ e[p] = h[p]

LEMMA MendsSaved ==
  ASSUME NEW k, NEW d, NEW e, NEW h, Saved(k, d, h), Mends(d, e, h)
  PROVE  Saved(k, e, h)
<1>1. Holds(d, h) => Holds(e, h)
  BY DEF Holds, Mends
<1>2. Restored(k, d, h) => Restored(k, e, h)
  <2> SUFFICES ASSUME Restored(k, d, h) PROVE Restored(k, e, h)
    OBVIOUS
  <2>1. \A p \in 1 .. Len(h) : e[p] = d[p] \/ e[p] = h[p]
    BY DEF Mends
  <2> QED
    BY <2>1, RestoredKept
<1> QED
  BY <1>1, <1>2 DEF Saved

LEMMA ResizeMends ==
  ASSUME NEW n \in Nat, NEW d \in Seq(ContentAt(n)), NEW h \in Seq(Page), Len(h) <= Len(d),
         NEW m \in Nat, Spans(m, h)
  PROVE  Mends(d, Resize(d, m), h)
<1>1. /\ Len(Resize(d, m)) = m
      /\ \A p \in 1 .. m : p <= Len(d) => Resize(d, m)[p] = d[p]
      /\ m = 0 => Resize(d, m) = << >>
  BY ResizedPages
<1>2. Len(h) \in Nat /\ Len(d) \in Nat
  BY NotEmpty
<1>3. \A p \in 1 .. Len(h) : p \in 1 .. m /\ p <= Len(d)
  BY <1>2 DEF Spans
<1> QED
  BY <1>1, <1>3 DEF Mends, Spans

LEMMA PlaybackMends ==
  ASSUME IInv, LInv, SBody, DBody, ~ Lax(setting), NEW c \in Conns, PlaybackSize(c) \/ PlaybackPage(c),
         Mends(db, db', Latest1)
  PROVE  DBody'
<1>1. UNCHANGED <<jrnl, djrnl, history, setting>>
  BY Zenon DEF PlaybackSize, PlaybackPage, counters
<1>2. pager[c].eState = "OPEN" \/ pager[c].goal = "rollback"
  BY Zenon, PlaysIs DEF PlaybackSize, PlaybackPage
<1>3. ~ Written(pager'[c]) /\ pager' = [pager EXCEPT ![c] = pager'[c]]
  BY <1>2, NoWriter DEF Ending, Writing
<1>4. Saved(djrnl, db', Latest1)
  BY MendsSaved DEF DBody
<1>5. Saved(djrnl', db', Latest1')
  BY <1>1, <1>4 DEF Latest1
<1> QED
  BY <1>1, <1>3, <1>5, AheadStep

LEMMA PlaybackSizeAhead ==
  ASSUME IInv, LInv, SBody, DBody, ~ Lax(setting), NEW c \in Conns, PlaybackSize(c)
  PROVE  DBody'
<1> DEFINE P == pager[c]
           f == jrnl.slots
           h == Latest1
           n == f[1].orig
<1>1. P.at = "play" /\ P.k = 0
  BY DEF PlaybackSize
<1>2. /\ P \in PagerAt(ntx) /\ Fares(setting, P, lock[c], c \in reserved, jrnl, db, h, history)
      /\ Safe(setting, jrnl, db, ntx, h, history) /\ f \in Seq(SlotsAt(ntx)) /\ h \in Seq(Page)
      /\ db \in Seq(ContentAt(ntx)) /\ ntx \in Nat
  BY Known DEF Fares
<1>3. \/ P.eState = "OPEN" /\ P.goal = "hot"
      \/ P.eState \in {"CACHEMOD", "DBMOD"} /\ P.goal = "rollback"
  BY <1>1, PlaysIs
<1>4. Own(P) = OwnIn(setting, P, f)
  BY SlotsAre
<1>5. Len(h) <= Len(db) /\ Gives(jrnl, db, h)
  BY <1>2 DEF Safe
<1>6. IsHeader(f, 0) => n \in Nat
  <2> SUFFICES ASSUME IsHeader(f, 0) PROVE n \in Nat
    OBVIOUS
  <2>1. 1 \in 1 .. Len(f) /\ f[1].kind = "header"
    BY <1>2 DEF IsHeader
  <2>2. f[1] \in HeaderSlots
    BY <1>2, <2>1, SlotIs
  <2> QED
    BY <2>2 DEF HeaderSlots
<1>7. db' = db \/ (readJournalHdr(f, 0, Own(P)) /\ db' = Resize(db, n))
  BY DEF PlaybackSize
<1>8. ASSUME readJournalHdr(f, 0, Own(P)) PROVE n \in Nat /\ Spans(n, h)
  <2>1. n \in Nat
    BY <1>6, <1>8 DEF readJournalHdr
  <2>2. CASE P.goal = "hot"
    <3>1. Recovers(setting, P, jrnl, db, h) /\ P.eState = "OPEN"
      BY <1>1, <2>2, HotIs
    <3>2. Own(P) = -1 /\ jrnl.exists
      BY <1>1, <1>4, <2>2, <3>1, HotSlots DEF Recovers
    <3>3. Restores(f, db, h)
      BY <1>5, <1>8, <3>2 DEF Gives, Readable
    <3> QED
      BY <2>1, <3>3 DEF Restores
  <2>3. CASE P.goal = "rollback"
    <3>1. Undoes(setting, P, f, db, h)
      BY <1>1, <1>3, <2>3, UndoIs
    <3>2. Plays(setting, P, f, db, h)
      BY <1>1, <3>1 DEF Undoes
    <3> QED
      BY <2>1, <3>2 DEF Plays
  <2> QED
    BY <1>3, <2>2, <2>3
<1>9. Mends(db, db', h)
  <2>1. CASE db' = db
    BY <1>5, <2>1 DEF Mends
  <2>2. CASE readJournalHdr(f, 0, Own(P)) /\ db' = Resize(db, n)
    <3>1. n \in Nat /\ Spans(n, h)
      BY <1>8, <2>2
    <3> HIDE DEF n, h, P
    <3> QED
      BY <1>2, <1>5, <2>2, <3>1, ResizeMends
  <2> QED
    BY <1>7, <2>1, <2>2
<1> QED
  BY <1>9, PlaybackMends

LEMMA PlaybackPageAhead ==
  ASSUME IInv, LInv, SBody, DBody, ~ Lax(setting), NEW c \in Conns, PlaybackPage(c)
  PROVE  DBody'
<1> DEFINE P == pager[c]
           f == jrnl.slots
           h == Latest1
           S == SlotsIn(setting, P, f)
           i == S[P.k]
           pg == f[i].pgno
           v == f[i].val
<1>1. P.at = "play"
  BY Zenon DEF PlaybackPage
<1>2. /\ P \in PagerAt(ntx) /\ Fares(setting, P, lock[c], c \in reserved, jrnl, db, h, history)
      /\ Safe(setting, jrnl, db, ntx, h, history) /\ f \in Seq(SlotsAt(ntx)) /\ h \in Seq(Page)
      /\ db \in Seq(ContentAt(ntx)) /\ ntx \in Nat
  BY Known DEF Fares
<1>3. \/ P.eState = "OPEN" /\ P.goal = "hot"
      \/ P.eState \in {"CACHEMOD", "DBMOD"} /\ P.goal = "rollback"
  BY <1>1, PlaysIs
<1>4. Slots(P) = S
  BY SlotsAre
<1>5. P.k \in 1 .. Len(S)
  BY Zenon, <1>4 DEF PlaybackPage
<1>6. db' = db \/ db' = WritePage(db, pg, v)
  BY Zenon, <1>4 DEF PlaybackPage
<1>7. i \in Range(S) /\ pg \in 1 .. MaxPage /\ v \in ContentAt(ntx) /\ pg \in Nat
  <2> DEFINE own == OwnIn(setting, P, f)
  <2>1. S = PlaybackSlots(f, own)
    BY DEF SlotsIn
  <2> HIDE DEF P, own, f, S, pg, v
  <2>2. i = PlaybackSlots(f, own)[P.k] /\ P.k \in 1 .. Len(PlaybackSlots(f, own))
    BY <1>5, <2>1
  <2> HIDE DEF i
  <2>3. i \in Range(PlaybackSlots(f, own)) /\ f[i].pgno \in 1 .. MaxPage /\ f[i].val \in ContentAt(ntx)
    BY <1>2, <2>2, RecordAt
  <2>4. i \in Range(S) /\ pg \in 1 .. MaxPage /\ v \in ContentAt(ntx)
    BY <2>1, <2>3 DEF pg, v
  <2> QED
    BY <2>4, PagerAssumption
<1>8. Len(h) <= Len(db) /\ Gives(jrnl, db, h) /\ NoneYet(f, h)
  BY <1>2 DEF Safe
<1>9. h # << >>
  <2> SUFFICES ASSUME h = << >> PROVE FALSE
    OBVIOUS
  <2>1. Range(S) = {}
    BY <1>2, <1>8, NothingPlayed DEF SlotsIn
  <2> QED
    BY <1>7, <2>1
<1>10. Right(f, Range(S), h)
  <2>1. CASE P.goal = "hot"
    <3>1. Recovers(setting, P, jrnl, db, h) /\ P.eState = "OPEN"
      BY <1>1, <2>1, HotIs
    <3>2. S = PlaybackSlots(f, -1) /\ jrnl.exists
      BY <1>1, <2>1, <3>1, HotSlots DEF Recovers
    <3>3. S # << >>
      BY <1>5
    <3>4. Readable(f)
      BY <1>2, <3>2, <3>3, NothingReadable
    <3>5. Restores(f, db, h)
      BY <1>8, <3>2, <3>4 DEF Gives
    <3> QED
      BY <3>2, <3>5 DEF Restores
  <2>2. CASE P.goal = "rollback"
    <3>1. Undoes(setting, P, f, db, h)
      BY <1>1, <1>3, <2>2, UndoIs
    <3>2. Plays(setting, P, f, db, h)
      BY <1>1, <3>1 DEF Undoes
    <3> QED
      BY <3>2 DEF Plays
  <2> QED
    BY <1>3, <2>1, <2>2
<1>11. pg <= Len(h) => v = h[pg]
  BY <1>7, <1>10 DEF Right
<1> HIDE DEF pg, v, S, h, P
<1>12. Mends(db, db', h)
  <2>1. CASE db' = db
    BY <1>8, <2>1 DEF Mends
  <2>2. CASE db' = WritePage(db, pg, v)
    <3>1. LET w == WritePage(db, pg, v) IN
          /\ Len(h) <= Len(w) /\ Gives(jrnl, w, h)
          /\ \A q \in 1 .. Len(h) : w[q] = IF q = pg THEN h[q] ELSE db[q]
      BY <1>2, <1>7, <1>8, <1>9, <1>11, Corrects
    <3> QED
      BY <1>9, <2>2, <3>1 DEF Mends
  <2> QED
    BY <1>6, <2>1, <2>2
<1> QED
  BY <1>12, PlaybackMends DEF h

(* The journal ends as a playback or a commit has left the file whole, ... *)
LEMMA Concluded ==
  ASSUME IInv, LInv, SBody, Trusted(setting), DBody, ~ Lax(setting), NEW c \in Conns, pager[c].at = "finish",
         FinishJournal(pager[c]), RecordCommit(pager[c]), UNCHANGED <<db, ddb, ntx, setting>>,
         pager' = [pager EXCEPT ![c] = pager'[c]], ~ Written(pager'[c])
  PROVE  DBody'
<1>1. Holds(db, Latest1') /\ db' = db /\ setting' = setting
  BY Concludes
<1>2. Saved(djrnl', db', Latest1')
  BY <1>1 DEF Saved
<1>3. lock[c] # NO_LOCK
  <2>1. \/ pager[c].eState = "OPEN" /\ pager[c].goal = "hot"
        \/ pager[c].eState \in Writing /\ pager[c].goal = "rollback"
        \/ pager[c].eState = "FINISHED" /\ pager[c].goal = "commit"
    BY EndsIs
  <2>2. CASE pager[c].goal = "hot"
    <3>1. lock[c] = EXCLUSIVE_LOCK
      BY <2>1, <2>2, HotIs
    <3> QED
      BY <3>1 DEF NO_LOCK, EXCLUSIVE_LOCK
  <2>3. CASE pager[c].goal # "hot"
    <3>1. Control(pager[c], lock[c], c \in reserved) /\ pager[c].eState \in Writing \cup {"FINISHED"} /\ lock \in [Conns -> Levels]
      BY <2>1, <2>3, EndsIs DEF IInv
    <3>2. lock[c] >= RESERVED_LOCK \/ lock[c] = EXCLUSIVE_LOCK
      BY <3>1 DEF Control, Acts
    <3> QED
      BY <3>2 DEF NO_LOCK, RESERVED_LOCK, EXCLUSIVE_LOCK
  <2> QED
    BY <2>2, <2>3
<1> QED
  BY <1>1, <1>2, <1>3, AheadStep

LEMMA FinishAhead ==
  ASSUME IInv, LInv, SBody, Trusted(setting), DBody, ~ Lax(setting), NEW c \in Conns, Finish(c)
  PROVE  DBody'
<1> DEFINE P == pager[c]
           Q == Ended(P)
<1>1. P.at = "finish" /\ FinishJournal(P) /\ RecordCommit(P) /\ Set(c, Q) /\ UNCHANGED <<db, ddb, ntx, setting>>
  BY DEF Finish, Ended
<1>2. P \in PagerAt(ntx) /\ ntx \in Nat /\ pager \in [Conns -> PagerAt(ntx)]
  BY Known DEF IInv
<1>3. Runs(P, Q)
  BY <1>2, EndedSame
<1> HIDE DEF Q
<1>4. Q.eState = P.eState /\ Q.goal = P.goal
  BY <1>3 DEF Runs
<1>5. P.eState \in {"OPEN", "FINISHED"} \/ P.goal = "rollback"
  BY <1>1, EndsIs
<1>6. ~ Written(Q) /\ pager'[c] = Q /\ pager' = [pager EXCEPT ![c] = pager'[c]]
  BY <1>1, <1>2, <1>4, <1>5 DEF Written, Set
<1> QED
  BY <1>1, <1>6, Concluded

LEMMA FinishFailsAhead ==
  ASSUME IInv, LInv, SBody, Trusted(setting), DBody, ~ Lax(setting), NEW c \in Conns, FinishFails(c)
  PROVE  DBody'
<1> DEFINE P == pager[c]
<1>1. P.at = "finish" /\ FinishJournal(P) /\ RecordCommit(P) /\ UNCHANGED <<db, ddb, ntx, setting>>
      /\ IF P.goal = "hot" THEN pager_unlock(c, Failed(P)) ELSE Set(c, InError(P))
  BY DEF FinishFails, Failed, InError
<1>2. P \in PagerAt(ntx) /\ pager \in [Conns -> PagerAt(ntx)]
  BY Known DEF IInv
<1>3. pager' = [pager EXCEPT ![c] = pager'[c]]
  BY AllAdvance DEF Mishap
<1>4. ~ Written(pager'[c])
  <2>1. CASE P.goal = "hot"
    <3>1. P.eState = "OPEN"
      BY <1>1, <2>1, EndsIs
    <3> QED
      BY <3>1, NoWriter DEF Mishap, Writing
  <2>2. CASE P.goal # "hot"
    <3>1. InError(P).eState = "ERROR"
      BY <1>2 DEF InError, PagerAt
    <3>2. pager'[c] = InError(P)
      BY <1>1, <1>2, <2>2 DEF Set
    <3> QED
      BY <3>1, <3>2 DEF Written
  <2> QED
    BY <2>1, <2>2
<1> QED
  BY <1>1, <1>3, <1>4, Concluded

(* ... and who has released it relies on the file.                         *)
LEMMA ReleaseAhead ==
  ASSUME IInv, LInv, SBody, DBody, ~ Lax(setting), SBody', NEW c \in Conns, Release(c)
  PROVE  DBody'
<1> DEFINE P == pager[c]
<1>1. /\ P.at = "release" /\ Set(c, IF P.goal = "hot" THEN Rereads(P) ELSE Reads1(P))
      /\ UNCHANGED <<jrnl, djrnl, setting>>
  BY DEF Release, Released, Rereads, Reads1, counters
<1>2. P \in PagerAt(ntx) /\ pager \in [Conns -> PagerAt(ntx)]
  BY Known DEF IInv
<1>3. P.goal = "hot" => P.eState = "OPEN"
  BY <1>1, EndsIs
<1>4. pager'[c] = (IF P.goal = "hot" THEN Rereads(P) ELSE Reads1(P)) /\ pager' = [pager EXCEPT ![c] = pager'[c]]
  BY <1>1, <1>2 DEF Set
<1>5. /\ Rereads(P).eState = P.eState /\ Rereads(P).at = "version"
      /\ Reads1(P).eState = "READER"
  BY <1>2, ReleasedSame
<1>6. pager'[c].eState = "READER" \/ (pager'[c].eState = "OPEN" /\ pager'[c].at = "version")
  BY <1>3, <1>4, <1>5
<1>7. Fares(setting', pager'[c], lock'[c], (c \in reserved)', jrnl', db', Latest1', history')
  BY DEF SBody
<1>8. Relies(pager'[c], lock'[c], (c \in reserved)')
  BY <1>6 DEF Relies
<1>9. Holds(db', Latest1')
  BY <1>7, <1>8 DEF Fares
<1>10. Saved(djrnl', db', Latest1') /\ ~ Written(pager'[c])
  BY <1>6, <1>9 DEF Saved, Written
<1> QED
  BY <1>1, <1>4, <1>10, AheadStep

(* Every step keeps it, from the start.                                    *)
LEMMA InitAhead == Init => DInv
<1> SUFFICES ASSUME Init PROVE DBody
  BY DEF DInv
<1> DEFINE h == Image(db)
<1>1. setting \in Settings /\ db = setting.initDb /\ pager = [c \in Conns |-> Fresh] /\ history = << h >>
  BY DEF Init
<1>2. db \in Seq(ContentAt(ntx)) /\ (db = << >> \/ db[1].sz \in 1 .. Len(db))
  <2>1. db \in Seq(ContentAt(ntx))
    BY InitIInv DEF IInv
  <2> QED
    BY <1>1, <2>1, PagerAssumption DEF Setting
<1>3. Holds(db, h)
  BY <1>2, InitImage
<1> HIDE DEF h
<1>4. Latest1 = h
  BY <1>1 DEF Latest1, Latest
<1>5. Saved(djrnl, db, Latest1)
  BY <1>3, <1>4 DEF Saved
<1>6. ASSUME NEW c \in Conns PROVE ~ Written(pager[c])
  <2>1. pager[c] = Fresh
    BY <1>1
  <2> QED
    BY <2>1 DEF Written, Fresh
<1> QED
  BY <1>5, <1>6 DEF DBody

LEMMA StepAhead ==
  ASSUME IInv, LInv, SBody, DBody, Trusted(setting), ~ Lax(setting), IInv', SBody',
         NEW c \in Conns, Opening(c) \/ Working(c) \/ Syncing(c) \/ Ending(c) \/ Mishap(c)
  PROVE  DBody'
<1>1. CASE Opening(c)
  BY <1>1, OpeningAhead
<1>2. CASE Working(c)
  <2>1. CASE EndRead(c) \/ PagerBegin(c) \/ BeginExclusive(c)
    BY <2>1, ReadingAhead
  <2>2. CASE Vacuum(c)
    BY <2>2, VacuumAhead
  <2>3. ASSUME NEW p \in 1 .. setting.pages, Get(c, p) \/ Write(c, p) \/ Spill(c, p) PROVE DBody'
    <3>1. CASE Get(c, p)
      BY <3>1, ReadingAhead
    <3>2. CASE Write(c, p)
      BY <3>2, WriteAhead1
    <3>3. CASE Spill(c, p)
      BY <3>3, AimAhead
    <3> QED
      BY <2>3, <3>1, <3>2, <3>3
  <2> QED
    BY <1>2, <2>1, <2>2, <2>3 DEF Working
<1>3. CASE Syncing(c)
  <2>1. CASE Commit(c) \/ ExclusiveLock(c)
    BY <2>1, AimAhead
  <2>2. CASE CommitPhaseOne(c)
    BY <2>2, CommitPhaseOneAhead
  <2>3. CASE WriteRecordCount(c)
    BY <2>3, CountAhead
  <2>4. CASE SyncJournal(c)
    BY <2>4, SyncAhead
  <2>5. CASE PageOut(c)
    BY <2>5, PageOutAhead
  <2>6. CASE WriteDirtyPage(c)
    BY <2>6, WriteDirtyPageAhead
  <2>7. CASE SyncDb(c)
    BY <2>7, SyncDbAhead
  <2> QED
    BY <1>3, <2>1, <2>2, <2>3, <2>4, <2>5, <2>6, <2>7 DEF Syncing
<1>4. CASE Ending(c)
  <2>1. CASE Rollback(c)
    BY <2>1, RollbackAhead
  <2>2. CASE PlaybackSize(c)
    BY <2>2, PlaybackSizeAhead
  <2>3. CASE PlaybackPage(c)
    BY <2>3, PlaybackPageAhead
  <2>4. CASE PlaybackSync(c) \/ LeaveError(c)
    BY <2>4, ReadingAhead
  <2>5. CASE Finish(c)
    BY <2>5, FinishAhead
  <2>6. CASE Release(c)
    BY <2>6, ReleaseAhead
  <2> QED
    BY <1>4, <2>1, <2>2, <2>3, <2>4, <2>5, <2>6 DEF Ending
<1>5. CASE Mishap(c)
  BY <1>5, FailAhead, FinishFailsAhead DEF Mishap
<1> QED
  BY <1>1, <1>2, <1>3, <1>4, <1>5

LEMMA KeepsAhead == IInv /\ LInv /\ SInv /\ ReservedIs /\ DInv /\ [Next]_vars => DInv'
<1> SUFFICES ASSUME IInv, LInv, SInv, ReservedIs, DInv, [Next]_vars, mishaps'.power = 0, Trusted(setting')
             PROVE  DBody'
  BY DEF DInv
<1>1. mishaps \in [crash : Nat, power : Nat, fault : Nat] /\ IInv' /\ SInv'
  BY Preserved, KeepsStore DEF SInv
<1>2. ASSUME NEW c \in Conns, Opening(c) \/ Working(c) \/ Syncing(c) \/ Ending(c) \/ Mishap(c)
      PROVE  DBody'
  <2>1. mishaps'.power = mishaps.power /\ setting' = setting
    BY <1>1, <1>2, StepCounts
  <2>2. mishaps.power = 0 /\ Trusted(setting)
    BY <2>1
  <2>3. SBody /\ DBody /\ SBody'
    BY <1>1, <2>2 DEF SInv, DInv
  <2>4. CASE Lax(setting)
    BY <2>1, <2>4 DEF DBody
  <2>5. CASE ~ Lax(setting)
    BY <1>1, <1>2, <2>2, <2>3, <2>5, StepAhead
  <2> QED
    BY <2>4, <2>5
<1>3. CASE PowerFailure
  <2>1. mishaps' = [mishaps EXCEPT !.power = @ + 1]
    BY <1>3 DEF PowerFailure
  <2>2. mishaps'.power # 0
    BY <1>1, <2>1
  <2> QED
    BY <2>2
<1>4. CASE UNCHANGED vars
  <2>1. DBody
    BY <1>4 DEF vars, DInv
  <2> QED
    BY <1>4, <2>1 DEF vars, DBody, Latest1
<1> QED
  BY <1>2, <1>3, <1>4 DEF Next

(* The journal is ahead of the database file: unless syncs are off, a file *)
(* that holds something that was not committed has on the disk a journal   *)
(* that takes it back, through commits, spills, rollbacks and recoveries   *)
(* that crashes and failing calls interrupt at any step.                   *)
THEOREM JournalIsAhead == Spec => [](Unharmed => WriteAhead)
<1>1. IInv /\ SInv /\ DInv => (Unharmed => WriteAhead)
  <2> SUFFICES ASSUME IInv, SBody, DBody, ~ Lax(setting), Image(db) \notin Committed
               PROVE  djrnl.exists /\ Image(Recovered(djrnl.slots, db)) \in Committed
    BY DEF SInv, DInv, Unharmed, WriteAhead, noSync, Synchronous, Lax
  <2> DEFINE h == Latest1
  <2>1. h \in Committed /\ h \in Seq(Page) /\ Whole(h) /\ djrnl \in JournalAt(ntx) /\ db \in Seq(ContentAt(ntx))
        /\ Len(h) <= Len(db) /\ Saved(djrnl, db, h)
    BY StoredIs DEF IInv, SBody, Safe, DBody
  <2> HIDE DEF h
  <2>2. ~ Holds(db, h)
    BY <2>1, HeldIsStored
  <2>3. djrnl.exists /\ Gives(djrnl, db, h)
    BY <2>1, <2>2 DEF Saved, Restored, Gives
  <2>4. Image(Recovered(djrnl.slots, db)) = h
    BY <2>1, <2>3, GivenIsStored
  <2> QED
    BY <2>1, <2>3, <2>4
<1>2. Spec => []DInv
  <2>1. Init => DInv
    BY InitAhead
  <2>2. (IInv /\ LInv /\ SInv /\ ReservedIs) /\ DInv /\ [Next]_vars => DInv'
    BY KeepsAhead
  <2> QED
    BY <2>1, <2>2, Kept1, PTL DEF Spec
<1> QED
  BY <1>1, <1>2, Kept1, PTL
=============================================================================
