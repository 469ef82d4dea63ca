------------------------------- MODULE Pager -------------------------------
(***************************************************************************)
(* pager.c of SQLite with a rollback journal: connections, each in a       *)
(* process of its own, on one database file.  Locks are what FileLock      *)
(* promises.  One action is one system call that another process, a crash  *)
(* or a power failure can tell from its neighbours, with the memory the    *)
(* code sets around it.                                                    *)
(*                                                                         *)
(* A file is kept twice: as the operating system shows it, and as it is on *)
(* the disk.  A power failure leaves, page by page and slot by slot, the   *)
(* one or the other or something torn, unless a sync made them equal.      *)
(***************************************************************************)
EXTENDS Journal, LockLevels, FiniteSets

CONSTANTS Conns, None,
          MaxPage, MaxTx,  \* bounds: pages of a database, transactions
          Settings         \* the settings a behaviour may have, see Setting

\* How the connections are configured, the file they find (made by transaction 1),
\* after how many records the journal is at a sector's end again (64 with sectors
\* of 512 bytes), and bounds on the transactions, the pages and what goes wrong.
Setting ==
  [ journalMode : {"delete", "truncate", "persist"},
    synchronous : {"off", "normal", "full", "extra"},
    initDb : { d \in Seq([ver : {1}, sz : 0 .. MaxPage]) : d = <<>> \/ d[1].sz \in 1 .. Len(d) },
    spilling : BOOLEAN, vacuuming : BOOLEAN, exclusive : BOOLEAN, sector : Nat \ {0},
    pages : 0 .. MaxPage, txs : 0 .. MaxTx, crash : Nat, power : Nat, fault : Nat ]

ASSUME PagerAssumption ==
  MaxPage \in Nat \ {0} /\ MaxTx \in Nat \ {0} /\ Settings \subseteq Setting
\* Who sees nothing is told apart from who sees a database.
ASSUME NoneAssumption == None \notin Seq([ver : Int, sz : Int])

VARIABLES pager,         \* the connections
          lock, reserved,  \* their locks, as FileLock has them
          db, jrnl,      \* the files, as the system shows them
          ddb, djrnl,    \* and as they are on the disk
          ntx,           \* transactions begun: the stamp of the last one
          history,       \* every image that was ever committed
          setting,       \* what this behaviour was configured to be
          mishaps        \* crashes, power failures and failed calls so far

JournalMode == setting.journalMode
Synchronous == setting.synchronous
noSync == Synchronous = "off"
fullSync == Synchronous \in {"full", "extra"}
\* (A bug for the checks: the directory is never synced.)
NeverExtra == FALSE
extraSync == Synchronous = "extra"

vars == <<pager, lock, reserved, db, jrnl, ddb, djrnl, ntx, history, setting, mishaps>>
levels == <<lock, reserved>>
files == <<db, jrnl, ddb, djrnl>>
counters == <<ntx, history, setting, mishaps>>

Locks == INSTANCE FileLock WITH level <- lock

NoJournal == [exists |-> FALSE, slots |-> <<>>, fresh |-> FALSE]

Fresh == [ eState |-> "OPEN", at |-> "idle", goal |-> "none",
           cache |-> <<>>, dbSize |-> 0, dbOrigSize |-> 0, dbFileSize |-> 0,
           dbFileVers |-> Zero, hasHeldSharedLock |-> FALSE, changeCountDone |-> FALSE,
           bDoTruncate |-> FALSE,
           journalHdr |-> 0, journalOff |-> 0, nRec |-> 0, pInJournal |-> {},
           tx |-> 0, k |-> 0 ]

Init ==
  /\ pager = [c \in Conns |-> Fresh]
  /\ lock = [c \in Conns |-> NO_LOCK] /\ reserved = {}
  /\ setting \in Settings
  /\ db = setting.initDb /\ ddb = db
  /\ jrnl = NoJournal /\ djrnl = NoJournal
  /\ ntx = (IF db = <<>> THEN 0 ELSE 1) /\ history = <<Image(db)>>
  /\ mishaps = [crash |-> 0, power |-> 0, fault |-> 0]

Writing == {"LOCKED", "CACHEMOD", "DBMOD"}
Idle(c) == pager[c].at = "idle"
Set(c, P) == pager' = [pager EXCEPT ![c] = P]
Goto(c, where) == Set(c, [pager[c] EXCEPT !.at = where])

\* Caches are functions from page numbers to [val, dirty, needSync].
Cached(P) == DOMAIN P.cache
Store(P, p, e) ==
  [P EXCEPT !.cache = [q \in Cached(P) \cup {p} |-> IF q = p THEN e ELSE P.cache[q]]]
Keep(P, S) == [P EXCEPT !.cache = [q \in Cached(P) \cap S |-> P.cache[q]]]
\* sqlite3PcacheTruncate: page 1 stays, as zeros, for who holds it.
Truncate(P, n) ==
  IF n = 0 /\ 1 \in Cached(P) THEN [Keep(P, {1}) EXCEPT !.cache[1].val = Zero]
  ELSE Keep(P, 1 .. n)
pager_reset(P) == [P EXCEPT !.cache = <<>>]
Clean(P) ==
  [P EXCEPT !.cache = [q \in Cached(P) |-> [P.cache[q] EXCEPT !.dirty = FALSE, !.needSync = FALSE]]]

\* getPageNormal: pages behind the end of the database are zeros.
getPage(P, p) ==
  IF p \in Cached(P) THEN P
  ELSE IF P.dbSize < p THEN Store(P, p, [val |-> Zero, dirty |-> FALSE, needSync |-> FALSE])
  ELSE LET v == IF p <= Len(db) THEN db[p] ELSE Zero
           Q == Store(P, p, [val |-> v, dirty |-> FALSE, needSync |-> FALSE])
       IN IF p = 1 THEN [Q EXCEPT !.dbFileVers = v] ELSE Q

\* unixSync: the file becomes j, on the disk too if it is synced. Only who has
\* opened it to write a journal syncs the directory, which makes a new name last
\* (UNIXFILE_DIRSYNC).
SyncJournalFile(P, j, sync) ==
  LET fresh == jrnl.fresh /\ (~sync \/ P.goal = "hot")
  IN /\ jrnl' = [j EXCEPT !.fresh = fresh]
     /\ djrnl' = IF sync /\ ~fresh THEN jrnl' ELSE djrnl

\* (A bug for the checks: the cache outlives an error.)
UnlockKeepingCache(c, P) ==
  /\ Set(c, [P EXCEPT !.eState = "OPEN", !.at = "idle", !.goal = "none", !.pInJournal = {},
                      !.journalOff = 0, !.journalHdr = 0, !.changeCountDone = FALSE,
                      !.bDoTruncate = FALSE, !.k = 0])
  /\ Locks!Vanish({c})

\* pager_unlock: back to OPEN without a lock; after an error without the cache.
pager_unlock(c, P) ==
  /\ Set(c, [ (IF P.eState = "ERROR" THEN pager_reset(P) ELSE P) EXCEPT
                !.eState = "OPEN", !.at = "idle", !.goal = "none", !.pInJournal = {},
                !.journalOff = 0, !.journalHdr = 0, !.changeCountDone = FALSE,
                !.bDoTruncate = FALSE, !.k = 0 ])
  /\ Locks!Vanish({c})

-----------------------------------------------------------------------------
(* sqlite3PagerSharedLock. *)

SharedLock(c) ==
  /\ pager[c].eState = "OPEN" /\ Idle(c)
  /\ Locks!Share(c)
  /\ Goto(c, "access")
  /\ UNCHANGED <<files, counters>>

\* hasHotJournal asks three times: is there a journal, is nobody at work with
\* it, does it start with a byte that is not zero. Time passes in between.
HotAccess(c) ==
  /\ pager[c].at = "access"
  /\ Goto(c, IF jrnl.exists THEN "reserved" ELSE "version")
  /\ UNCHANGED <<levels, files, counters>>

\* The reserved byte is asked for.
HotReserved(c) ==
  /\ pager[c].at = "reserved"
  /\ Goto(c, IF reserved # {} THEN "version" ELSE IF Len(db) = 0 THEN "empty" ELSE "first")
  /\ UNCHANGED <<levels, files, counters>>

\* An empty database needs no journal.
HotEmpty(c) ==
  /\ pager[c].at = "empty"
  /\ \/ Locks!Reserve(c) /\ Goto(c, "clear")
     \/ Goto(c, "version") /\ UNCHANGED levels
  /\ UNCHANGED <<files, counters>>

HotClear(c) ==
  /\ pager[c].at = "clear"
  /\ jrnl' = NoJournal
  /\ Locks!Lower(c, SHARED_LOCK)
  /\ Goto(c, "version")
  /\ UNCHANGED <<db, ddb, djrnl, counters>>

\* The first byte of a journal: zero if it is empty, was ended, or has not been
\* synced. A journal that can no longer be opened counts as hot.
FirstBytes ==
  IF ~jrnl.exists THEN {"nonzero"}
  ELSE IF jrnl.slots = <<>> THEN {"zero"}
  ELSE CASE jrnl.slots[1].kind = "header" -> {IF jrnl.slots[1].magic THEN "nonzero" ELSE "zero"}
         [] jrnl.slots[1].kind = "zero" -> {"zero"}
         [] OTHER -> {"zero", "nonzero"}

HotFirst(c) ==
  /\ pager[c].at = "first"
  /\ \E first \in FirstBytes : Goto(c, IF first = "zero" THEN "version" ELSE "hot")
  /\ UNCHANGED <<levels, files, counters>>

\* EXCLUSIVE without RESERVED on the way, or the call is given up.
HotExclusive(c) ==
  /\ pager[c].at = "hot"
  /\ \/ Locks!Exclude(c) /\ Goto(c, "open")
     \/ Locks!Pend(c) /\ UNCHANGED pager
     \/ pager_unlock(c, pager[c])
  /\ UNCHANGED <<files, counters>>

\* The journal may have gone; if not, it is synced before the database is
\* touched.
HotOpen(c) ==
  /\ pager[c].at = "open"
  /\ IF jrnl.exists
     THEN LET P == [pager[c] EXCEPT !.at = "play", !.goal = "hot", !.k = 0, !.journalOff = 0]
          IN Set(c, P) /\ SyncJournalFile(P, jrnl, ~noSync) /\ UNCHANGED levels
     ELSE /\ Locks!Lower(c, SHARED_LOCK) /\ Goto(c, "version")
          /\ UNCHANGED <<jrnl, djrnl>>
  /\ UNCHANGED <<db, ddb, counters>>

\* (A bug for the checks: the cache is kept whatever has been committed.)
AnyVersion(P, now) == P
Revalidated(P, now) ==
  IF P.hasHeldSharedLock /\ P.dbFileVers # now THEN pager_reset(P) ELSE P

Size(P) == P.cache[1].val.sz

\* lockBtree: a file that has pages is a database if page 1 says so and counts no
\* page behind the end.
lockBtree(P) == Size(P) <= Len(db) /\ (Size(P) = 0 => db = <<>>)

\* The rest of the call: the cache is kept if the change counter is the one it
\* was filled under. The b-tree then reads page 1 and keeps it; if it is none of a
\* database, it is given back.
SharedLockDone(c) ==
  LET P == pager[c]
      now == IF db = <<>> THEN Zero ELSE db[1]
      Q == getPage([Revalidated(P, now) EXCEPT !.eState = "READER", !.at = "idle", !.goal = "none",
                                               !.hasHeldSharedLock = TRUE, !.dbSize = Len(db)], 1)
  IN /\ P.at = "version"
     /\ IF lockBtree(Q) THEN Set(c, Q) /\ UNCHANGED levels ELSE pager_unlock(c, Q)
     /\ UNCHANGED <<files, counters>>

-----------------------------------------------------------------------------
(* Reading and writing pages. *)

Get(c, p) ==
  /\ pager[c].eState = "READER" /\ Idle(c)
  /\ p \in 1 .. Size(pager[c]) /\ p \notin Cached(pager[c])
  /\ Set(c, getPage(pager[c], p))
  /\ UNCHANGED <<levels, files, counters>>

\* The last page is given back.
EndRead(c) ==
  /\ pager[c].eState = "READER" /\ Idle(c)
  /\ pager_unlock(c, pager[c])
  /\ UNCHANGED <<files, counters>>

Locked(c, P) ==
  /\ Set(c, [P EXCEPT !.eState = "LOCKED", !.at = "idle", !.dbFileSize = P.dbSize,
                      !.dbOrigSize = P.dbSize, !.journalOff = 0, !.tx = ntx + 1])
  /\ ntx' = ntx + 1

Reserving(c) == \/ lock[c] >= RESERVED_LOCK /\ UNCHANGED levels
                \/ Locks!Reserve(c)

\* sqlite3PagerBegin. With BEGIN EXCLUSIVE a reader that does not become
\* exclusive is left a reader with the locks it has got.
PagerBegin(c) ==
  /\ pager[c].eState = "READER" /\ Idle(c)
  /\ ntx < setting.txs
  /\ Reserving(c)
  /\ \/ Locked(c, pager[c])
     \/ setting.exclusive /\ Goto(c, "exclusive") /\ UNCHANGED ntx
  /\ UNCHANGED <<files, history, setting, mishaps>>

BeginExclusive(c) ==
  /\ pager[c].at = "exclusive"
  /\ \/ Locks!Exclude(c) /\ Locked(c, pager[c])
     \/ lock[c] = EXCLUSIVE_LOCK /\ Locked(c, pager[c]) /\ UNCHANGED levels
     \/ Locks!Pend(c) /\ UNCHANGED <<pager, ntx>>
     \/ Goto(c, "idle") /\ UNCHANGED <<levels, ntx>>
  /\ UNCHANGED <<files, history, setting, mishaps>>

\* (A bug for the checks: a journal that is never synced counts no records.)
NoCount == 0
\* Without syncs the count is left to the size of the file.
InitialCount == IF noSync THEN ALL ELSE 0

\* A pair of a pager and the slots of the journal it writes.
writeJournalHdr(s) ==
  [ P |-> [s.P EXCEPT !.journalHdr = s.P.journalOff, !.journalOff = @ + 1],
    f |-> Put(s.f, s.P.journalOff + 1,
              Header(noSync, InitialCount, s.P.dbOrigSize, s.P.tx)) ]

\* pager_open_journal: a file that is left over is written over from its start.
OpenJournal(s) ==
  writeJournalHdr([s EXCEPT !.P = [@ EXCEPT !.eState = "CACHEMOD", !.pInJournal = {},
                                            !.nRec = 0, !.journalOff = 0]])

\* pagerAddPageToRollbackJournal, for a page that is in the cache.
AddToJournal(s, p) ==
  [ P |-> [s.P EXCEPT !.cache[p].needSync = TRUE, !.journalOff = @ + 1, !.nRec = @ + 1,
                      !.pInJournal = @ \cup {p}],
    f |-> Put(s.f, s.P.journalOff + 1, Record(p, s.P.cache[p].val, s.P.tx)) ]

\* A page behind the end of the original database needs the header on disk first,
\* so that a rollback knows to cut it off.
Appended(P, p) == [P EXCEPT !.cache[p].needSync = @ \/ P.eState # "DBMOD"]
Journaled(s, p) ==
  IF p \in s.P.pInJournal THEN s
  ELSE IF p <= s.P.dbOrigSize THEN AddToJournal(s, p)
  ELSE [s EXCEPT !.P = Appended(@, p)]

\* pager_write, after getPage, and then the change of the page itself.
Modified(P, p, val) == [P EXCEPT !.cache[p].dirty = TRUE, !.cache[p].val = val,
                                 !.dbSize = IF @ < p THEN p ELSE @]
pager_write(s, p, val) ==
  LET t == Journaled([s EXCEPT !.P = getPage(@, p)], p) IN [t EXCEPT !.P = Modified(@, p, val)]

\* What is open for the writing pager of c: its record and the journal's slots.
Opened(c) ==
  LET s == [P |-> pager[c], f |-> jrnl.slots]
  IN IF pager[c].eState = "LOCKED" THEN OpenJournal(s) ELSE s

\* The pair becomes the state.
Wrote(c, s) ==
  /\ Set(c, s.P)
  /\ jrnl' = [exists |-> TRUE, slots |-> s.f, fresh |-> jrnl.fresh \/ ~jrnl.exists]

\* getPageNormal of a new page, whose old content nobody needs.
Unwanted(P, p) ==
  [ Store(P, p, [val |-> Zero, needSync |-> p \in Cached(P) /\ P.cache[p].needSync,
                 dirty |-> p \in Cached(P) /\ P.cache[p].dirty])
    EXCEPT !.pInJournal = @ \cup ({p} \cap 1 .. P.dbOrigSize) ]
NoContent(s, p) == [s EXCEPT !.P = Unwanted(@, p)]

\* (A bug for the checks: nor of one that a vacuum gave up.)
NeverContent(s, p) == NoContent(s, p)
\* After a vacuum what is there may be wanted by a rollback.
NewPage(s, p) == IF s.P.bDoTruncate THEN s ELSE NoContent(s, p)

\* The b-tree changes a page, or adds one behind the last and counts it in the
\* header.
Write(c, p) ==
  LET P == pager[c]
      n == Size(P)
      s == Opened(c)
      header == [ver |-> P.cache[1].val.ver, sz |-> p]
      counted == pager_write(s, 1, header)
      new == [ver |-> P.tx, sz |-> 0]
  IN /\ P.eState \in Writing /\ Idle(c)
     /\ p \in 1 .. setting.pages /\ p <= n + 1 /\ (p = 1 => n = 0)
     /\ Wrote(c, CASE p = 1 -> counted
                  [] p \in 2 .. n -> pager_write(s, p, new)
                  [] OTHER -> pager_write(NewPage(counted, p), p, new))
     /\ UNCHANGED <<levels, db, ddb, djrnl, counters>>

\* sqlite3BtreeIncrVacuum: the last page is given up; the pager is told when the
\* transaction commits.
Vacuum(c) ==
  LET P == pager[c]
      n == Size(P)
      s == pager_write(Opened(c), 1, [P.cache[1].val EXCEPT !.sz = n - 1])
  IN /\ setting.vacuuming
     /\ P.eState \in Writing /\ Idle(c) /\ n > 1
     /\ Wrote(c, [s EXCEPT !.P.bDoTruncate = TRUE])
     /\ UNCHANGED <<levels, db, ddb, djrnl, counters>>

-----------------------------------------------------------------------------
(* syncJournal, for a commit or to make room in the cache. *)

\* (A bug for the checks: one sync of the journal is thought to be enough.)
FirstSync(P, p) == P.eState = "CACHEMOD"
MustSync(P, p) == P.cache[p].needSync \/ P.eState = "CACHEMOD"

\* pagerStress, for a page that nobody holds.
Spill(c, p) ==
  LET P == pager[c] IN
  /\ setting.spilling
  /\ P.eState \in {"CACHEMOD", "DBMOD"} /\ Idle(c)
  /\ p \in Cached(P) \ {1} /\ P.cache[p].dirty
  /\ Set(c, [P EXCEPT !.goal = "spill", !.k = p,
                      !.at = IF MustSync(P, p) THEN "exclude" ELSE "pageout"])
  /\ UNCHANGED <<levels, files, counters>>

\* vdbeCommit: first of all the file is locked.
Commit(c) ==
  /\ pager[c].eState \in Writing /\ Idle(c)
  /\ Set(c, [pager[c] EXCEPT !.at = "exclude", !.goal = "commit"])
  /\ UNCHANGED <<levels, files, counters>>

\* (A bug for the checks: the counter stays.)
SameCounter(P) == P.dbFileVers.ver
ChangeCounter(P) == P.dbFileVers.ver + 1

\* The image is cut, if it was vacuumed, and the change counter written.
CommitPhaseOne(c) ==
  LET P == [pager[c] EXCEPT !.dbSize = IF pager[c].bDoTruncate THEN Size(pager[c]) ELSE @]
      t == pager_write([P |-> P, f |-> jrnl.slots], 1,
                       [P.cache[1].val EXCEPT !.ver = ChangeCounter(P)])
  IN /\ pager[c].at = "one"
     /\ IF P.eState = "LOCKED"
        THEN Goto(c, "release") /\ UNCHANGED jrnl
        ELSE IF P.changeCountDone \/ P.dbSize = 0
        THEN Set(c, [P EXCEPT !.at = "count"]) /\ UNCHANGED jrnl
        ELSE Wrote(c, [t EXCEPT !.P = [@ EXCEPT !.at = "count", !.changeCountDone = TRUE]])
     /\ UNCHANGED <<levels, db, ddb, djrnl, counters>>

Then(c) == IF pager[c].goal = "commit" THEN "one" ELSE "count"

\* (A bug for the checks: a pending lock is taken for the exclusive one.)
PendingLock(c) ==
  /\ pager[c].at = "exclude"
  /\ \/ lock[c] = EXCLUSIVE_LOCK /\ UNCHANGED levels
     \/ Locks!Exclude(c)
     \/ Locks!Pend(c)
  /\ Goto(c, Then(c))
  /\ UNCHANGED <<files, counters>>

\* The exclusive lock; a caller that does not get it goes on with its
\* transaction.
ExclusiveLock(c) ==
  /\ pager[c].at = "exclude"
  /\ \/ lock[c] = EXCLUSIVE_LOCK /\ UNCHANGED levels /\ Goto(c, Then(c))
     \/ Locks!Exclude(c) /\ Goto(c, Then(c))
     \/ Locks!Pend(c) /\ UNCHANGED pager
     \/ /\ lock[c] # EXCLUSIVE_LOCK /\ UNCHANGED levels
        /\ Set(c, [pager[c] EXCEPT !.at = "idle", !.goal = "none"])
  /\ UNCHANGED <<files, counters>>

\* (A bug for the checks: nobody looks behind the last record.)
WithNext(f, P) == f

\* A header of an earlier journal behind the last record would be taken for the
\* next one.
WithoutNext(f, P) ==
  IF IsHeader(f, P.journalOff) /\ f[P.journalOff + 1].magic
  THEN [f EXCEPT ![P.journalOff + 1] = ZeroSlot] ELSE f

\* The records become part of the journal: the header gets its magic number and
\* their count, after a sync of its own if the pager is careful.
WriteRecordCount(c) ==
  LET P == pager[c]
      f == WithoutNext(jrnl.slots, P)
      synced == [jrnl EXCEPT !.slots = f, !.fresh = FALSE]
  IN /\ P.at = "count"
     /\ IF noSync
        THEN UNCHANGED <<jrnl, djrnl>>
        ELSE /\ djrnl' = IF fullSync THEN synced ELSE djrnl
             /\ jrnl' = [ (IF fullSync THEN synced ELSE jrnl) EXCEPT !.slots =
                            [f EXCEPT ![P.journalHdr + 1] =
                               [@ EXCEPT !.magic = TRUE, !.nRec = P.nRec]] ]
     /\ Goto(c, "sync")
     /\ UNCHANGED <<levels, db, ddb, counters>>

\* (A bug for the checks: the sync is left out.)
NotSynced == djrnl
SyncedJournal == [jrnl EXCEPT !.fresh = FALSE]

\* The sync; when more is to come, a new header begins.
SyncJournal(c) ==
  LET P == pager[c]
      Q == [P EXCEPT !.eState = "DBMOD",
                     !.at = IF P.goal = "spill" THEN "pageout" ELSE "pages",
                     !.cache = [p \in Cached(P) |-> [P.cache[p] EXCEPT !.needSync = FALSE]]]
      s == [P |-> [Q EXCEPT !.journalHdr = Q.journalOff], f |-> jrnl.slots]
      t == writeJournalHdr([s EXCEPT !.P.nRec = 0])
  IN /\ P.at = "sync"
     /\ IF noSync
        THEN Set(c, Q) /\ UNCHANGED <<jrnl, djrnl>>
        ELSE /\ djrnl' = SyncedJournal
             /\ Set(c, IF P.goal = "spill" THEN t.P ELSE s.P)
             /\ jrnl' = [jrnl EXCEPT !.fresh = FALSE,
                                     !.slots = IF P.goal = "spill" THEN t.f ELSE @]
     /\ UNCHANGED <<levels, db, ddb, counters>>

-----------------------------------------------------------------------------
(* pager_write_pagelist: pages of the cache go to the file. *)

Write1(P, p) ==
  [P EXCEPT !.dbFileSize = IF @ < p THEN p ELSE @,
            !.dbFileVers = IF p = 1 THEN P.cache[1].val ELSE @]

\* The page that is spilled leaves the cache: its place is wanted.
PageOut(c) ==
  LET P == pager[c]
      Q == [Keep(P, Cached(P) \ {P.k}) EXCEPT !.at = "idle", !.goal = "none", !.k = 0]
  IN /\ P.at = "pageout"
     /\ IF P.k <= P.dbSize
        THEN db' = WritePage(db, P.k, P.cache[P.k].val) /\ Set(c, Write1(Q, P.k))
        ELSE UNCHANGED db /\ Set(c, Q)
     /\ UNCHANGED <<levels, jrnl, ddb, djrnl, counters>>

\* The dirty pages of a commit, from the first on.
Dirty(P) == { p \in Cached(P) : P.cache[p].dirty /\ p <= P.dbSize }

WriteDirtyPage(c) ==
  LET P == pager[c]
      p == CHOOSE q \in Dirty(P) : \A r \in Dirty(P) : q <= r
  IN /\ P.at = "pages" /\ Dirty(P) # {}
     /\ db' = WritePage(db, p, P.cache[p].val)
     /\ Set(c, Write1([P EXCEPT !.cache[p].dirty = FALSE], p))
     /\ UNCHANGED <<levels, jrnl, ddb, djrnl, counters>>

\* All are written: the file is made as long as the database, and synced.
SyncDb(c) ==
  LET P == pager[c]
      d == IF P.dbSize > P.dbFileSize THEN Resize(db, P.dbSize) ELSE db
  IN /\ P.at = "pages" /\ Dirty(P) = {}
     /\ db' = d
     /\ ddb' = IF noSync THEN ddb ELSE d
     /\ Set(c, [Clean(P) EXCEPT !.eState = "FINISHED", !.at = "finish",
                                !.dbFileSize = IF @ < P.dbSize THEN P.dbSize ELSE @])
     /\ UNCHANGED <<levels, jrnl, djrnl, counters>>

-----------------------------------------------------------------------------
(* pager_playback, of a hot journal or to undo a transaction. *)

Rollback(c) ==
  LET P == pager[c] IN
  /\ P.eState \in Writing /\ Idle(c)
  /\ IF P.eState = "LOCKED"
     THEN Goto(c, "release")
     ELSE Set(c, [P EXCEPT !.at = "play", !.goal = "rollback", !.k = 0])
  /\ UNCHANGED <<levels, files, counters>>

\* Where no magic number is asked for: at the header that is being filled; but also
\* where the records end that a commit has synced, if a sector ends there too,
\* whatever an older journal has behind them.
Fills(P) == IsHeader(jrnl.slots, P.journalHdr) /\ jrnl.slots[P.journalHdr + 1].nonce = P.tx
Own(P) ==
  IF P.goal = "hot" \/ ~(Fills(P) \/ P.nRec % setting.sector = 0) THEN -1 ELSE P.journalHdr
Slots(P) == PlaybackSlots(jrnl.slots, Own(P))
\* (A bug for the checks: a hot journal is played to the cache only.)
OnlyOwn(P) == P.eState = "DBMOD"
\* Whether the file is written: the transaction had begun to, or did not live.
Touches(P) == P.eState \in {"DBMOD", "OPEN"}

\* The first header tells the size; the cache is dropped before a hot journal's
\* first record.
PlaybackSize(c) ==
  LET P == pager[c]
      n == jrnl.slots[1].orig
      Q == IF P.goal = "hot" /\ Slots(P) # <<>> THEN pager_reset(P) ELSE P
  IN /\ P.at = "play" /\ P.k = 0
     /\ IF readJournalHdr(jrnl.slots, 0, Own(P))
        THEN /\ db' = IF Touches(P) THEN Resize(db, n) ELSE db
             /\ Set(c, [Q EXCEPT !.k = 1, !.dbSize = n, !.journalOff = 1,
                                 !.dbFileSize = IF Touches(P) THEN n ELSE @])
        ELSE UNCHANGED db /\ Set(c, [P EXCEPT !.k = 1])
     /\ UNCHANGED <<levels, jrnl, ddb, djrnl, counters>>

\* pager_playback_one_page. A record that has not been synced goes to the cache
\* only: its page has not been written.
PlaybackPage(c) ==
  LET P == pager[c]
      i == Slots(P)[P.k]
      r == jrnl.slots[i]
      isSynced == noSync \/ P.goal = "hot" \/ i <= P.journalHdr
      Q == IF r.pgno \notin Cached(P) THEN P
           ELSE [P EXCEPT !.cache[r.pgno].val = r.val,
                          !.dbFileVers = IF r.pgno = 1 THEN r.val ELSE @]
  IN /\ P.at = "play" /\ P.k \in 1 .. Len(Slots(P))
     /\ IF r.pgno > P.dbSize
        THEN UNCHANGED db /\ Set(c, [P EXCEPT !.k = @ + 1])
        ELSE /\ db' = IF Touches(P) /\ isSynced THEN WritePage(db, r.pgno, r.val) ELSE db
             /\ Set(c, [Q EXCEPT !.k = @ + 1])
     /\ UNCHANGED <<levels, jrnl, ddb, djrnl, counters>>

PlaybackSync(c) ==
  LET P == pager[c] IN
  /\ P.at = "play" /\ P.k = Len(Slots(P)) + 1
  /\ ddb' = IF Touches(P) /\ ~noSync THEN db ELSE ddb
  /\ Set(c, [P EXCEPT !.at = "finish", !.k = 0, !.changeCountDone = FALSE])
  /\ UNCHANGED <<levels, db, jrnl, djrnl, counters>>

-----------------------------------------------------------------------------
(* pager_end_transaction. *)

\* The journal stops being one: the commit point. A journal of which nothing
\* could be read (journalOff is 0) is only deleted.
FinishJournal(P) ==
  CASE JournalMode = "delete" ->
         /\ jrnl' = NoJournal
         /\ djrnl' = IF extraSync THEN NoJournal ELSE djrnl
    [] JournalMode = "truncate" /\ P.journalOff # 0 ->
         SyncJournalFile(P, [jrnl EXCEPT !.slots = <<>>], fullSync)
    [] JournalMode = "persist" /\ P.journalOff # 0 ->
         SyncJournalFile(P, [jrnl EXCEPT !.slots[1] = ZeroSlot], ~noSync)
    [] OTHER -> UNCHANGED <<jrnl, djrnl>>

RecordCommit(P) == history' = IF P.goal = "commit" THEN Append(history, Image(db)) ELSE history

Finish(c) ==
  LET P == pager[c] IN
  /\ P.at = "finish"
  /\ FinishJournal(P)
  /\ RecordCommit(P)
  /\ Set(c, [Clean(Truncate(P, P.dbSize)) EXCEPT !.at = "release"])
  /\ UNCHANGED <<levels, db, ddb, ntx, setting, mishaps>>

\* The file is cut to the size of the database, and the lock lowered.
Release(c) ==
  LET P == pager[c]
      cut == P.goal = "commit" /\ P.dbFileSize > P.dbSize
      Q == [P EXCEPT !.at = "idle", !.goal = "none", !.pInJournal = {}, !.nRec = 0,
                     !.journalHdr = 0, !.journalOff = 0, !.changeCountDone = FALSE,
                     !.bDoTruncate = FALSE]
  IN /\ P.at = "release"
     /\ db' = IF cut THEN Resize(db, P.dbSize) ELSE db
     /\ Locks!Lower(c, SHARED_LOCK)
     /\ Set(c, IF P.goal = "hot" THEN [Q EXCEPT !.at = "version"]
               ELSE [Q EXCEPT !.eState = "READER"])
     /\ UNCHANGED <<jrnl, ddb, djrnl, counters>>

-----------------------------------------------------------------------------
(* What goes wrong. *)

\* A call of the system fails: pagerStress and a rollback put the pager into
\* the error state, a commit is rolled back by the caller, and a reader that
\* wanted to recover gives up.
Fail(c) ==
  LET P == pager[c] IN
  /\ mishaps.fault < setting.fault
  /\ mishaps' = [mishaps EXCEPT !.fault = @ + 1]
  /\ P.at \in {"count", "sync", "pageout", "pages", "play", "finish"}
  /\ CASE P.goal = "hot" -> pager_unlock(c, [P EXCEPT !.eState = "ERROR"])
       [] P.goal = "commit" /\ P.at # "finish" ->
            Set(c, [P EXCEPT !.at = "play", !.goal = "rollback", !.k = 0]) /\ UNCHANGED levels
       [] OTHER ->
            /\ Set(c, [P EXCEPT !.at = "idle", !.eState = "ERROR"])
            /\ IF P.at = "finish" THEN Locks!Lower(c, SHARED_LOCK) ELSE UNCHANGED levels
  /\ UNCHANGED <<files, ntx, history, setting>>

\* The journal is finished, but the call that should make it last reports an
\* error.
FinishFails(c) ==
  LET P == pager[c] IN
  /\ mishaps.fault < setting.fault
  /\ mishaps' = [mishaps EXCEPT !.fault = @ + 1]
  /\ P.at = "finish"
  /\ FinishJournal(P)
  /\ RecordCommit(P)
  /\ IF P.goal = "hot"
     THEN pager_unlock(c, [P EXCEPT !.eState = "ERROR"])
     ELSE /\ Set(c, [P EXCEPT !.at = "idle", !.eState = "ERROR"])
          /\ Locks!Lower(c, SHARED_LOCK)
  /\ UNCHANGED <<db, ddb, ntx, setting>>

\* The statement that met the error ends.
LeaveError(c) ==
  /\ pager[c].eState = "ERROR" /\ Idle(c)
  /\ pager_unlock(c, pager[c])
  /\ UNCHANGED <<files, counters>>

\* A process is killed: the system keeps what it has written.
Crash(c) ==
  /\ mishaps.crash < setting.crash
  /\ mishaps' = [mishaps EXCEPT !.crash = @ + 1]
  /\ pager[c] # Fresh
  /\ pager' = [pager EXCEPT ![c] = Fresh]
  /\ Locks!Vanish({c})
  /\ UNCHANGED <<files, ntx, history, setting>>

\* What a slot or page that the two views disagree about may be on the disk.
Mix(now, disk, i, torn) ==
  LET seen == (IF i <= Len(now) THEN {now[i]} ELSE {}) \cup (IF i <= Len(disk) THEN {disk[i]} ELSE {})
  IN IF i <= Len(now) /\ i <= Len(disk) /\ now[i] = disk[i] THEN seen ELSE seen \cup {torn}

Mixes(now, disk, torn) ==
  UNION { { m \in [1 .. n -> UNION {Mix(now, disk, i, torn) : i \in 1 .. n}] :
              \A i \in 1 .. n : m[i] \in Mix(now, disk, i, torn) } :
          n \in {Len(now), Len(disk)} }

\* The journal's name may lead to the file that was there when the directory
\* was last synced, to the one that has been made since, or to none.
JournalsLeft ==
  CASE jrnl.exists /\ ~jrnl.fresh ->
         { [jrnl EXCEPT !.slots = f] : f \in Mixes(jrnl.slots, djrnl.slots, Garbage) }
    [] jrnl.exists /\ jrnl.fresh ->
         {djrnl, NoJournal} \cup
         { [jrnl EXCEPT !.slots = f, !.fresh = FALSE] : f \in Mixes(jrnl.slots, <<>>, Garbage) }
    [] OTHER -> {djrnl, NoJournal}

PowerFailure ==
  /\ mishaps.power < setting.power
  /\ mishaps' = [mishaps EXCEPT !.power = @ + 1]
  /\ pager' = [c \in Conns |-> Fresh]
  /\ Locks!Vanish(Conns)
  /\ db' \in Mixes(db, ddb, Torn) /\ ddb' = db'
  /\ jrnl' \in JournalsLeft /\ djrnl' = jrnl'
  /\ UNCHANGED <<ntx, history, setting>>

-----------------------------------------------------------------------------
Opening(c) == \/ SharedLock(c) \/ HotAccess(c) \/ HotReserved(c) \/ HotEmpty(c) \/ HotClear(c)
              \/ HotFirst(c) \/ HotExclusive(c) \/ HotOpen(c) \/ SharedLockDone(c)
Working(c) == \/ EndRead(c) \/ PagerBegin(c) \/ BeginExclusive(c)
              \/ Vacuum(c) \/ \E p \in 1 .. setting.pages : Get(c, p) \/ Write(c, p) \/ Spill(c, p)
Syncing(c) == \/ Commit(c) \/ CommitPhaseOne(c) \/ ExclusiveLock(c) \/ WriteRecordCount(c) \/ SyncJournal(c)
              \/ PageOut(c) \/ WriteDirtyPage(c) \/ SyncDb(c)
Ending(c) == \/ Rollback(c) \/ PlaybackSize(c) \/ PlaybackPage(c) \/ PlaybackSync(c)
             \/ Finish(c) \/ Release(c) \/ LeaveError(c)
Mishap(c) == Fail(c) \/ FinishFails(c) \/ Crash(c)

Next == \/ \E c \in Conns : Opening(c) \/ Working(c) \/ Syncing(c) \/ Ending(c) \/ Mishap(c)
        \/ PowerFailure

Spec == Init /\ [][Next]_vars
-----------------------------------------------------------------------------
(* Properties. *)

Content == [ver : -1 .. MaxTx, sz : 0 .. MaxPage]
Entry == [val : Content, dirty : BOOLEAN, needSync : BOOLEAN]

\* The types of the variables, and that a pager's state fits its lock: it reads
\* under SHARED, writes its cache under RESERVED and the file under EXCLUSIVE
\* (assert_pager_state).
TypeOK ==
  /\ \A c \in Conns :
       LET P == pager[c] IN
       /\ P.eState \in {"OPEN", "READER", "LOCKED", "CACHEMOD", "DBMOD", "FINISHED", "ERROR"}
       /\ Cached(P) \subseteq 1 .. MaxPage
       /\ \A p \in Cached(P) : P.cache[p] \in Entry
       /\ P.pInJournal \subseteq 1 .. MaxPage
       /\ P.journalHdr <= P.journalOff \/ P.goal = "rollback"
       /\ P.eState = "READER" => lock[c] >= SHARED_LOCK
       /\ P.eState \in Writing => lock[c] >= RESERVED_LOCK
       /\ P.eState \in {"DBMOD", "FINISHED"} => lock[c] = EXCLUSIVE_LOCK
  /\ lock \in [Conns -> Levels]
  /\ db \in Seq(Content) /\ ddb \in Seq(Content)

\* What the files hold, whoever may be at work on them: the image that is left
\* if every process died now and the next one opened the database.
StoredWith(j) == Image(IF j.exists THEN Recovered(j.slots, db) ELSE db)
Stored == StoredWith(jrnl)
Committed == { history[i] : i \in DOMAIN history }

\* Whatever is half done, the files always hold a database that was committed
\* as a whole: all of a transaction, or nothing of it (pager.c's invariants 1
\* to 4).
StoreIsCommitted == Stored \in Committed

\* Once a commit has been reported, no crash, error or rollback of another
\* connection takes it back, and no power failure either where the end of the
\* journal is synced.
EndIsSynced == CASE JournalMode = "delete"   -> extraSync
                 [] JournalMode = "truncate" -> fullSync
                 [] JournalMode = "persist"  -> ~noSync
Durable == mishaps.power = 0 \/ EndIsSynced => Stored = history[Len(history)]

Undoing(P) == P.goal = "rollback"
View(c) ==
  LET P == pager[c] IN
  [p \in 1 .. Size(P) |-> IF p \in Cached(P) THEN P.cache[p].val
                          ELSE IF p <= Len(db) THEN db[p] ELSE Zero]

\* Who reads, reads what is stored: never a page of a transaction that is not
\* committed, or that was kept in the cache while another connection wrote.
ReadersSeeStore ==
  \A c \in Conns : pager[c].eState \in {"READER", "LOCKED"} => View(c) = Stored

\* Unless syncs are off: before the database file holds anything that was not
\* committed, the journal that gives a committed image back is on the disk: that journal is enough,
\* whatever has become of the pages that have been written.
WriteAhead ==
  ~noSync /\ Image(db) \notin Committed =>
    /\ djrnl.exists
    /\ Image(Recovered(djrnl.slots, db)) \in Committed

\* "The journal has been finalized and the transaction successfully committed
\* ... so it is safe to truncate the database file": with EXTRA, after a cut, no
\* journal that a power failure may leave undoes the transaction without the
\* pages that were cut off.
CutIsSafe ==
  [][Synchronous = "extra" => \A c \in Conns : Release(c) /\ Len(db') < Len(db) =>
       \A j \in JournalsLeft : StoredWith(j)' \in Committed']_vars

\* The detailed pager is an atomic store, where the power does not fail.
Viewed == [c \in Conns |-> IF pager[c].eState \in {"OPEN", "ERROR"} \/ Undoing(pager[c])
                           THEN None ELSE View(c)]
Atomic == INSTANCE AtomicStore WITH store <- Stored, view <- Viewed, Images <- Seq(Content)
IsAtomicStore == Atomic!Init /\ [][setting.power > 0 \/ Atomic!Next]_<<Stored, Viewed>>
=============================================================================
