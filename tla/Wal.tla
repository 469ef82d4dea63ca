-------------------------------- MODULE Wal --------------------------------
(***************************************************************************)
(* wal.c of SQLite: connections, each in a process of its own, that share  *)
(* a database file, its write-ahead log and the wal-index in shared        *)
(* memory.  One action is one system call or one access to the shared      *)
(* memory that another process, a crash or a power failure can tell from   *)
(* its neighbours, with the private memory the code sets around it.        *)
(*                                                                         *)
(* Files are kept twice, as the system shows them and as they are on the   *)
(* disk.  The hash tables of the wal-index are the sequence of the page    *)
(* numbers of the frames.  A checksum is the sequence of what it sums up.  *)
(***************************************************************************)
EXTENDS Integers, Sequences, FiniteSets, SequencesExt, FiniteSetsExt

CONSTANTS Conns, None,
          NReader,         \* WAL_NREADER: the read marks are 0 .. NReader - 1
          MaxPage, MaxTx, MaxFrame,  \* bounds: pages, transactions, frames of a log
          Settings         \* the settings a behaviour may have, see Setting

Modes == {"passive", "full", "restart", "truncate"}

\* What the connections do, the pages and the sizes of their transactions, how they
\* sync, and bounds on what goes wrong. The windows are those of RestartWindow and
\* CrashWindow.
Setting ==
  [ may : [Conns -> SUBSET ({"read", "write", "close"} \cup Modes)],
    writes : SUBSET SUBSET (1 .. MaxPage), sizes : SUBSET (1 .. MaxPage),
    spills : SUBSET (1 .. MaxPage), synchronous : {"normal", "full"}, caching : BOOLEAN,
    windows : BOOLEAN, txs : 0 .. MaxTx, crash : Nat, power : Nat ]

ASSUME WalAssumption ==
  /\ NReader \in Nat \ {0, 1} /\ MaxPage \in Nat \ {0} /\ MaxTx \in Nat /\ MaxFrame \in Nat
  /\ Settings \subseteq Setting

VARIABLES conn,            \* the connections: what struct Wal and the cache hold
          hdrs,            \* the two copies of the header of the wal-index
          nBackfill, aReadMark, aPgno,  \* the rest of the wal-index
          wal, db,         \* the files, as the system shows them
          dwal, ddb,       \* and as they are on the disk
          ntx,             \* transactions begun
          history,         \* every image that was committed
          pend,            \* the image that is being committed; None
          setting, mishaps, outage   \* outage: a power failure not recovered from

vars == <<conn, hdrs, nBackfill, aReadMark, aPgno, wal, db, dwal, ddb, ntx,
          history, pend, setting, mishaps, outage>>
index == <<hdrs, nBackfill, aReadMark, aPgno>>
info == <<nBackfill, aReadMark>>
disk == <<dwal, ddb>>
files == <<wal, db, disk>>
ghosts == <<history, pend, outage>>
counters == <<ntx, setting, mishaps>>

-----------------------------------------------------------------------------
(* The locks, the header, the log. *)

WRITE == 0
CKPT == 1
RECOVER == 2
READ(i) == 3 + i
Readers == 1 .. NReader - 1
AllLocks == {WRITE, CKPT, RECOVER} \cup {READ(i) : i \in 0 .. NReader - 1}
NOT_USED == 99     \* READMARK_NOT_USED, larger than any frame

\* struct WalIndexHdr. The stamp, an index into history, is what the checksum of
\* the last committed frame tells apart.
NoHdr == [isInit |-> FALSE, iChange |-> 0, mxFrame |-> 0, nPage |-> 0, salt |-> 0, stamp |-> 0]
live == hdrs[1]

\* A log: the salt of its header (-1 if there is no good header), whether that
\* counts a checkpoint, the frames, and whether the file was deleted or cut to
\* nothing since it was last synced: the disk may still have it as it was.
NoWal == [salt |-> -1, nCkpt |-> FALSE, frames |-> <<>>, fresh |-> FALSE]
TornFrame == [salt |-> -1, pgno |-> 0, nTrunc |-> 0, val |-> 0, cksum |-> <<>>]

PutFrame(w, i, f) ==
  [w EXCEPT !.frames = IF i <= Len(@) THEN [@ EXCEPT ![i] = f] ELSE Append(@, f)]

\* The checksum that the frame behind frame i continues.
Cksum(w, i) == IF i = 0 THEN << <<w.salt>> >> ELSE w.frames[i].cksum
Summed(w, i, f) == Append(Cksum(w, i - 1), <<f.pgno, f.nTrunc, f.val>>)

\* While there are checksums to be made anew, a frame is written without one.
walEncodeFrame(w, i, P, p, n, v) ==
  LET f == [salt |-> 0, pgno |-> p, nTrunc |-> n, val |-> v, cksum |-> <<>>]
  IN IF P.iReCksum # 0 THEN f
     ELSE [f EXCEPT !.salt = P.hdr.salt, !.cksum = Summed(w, i, f)]

walDecodeFrame(w, i) ==
  LET f == w.frames[i] IN f.salt = w.salt /\ f.pgno > 0 /\ f.cksum = Summed(w, i, f)

\* What walIndexRecover finds: the frames before the first one that is not
\* valid, and the last of them that ends a transaction.
ValidFrames(w) ==
  IF w.salt = -1 THEN 0
  ELSE Max({ k \in 0 .. Len(w.frames) : \A i \in 1 .. k : walDecodeFrame(w, i) })
LastCommit(w) ==
  Max({0} \cup { i \in 1 .. ValidFrames(w) : w.frames[i].nTrunc > 0 })

Page(d, p) == IF p <= Len(d) THEN d[p] ELSE 0
Resize(d, n) == [p \in 1 .. n |-> Page(d, p)]
WritePage(d, p, v) == [Resize(d, Max({p, Len(d)})) EXCEPT ![p] = v]

\* The database that the next connection finds when all processes have died.
Recovered(w, d) ==
  LET m == LastCommit(w)
      last(p) == Max({0} \cup { i \in 1 .. m : w.frames[i].pgno = p })
  IN IF m = 0 THEN d
     ELSE [p \in 1 .. w.frames[m].nTrunc |->
             IF last(p) = 0 THEN Page(d, p) ELSE w.frames[last(p)].val]

\* Random salts differ from all that there are.
Salts == {wal.salt, dwal.salt, hdrs[1].salt, hdrs[2].salt}
         \cup { wal.frames[i].salt : i \in DOMAIN wal.frames }
         \cup { dwal.frames[i].salt : i \in DOMAIN dwal.frames }
         \cup { conn[c].hdr.salt : c \in Conns }
FreshSalt == CHOOSE s \in 1 .. Cardinality(Salts) + 1 : s \notin Salts

-----------------------------------------------------------------------------
(* The connections. *)

Closed ==
  [ at |-> "closed", goal |-> "none", hdr |-> NoHdr, h1 |-> NoHdr, changed |-> FALSE,
    cache |-> <<>>, nCkpt |-> FALSE, readLock |-> -1, x |-> {},
    mxI |-> 0, mxReadMark |-> 0, minFrame |-> 0,
    own |-> <<>>, list |-> <<>>, nTruncate |-> 0, tx |-> 0,
    iFirst |-> 0, iFrame |-> 0, iReCksum |-> 0,
    mode |-> "passive", i |-> 0, mxSafeFrame |-> 0, iter |-> <<>>, all |-> FALSE ]

ZeroIndex ==
  /\ hdrs' = <<NoHdr, NoHdr>> /\ nBackfill' = 0
  /\ aReadMark' = [i \in Readers |-> 0] /\ aPgno' = <<>>

Init ==
  /\ conn = [c \in Conns |-> Closed]
  /\ hdrs = <<NoHdr, NoHdr>> /\ nBackfill = 0
  /\ aReadMark = [i \in Readers |-> 0] /\ aPgno = <<>>
  /\ wal = NoWal /\ dwal = NoWal
  /\ db = Resize(<<>>, MaxPage) /\ ddb = db
  /\ ntx = 0 /\ history = <<db>> /\ pend = None
  /\ setting \in Settings /\ mishaps = [crash |-> 0, power |-> 0] /\ outage = FALSE

Others(c) == Conns \ {c}
May(c, what) == what \in setting.may[c]
Idle(c) == conn[c].at = "idle"
At(c, where) == conn[c].at = where
Holds(c, lock) == lock \in conn[c].x

Set(c, P) == conn' = [conn EXCEPT ![c] = P]
To(P, where) == [P EXCEPT !.at = where]

Shared(P) == IF P.readLock = -1 THEN {} ELSE {READ(P.readLock)}

\* walLockExclusive and walLockShared would succeed.
Free(c, S) ==
  \A d \in Others(c) : conn[d].x \cap S = {} /\ Shared(conn[d]) \cap S = {}
Sharable(c, i) == \A d \in Others(c) : READ(i) \notin conn[d].x

\* What a sync makes of a file and of what is on the disk, which only matters to
\* a power failure that may still come.
PowerMayFail == mishaps.power < setting.power
Synced(w) == IF PowerMayFail THEN [w EXCEPT !.fresh = FALSE] ELSE w
OnDisk(w) == IF PowerMayFail THEN Synced(w) ELSE dwal
SyncWal == wal' = Synced(wal) /\ dwal' = OnDisk(wal)
SyncDb == ddb' = IF PowerMayFail THEN db ELSE ddb

Reading(c) == conn[c].at \in {"read", "write"}

\* The page of a frame; memory behind the entries is zero.
walFramePgno(f) == IF f \in DOMAIN aPgno THEN aPgno[f] ELSE 0

\* sqlite3WalFindFrame: the last frame of a page that the connection may see.
FindFrame(P, p) ==
  IF P.readLock = 0 \/ P.hdr.mxFrame = 0 THEN 0
  ELSE Max({0} \cup { f \in P.minFrame .. P.hdr.mxFrame : walFramePgno(f) = p })

\* readDbPage: from the log, or else from the file.
Lookup(P, p) ==
  LET f == FindFrame(P, p) IN
  IF f # 0 THEN IF f \in DOMAIN wal.frames THEN wal.frames[f].val ELSE 0 ELSE Page(db, p)

Dbsize(P) == IF P.hdr.nPage = 0 THEN Len(db) ELSE P.hdr.nPage

Cached(P) == DOMAIN P.cache
Content(P, p) ==
  IF p \in DOMAIN P.own THEN P.own[p] ELSE IF p \in Cached(P) THEN P.cache[p] ELSE Lookup(P, p)

-----------------------------------------------------------------------------
(* Opening, and reading the header: walIndexReadHdr, walIndexRecover. *)

\* The first process that opens the wal-index clears it. Who closes as the last
\* one keeps all others out.
Open(c) ==
  /\ At(c, "closed") /\ setting.may[c] # {} /\ \A d \in Others(c) : conn[d].goal # "close"
  /\ Set(c, To(Closed, "idle"))
  /\ UNCHANGED <<index, files, ghosts, counters>>

\* sqlite3WalBeginReadTransaction: the first copy of the header.
ReadHdr(P) == [P EXCEPT !.h1 = live, !.at = "hdr"]

BeginRead(c) ==
  /\ Idle(c) /\ May(c, "read")
  /\ Set(c, ReadHdr([conn[c] EXCEPT !.goal = "read"]))
  /\ UNCHANGED <<index, files, ghosts, counters>>

\* Between its calls a connection keeps the header it knows, which only the cache
\* depends on.
Rest(P, hdr, cache) ==
  [Closed EXCEPT !.at = "idle", !.nCkpt = P.nCkpt, !.cache = cache,
                 !.hdr = IF cache = <<>> THEN NoHdr ELSE hdr]

\* A call that failed, at any of its retries or because another connection is
\* at a recovery.
GiveUp(P) == Rest(P, P.hdr, <<>>)

Retry(c) ==
  /\ At(c, "retry")
  /\ Set(c, ReadHdr(conn[c])) \/ Set(c, GiveUp(conn[c]))
  /\ UNCHANGED <<index, files, ghosts, counters>>

\* WAL_RETRY. Who restarts the log looks for another mark.
Again(P) ==
  [P EXCEPT !.readLock = -1, !.mxI = 0, !.mxReadMark = 0, !.minFrame = 0,
            !.at = IF WRITE \in P.x THEN "choose" ELSE "retry"]

Accept(P, h) ==
  [P EXCEPT !.hdr = h, !.changed = (@ \/ (P.hdr # h /\ P.cache # <<>>)), !.h1 = NoHdr,
            !.at = IF P.goal = "read" THEN "try" ELSE "test"]

\* (A bug for the checks: only one copy of the header is looked at.)
OneCopy(h1, h2) == h1.isInit
GoodHdr(h1, h2) == h1 = h2 /\ h1.isInit

\* walIndexTryHdr: the second copy.
TryHdr(c) ==
  LET P == conn[c] IN
  /\ At(c, "hdr")
  /\ Set(c, IF GoodHdr(P.h1, hdrs[2]) THEN Accept(P, P.h1) ELSE To([P EXCEPT !.h1 = NoHdr], "bad"))
  /\ UNCHANGED <<index, files, ghosts, counters>>

\* The end of a checkpoint, whose locks go. A header that is newer than the cache
\* is forgotten, so that the next read sees that the cache is old.
\* (A bug for the checks: it is kept.)
KeptHdr(P) == P.hdr
NextHdr(P) == IF P.changed THEN NoHdr ELSE P.hdr

Done(P) ==
  IF P.goal = "close" THEN To(P, "unlink")
  ELSE Rest(P, NextHdr(P), P.cache)

\* What is left of a call in one of the other modes.
Finish(P) == IF P.mode = "passive" THEN Done(P) ELSE To(P, "mode")

\* Once more, now that nobody writes. A checkpoint that holds the lock already
\* cannot have it again.
BadHdr(c) ==
  LET P == conn[c]
      busy == IF P.goal = "read" THEN Again(P) ELSE Done(P)
  IN /\ At(c, "bad")
     /\ Set(c, IF ~Free(c, {WRITE}) \/ Holds(c, WRITE) THEN busy
               ELSE IF GoodHdr(live, hdrs[2]) THEN Accept(P, live)
               ELSE To([P EXCEPT !.x = @ \cup {WRITE}], "recover"))
     /\ UNCHANGED <<index, files, ghosts, counters>>

\* The frames that are valid become the wal-index again, if no other connection
\* has any lock.
RecoveredHdr ==
  LET m == LastCommit(wal)
      good == wal.frames # <<>> /\ wal.salt # -1
      image == Recovered(wal, db)
      known == { i \in DOMAIN history : history[i] = image }
  IN [ isInit |-> TRUE, iChange |-> 0, mxFrame |-> m,
       nPage |-> IF m = 0 THEN 0 ELSE wal.frames[m].nTrunc,
       salt |-> IF good THEN wal.salt ELSE 0,
       stamp |-> IF known = {} THEN Len(history) + 1 ELSE Max(known) ]

Recover(c) ==
  LET P == conn[c]
      all == AllLocks \ P.x
      good == wal.frames # <<>> /\ wal.salt # -1
      Q == [P EXCEPT !.x = AllLocks, !.hdr = RecoveredHdr, !.changed = (P.cache # <<>>), !.at = "recover0",
                     !.nCkpt = IF good THEN wal.nCkpt ELSE @]
      R == [P EXCEPT !.x = @ \ {WRITE}]
  IN /\ At(c, "recover")
     /\ IF Free(c, all)
        THEN /\ Set(c, Q)
             /\ aPgno' = [i \in 1 .. ValidFrames(wal) |-> wal.frames[i].pgno]
             /\ hdrs' = [hdrs EXCEPT ![2] = Q.hdr]
        ELSE /\ Set(c, IF P.goal = "read" THEN Again(R) ELSE Done(R))
             /\ UNCHANGED <<hdrs, aPgno>>
     /\ UNCHANGED <<info, files, ghosts, counters>>

\* What was recovered is now what is committed: a transaction that died after
\* its last frame is, and after a power failure the latest ones may not be.
RecoverHdr(c) ==
  LET P == conn[c]
      n == P.hdr.stamp
  IN /\ At(c, "recover0")
     /\ hdrs' = [hdrs EXCEPT ![1] = P.hdr]
     /\ Set(c, To(P, "recover1"))
     /\ history' = [i \in 1 .. n |-> IF i <= Len(history) THEN history[i] ELSE Recovered(wal, db)]
     /\ pend' = None /\ outage' = FALSE
     /\ UNCHANGED <<info, aPgno, files, counters>>

RecoverInfo(c) ==
  LET P == conn[c] IN
  /\ At(c, "recover1")
  /\ nBackfill' = 0
  /\ aReadMark' = [i \in Readers |-> IF i = 1 /\ P.hdr.mxFrame > 0 THEN P.hdr.mxFrame ELSE NOT_USED]
  /\ Set(c, [P EXCEPT !.x = IF P.goal = "read" THEN {} ELSE {CKPT},
                      !.at = IF P.goal = "read" THEN "try" ELSE "test"])
  /\ UNCHANGED <<hdrs, aPgno, files, ghosts, counters>>

-----------------------------------------------------------------------------
(* Read transactions: walTryBeginRead. *)

\* The read begins, with what is still good of the cache, or the frames of a
\* transaction are written now that the log was restarted.
Begun(P) ==
  IF WRITE \in P.x THEN To(P, IF P.hdr.mxFrame = 0 THEN "header" ELSE "list")
  ELSE [P EXCEPT !.at = "read", !.goal = "none", !.changed = FALSE,
                 !.cache = IF P.changed THEN <<>> ELSE @]

\* A log that is wholly in the database is not read.
TryRead(c) ==
  LET P == conn[c] IN
  /\ At(c, "try")
  /\ Set(c, To(P, IF nBackfill = P.hdr.mxFrame THEN "zero" ELSE "choose"))
  /\ UNCHANGED <<index, files, ghosts, counters>>

LockZero(c) ==
  LET P == conn[c] IN
  /\ At(c, "zero")
  /\ Set(c, IF Sharable(c, 0) THEN [P EXCEPT !.readLock = 0, !.at = "zero1"] ELSE To(P, "choose"))
  /\ UNCHANGED <<index, files, ghosts, counters>>

\* (A bug for the checks: what happened before the lock was had goes unseen.)
Unseen(P) == TRUE
StillLive(P) == live = P.hdr

CheckZero(c) ==
  LET P == conn[c] IN
  /\ At(c, "zero1")
  /\ Set(c, IF StillLive(P) THEN Begun(P) ELSE Again(P))
  /\ UNCHANGED <<index, files, ghosts, counters>>

\* The highest mark that is not behind the snapshot, or else the first mark that
\* nobody uses, moved to it.
ChooseMark(c) ==
  LET P == conn[c]
      mx == P.hdr.mxFrame
      below == { i \in Readers : aReadMark[i] <= mx }
      best == Max({ i \in below : \A j \in below : aReadMark[j] <= aReadMark[i] })
      free == { i \in Readers : Free(c, {READ(i)}) }
      Take(i, mark) == [P EXCEPT !.mxI = i, !.mxReadMark = mark, !.at = "mark"]
      move == (below = {} \/ aReadMark[best] < mx) /\ free # {}
  IN /\ At(c, "choose")
     /\ Set(c, IF move THEN Take(Min(free), mx)
               ELSE IF below = {} THEN Again(P) ELSE Take(best, aReadMark[best]))
     /\ aReadMark' = IF move THEN [aReadMark EXCEPT ![Min(free)] = mx] ELSE aReadMark
     /\ UNCHANGED <<hdrs, nBackfill, aPgno, files, ghosts, counters>>

LockMark(c) ==
  LET P == conn[c] IN
  /\ At(c, "mark")
  /\ Set(c, IF Sharable(c, P.mxI)
            THEN [P EXCEPT !.readLock = P.mxI, !.minFrame = nBackfill + 1, !.at = "mark1"]
            ELSE Again(P))
  /\ UNCHANGED <<index, files, ghosts, counters>>

CheckMark(c) ==
  LET P == conn[c] IN
  /\ At(c, "mark1")
  /\ Set(c, IF aReadMark[P.mxI] = P.mxReadMark /\ StillLive(P)
            THEN Begun([P EXCEPT !.mxI = 0, !.mxReadMark = 0]) ELSE Again(P))
  /\ UNCHANGED <<index, files, ghosts, counters>>

Read(c, p) ==
  LET P == conn[c] IN
  /\ At(c, "read") /\ setting.caching
  /\ p \in 1 .. Dbsize(P) /\ p \notin Cached(P)
  /\ Set(c, [P EXCEPT !.cache = [q \in Cached(P) \cup {p} |-> IF q = p THEN Lookup(P, p) ELSE P.cache[q]]])
  /\ UNCHANGED <<index, files, ghosts, counters>>

EndRead(c) ==
  /\ At(c, "read")
  /\ Set(c, Rest(conn[c], conn[c].hdr, conn[c].cache))
  /\ UNCHANGED <<index, files, ghosts, counters>>

-----------------------------------------------------------------------------
(* Write transactions: sqlite3WalFrames. *)

\* (A bug for the checks: who read an older snapshot may write.)
AnySnapshot(P) == TRUE
LatestSnapshot(P) == P.hdr = live

BeginWrite(c) ==
  LET P == conn[c] IN
  /\ At(c, "read") /\ May(c, "write") /\ ntx < setting.txs
  /\ Free(c, {WRITE}) /\ LatestSnapshot(P)
  /\ ntx' = ntx + 1
  /\ Set(c, [P EXCEPT !.x = {WRITE}, !.tx = ntx', !.at = "write"])
  /\ UNCHANGED <<index, files, ghosts, setting, mishaps>>

\* walRestartLog: a log that is wholly in the database and that nobody reads is
\* begun anew. With the windows closed, not between the moment when another
\* connection reads the header for a checkpoint and the moment when it looks at
\* nBackfill.
RestartWindow == setting.windows \/ \A d \in Conns : conn[d].at # "test"
OtherMarks == {READ(i) : i \in Readers}
\* (A bug for the checks: readers are not asked.)
AnyTime(c) == nBackfill > 0
MayRestart(c) == nBackfill > 0 /\ Free(c, OtherMarks)

RestartedHdr(P) == [P.hdr EXCEPT !.mxFrame = 0, !.salt = FreshSalt]

StartFrames(c, P) ==
  IF P.readLock # 0
  THEN /\ Set(c, Begun([P EXCEPT !.iFrame = P.hdr.mxFrame,
                                 !.iFirst = IF P.hdr # live THEN live.mxFrame + 1 ELSE 0]))
       /\ UNCHANGED hdrs
  ELSE IF MayRestart(c)
  THEN LET Q == [P EXCEPT !.hdr = RestartedHdr(P), !.nCkpt = TRUE, !.x = @ \cup OtherMarks,
                          !.iFrame = 0, !.at = "restart0"]
       IN RestartWindow /\ Set(c, Q) /\ hdrs' = [hdrs EXCEPT ![2] = Q.hdr]
  ELSE Set(c, [Again(P) EXCEPT !.iFrame = P.hdr.mxFrame]) /\ UNCHANGED hdrs

\* walRestartHdr, after the second copy of the header.
RestartHdr(c) ==
  /\ At(c, "restart0")
  /\ hdrs' = [hdrs EXCEPT ![1] = conn[c].hdr]
  /\ Set(c, To(conn[c], "restart1"))
  /\ UNCHANGED <<info, aPgno, files, ghosts, counters>>

\* (A bug for the checks: the count of what is in the database is not reset.)
Kept(n) == n
Reset(n) == 0

RestartInfo(c) ==
  LET P == conn[c] IN
  /\ At(c, "restart1")
  /\ nBackfill' = Reset(nBackfill)
  /\ aReadMark' = [i \in Readers |-> IF i = 1 THEN 0 ELSE NOT_USED]
  /\ Set(c, IF P.goal = "ckpt" THEN To(P, "cut") ELSE [Again(P) EXCEPT !.x = {WRITE}])
  /\ UNCHANGED <<hdrs, aPgno, files, ghosts, counters>>

\* What the transaction has made of the pages. The first frame it writes puts an
\* end to one that died after its last frame.
Pending(P) == IF P.nTruncate = 0 THEN None ELSE [p \in 1 .. P.nTruncate |-> Content(P, p)]

\* The first frame of a log comes behind a header.
WriteHeader(c) ==
  LET P == conn[c]
      salt == IF P.nCkpt THEN P.hdr.salt ELSE FreshSalt
  IN /\ At(c, "header")
     /\ wal' = [wal EXCEPT !.salt = salt, !.nCkpt = P.nCkpt]
     /\ Set(c, [P EXCEPT !.hdr.salt = salt, !.at = "list"])
     /\ pend' = Pending(P)
     /\ UNCHANGED <<index, db, disk, history, outage, counters>>

\* The pages a transaction changes get values of its own, others when it changes
\* them again.
Changed(P, p) == IF p \in DOMAIN P.own /\ P.own[p] = 2 * P.tx THEN 2 * P.tx + 1 ELSE 2 * P.tx

Own(P, S) == [P EXCEPT !.own = [p \in DOMAIN P.own \cup S |-> IF p \in S THEN Changed(P, p) ELSE P.own[p]],
                       !.list = SetToSortSeq(S, <)]

\* pagerStress: one page of a transaction leaves the cache early.
Spill(c, p) ==
  LET P == conn[c] IN
  /\ At(c, "write") /\ p \in setting.spills
  /\ P.hdr.mxFrame < MaxFrame
  /\ StartFrames(c, Own(P, {p}))
  /\ UNCHANGED <<info, aPgno, files, ghosts, counters>>

\* sqlite3PagerCommitPhaseOne: the pages up to the new size that were changed.
Commit(c, S, n) ==
  LET P == conn[c]
      Q == [Own(P, S) EXCEPT !.nTruncate = n]
  IN /\ At(c, "write")
     /\ S # {} /\ S \subseteq 1 .. n /\ Dbsize(P) + 1 .. n \subseteq S \cup DOMAIN P.own
     /\ (IF MayRestart(c) /\ P.readLock = 0 THEN 0 ELSE P.hdr.mxFrame) + Cardinality(S) <= MaxFrame
     /\ StartFrames(c, Q)
     /\ UNCHANGED <<info, aPgno, files, ghosts, counters>>

\* What comes when all pages of the list are in the log.
Listed(P) ==
  IF P.list # <<>> THEN P
  ELSE To(P, IF P.nTruncate > 0 /\ P.iReCksum > 0 THEN "rewrite" ELSE "index")

\* A page goes over the frame of the same transaction that has it already, whose
\* checksum is then wrong, unless it is the last one of a commit.
Overwritten(P) ==
  LET old == FindFrame(P, Head(P.list)) IN
  IF P.iFirst > 0 /\ (Len(P.list) > 1 \/ P.nTruncate = 0) /\ old >= P.iFirst THEN old ELSE 0

Overwrite(c) ==
  LET P == conn[c]
      old == Overwritten(P)
  IN /\ At(c, "list") /\ old # 0
     /\ wal' = [wal EXCEPT !.frames[old].val = P.own[Head(P.list)]]
     /\ Set(c, Listed([P EXCEPT !.list = Tail(@),
                                !.iReCksum = IF @ = 0 THEN old ELSE Min({@, old})]))
     /\ pend' = Pending(P)
     /\ UNCHANGED <<index, db, disk, history, outage, counters>>

\* Or else behind the others. A new header is on the disk before the frames that
\* its salt makes valid.
HeaderSynced(i) == i = 1

WriteFrame(c) ==
  LET P == conn[c]
      p == Head(P.list)
      i == P.iFrame + 1
      n == IF Len(P.list) = 1 THEN P.nTruncate ELSE 0
      w == IF HeaderSynced(i) THEN Synced(wal) ELSE wal
  IN /\ At(c, "list") /\ Overwritten(P) = 0
     /\ dwal' = IF HeaderSynced(i) THEN OnDisk(wal) ELSE dwal
     /\ wal' = PutFrame(w, i, walEncodeFrame(wal, i, P, p, n, P.own[p]))
     /\ Set(c, Listed([P EXCEPT !.list = Tail(@), !.iFrame = i]))
     /\ pend' = Pending(P)
     /\ UNCHANGED <<index, db, ddb, history, outage, counters>>

\* walRewriteChecksums, a frame at a time.
\* (A bug for the checks: the frame behind is not rewritten.)
OnlyThat(P) == P.iFrame = P.iFrame
LastRewritten(P) == P.iReCksum = P.iFrame

RewriteChecksum(c) ==
  LET P == conn[c]
      i == P.iReCksum
      f == wal.frames[i]
  IN /\ At(c, "rewrite")
     /\ wal' = PutFrame(wal, i, walEncodeFrame(wal, i, [P EXCEPT !.iReCksum = 0], f.pgno, f.nTrunc, f.val))
     /\ Set(c, IF LastRewritten(P) THEN Listed([P EXCEPT !.iReCksum = 0])
               ELSE [P EXCEPT !.iReCksum = i + 1])
     /\ UNCHANGED <<index, db, disk, ghosts, counters>>

\* A commit is synced if it is to survive a power failure. The new frames are
\* entered in the wal-index, behind the end as others know it; a commit goes on to
\* publish them.
AppendIndex(c) ==
  LET P == conn[c]
      old == P.hdr.mxFrame
      Q == IF P.nTruncate = 0
           THEN [P EXCEPT !.hdr.mxFrame = P.iFrame, !.at = "write"]
           ELSE [P EXCEPT !.hdr.mxFrame = P.iFrame, !.hdr.iChange = @ + 1,
                          !.hdr.nPage = P.nTruncate, !.hdr.stamp = Len(history) + 1,
                          !.at = "publish"]
  IN /\ At(c, "index")
     /\ aPgno' = SubSeq(aPgno, 1, old)
                 \o [k \in 1 .. P.iFrame - old |-> wal.frames[old + k].pgno]
     /\ hdrs' = IF P.nTruncate = 0 THEN hdrs ELSE [hdrs EXCEPT ![2] = Q.hdr]
     /\ Set(c, Q)
     /\ IF P.nTruncate > 0 /\ setting.synchronous = "full" THEN SyncWal ELSE UNCHANGED <<wal, dwal>>
     /\ UNCHANGED <<info, db, ddb, ghosts, counters>>

\* The end of a write transaction, with pages 1 .. n of the cache.
EndWrite(P, cache) ==
  [P EXCEPT !.x = {}, !.own = <<>>, !.nTruncate = 0, !.tx = 0, !.iFirst = 0, !.iFrame = 0,
            !.iReCksum = 0, !.cache = cache, !.at = "read"]

\* The first copy of the header: others see the transaction from now on.
Publish(c) ==
  LET P == conn[c]
      kept == IF setting.caching THEN (DOMAIN P.own \cup Cached(P)) \cap 1 .. P.nTruncate ELSE {}
  IN /\ At(c, "publish")
     /\ hdrs' = [hdrs EXCEPT ![1] = P.hdr]
     /\ history' = Append(history, pend) /\ pend' = None
     /\ Set(c, EndWrite(P, [p \in kept |-> Content(P, p)]))
     /\ UNCHANGED <<info, aPgno, files, outage, counters>>

\* sqlite3WalUndo: what was spilled leaves the cache and the wal-index.
Rollback(c) ==
  LET P == conn[c] IN
  /\ At(c, "write")
  /\ aPgno' = IF P.hdr.mxFrame # live.mxFrame THEN SubSeq(aPgno, 1, live.mxFrame) ELSE aPgno
  /\ Set(c, [EndWrite(P, [p \in Cached(P) \ DOMAIN P.own |-> Content(P, p)]) EXCEPT !.hdr = live])
  /\ UNCHANGED <<hdrs, info, files, ghosts, counters>>

-----------------------------------------------------------------------------
(* Checkpoints: sqlite3WalCheckpoint, walCheckpoint. *)

\* All but PASSIVE also want the lock of the writer; without it they are passive.
Checkpoint(c, mode) ==
  LET w == IF mode # "passive" /\ Free(c, {WRITE}) THEN {WRITE} ELSE {} IN
  /\ Idle(c) /\ May(c, mode) /\ Free(c, {CKPT})
  /\ Set(c, ReadHdr([conn[c] EXCEPT !.goal = "ckpt", !.x = {CKPT} \cup w,
                                    !.mode = IF w = {} THEN "passive" ELSE mode]))
  /\ UNCHANGED <<index, files, ghosts, counters>>

\* sqlite3WalClose: who can lock the database exclusively, the last connection.
Close(c) ==
  /\ Idle(c) /\ May(c, "close")
  /\ IF \E d \in Others(c) : ~At(d, "closed")
     THEN Set(c, Closed)
     ELSE Set(c, ReadHdr([conn[c] EXCEPT !.goal = "close", !.x = {CKPT}, !.mode = "passive"]))
  /\ UNCHANGED <<index, files, ghosts, counters>>

\* walIteratorInit: the last frame of each page.
Latest(P) ==
  LET frames == { f \in 1 .. P.hdr.mxFrame :
                    /\ walFramePgno(f) # 0
                    /\ \A g \in f + 1 .. P.hdr.mxFrame : walFramePgno(g) # walFramePgno(f) }
  IN SetToSortSeq(frames, LAMBDA f, g : walFramePgno(f) < walFramePgno(g))

Test(c) ==
  LET P == conn[c] IN
  /\ At(c, "test")
  /\ Set(c, IF nBackfill < P.hdr.mxFrame
            THEN [P EXCEPT !.iter = Latest(P), !.mxSafeFrame = P.hdr.mxFrame, !.i = 1, !.at = "marks"]
            ELSE Finish(P))
  /\ UNCHANGED <<index, files, ghosts, counters>>

\* Readers that hold a mark do not let the checkpoint get past it.
\* (A bug for the checks: a reader that is in the way is not heeded.)
Ignoring(safe, y) == safe
Limited(safe, y) == y

LimitByMark(c) ==
  LET P == conn[c]
      y == aReadMark[P.i]
      Q == [P EXCEPT !.i = IF @ = NReader - 1 THEN 0 ELSE @ + 1,
                     !.at = IF P.i = NReader - 1 THEN "backfill" ELSE "marks"]
      unused == y < P.mxSafeFrame /\ Free(c, {READ(P.i)})
  IN /\ At(c, "marks")
     /\ Set(c, IF y < P.mxSafeFrame /\ ~unused
               THEN [Q EXCEPT !.mxSafeFrame = Limited(@, y)] ELSE Q)
     /\ aReadMark' = IF unused
                     THEN [aReadMark EXCEPT ![P.i] = IF P.i = 1 THEN P.mxSafeFrame ELSE NOT_USED]
                     ELSE aReadMark
     /\ UNCHANGED <<hdrs, nBackfill, aPgno, files, ghosts, counters>>

\* The frames to copy; nobody may read the database alone meanwhile. The log is
\* on the disk before the database is written.
\* (A bug for the checks: it is not.)
LogNotSynced == UNCHANGED <<wal, dwal>>
LogSynced == SyncWal

StartBackfill(c) ==
  LET P == conn[c]
      copied == SelectSeq(P.iter, LAMBDA f : /\ nBackfill < f /\ f <= P.mxSafeFrame
                                             /\ walFramePgno(f) <= P.hdr.nPage)
  IN /\ At(c, "backfill")
     /\ IF nBackfill < P.mxSafeFrame /\ Free(c, {READ(0)})
        THEN /\ Set(c, [P EXCEPT !.x = @ \cup {READ(0)}, !.iter = copied, !.at = "copy"])
             /\ LogSynced
        ELSE Set(c, Finish([P EXCEPT !.iter = <<>>])) /\ UNCHANGED <<wal, dwal>>
     /\ UNCHANGED <<index, db, ddb, ghosts, counters>>

CopyPage(c) ==
  LET P == conn[c]
      f == Head(P.iter)
  IN /\ At(c, "copy") /\ P.iter # <<>>
     /\ db' = WritePage(db, walFramePgno(f), wal.frames[f].val)
     /\ Set(c, [P EXCEPT !.iter = Tail(@)])
     /\ UNCHANGED <<index, wal, disk, ghosts, counters>>

\* If the database is now what was committed last it is cut to its size.
CutDatabase(c) ==
  LET P == conn[c]
      all == P.mxSafeFrame = live.mxFrame
  IN /\ At(c, "copy") /\ P.iter = <<>>
     /\ db' = IF all THEN Resize(db, P.hdr.nPage) ELSE db
     /\ Set(c, [P EXCEPT !.all = all, !.at = "backfilled"])
     /\ UNCHANGED <<index, wal, disk, ghosts, counters>>

\* Then it is synced, before the frames count as copied.
Backfilled(c) ==
  LET P == conn[c] IN
  /\ At(c, "backfilled")
  /\ IF P.all THEN SyncDb ELSE UNCHANGED ddb
  /\ nBackfill' = P.mxSafeFrame
  /\ Set(c, Finish([P EXCEPT !.x = @ \ {READ(0)}]))
  /\ UNCHANGED <<hdrs, aReadMark, aPgno, wal, db, dwal, ghosts, counters>>

\* FULL is done, RESTART as well when nobody reads the log any more, or when it
\* gives up. TRUNCATE restarts the log as a writer would and cuts it.
FinishMode(c) ==
  LET P == conn[c]
      truncate == /\ P.mode = "truncate" /\ nBackfill >= P.hdr.mxFrame
                  /\ Free(c, OtherMarks)
      Q == [P EXCEPT !.hdr = RestartedHdr(P), !.nCkpt = TRUE, !.x = @ \cup OtherMarks,
                     !.at = "restart0"]
  IN /\ At(c, "mode")
     /\ IF truncate
        THEN RestartWindow /\ Set(c, Q) /\ hdrs' = [hdrs EXCEPT ![2] = Q.hdr]
        ELSE Set(c, Done(P)) /\ UNCHANGED hdrs
     /\ UNCHANGED <<info, aPgno, files, ghosts, counters>>

TruncateLog(c) ==
  /\ At(c, "cut")
  /\ wal' = [NoWal EXCEPT !.fresh = TRUE]
  /\ Set(c, Done(conn[c])) /\ pend' = None
  /\ UNCHANGED <<index, db, disk, history, outage, counters>>

\* The log goes, and the wal-index with it.
EndClose(c) ==
  /\ At(c, "unlink")
  /\ Set(c, Closed) /\ ZeroIndex
  /\ wal' = [NoWal EXCEPT !.fresh = TRUE] /\ pend' = None
  /\ UNCHANGED <<db, disk, history, outage, counters>>

-----------------------------------------------------------------------------
(* What goes wrong. *)

\* With the windows closed, a process does not die between the new header of a
\* restarted log and the count of what is in the database.
CrashWindow(c) == setting.windows \/ ~At(c, "restart1")

\* A process dies, perhaps in the middle of a frame. The wal-index stays as it
\* is as long as another has it open.
Crash(c) ==
  LET P == conn[c]
      i == P.iFrame + 1
  IN /\ ~At(c, "closed") /\ mishaps.crash < setting.crash /\ CrashWindow(c)
     /\ Set(c, Closed)
     /\ \/ UNCHANGED <<wal, pend>>
        \/ At(c, "list") /\ wal' = PutFrame(wal, i, TornFrame) /\ pend' = None
     /\ IF \A d \in Others(c) : At(d, "closed") THEN ZeroIndex ELSE UNCHANGED index
     /\ mishaps' = [mishaps EXCEPT !.crash = @ + 1]
     /\ UNCHANGED <<db, disk, history, outage, ntx, setting>>

\* What a power failure leaves of a part of a file: what is on the disk, what was
\* to go there, or something torn.
Left(old, new, torn) == IF old = new THEN {old} ELSE {old, new, torn}
Product(n, Options(_)) ==
  FoldLeft(LAMBDA S, i : { Append(s, v) : s \in S, v \in Options(i) }, {<<>>}, [i \in 1 .. n |-> i])

Frame(w, i) == IF i <= Len(w.frames) THEN w.frames[i] ELSE TornFrame
MixedWals(old, new) ==
  { [salt |-> h[1], nCkpt |-> h[2], frames |-> fs, fresh |-> FALSE] :
      h \in Left(<<old.salt, old.nCkpt>>, <<new.salt, new.nCkpt>>, <<-1, FALSE>>),
      fs \in Product(Max({Len(old.frames), Len(new.frames)}),
                     LAMBDA i : Left(Frame(old, i), Frame(new, i), TornFrame)) }
WalsLeft == IF wal.fresh THEN {dwal} \cup MixedWals(NoWal, wal) ELSE MixedWals(dwal, wal)

DbsLeft ==
  UNION { Product(n, LAMBDA p : Left(Page(ddb, p), Page(db, p), -1)) : n \in {Len(db), Len(ddb)} }

PowerFailure ==
  /\ mishaps.power < setting.power
  /\ conn' = [c \in Conns |-> Closed] /\ ZeroIndex
  /\ wal' \in WalsLeft /\ dwal' = wal' /\ db' \in DbsLeft /\ ddb' = db'
  /\ outage' = TRUE
  /\ mishaps' = [mishaps EXCEPT !.power = @ + 1]
  /\ UNCHANGED <<history, pend, ntx, setting>>

-----------------------------------------------------------------------------
Reader(c) ==
  \/ Open(c) \/ BeginRead(c) \/ Retry(c) \/ TryHdr(c) \/ BadHdr(c)
  \/ Recover(c) \/ RecoverHdr(c) \/ RecoverInfo(c)
  \/ TryRead(c) \/ LockZero(c) \/ CheckZero(c) \/ ChooseMark(c) \/ LockMark(c) \/ CheckMark(c)
  \/ (\E p \in 1 .. MaxPage : Read(c, p)) \/ EndRead(c) \/ Close(c)

Writer(c) ==
  \/ BeginWrite(c) \/ (\E p \in 1 .. MaxPage : Spill(c, p))
  \/ (\E n \in setting.sizes : \E S \in setting.writes : Commit(c, S, n))
  \/ RestartHdr(c) \/ RestartInfo(c) \/ WriteHeader(c) \/ Overwrite(c) \/ WriteFrame(c)
  \/ RewriteChecksum(c) \/ AppendIndex(c) \/ Publish(c) \/ Rollback(c)

Checkpointer(c) ==
  \/ (\E mode \in Modes : Checkpoint(c, mode))
  \/ Test(c) \/ LimitByMark(c) \/ StartBackfill(c) \/ CopyPage(c) \/ CutDatabase(c)
  \/ Backfilled(c) \/ FinishMode(c) \/ TruncateLog(c)
  \/ EndClose(c)

Next == (\E c \in Conns : Reader(c) \/ Writer(c) \/ Checkpointer(c) \/ Crash(c)) \/ PowerFailure

Spec == Init /\ [][Next]_vars

-----------------------------------------------------------------------------
(* Properties. *)

\* A connection reads the database as it was committed when its transaction began,
\* from the log, the file and its cache, whatever the others write, restart and
\* copy meanwhile; and it reads back what it spilled itself.
SnapshotIsolation ==
  \A c \in Conns : Reading(c) =>
    LET P == conn[c]
        snapshot == history[P.hdr.stamp]
    IN /\ Dbsize(P) = Len(snapshot)
       /\ \A p \in DOMAIN snapshot \ DOMAIN P.own : Content(P, p) = snapshot[p]
       /\ At(c, "write") => \A p \in DOMAIN P.own : Lookup(P, p) = P.own[p]

\* Whenever all processes die the next one finds what was committed last, or the
\* transaction that was being committed; after a power failure without a sync on
\* every commit, at least something that was committed, whole.
StoreIsCommitted ==
  LET image == Recovered(wal, db) IN
  IF outage /\ setting.synchronous = "normal"
  THEN image \in Range(history) \cup {pend}
  ELSE image \in {Last(history), pend}

\* No more frames count as copied than the log has, but while it is being
\* restarted: what counts as copied is not read from the log again.
BackfillInLog ==
  (\A c \in Conns : ~At(c, "restart1")) => nBackfill <= live.mxFrame

\* Together: the connections, the log and its recoveries are the snapshot store.
Writing(c) == conn[c].goal = "none" /\ Holds(c, WRITE)
Seen(c) ==
  LET P == conn[c] IN
  IF At(c, "read") \/ Writing(c)
  THEN [p \in 1 .. IF P.nTruncate > 0 THEN P.nTruncate ELSE Dbsize(P) |-> Content(P, p)]
  ELSE None
Snapshots == INSTANCE SnapshotStore WITH
  log <- history, limbo <- pend, view <- [c \in Conns |-> Seen(c)],
  writer <- IF \E c \in Conns : Writing(c) THEN CHOOSE c \in Conns : Writing(c) ELSE None
IsSnapshotStore == Snapshots!Spec
=============================================================================
