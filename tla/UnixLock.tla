------------------------------ MODULE UnixLock ------------------------------
(***************************************************************************)
(* The locks of os_unix.c: connections of several processes on one         *)
(* database file, over POSIX advisory locks.  POSIX locks belong to the    *)
(* process: they do not separate connections of one process, and closing   *)
(* any descriptor of the file drops them all.  unixInodeInfo makes up for  *)
(* both.                                                                   *)
(*                                                                         *)
(* A process runs one call at a time (the library is built with            *)
(* SQLITE_THREADSAFE=0); one action is one fcntl or close, with the memory *)
(* the code sets around it, so the calls of processes interleave.  A call  *)
(* that returns SQLITE_BUSY and leaves everything as it was is a           *)
(* stuttering step.                                                        *)
(***************************************************************************)
EXTENDS LockLevels, FiniteSets

CONSTANTS Conns,     \* unixFile objects
          Procs,
          ProcOf     \* [Conns -> Procs]

ASSUME UnixLockAssumption ==
  /\ IsFiniteSet(Conns)
  /\ ProcOf \in [Conns -> Procs]

Bytes == {"pending", "reserved", "shared"}    \* the ranges that are locked
Free == [b \in Bytes |-> "none"]

VARIABLES open,        \* the connections whose file is open
          eFileLock,   \* unixFile.eFileLock
          inode,       \* unixInodeInfo of each process
          os,          \* the POSIX locks each process holds
          call         \* the call a process is in, between two system calls

vars == <<open, eFileLock, inode, os, call>>

NoInode == [eFileLock |-> NO_LOCK, nShared |-> 0, nLock |-> 0, nRef |-> 0, pUnused |-> 0]
Idle == [at |-> "idle"]

Of(p) == { c \in Conns : ProcOf[c] = p }
Ready(c) == c \in open /\ call[ProcOf[c]] = Idle

\* fcntl(F_SETLK): only another process can be in the way.
CanSet(p, b, type) ==
  \A q \in Procs \ {p} : os[q][b] # "write" /\ (type = "write" => os[q][b] = "none")
SetLock(p, b, type) == os' = [os EXCEPT ![p][b] = type]

At(c, where, to, closing) ==
  call' = [call EXCEPT ![ProcOf[c]] =
             [at |-> where, conn |-> c, to |-> to, closing |-> closing]]
Return(c) == call' = [call EXCEPT ![ProcOf[c]] = Idle]
In(p, where) == call[p].at = where

Lock(c, l) == eFileLock' = [eFileLock EXCEPT ![c] = l]

-----------------------------------------------------------------------------
(* unixOpen, unixClose. *)

\* An inode is found by its number, or made; a descriptor whose close was put
\* off is taken over, if there is one.
findInodeInfo(i) == [i EXCEPT !.nRef = @ + 1]
findReusableFd(i) == [i EXCEPT !.pUnused = IF @ > 0 THEN @ - 1 ELSE 0]

Open(c) ==
  LET p == ProcOf[c] IN
  /\ c \notin open /\ call[p] = Idle
  /\ open' = open \cup {c}
  /\ inode' = [inode EXCEPT ![p] = findInodeInfo(findReusableFd(@))]
  /\ UNCHANGED <<eFileLock, os, call>>

\* findInodeInfo has no memory for a new inode: the descriptor is closed,
\* which drops what locks the process has on the file.
OpenFails(c) ==
  LET p == ProcOf[c] IN
  /\ c \notin open /\ call[p] = Idle
  /\ inode[p].nRef = 0
  /\ os' = [os EXCEPT ![p] = Free]
  /\ UNCHANGED <<open, eFileLock, inode, call>>

\* The rest of unixClose after its unixUnlock: the descriptor is kept open
\* while the process has locks on the file. The last reference frees the inode.
setPendingFd(i) == [i EXCEPT !.pUnused = @ + 1]
releaseInodeInfo(i) == IF i.nRef = 1 THEN NoInode ELSE [i EXCEPT !.nRef = @ - 1]
closePendingFds(i) == [i EXCEPT !.pUnused = 0]

\* (A bug for the checks: the descriptor is closed at once.)
CloseFile_now(c) ==
  LET p == ProcOf[c] IN
  /\ open' = open \ {c}
  /\ inode' = [inode EXCEPT ![p] = releaseInodeInfo(@)]
  /\ os' = [os EXCEPT ![p] = Free]

CloseFile(c) ==
  LET p == ProcOf[c] IN
  /\ open' = open \ {c}
  /\ IF inode[p].nLock > 0
     THEN /\ inode' = [inode EXCEPT ![p] = releaseInodeInfo(setPendingFd(@))]
          /\ UNCHANGED os
     ELSE /\ inode' = [inode EXCEPT ![p] = releaseInodeInfo(@)]
          /\ os' = [os EXCEPT ![p] = Free]

Close(c) ==
  /\ Ready(c)
  /\ eFileLock[c] = NO_LOCK
  /\ CloseFile(c)
  /\ UNCHANGED <<eFileLock, call>>

-----------------------------------------------------------------------------
(* unixLock *)

\* SHARED, when the process has SHARED or RESERVED already: no system call.
ShareInProcess(c) ==
  LET p == ProcOf[c] IN
  /\ Ready(c) /\ eFileLock[c] = NO_LOCK
  /\ inode[p].eFileLock \in {SHARED_LOCK, RESERVED_LOCK}
  /\ Lock(c, SHARED_LOCK)
  /\ inode' = [inode EXCEPT ![p].nShared = @ + 1, ![p].nLock = @ + 1]
  /\ UNCHANGED <<open, os, call>>

\* (A bug for the checks: the pending byte is not asked for.)
SharePending_skipped(c) ==
  /\ Ready(c) /\ eFileLock[c] = NO_LOCK
  /\ inode[ProcOf[c]].eFileLock = NO_LOCK
  /\ At(c, "range", SHARED_LOCK, FALSE)
  /\ UNCHANGED <<open, eFileLock, inode, os>>

\* SHARED: a read lock on the pending byte first, which a PENDING holder denies.
SharePending(c) ==
  LET p == ProcOf[c] IN
  /\ Ready(c) /\ eFileLock[c] = NO_LOCK
  /\ inode[p].eFileLock = NO_LOCK
  /\ CanSet(p, "pending", "read")
  /\ SetLock(p, "pending", "read")
  /\ At(c, "range", SHARED_LOCK, FALSE)
  /\ UNCHANGED <<open, eFileLock, inode>>

ShareRange(p) ==
  /\ In(p, "range")
  /\ \/ /\ CanSet(p, "shared", "read")
        /\ SetLock(p, "shared", "read")
        /\ At(call[p].conn, "unpend", SHARED_LOCK, FALSE)
     \/ /\ ~ CanSet(p, "shared", "read")
        /\ At(call[p].conn, "unpend", NO_LOCK, FALSE)
        /\ UNCHANGED os
  /\ UNCHANGED <<open, eFileLock, inode>>

\* (A bug for the checks: the reader is not counted.)
ShareDone_uncounted(p) ==
  LET c == call[p].conn IN
  /\ In(p, "unpend")
  /\ SetLock(p, "pending", "none")
  /\ IF call[p].to = SHARED_LOCK
     THEN /\ Lock(c, SHARED_LOCK)
          /\ inode' = [inode EXCEPT ![p].eFileLock = SHARED_LOCK]
     ELSE UNCHANGED <<eFileLock, inode>>
  /\ Return(c)
  /\ UNCHANGED open

\* The temporary lock on the pending byte is dropped, and the outcome noted.
ShareDone(p) ==
  LET c == call[p].conn IN
  /\ In(p, "unpend")
  /\ SetLock(p, "pending", "none")
  /\ IF call[p].to = SHARED_LOCK
     THEN /\ Lock(c, SHARED_LOCK)
          /\ inode' = [inode EXCEPT ![p].eFileLock = SHARED_LOCK,
                                    ![p].nShared = 1, ![p].nLock = @ + 1]
     ELSE UNCHANGED <<eFileLock, inode>>
  /\ Return(c)
  /\ UNCHANGED open

\* (A bug for the checks: a connection looks only at its own level.)
Leads_always(c) == eFileLock[c] >= SHARED_LOCK

\* Above SHARED, a connection goes on only if no other connection of its
\* process has more than it has itself.
Leads(c) == eFileLock[c] = inode[ProcOf[c]].eFileLock

Reserve(c) ==
  LET p == ProcOf[c] IN
  /\ Ready(c) /\ eFileLock[c] = SHARED_LOCK /\ Leads(c)
  /\ CanSet(p, "reserved", "write")
  /\ SetLock(p, "reserved", "write")
  /\ Lock(c, RESERVED_LOCK)
  /\ inode' = [inode EXCEPT ![p].eFileLock = RESERVED_LOCK]
  /\ UNCHANGED <<open, call>>

\* EXCLUSIVE: the pending byte first, from SHARED (to roll back a hot journal)
\* or RESERVED; a connection that is PENDING has it.
ExclusivePending(c) ==
  LET p == ProcOf[c] IN
  /\ Ready(c) /\ Leads(c)
  /\ \/ /\ eFileLock[c] \in {SHARED_LOCK, RESERVED_LOCK}
        /\ CanSet(p, "pending", "write")
        /\ SetLock(p, "pending", "write")
     \/ eFileLock[c] = PENDING_LOCK /\ UNCHANGED os
  /\ At(c, "exclusive", EXCLUSIVE_LOCK, FALSE)
  /\ UNCHANGED <<open, eFileLock, inode>>

\* (A bug for the checks: readers of the same process are forgotten.)
ExclusiveRange_regardless(p) ==
  LET c == call[p].conn
      got == CanSet(p, "shared", "write")
      now == IF got THEN EXCLUSIVE_LOCK ELSE PENDING_LOCK
  IN  /\ In(p, "exclusive")
      /\ IF got THEN SetLock(p, "shared", "write") ELSE UNCHANGED os
      /\ Lock(c, now)
      /\ inode' = [inode EXCEPT ![p].eFileLock = now]
      /\ Return(c)
      /\ UNCHANGED open

\* Then the whole shared range, unless another connection of the process is
\* reading. A failure leaves PENDING.
ExclusiveRange(p) ==
  LET c == call[p].conn
      alone == inode[p].nShared = 1
      got == alone /\ CanSet(p, "shared", "write")
      now == IF got THEN EXCLUSIVE_LOCK ELSE PENDING_LOCK
  IN  /\ In(p, "exclusive")
      /\ IF got THEN SetLock(p, "shared", "write") ELSE UNCHANGED os
      /\ Lock(c, now)
      /\ inode' = [inode EXCEPT ![p].eFileLock = now]
      /\ Return(c)
      /\ UNCHANGED open

-----------------------------------------------------------------------------
(* posixUnlock *)

\* The first system call: down to SHARED, the range becomes a read lock; from
\* above SHARED to nothing, the two bytes go first; from SHARED, nothing is
\* left to do before UnlockLast.
Unlock(c, to, closing) ==
  LET p == ProcOf[c] IN
  /\ Ready(c) /\ to \in {NO_LOCK, SHARED_LOCK} /\ eFileLock[c] > to
  /\ closing => to = NO_LOCK
  /\ IF to = SHARED_LOCK
     THEN /\ CanSet(p, "shared", "read")
          /\ SetLock(p, "shared", "read")
     ELSE UNCHANGED os
  /\ At(c, IF eFileLock[c] > SHARED_LOCK THEN "bytes" ELSE "last", to, closing)
  /\ UNCHANGED <<open, eFileLock, inode>>

\* (A bug for the checks: only the reserved byte is unlocked.)
UnlockBytes_half(p) ==
  LET c == call[p].conn IN
  /\ In(p, "bytes")
  /\ SetLock(p, "reserved", "none")
  /\ inode' = [inode EXCEPT ![p].eFileLock = SHARED_LOCK]
  /\ IF call[p].to = SHARED_LOCK
     THEN Lock(c, SHARED_LOCK) /\ Return(c)
     ELSE At(c, "last", NO_LOCK, call[p].closing) /\ UNCHANGED eFileLock
  /\ UNCHANGED open

UnlockBytes(p) ==
  LET c == call[p].conn IN
  /\ In(p, "bytes")
  /\ os' = [os EXCEPT ![p].pending = "none", ![p].reserved = "none"]
  /\ inode' = [inode EXCEPT ![p].eFileLock = SHARED_LOCK]
  /\ IF call[p].to = SHARED_LOCK
     THEN Lock(c, SHARED_LOCK) /\ Return(c)
     ELSE At(c, "last", NO_LOCK, call[p].closing) /\ UNCHANGED eFileLock
  /\ UNCHANGED open

\* Down to nothing: the system's locks go with the last reader of the process,
\* and with them the descriptors whose close was put off.
UnlockLast(p) ==
  LET c == call[p].conn
      last == inode[p].nShared = 1
      less == [inode[p] EXCEPT !.nShared = @ - 1, !.nLock = @ - 1]
  IN  /\ In(p, "last")
      /\ IF last
         THEN /\ inode' = [inode EXCEPT ![p] =
                             closePendingFds([less EXCEPT !.eFileLock = NO_LOCK])]
              /\ os' = [os EXCEPT ![p] = Free]
         ELSE inode' = [inode EXCEPT ![p] = less] /\ UNCHANGED os
      /\ Lock(c, NO_LOCK)
      /\ IF call[p].closing THEN At(c, "close", NO_LOCK, TRUE) ELSE Return(c)
      /\ UNCHANGED open

UnlockClose(p) ==
  /\ In(p, "close")
  /\ CloseFile(call[p].conn)
  /\ Return(call[p].conn)
  /\ UNCHANGED eFileLock

-----------------------------------------------------------------------------
\* The process dies, anywhere; the system closes its descriptors.
Crash(p) ==
  /\ open' = open \ Of(p)
  /\ eFileLock' = [c \in Conns |-> IF c \in Of(p) THEN NO_LOCK ELSE eFileLock[c]]
  /\ inode' = [inode EXCEPT ![p] = NoInode]
  /\ os' = [os EXCEPT ![p] = Free]
  /\ call' = [call EXCEPT ![p] = Idle]

Init ==
  /\ open = {}
  /\ eFileLock = [c \in Conns |-> NO_LOCK]
  /\ inode = [p \in Procs |-> NoInode]
  /\ os = [p \in Procs |-> Free]
  /\ call = [p \in Procs |-> Idle]

Next ==
  \/ \E c \in Conns :
       \/ Open(c) \/ OpenFails(c) \/ Close(c)
       \/ ShareInProcess(c) \/ SharePending(c)
       \/ Reserve(c) \/ ExclusivePending(c)
       \/ \E to \in {NO_LOCK, SHARED_LOCK}, closing \in BOOLEAN : Unlock(c, to, closing)
  \/ \E p \in Procs :
       \/ ShareRange(p) \/ ShareDone(p) \/ ExclusiveRange(p)
       \/ UnlockBytes(p) \/ UnlockLast(p) \/ UnlockClose(p)
       \/ Crash(p)

Spec == Init /\ [][Next]_vars

-----------------------------------------------------------------------------
(* Properties. *)

Calls == [at : {"range", "unpend", "exclusive", "bytes", "last", "close"},
          conn : Conns, to : Levels, closing : BOOLEAN]

TypeOK ==
  /\ open \subseteq Conns
  /\ eFileLock \in [Conns -> Levels]
  /\ inode \in [Procs -> [eFileLock : Levels, nShared : Nat, nLock : Nat,
                          nRef : Nat, pUnused : Nat]]
  /\ os \in [Procs -> [Bytes -> {"none", "read", "write"}]]
  /\ call \in [Procs -> {Idle} \cup Calls]

\* What a connection holds: SHARED from the first system call on that lets go of
\* more, though its eFileLock is lowered only at the end of the call.
Lowering(k) == k.at = "last" \/ (k.at = "bytes" /\ k.to = SHARED_LOCK)
Held(c) == LET k == call[ProcOf[c]] IN
           IF Lowering(k) /\ k.conn = c THEN SHARED_LOCK ELSE eFileLock[c]

\* The levels of the connections behave like FileLock's: EXCLUSIVE is alone among
\* all connections, of this process (which POSIX locks do not keep apart) and of
\* others, at every system call of every interleaving and after any crash.
ReservedBy == { c \in Conns : Held(c) >= RESERVED_LOCK /\ os[ProcOf[c]].reserved = "write" }
Promise == INSTANCE FileLock WITH level <- [c \in Conns |-> Held(c)], reserved <- ReservedBy
IsFileLock == Promise!Spec
Exclusion == Promise!Exclusion

\* What a connection believes it holds, the operating system holds for its
\* process. A descriptor closed by another connection of the process would
\* take the locks away without anyone noticing.
Backed ==
  \A c \in Conns :
    LET mine == os[ProcOf[c]] IN
    /\ Held(c) >= SHARED_LOCK => mine.shared # "none"
    /\ Held(c) = RESERVED_LOCK => mine.reserved = "write"
    /\ Held(c) >= PENDING_LOCK => mine.pending = "write"
    /\ Held(c) = EXCLUSIVE_LOCK => mine.shared = "write"

\* No lock is left behind: a process that is in no call holds a byte only for a
\* connection that has the level, and the range only for a reader. A lock that
\* leaks shuts out every other process until this one ends.
NothingLeaks ==
  \A p \in Procs : call[p] = Idle =>
    /\ os[p].pending # "none" => \E c \in Of(p) : eFileLock[c] >= PENDING_LOCK
    /\ os[p].reserved # "none" => \E c \in Of(p) : eFileLock[c] >= RESERVED_LOCK
    /\ os[p].shared # "none" => \E c \in Of(p) : eFileLock[c] >= SHARED_LOCK
    /\ inode[p].pUnused > 0 => \E c \in Of(p) : eFileLock[c] >= SHARED_LOCK

\* unixCheckReservedLock, and what the pager concludes from it before it rolls
\* back a journal: FALSE means that no connection anywhere is writing one,
\* RESERVED or EXCLUSIVE by way of RESERVED.
CheckReservedLock(c) ==
  LET p == ProcOf[c] IN
  \/ inode[p].eFileLock > SHARED_LOCK
  \/ \E q \in Procs \ {p} : os[q].reserved # "none"
ReservedIsSeen ==
  \A c \in Conns : Ready(c) /\ eFileLock[c] = SHARED_LOCK /\ ~ CheckReservedLock(c) =>
    \A d \in Conns : Held(d) # RESERVED_LOCK /\ d \notin ReservedBy

\* A process without a lock does not become a reader while a connection of another
\* process is PENDING: the readers a writer waits for only get fewer processes.
PendingBlocksProcesses ==
  [][\A c, d \in Conns :
       /\ ProcOf[c] # ProcOf[d]
       /\ Held(d) = PENDING_LOCK /\ Held(d)' = PENDING_LOCK
       /\ inode[ProcOf[c]].nShared = 0
       /\ eFileLock[c] = NO_LOCK
       => eFileLock'[c] = NO_LOCK]_vars
=============================================================================
