--------------------------- MODULE UnixLock_proofs ---------------------------
(***************************************************************************)
(* What unixLock, posixUnlock and unixClose promise, whatever the number   *)
(* of processes and of their connections on the file, at every system call *)
(* of every interleaving.                                                  *)
(***************************************************************************)
EXTENDS UnixLock, FiniteSetTheorems, TLAPS

Inodes == [eFileLock : Levels, nShared : Nat, nLock : Nat, nRef : Nat, pUnused : Nat]
Locks == [Bytes -> {"none", "read", "write"}]

Reading(p) == { c \in Of(p) : eFileLock[c] # NO_LOCK }
OpenOf(p) == open \cap Of(p)

(* The counters of the inode count the connections.                         *)
Counted(p) ==
  /\ Reading(p) \subseteq open
  /\ inode[p].nShared = Cardinality(Reading(p))
  /\ inode[p].nLock = inode[p].nShared
  /\ inode[p].nRef = Cardinality(OpenOf(p))

(* Its level is a bound on theirs, and one connection at most has more than *)
(* SHARED.                                                                  *)
Ranked(p) ==
  /\ inode[p].eFileLock = NO_LOCK <=> Reading(p) = {}
  /\ \A c \in Of(p) : Held(c) <= inode[p].eFileLock
  /\ \A c \in Of(p) : \A d \in Of(p) \ {c} :
       /\ eFileLock[c] > SHARED_LOCK => eFileLock[d] <= SHARED_LOCK
       /\ eFileLock[c] = EXCLUSIVE_LOCK => eFileLock[d] = NO_LOCK

HeldBy(c, o) ==
  /\ Held(c) >= SHARED_LOCK => o.shared # "none"
  /\ Held(c) = RESERVED_LOCK => o.reserved = "write"
  /\ Held(c) >= PENDING_LOCK => o.pending = "write"
  /\ Held(c) = EXCLUSIVE_LOCK => o.shared = "write"
BackedIn(p) == \A c \in Of(p) : HeldBy(c, os[p])

(* What a process knows of its connection between two system calls.         *)
InCall(p) ==
  LET k == call[p] IN
  k # Idle =>
    /\ k.conn \in OpenOf(p)
    /\ k.at \in {"range", "unpend"} => Reading(p) = {} /\ os[p].pending = "read"
    /\ k.at = "unpend" /\ k.to = SHARED_LOCK => os[p].shared # "none"
    /\ k.at = "exclusive" =>
         /\ eFileLock[k.conn] \in {SHARED_LOCK, RESERVED_LOCK, PENDING_LOCK}
         /\ eFileLock[k.conn] = inode[p].eFileLock
         /\ os[p].pending = "write"
    /\ k.at = "bytes" => eFileLock[k.conn] > SHARED_LOCK
    /\ k.at = "last" => eFileLock[k.conn] >= SHARED_LOCK
    /\ k.at = "close" => eFileLock[k.conn] = NO_LOCK

(* Nothing is locked, and no descriptor kept, that no connection accounts   *)
(* for and no call is about to give back.                                   *)
Accounted(p) ==
  LET at == call[p].at IN
  /\ os[p].pending # "none" =>
       at \in {"range", "unpend", "exclusive", "bytes"} \/ \E c \in Of(p) : Held(c) >= PENDING_LOCK
  /\ os[p].reserved # "none" => at = "bytes" \/ \E c \in Of(p) : Held(c) >= RESERVED_LOCK
  /\ os[p].shared # "none" =>
       (at = "unpend" /\ call[p].to = SHARED_LOCK) \/ Reading(p) # {}
  /\ inode[p].pUnused > 0 => Reading(p) # {}

(* Processes are kept apart by the system.                                  *)
Apart ==
  \A p \in Procs : \A q \in Procs \ {p} : \A b \in Bytes :
    os[p][b] = "write" => os[q][b] = "none"

Good(p) == Counted(p) /\ Ranked(p) /\ BackedIn(p) /\ InCall(p) /\ Accounted(p)

IInv == TypeOK /\ (\A p \in Procs : Good(p)) /\ Apart
-----------------------------------------------------------------------------
(* The sets that are counted are finite.                                    *)

LEMMA Finite ==
  ASSUME NEW p \in Procs
  PROVE  /\ IsFiniteSet(Reading(p)) /\ Cardinality(Reading(p)) \in Nat
         /\ IsFiniteSet(OpenOf(p)) /\ Cardinality(OpenOf(p)) \in Nat
         /\ IsFiniteSet(Reading(p)') /\ Cardinality(Reading(p)') \in Nat
         /\ IsFiniteSet(OpenOf(p)') /\ Cardinality(OpenOf(p)') \in Nat
<1>1. IsFiniteSet(Of(p))
  BY FS_Subset, UnixLockAssumption DEF Of
<1>2. /\ Reading(p) \subseteq Of(p) /\ Reading(p)' \subseteq Of(p)
      /\ OpenOf(p) \subseteq Of(p) /\ OpenOf(p)' \subseteq Of(p)
  BY DEF Reading, OpenOf
<1>q. QED BY <1>1, <1>2, FS_Subset, FS_CardinalityType

(* A count of one names its connection.                                     *)
LEMMA Alone ==
  ASSUME NEW S, IsFiniteSet(S), NEW c \in S
  PROVE  /\ Cardinality(S) # 0
         /\ Cardinality(S) = 1 => S = {c}
BY FS_EmptySet, FS_Singleton

-----------------------------------------------------------------------------
(* One process moves at a time: what it does not touch.                     *)

Only(p) ==
  /\ \A q \in Procs \ {p} : inode'[q] = inode[q] /\ os'[q] = os[q] /\ call'[q] = call[q]
  /\ \A c \in Conns \ Of(p) : eFileLock'[c] = eFileLock[c] /\ (c \in open' <=> c \in open)

Granted(p) ==
  \A b \in Bytes : os'[p][b] \in {os[p][b], "none"} \/ CanSet(p, b, os'[p][b])

LEMMA Elsewhere ==
  ASSUME NEW p \in Procs, NEW q \in Procs, p # q, Only(p), Good(q)
  PROVE  Good(q)'
<1>1. \A c \in Of(q) : c \in Conns \ Of(p) /\ ProcOf[c] = q
  BY DEF Of
<1>2. /\ inode'[q] = inode[q] /\ os'[q] = os[q] /\ call'[q] = call[q]
      /\ \A c \in Of(q) : eFileLock'[c] = eFileLock[c] /\ (c \in open' <=> c \in open)
  BY <1>1 DEF Only
<1>3. Reading(q)' = Reading(q) /\ OpenOf(q)' = OpenOf(q)
  BY <1>2 DEF Reading, OpenOf, Of
<1>4. \A c \in Of(q) : Held(c)' = Held(c)
  BY <1>1, <1>2 DEF Held, Lowering
<1>5. Counted(q)'
  BY <1>1, <1>2, <1>3 DEF Good, Counted, Reading
<1>6. Ranked(q)'
  BY <1>2, <1>3, <1>4 DEF Good, Ranked, Of
<1>7. BackedIn(q)'
  BY <1>2, <1>4 DEF Good, BackedIn, HeldBy, Of
<1>8. InCall(q)'
  BY <1>1, <1>2, <1>3 DEF Good, InCall, OpenOf
<1>9. Accounted(q)'
  BY <1>2, <1>3, <1>4 DEF Good, Accounted, Of
<1>q. QED BY <1>5, <1>6, <1>7, <1>8, <1>9 DEF Good

LEMMA Moves ==
  ASSUME NEW p \in Procs, IInv, Only(p), Granted(p), TypeOK', Good(p)'
  PROVE  IInv'
<1>1. \A q \in Procs : Good(q)'
  BY Elsewhere DEF IInv
<1>2. \A q \in Procs \ {p} : \A b \in Bytes :
        /\ os'[p][b] = "write" => os'[q][b] = "none"
        /\ os'[q][b] = "write" => os'[p][b] = "none"
  BY DEF IInv, Apart, Only, Granted, CanSet
<1>3. Apart'
  BY <1>2 DEF IInv, Apart, Only
<1>q. QED BY <1>1, <1>3 DEF IInv

(* What a connection holds, in a call and outside one.                      *)
LEMMA Holding ==
  ASSUME NEW p \in Procs, NEW c \in Of(p)
  PROVE  /\ call[p] = Idle => Held(c) = eFileLock[c]
         /\ call'[p] = Idle => Held(c)' = eFileLock'[c]
         /\ ~ Lowering(call[p]) \/ call[p].conn # c => Held(c) = eFileLock[c]
         /\ ~ Lowering(call[p])' \/ call'[p].conn # c => Held(c)' = eFileLock'[c]
         /\ Lowering(call[p]) /\ call[p].conn = c => Held(c) = SHARED_LOCK
         /\ Lowering(call[p])' /\ call'[p].conn = c => Held(c)' = SHARED_LOCK
BY DEF Held, Lowering, Of, Idle

LEMMA Here ==
  ASSUME IInv
  PROVE  /\ TypeOK
         /\ \A p \in Procs : Good(p) /\ inode[p] \in Inodes /\ os[p] \in Locks
         /\ \A c \in Conns : ProcOf[c] \in Procs /\ c \in Of(ProcOf[c]) /\ eFileLock[c] \in Levels
         /\ \A p \in Procs : call[p] # Idle =>
              call[p] \in Calls /\ call[p].conn \in Conns /\ ProcOf[call[p].conn] = p
BY UnixLockAssumption DEF IInv, TypeOK, Inodes, Locks, Of, Good, InCall, OpenOf

(* What the steps on the inode do to its fields.                            *)
LEMMA InodeFields ==
  ASSUME NEW i \in Inodes
  PROVE  /\ LET j == findInodeInfo(findReusableFd(i)) IN
            /\ j \in Inodes /\ j.eFileLock = i.eFileLock
            /\ j.nShared = i.nShared /\ j.nLock = i.nLock /\ j.nRef = i.nRef + 1
            /\ j.pUnused <= i.pUnused
         /\ LET j == setPendingFd(i) IN
            /\ j \in Inodes /\ j.eFileLock = i.eFileLock
            /\ j.nShared = i.nShared /\ j.nLock = i.nLock /\ j.nRef = i.nRef
         /\ i.nRef > 1 =>
              LET j == releaseInodeInfo(i) IN
              /\ j \in Inodes /\ j.eFileLock = i.eFileLock /\ j.pUnused = i.pUnused
              /\ j.nShared = i.nShared /\ j.nLock = i.nLock /\ j.nRef = i.nRef - 1
         /\ i.nRef = 1 => releaseInodeInfo(i) = NoInode
         /\ NoInode \in Inodes
<1>1. LET j == findInodeInfo(findReusableFd(i)) IN
            /\ j \in Inodes /\ j.eFileLock = i.eFileLock
            /\ j.nShared = i.nShared /\ j.nLock = i.nLock /\ j.nRef = i.nRef + 1
            /\ j.pUnused <= i.pUnused
  <2> DEFINE r == findReusableFd(i)
  <2>1. /\ r \in Inodes /\ r.eFileLock = i.eFileLock
        /\ r.nShared = i.nShared /\ r.nLock = i.nLock /\ r.nRef = i.nRef
        /\ r.pUnused <= i.pUnused
    BY DEF Inodes, findReusableFd
  <2> HIDE DEF r
  <2>2. LET j == findInodeInfo(r) IN
        /\ j \in Inodes /\ j.eFileLock = r.eFileLock
        /\ j.nShared = r.nShared /\ j.nLock = r.nLock /\ j.nRef = r.nRef + 1
        /\ j.pUnused = r.pUnused
    BY <2>1 DEF Inodes, findInodeInfo
  <2>q. QED BY <2>1, <2>2 DEF r
<1>2. LET j == setPendingFd(i) IN
            /\ j \in Inodes /\ j.eFileLock = i.eFileLock
            /\ j.nShared = i.nShared /\ j.nLock = i.nLock /\ j.nRef = i.nRef
  BY DEF Inodes, setPendingFd
<1>3. i.nRef > 1 =>
              LET j == releaseInodeInfo(i) IN
              /\ j \in Inodes /\ j.eFileLock = i.eFileLock /\ j.pUnused = i.pUnused
              /\ j.nShared = i.nShared /\ j.nLock = i.nLock /\ j.nRef = i.nRef - 1
  BY DEF Inodes, releaseInodeInfo
<1>4. i.nRef = 1 => releaseInodeInfo(i) = NoInode
  BY DEF releaseInodeInfo
<1>5. NoInode \in Inodes
  BY DEF NoInode, Inodes, Levels, NO_LOCK, EXCLUSIVE_LOCK
<1>q. QED BY <1>1, <1>2, <1>3, <1>4, <1>5

LEMMA LevelSet ==
  ASSUME NEW p \in Procs, NEW l \in Levels, TypeOK, inode' = [inode EXCEPT ![p].eFileLock = l]
  PROVE  /\ inode'[p] \in Inodes /\ inode'[p].eFileLock = l
         /\ inode'[p].nShared = inode[p].nShared /\ inode'[p].nLock = inode[p].nLock
         /\ inode'[p].nRef = inode[p].nRef /\ inode'[p].pUnused = inode[p].pUnused
         /\ \A q \in Procs \ {p} : inode'[q] = inode[q]
         /\ inode' \in [Procs -> Inodes]
<1>1. inode \in [Procs -> Inodes] /\ inode[p] \in Inodes
  BY DEF TypeOK, Inodes
<1>2. inode'[p] = [inode[p] EXCEPT !.eFileLock = l]
  BY <1>1
<1>3. inode'[p] \in Inodes
  BY <1>1, <1>2 DEF Inodes
<1>4. /\ inode'[p].eFileLock = l
      /\ inode'[p].nShared = inode[p].nShared /\ inode'[p].nLock = inode[p].nLock
      /\ inode'[p].nRef = inode[p].nRef /\ inode'[p].pUnused = inode[p].pUnused
  BY <1>1, <1>2 DEF Inodes
<1>q. QED BY <1>1, <1>3, <1>4

Less(i, n, m) == [i EXCEPT !.nShared = n, !.nLock = m]

LEMMA Discounted ==
  ASSUME NEW i \in Inodes, NEW n \in Nat, NEW m \in Nat
  PROVE  LET j == Less(i, n, m) IN
         /\ j \in Inodes /\ j.nShared = n /\ j.nLock = m
         /\ j.nRef = i.nRef /\ j.eFileLock = i.eFileLock /\ j.pUnused = i.pUnused
BY DEF Inodes, Less

LEMMA Emptied ==
  ASSUME NEW i \in Inodes
  PROVE  LET j == closePendingFds([i EXCEPT !.eFileLock = NO_LOCK]) IN
         /\ j \in Inodes /\ j.nShared = i.nShared /\ j.nLock = i.nLock
         /\ j.nRef = i.nRef /\ j.eFileLock = NO_LOCK /\ j.pUnused = 0
<1> DEFINE k == [i EXCEPT !.eFileLock = NO_LOCK]
<1>1. /\ k \in Inodes /\ k.nShared = i.nShared /\ k.nLock = i.nLock
      /\ k.nRef = i.nRef /\ k.eFileLock = NO_LOCK
  BY DEF Inodes, Levels, NO_LOCK, EXCLUSIVE_LOCK
<1> HIDE DEF k
<1>2. LET j == closePendingFds(k) IN
      /\ j \in Inodes /\ j.nShared = k.nShared /\ j.nLock = k.nLock
      /\ j.nRef = k.nRef /\ j.eFileLock = k.eFileLock /\ j.pUnused = 0
  BY <1>1 DEF Inodes, closePendingFds
<1>q. QED BY <1>1, <1>2 DEF k

-----------------------------------------------------------------------------
(* unixOpen, unixClose *)

LEMMA OpenStep ==
  ASSUME NEW c \in Conns, IInv, Open(c)
  PROVE  IInv'
<1> DEFINE p == ProcOf[c]
<1>0. p \in Procs /\ c \in Of(p) /\ TypeOK /\ Good(p) /\ inode[p] \in Inodes
  BY Here
<1>1. /\ inode'[p] = findInodeInfo(findReusableFd(inode[p]))
      /\ os' = os /\ call' = call /\ eFileLock' = eFileLock
      /\ open' = open \cup {c} /\ c \notin open
      /\ call[p] = Idle
      /\ \A q \in Procs \ {p} : inode'[q] = inode[q]
  BY <1>0 DEF Open, TypeOK
<1>2. Reading(p)' = Reading(p) /\ OpenOf(p)' = OpenOf(p) \cup {c} /\ c \notin OpenOf(p)
  BY <1>0, <1>1 DEF Reading, OpenOf, Of
<1>3. \A d \in Of(p) : Held(d)' = Held(d)
  BY <1>1 DEF Held, Lowering
<1>10. LET i == inode[p] j == inode'[p] IN
       /\ j \in Inodes /\ j.eFileLock = i.eFileLock
       /\ j.nShared = i.nShared /\ j.nLock = i.nLock /\ j.nRef = i.nRef + 1
       /\ j.pUnused <= i.pUnused
  BY <1>0, <1>1, InodeFields
<1>4. Counted(p)'
  <2>1. Counted(p)
    BY <1>0 DEF Good
  <2>2. IsFiniteSet(OpenOf(p)) /\ Cardinality(OpenOf(p)) \in Nat
    BY <1>0, Finite
  <2>3. Cardinality(OpenOf(p) \cup {c}) = Cardinality(OpenOf(p)) + 1
    BY <1>2, <2>2, FS_AddElement
  <2>4. Reading(p)' \subseteq open'
    BY <1>1, <1>2, <2>1 DEF Counted
  <2>5. inode'[p].nRef = Cardinality(OpenOf(p)')
    BY <1>2, <1>10, <2>1, <2>3 DEF Counted
  <2>q. QED BY <1>2, <1>10, <2>1, <2>4, <2>5 DEF Counted
<1>5. Ranked(p)'
  BY <1>0, <1>1, <1>2, <1>3, <1>10 DEF Good, Ranked, Of
<1>6. BackedIn(p)'
  BY <1>0, <1>1, <1>3 DEF Good, BackedIn, HeldBy, Of
<1>7. InCall(p)'
  BY <1>1 DEF InCall
<1>8. Accounted(p)'
  BY <1>0, <1>1, <1>2, <1>3, <1>10 DEF Good, Accounted, Of, Inodes
<1>9. Only(p) /\ Granted(p)
  BY <1>0, <1>1 DEF Only, Granted
<1>11. TypeOK'
  BY <1>0, <1>1, <1>10 DEF TypeOK, Inodes, Open
<1>q. QED BY <1>0, <1>4, <1>5, <1>6, <1>7, <1>8, <1>9, <1>11, Moves DEF Good

LEMMA OpenFailsStep ==
  ASSUME NEW c \in Conns, IInv, OpenFails(c)
  PROVE  IInv'
<1> DEFINE p == ProcOf[c]
<1>0. p \in Procs /\ c \in Of(p) /\ TypeOK /\ Good(p) /\ inode[p] \in Inodes /\ os[p] \in Locks
  BY Here
<1>1. /\ os'[p] = Free /\ inode' = inode /\ call' = call /\ eFileLock' = eFileLock
      /\ open' = open
      /\ call[p] = Idle
      /\ \A q \in Procs \ {p} : os'[q] = os[q]
  BY <1>0 DEF OpenFails, TypeOK
<1>2. /\ OpenOf(p) = {} /\ Reading(p) = {} 
      /\ Reading(p)' = Reading(p) /\ OpenOf(p)' = OpenOf(p)
  <2>1. OpenOf(p) = {}
    BY <1>0, Finite, FS_EmptySet DEF OpenFails, Good, Counted
  <2>q. QED BY <2>1, <1>0, <1>1 DEF Good, Counted, Reading, OpenOf
<1>3. \A d \in Of(p) : Held(d)' = NO_LOCK
  BY <1>0, <1>1, <1>2, Holding DEF Reading
<1>4. Counted(p)'
  BY <1>0, <1>1, <1>2 DEF Good, Counted
<1>5. Ranked(p)'
  BY <1>0, <1>1, <1>2, <1>3 DEF Good, Ranked, Of, Inodes, Reading, NO_LOCK, SHARED_LOCK, Levels
<1>6. BackedIn(p)'
  BY <1>0, <1>1, <1>3
  DEF BackedIn, HeldBy, Of, NO_LOCK, SHARED_LOCK, RESERVED_LOCK, PENDING_LOCK, EXCLUSIVE_LOCK
<1>7. InCall(p)'
  BY <1>1 DEF InCall
<1>8. Accounted(p)'
  BY <1>0, <1>1, <1>2 DEF Good, Accounted, Free, Bytes
<1>9. Only(p) /\ Granted(p)
  BY <1>0, <1>1 DEF Only, Granted, Free, Bytes
<1>10. os'[p] \in Locks
  BY <1>1 DEF Locks, Free
<1>11. TypeOK'
  BY <1>0, <1>1, <1>10 DEF TypeOK, Locks, OpenFails
<1>q. QED BY <1>0, <1>4, <1>5, <1>6, <1>7, <1>8, <1>9, <1>11, Moves DEF Good

USE DEF NO_LOCK, SHARED_LOCK, RESERVED_LOCK, PENDING_LOCK, EXCLUSIVE_LOCK, Levels

(* The end of unixClose, on its own or after unixUnlock.                    *)
LEMMA CloseFileStep ==
  ASSUME NEW c \in Conns, IInv,
         c \in open, eFileLock[c] = NO_LOCK,
         call[ProcOf[c]] = Idle \/ call[ProcOf[c]].at = "close",
         CloseFile(c), eFileLock' = eFileLock, call' = [call EXCEPT ![ProcOf[c]] = Idle]
  PROVE  IInv'
<1> DEFINE p == ProcOf[c]
<1>0. /\ p \in Procs /\ c \in Of(p) /\ TypeOK /\ Good(p)
      /\ inode[p] \in Inodes /\ os[p] \in Locks
  BY Here
<1>1. /\ open' = open \ {c} /\ call'[p] = Idle
      /\ \A q \in Procs \ {p} : inode'[q] = inode[q] /\ os'[q] = os[q] /\ call'[q] = call[q]
  BY <1>0 DEF CloseFile, TypeOK
<1>2. Reading(p)' = Reading(p) /\ OpenOf(p)' = OpenOf(p) \ {c} /\ c \in OpenOf(p) /\ c \notin Reading(p)
  BY <1>0, <1>1 DEF Reading, OpenOf, Of
<1>3. \A d \in Of(p) : Held(d)' = Held(d) /\ Held(d) = eFileLock[d]
  BY <1>0, <1>1, Holding DEF Lowering
<1>4. /\ inode[p].nRef = Cardinality(OpenOf(p)) /\ inode[p].nRef >= 1
      /\ inode[p].nRef = 1 => OpenOf(p) = {c}
      /\ Cardinality(OpenOf(p)') = inode[p].nRef - 1
  BY <1>0, <1>2, Finite, Alone, FS_RemoveElement DEF Good, Counted, Inodes
<1>5. /\ inode'[p] \in Inodes
      /\ inode'[p].nRef = inode[p].nRef - 1
      /\ inode'[p].eFileLock = inode[p].eFileLock
      /\ inode'[p].nShared = inode[p].nShared /\ inode'[p].nLock = inode[p].nLock
      /\ inode'[p].pUnused > 0 => Reading(p) # {}
  <2>1. /\ inode[p].nLock = Cardinality(Reading(p))
        /\ inode[p].nShared = Cardinality(Reading(p))
        /\ inode[p].nLock = 0 <=> Reading(p) = {}
        /\ inode[p].eFileLock = NO_LOCK <=> Reading(p) = {}
        /\ inode[p].pUnused > 0 => Reading(p) # {}
    BY <1>0, Finite, FS_EmptySet DEF Good, Counted, Ranked, Accounted
  <2>2. CASE inode[p].nRef = 1
    <3>1. Reading(p) = {}
      BY <2>2, <1>0, <1>2, <1>4 DEF Good, Counted, Reading, OpenOf
    <3>2. inode'[p] = NoInode
      BY <3>1, <2>1, <2>2, <1>0, InodeFields DEF CloseFile, TypeOK
    <3>q. QED BY <3>1, <3>2, <2>1, <2>2, <1>0, InodeFields DEF NoInode
  <2>3. CASE inode[p].nRef > 1
    <3>1. CASE inode[p].nLock > 0
      <4>1. inode'[p] = releaseInodeInfo(setPendingFd(inode[p]))
        BY <3>1, <1>0 DEF CloseFile, TypeOK
      <4>q. QED BY <4>1, <3>1, <2>1, <2>3, <1>0, InodeFields
    <3>2. CASE inode[p].nLock = 0
      <4>1. inode'[p] = releaseInodeInfo(inode[p])
        BY <3>2, <1>0 DEF CloseFile, TypeOK
      <4>q. QED BY <4>1, <2>1, <2>3, <1>0, InodeFields
    <3>q. QED BY <3>1, <3>2, <1>0 DEF Inodes
  <2>q. QED BY <2>2, <2>3, <1>0, <1>4 DEF Inodes
<1>6. /\ os'[p] = os[p] \/ (os'[p] = Free /\ Reading(p) = {})
      /\ os'[p] \in Locks
  BY <1>0, Finite, FS_EmptySet DEF CloseFile, TypeOK, Good, Counted, Inodes, Locks, Free
<1>7. Counted(p)'
  BY <1>0, <1>1, <1>2, <1>4, <1>5 DEF Good, Counted
<1>8. Ranked(p)'
  BY <1>0, <1>2, <1>3, <1>5 DEF Good, Ranked, Of
<1>9. BackedIn(p)'
  BY <1>0, <1>3, <1>6 DEF Good, BackedIn, HeldBy, Of, Reading
<1>10. InCall(p)'
  BY <1>1 DEF InCall
<1>11. Accounted(p)'
  <2>1. CASE os'[p] = os[p]
    BY <2>1, <1>0, <1>1, <1>2, <1>3, <1>5 DEF Good, Accounted, Of, Idle
  <2>2. CASE os'[p] = Free
    BY <2>2, <1>0, <1>1, <1>2, <1>5 DEF Accounted, Free, Bytes
  <2>q. QED BY <2>1, <2>2, <1>6
<1>12. Only(p) /\ Granted(p)
  BY <1>0, <1>1, <1>6 DEF Only, Granted, Free, Bytes
<1>13. TypeOK'
  BY <1>0, <1>1, <1>5, <1>6 DEF TypeOK, Inodes, Locks, CloseFile
<1>q. QED BY <1>0, <1>7, <1>8, <1>9, <1>10, <1>11, <1>12, <1>13, Moves DEF Good

LEMMA CloseStep ==
  ASSUME NEW c \in Conns, IInv, Close(c)
  PROVE  IInv'
BY Here, CloseFileStep DEF Close, Ready, TypeOK

LEMMA UnlockCloseStep ==
  ASSUME NEW p \in Procs, IInv, UnlockClose(p)
  PROVE  IInv'
<1>1. call[p].at = "close" /\ call[p] # Idle
  BY DEF UnlockClose, In, Idle
<1>2. LET c == call[p].conn IN
      /\ c \in Conns /\ ProcOf[c] = p /\ c \in open /\ eFileLock[c] = NO_LOCK
  BY <1>1, Here DEF Good, InCall, OpenOf
<1>q. QED BY <1>1, <1>2, CloseFileStep DEF UnlockClose, Return

-----------------------------------------------------------------------------
(* unixLock *)

LEMMA ShareInProcessStep ==
  ASSUME NEW c \in Conns, IInv, ShareInProcess(c)
  PROVE  IInv'
<1> DEFINE p == ProcOf[c]
<1>0. /\ p \in Procs /\ c \in Of(p) /\ TypeOK /\ Good(p)
      /\ inode[p] \in Inodes /\ os[p] \in Locks
      /\ call[p] = Idle /\ eFileLock[c] = NO_LOCK /\ c \in open
      /\ inode[p].eFileLock \in {SHARED_LOCK, RESERVED_LOCK}
  BY Here DEF ShareInProcess, Ready
<1>1. /\ os' = os /\ call' = call /\ open' = open
      /\ eFileLock' = [eFileLock EXCEPT ![c] = SHARED_LOCK]
      /\ \A q \in Procs \ {p} : inode'[q] = inode[q]
  BY <1>0 DEF ShareInProcess, TypeOK, Lock
<1>2. LET i == inode[p] j == inode'[p] IN
      /\ j \in Inodes /\ j.eFileLock = i.eFileLock /\ j.nShared = i.nShared + 1
      /\ j.nLock = i.nLock + 1 /\ j.nRef = i.nRef /\ j.pUnused = i.pUnused
  BY <1>0 DEF ShareInProcess, TypeOK, Inodes
<1>3. /\ Reading(p)' = Reading(p) \cup {c} /\ c \notin Reading(p)
      /\ OpenOf(p)' = OpenOf(p) /\ Reading(p) # {}
  BY <1>0, <1>1 DEF Reading, OpenOf, Of, TypeOK, Good, Ranked
<1>4. /\ Held(c)' = SHARED_LOCK /\ Held(c) = NO_LOCK
      /\ \A d \in Of(p) : Held(d) = eFileLock[d] /\ Held(d)' = eFileLock'[d]
      /\ \A d \in Of(p) \ {c} : Held(d)' = Held(d) /\ eFileLock'[d] = eFileLock[d]
      /\ \A d \in Of(p) : d \in Conns /\ eFileLock[d] \in Levels
  BY <1>0, <1>1, Holding DEF TypeOK, Of
<1>5. Counted(p)'
  <2>1. Cardinality(Reading(p) \cup {c}) = Cardinality(Reading(p)) + 1
    BY <1>0, <1>3, Finite, FS_AddElement
  <2>q. QED BY <2>1, <1>0, <1>1, <1>2, <1>3 DEF Good, Counted
<1>6. Ranked(p)'
  BY <1>0, <1>2, <1>3, <1>4 DEF Good, Ranked, Of
<1>7. BackedIn(p)'
  <2>1. os[p].shared # "none"
    BY <1>0, <1>3, <1>4 DEF Good, BackedIn, HeldBy, Reading
  <2>q. QED BY <2>1, <1>0, <1>1, <1>4 DEF Good, BackedIn, HeldBy, Of
<1>8. InCall(p)'
  BY <1>0, <1>1 DEF InCall
<1>9. Accounted(p)'
  BY <1>0, <1>1, <1>2, <1>3, <1>4 DEF Good, Accounted, Of
<1>10. Only(p) /\ Granted(p)
  BY <1>0, <1>1 DEF Only, Granted, TypeOK
<1>11. TypeOK'
  BY <1>0, <1>1, <1>2 DEF TypeOK, Inodes, ShareInProcess
<1>q. QED BY <1>0, <1>5, <1>6, <1>7, <1>8, <1>9, <1>10, <1>11, Moves DEF Good

LEMMA SharePendingStep ==
  ASSUME NEW c \in Conns, IInv, SharePending(c)
  PROVE  IInv'
<1> DEFINE p == ProcOf[c]
<1>0. /\ p \in Procs /\ c \in Of(p) /\ TypeOK /\ Good(p)
      /\ inode[p] \in Inodes /\ os[p] \in Locks
      /\ call[p] = Idle /\ eFileLock[c] = NO_LOCK /\ c \in open
      /\ inode[p].eFileLock = NO_LOCK
      /\ CanSet(p, "pending", "read")
  BY Here DEF SharePending, Ready
<1>1. /\ os' = [os EXCEPT ![p].pending = "read"]
      /\ call' = [call EXCEPT ![p] = [at |-> "range", conn |-> c, to |-> SHARED_LOCK, closing |-> FALSE]]
      /\ open' = open /\ inode' = inode /\ eFileLock' = eFileLock
  BY DEF SharePending, SetLock, At
<1>2. /\ os'[p] \in Locks /\ os'[p].pending = "read"
      /\ os'[p].shared = os[p].shared /\ os'[p].reserved = os[p].reserved
      /\ \A q \in Procs \ {p} : os'[q] = os[q] /\ call'[q] = call[q]
      /\ call'[p].at = "range" /\ call'[p].conn = c /\ call'[p] \in Calls
  BY <1>0, <1>1 DEF TypeOK, Locks, Bytes, Calls
<1>3. Reading(p)' = Reading(p) /\ OpenOf(p)' = OpenOf(p) /\ Reading(p) = {} /\ c \in OpenOf(p)
  BY <1>0, <1>1 DEF Reading, OpenOf, Good, Ranked
<1>4. \A d \in Of(p) : Held(d) = eFileLock[d] /\ Held(d)' = eFileLock[d] /\ eFileLock[d] = NO_LOCK
  BY <1>0, <1>1, <1>2, <1>3, Holding DEF Lowering, Reading
<1>5. Counted(p)'
  BY <1>0, <1>1, <1>3 DEF Good, Counted
<1>6. Ranked(p)'
  BY <1>0, <1>1, <1>3, <1>4 DEF Good, Ranked, Of
<1>7. BackedIn(p)'
  BY <1>4 DEF BackedIn, HeldBy, Of
<1>8. InCall(p)'
  BY <1>2, <1>3 DEF InCall
<1>9. Accounted(p)'
  BY <1>0, <1>1, <1>2, <1>3, <1>4 DEF Good, Accounted, Of, Idle
<1>10. Only(p) /\ Granted(p)
  BY <1>0, <1>1, <1>2 DEF Only, Granted, Bytes
<1>11. TypeOK'
  BY <1>0, <1>1, <1>2 DEF TypeOK, Locks
<1>q. QED BY <1>0, <1>5, <1>6, <1>7, <1>8, <1>9, <1>10, <1>11, Moves DEF Good

LEMMA ShareRangeStep ==
  ASSUME NEW p \in Procs, IInv, ShareRange(p)
  PROVE  IInv'
<1> DEFINE c == call[p].conn
<1>0. /\ TypeOK /\ Good(p) /\ inode[p] \in Inodes /\ os[p] \in Locks
      /\ call[p] # Idle /\ call[p].at = "range" /\ c \in Conns /\ ProcOf[c] = p
      /\ c \in OpenOf(p) /\ Reading(p) = {} /\ os[p].pending = "read"
  BY Here DEF ShareRange, In, Idle, Good, InCall
<1>1. \E to \in {NO_LOCK, SHARED_LOCK} :
        /\ call' = [call EXCEPT ![p] = [at |-> "unpend", conn |-> c, to |-> to, closing |-> FALSE]]
        /\ IF to = SHARED_LOCK
           THEN CanSet(p, "shared", "read") /\ os' = [os EXCEPT ![p].shared = "read"]
           ELSE os' = os
        /\ open' = open /\ inode' = inode /\ eFileLock' = eFileLock
  BY <1>0 DEF ShareRange, SetLock, At
<1>2. PICK to \in {NO_LOCK, SHARED_LOCK} :
        /\ call' = [call EXCEPT ![p] = [at |-> "unpend", conn |-> c, to |-> to, closing |-> FALSE]]
        /\ IF to = SHARED_LOCK
           THEN CanSet(p, "shared", "read") /\ os' = [os EXCEPT ![p].shared = "read"]
           ELSE os' = os
        /\ open' = open /\ inode' = inode /\ eFileLock' = eFileLock
  BY <1>1
<1>3. /\ os'[p] \in Locks /\ os'[p].pending = "read" /\ os'[p].reserved = os[p].reserved
      /\ IF to = SHARED_LOCK THEN os'[p].shared = "read" ELSE os'[p].shared = os[p].shared
      /\ \A q \in Procs \ {p} : os'[q] = os[q] /\ call'[q] = call[q]
      /\ call'[p].at = "unpend" /\ call'[p].conn = c /\ call'[p] \in Calls /\ call'[p].to = to
  BY <1>0, <1>2 DEF TypeOK, Locks, Bytes, Calls
<1>4. Reading(p)' = Reading(p) /\ OpenOf(p)' = OpenOf(p)
  BY <1>2 DEF Reading, OpenOf
<1>5. \A d \in Of(p) : Held(d) = eFileLock[d] /\ Held(d)' = eFileLock[d] /\ eFileLock[d] = NO_LOCK
  BY <1>0, <1>2, <1>3, Holding DEF Lowering, Reading
<1>6. Counted(p)'
  BY <1>0, <1>2, <1>4 DEF Good, Counted
<1>7. Ranked(p)'
  BY <1>0, <1>2, <1>4, <1>5 DEF Good, Ranked, Of
<1>8. BackedIn(p)'
  BY <1>5 DEF BackedIn, HeldBy, Of
<1>9. InCall(p)'
  BY <1>0, <1>3, <1>4 DEF InCall
<1>10. Accounted(p)'
  BY <1>0, <1>2, <1>3, <1>4, <1>5 DEF Good, Accounted, Of, Idle
<1>11. Only(p) /\ Granted(p)
  BY <1>0, <1>2, <1>3 DEF Only, Granted, Bytes
<1>12. TypeOK'
  BY <1>0, <1>2, <1>3 DEF TypeOK, Locks
<1>q. QED BY <1>0, <1>6, <1>7, <1>8, <1>9, <1>10, <1>11, <1>12, Moves DEF Good

LEMMA ShareDoneStep ==
  ASSUME NEW p \in Procs, IInv, ShareDone(p)
  PROVE  IInv'
<1> DEFINE c == call[p].conn
<1>0. /\ TypeOK /\ Good(p) /\ inode[p] \in Inodes /\ os[p] \in Locks
      /\ call[p] # Idle /\ call[p].at = "unpend" /\ c \in Conns /\ ProcOf[c] = p
      /\ c \in OpenOf(p) /\ c \in Of(p) /\ Reading(p) = {} /\ os[p].pending = "read"
      /\ call[p].to = SHARED_LOCK => os[p].shared # "none"
  BY Here DEF ShareDone, In, Idle, Good, InCall, OpenOf
<1>1. /\ os' = [os EXCEPT ![p].pending = "none"] /\ call' = [call EXCEPT ![p] = Idle]
      /\ open' = open
  BY <1>0 DEF ShareDone, SetLock, Return
<1>2. /\ os'[p] \in Locks /\ os'[p].pending = "none" /\ os'[p].reserved = os[p].reserved
      /\ os'[p].shared = os[p].shared
      /\ \A q \in Procs \ {p} : os'[q] = os[q] /\ call'[q] = call[q]
      /\ call'[p] = Idle
  BY <1>0, <1>1 DEF TypeOK, Locks, Bytes
<1>3. OpenOf(p)' = OpenOf(p)
  BY <1>1 DEF OpenOf
<1>4. \A d \in Of(p) :
        /\ Held(d)' = eFileLock'[d] /\ Held(d) = NO_LOCK /\ eFileLock[d] = NO_LOCK
        /\ d \in Conns
  BY <1>0, <1>2, Holding DEF Reading, Of, Lowering
<1>5. CASE call[p].to = SHARED_LOCK
  <2>1. /\ eFileLock' = [eFileLock EXCEPT ![c] = SHARED_LOCK]
        /\ \A q \in Procs \ {p} : inode'[q] = inode[q]
    BY <1>0, <1>5 DEF ShareDone, Lock, TypeOK
  <2>2. LET i == inode[p] j == inode'[p] IN
        /\ j \in Inodes /\ j.eFileLock = SHARED_LOCK /\ j.nShared = 1
        /\ j.nLock = i.nLock + 1 /\ j.nRef = i.nRef /\ j.pUnused = i.pUnused
    BY <1>0, <1>5 DEF ShareDone, TypeOK, Inodes
  <2>3. Reading(p)' = {c}
    BY <1>0, <2>1 DEF Reading, Of, TypeOK
  <2>4. \A d \in Of(p) : eFileLock'[d] = IF d = c THEN SHARED_LOCK ELSE NO_LOCK
    BY <1>0, <1>4, <2>1 DEF TypeOK
  <2>5. Counted(p)'
    <3>1. inode[p].nLock = 0 /\ Cardinality({c}) = 1
      BY <1>0, FS_EmptySet, FS_Singleton DEF Good, Counted
    <3>q. QED BY <1>0, <1>1, <1>3, <2>2, <2>3, <3>1 DEF Good, Counted, OpenOf
  <2>6. Ranked(p)'
    BY <1>4, <2>2, <2>3, <2>4 DEF Ranked, Of
  <2>7. BackedIn(p)'
    BY <1>0, <1>2, <1>4, <1>5, <2>4 DEF BackedIn, HeldBy, Of
  <2>8. InCall(p)'
    BY <1>2 DEF InCall
  <2>9. Accounted(p)'
    BY <1>0, <1>2, <1>4, <2>2, <2>3 DEF Good, Accounted, Of, Idle
  <2>10. Only(p) /\ Granted(p)
    BY <1>0, <1>1, <1>2, <2>1 DEF Only, Granted, Bytes, TypeOK
  <2>11. TypeOK'
    BY <1>0, <1>1, <1>2, <2>1, <2>2 DEF TypeOK, Locks, Inodes, ShareDone
  <2>q. QED BY <2>5, <2>6, <2>7, <2>8, <2>9, <2>10, <2>11, Moves DEF Good
<1>6. CASE call[p].to # SHARED_LOCK
  <2>1. eFileLock' = eFileLock /\ inode' = inode
    BY <1>6 DEF ShareDone
  <2>2. Reading(p)' = Reading(p)
    BY <2>1 DEF Reading
  <2>3. Counted(p)'
    BY <1>0, <1>1, <1>3, <2>1, <2>2 DEF Good, Counted
  <2>4. Ranked(p)'
    BY <1>0, <1>4, <2>1, <2>2 DEF Good, Ranked, Of
  <2>5. BackedIn(p)'
    BY <1>4, <2>1 DEF BackedIn, HeldBy, Of
  <2>6. InCall(p)'
    BY <1>2 DEF InCall
  <2>7. Accounted(p)'
    BY <1>0, <1>2, <1>4, <1>6, <2>1, <2>2, Holding DEF Good, Accounted, Of, Idle, Lowering
  <2>8. Only(p) /\ Granted(p)
    BY <1>0, <1>1, <1>2, <2>1 DEF Only, Granted, Bytes
  <2>9. TypeOK'
    BY <1>0, <1>1, <1>2, <2>1 DEF TypeOK, Locks
  <2>q. QED BY <2>3, <2>4, <2>5, <2>6, <2>7, <2>8, <2>9, Moves DEF Good
<1>q. QED BY <1>5, <1>6

LEMMA ReserveStep ==
  ASSUME NEW c \in Conns, IInv, Reserve(c)
  PROVE  IInv'
<1> DEFINE p == ProcOf[c]
<1>0. /\ p \in Procs /\ c \in Of(p) /\ TypeOK /\ Good(p)
      /\ inode[p] \in Inodes /\ os[p] \in Locks
      /\ call[p] = Idle /\ eFileLock[c] = SHARED_LOCK /\ c \in open
      /\ inode[p].eFileLock = SHARED_LOCK
      /\ CanSet(p, "reserved", "write")
  BY Here DEF Reserve, Ready, Leads
<1>1. /\ os' = [os EXCEPT ![p].reserved = "write"]
      /\ inode' = [inode EXCEPT ![p].eFileLock = RESERVED_LOCK]
      /\ eFileLock' = [eFileLock EXCEPT ![c] = RESERVED_LOCK]
      /\ open' = open /\ call' = call
  BY DEF Reserve, SetLock, Lock
<1>2. /\ os'[p] \in Locks /\ os'[p].reserved = "write"
      /\ os'[p].shared = os[p].shared /\ os'[p].pending = os[p].pending
      /\ inode'[p] \in Inodes /\ inode'[p].eFileLock = RESERVED_LOCK
      /\ inode'[p].nShared = inode[p].nShared /\ inode'[p].nLock = inode[p].nLock
      /\ inode'[p].nRef = inode[p].nRef /\ inode'[p].pUnused = inode[p].pUnused
      /\ \A q \in Procs \ {p} : os'[q] = os[q] /\ inode'[q] = inode[q]
  <2>1. /\ inode'[p] \in Inodes /\ inode'[p].eFileLock = RESERVED_LOCK
        /\ inode'[p].nShared = inode[p].nShared /\ inode'[p].nLock = inode[p].nLock
        /\ inode'[p].nRef = inode[p].nRef /\ inode'[p].pUnused = inode[p].pUnused
        /\ \A q \in Procs \ {p} : inode'[q] = inode[q]
    <3>1. PICK l \in Levels : l = RESERVED_LOCK
      OBVIOUS
    <3>2. inode' = [inode EXCEPT ![p].eFileLock = l]
      BY <1>1, <3>1
    <3>q. QED BY <1>0, <3>1, <3>2, LevelSet
  <2>q. QED BY <1>0, <1>1, <2>1 DEF TypeOK, Locks, Bytes
<1>3. Reading(p)' = Reading(p) /\ OpenOf(p)' = OpenOf(p) /\ c \in Reading(p)
  BY <1>0, <1>1 DEF Reading, OpenOf, TypeOK, Of
<1>4. /\ \A d \in Of(p) : /\ Held(d) = eFileLock[d] /\ Held(d)' = eFileLock'[d]
                          /\ eFileLock[d] \in {NO_LOCK, SHARED_LOCK}
      /\ \A d \in Of(p) \ {c} : eFileLock'[d] = eFileLock[d]
      /\ eFileLock'[c] = RESERVED_LOCK
  BY <1>0, <1>1, Holding DEF TypeOK, Of, Good, Ranked
<1>5. Counted(p)'
  BY <1>0, <1>1, <1>2, <1>3 DEF Good, Counted
<1>6. Ranked(p)'
  BY <1>0, <1>2, <1>3, <1>4 DEF Ranked, Of
<1>7. BackedIn(p)'
  BY <1>0, <1>2, <1>4 DEF Good, BackedIn, HeldBy, Of
<1>8. InCall(p)'
  BY <1>0, <1>1 DEF InCall
<1>9. Accounted(p)'
  BY <1>0, <1>1, <1>2, <1>3, <1>4 DEF Good, Accounted, Of, Idle
<1>10. Only(p) /\ Granted(p)
  BY <1>0, <1>1, <1>2 DEF Only, Granted, Bytes, TypeOK
<1>11. TypeOK'
  BY <1>0, <1>1, <1>2 DEF TypeOK, Locks, Inodes
<1>q. QED BY <1>0, <1>5, <1>6, <1>7, <1>8, <1>9, <1>10, <1>11, Moves DEF Good

LEMMA ExclusivePendingStep ==
  ASSUME NEW c \in Conns, IInv, ExclusivePending(c)
  PROVE  IInv'
<1> DEFINE p == ProcOf[c]
<1>0. /\ p \in Procs /\ c \in Of(p) /\ TypeOK /\ Good(p)
      /\ inode[p] \in Inodes /\ os[p] \in Locks
      /\ call[p] = Idle /\ c \in open
      /\ eFileLock[c] \in {SHARED_LOCK, RESERVED_LOCK, PENDING_LOCK}
      /\ inode[p].eFileLock = eFileLock[c]
  BY Here DEF ExclusivePending, Ready, Leads
<1>1. /\ call' =
           [call EXCEPT ![p] = [at |-> "exclusive", conn |-> c, to |-> EXCLUSIVE_LOCK, closing |-> FALSE]]
      /\ open' = open /\ inode' = inode /\ eFileLock' = eFileLock
  BY DEF ExclusivePending, At
<1>2. /\ os'[p] \in Locks /\ os'[p].pending = "write"
      /\ os'[p].shared = os[p].shared /\ os'[p].reserved = os[p].reserved
      /\ os' \in [Procs -> Locks]
      /\ \A q \in Procs \ {p} : os'[q] = os[q] /\ call'[q] = call[q]
      /\ os'[p].pending = os[p].pending \/ CanSet(p, "pending", "write")
      /\ call'[p].at = "exclusive" /\ call'[p].conn = c /\ call'[p] \in Calls
  <2>1. CASE CanSet(p, "pending", "write") /\ os' = [os EXCEPT ![p].pending = "write"]
    BY <1>0, <1>1, <2>1 DEF TypeOK, Locks, Bytes, Calls
  <2>2. CASE eFileLock[c] = PENDING_LOCK /\ os' = os
    <3>1. os[p].pending = "write"
      BY <1>0, <2>2, Holding DEF Good, BackedIn, HeldBy
    <3>q. QED BY <1>0, <1>1, <2>2, <3>1 DEF TypeOK, Locks, Bytes, Calls
  <2>q. QED BY <2>1, <2>2 DEF ExclusivePending, SetLock
<1>3. Reading(p)' = Reading(p) /\ OpenOf(p)' = OpenOf(p) /\ c \in OpenOf(p)
  BY <1>0, <1>1 DEF Reading, OpenOf
<1>4. \A d \in Of(p) : Held(d) = eFileLock[d] /\ Held(d)' = eFileLock[d] /\ eFileLock'[d] = eFileLock[d]
  BY <1>0, <1>1, <1>2, Holding DEF Lowering
<1>5. Counted(p)'
  BY <1>0, <1>1, <1>3 DEF Good, Counted
<1>6. Ranked(p)'
  BY <1>0, <1>1, <1>3, <1>4 DEF Good, Ranked, Of
<1>7. BackedIn(p)'
  BY <1>0, <1>2, <1>4 DEF Good, BackedIn, HeldBy, Of
<1>8. InCall(p)'
  BY <1>0, <1>1, <1>2, <1>3 DEF InCall
<1>9. Accounted(p)'
  BY <1>0, <1>1, <1>2, <1>3, <1>4 DEF Good, Accounted, Of, Idle
<1>10. Only(p) /\ Granted(p)
  BY <1>0, <1>1, <1>2 DEF Only, Granted, Bytes
<1>11. TypeOK'
  BY <1>0, <1>1, <1>2 DEF TypeOK, Locks
<1>q. QED BY <1>0, <1>5, <1>6, <1>7, <1>8, <1>9, <1>10, <1>11, Moves DEF Good

LEMMA ExclusiveRangeStep ==
  ASSUME NEW p \in Procs, IInv, ExclusiveRange(p)
  PROVE  IInv'
<1> DEFINE c == call[p].conn
           got == inode[p].nShared = 1 /\ CanSet(p, "shared", "write")
           now == IF got THEN EXCLUSIVE_LOCK ELSE PENDING_LOCK
<1>0. /\ TypeOK /\ Good(p) /\ inode[p] \in Inodes /\ os[p] \in Locks
      /\ call[p] # Idle /\ call[p].at = "exclusive" /\ c \in Conns /\ ProcOf[c] = p
      /\ c \in OpenOf(p) /\ c \in Of(p) /\ os[p].pending = "write"
      /\ eFileLock[c] \in {SHARED_LOCK, RESERVED_LOCK, PENDING_LOCK}
      /\ eFileLock[c] = inode[p].eFileLock
  BY Here DEF ExclusiveRange, In, Idle, Good, InCall, OpenOf
<1>1. /\ IF got THEN os' = [os EXCEPT ![p].shared = "write"] ELSE os' = os
      /\ eFileLock' = [eFileLock EXCEPT ![c] = now]
      /\ inode' = [inode EXCEPT ![p].eFileLock = now]
      /\ call' = [call EXCEPT ![p] = Idle]
      /\ open' = open
  BY <1>0 DEF ExclusiveRange, SetLock, Lock, Return
<1>2. /\ os'[p] \in Locks /\ os'[p].pending = "write" /\ os'[p].reserved = os[p].reserved
      /\ IF got THEN os'[p].shared = "write" ELSE os'[p].shared = os[p].shared
      /\ os' \in [Procs -> Locks]
      /\ inode'[p] \in Inodes /\ inode'[p].eFileLock = now
      /\ inode'[p].nShared = inode[p].nShared /\ inode'[p].nLock = inode[p].nLock
      /\ inode'[p].nRef = inode[p].nRef /\ inode'[p].pUnused = inode[p].pUnused
      /\ \A q \in Procs \ {p} : os'[q] = os[q] /\ inode'[q] = inode[q] /\ call'[q] = call[q]
      /\ call'[p] = Idle
  <2>1. /\ inode'[p] \in Inodes /\ inode'[p].eFileLock = now
        /\ inode'[p].nShared = inode[p].nShared /\ inode'[p].nLock = inode[p].nLock
        /\ inode'[p].nRef = inode[p].nRef /\ inode'[p].pUnused = inode[p].pUnused
        /\ \A q \in Procs \ {p} : inode'[q] = inode[q]
    <3>1. PICK l \in Levels : l = now
      OBVIOUS
    <3>2. inode' = [inode EXCEPT ![p].eFileLock = l]
      BY <1>1, <3>1
    <3>q. QED BY <1>0, <3>1, <3>2, LevelSet
  <2>2. /\ os'[p] \in Locks /\ os'[p].pending = "write" /\ os'[p].reserved = os[p].reserved
        /\ IF got THEN os'[p].shared = "write" ELSE os'[p].shared = os[p].shared
        /\ os' \in [Procs -> Locks]
        /\ \A q \in Procs \ {p} : os'[q] = os[q]
    <3>1. CASE got
      <4>1. os' = [os EXCEPT ![p].shared = "write"]
        BY <1>1, <3>1
      <4> HIDE DEF got
      <4>q. QED BY <1>0, <3>1, <4>1 DEF TypeOK, Locks, Bytes
    <3>2. CASE ~ got
      BY <1>0, <1>1, <3>2 DEF TypeOK, Locks
    <3>q. QED BY <3>1, <3>2
  <2>q. QED BY <1>0, <1>1, <2>1, <2>2 DEF TypeOK
<1>3. Reading(p)' = Reading(p) /\ OpenOf(p)' = OpenOf(p) /\ c \in Reading(p)
  BY <1>0, <1>1 DEF Reading, OpenOf, TypeOK, Of
<1>4. /\ \A d \in Of(p) : /\ Held(d) = eFileLock[d] /\ Held(d)' = eFileLock'[d]
                          /\ eFileLock[d] \in Levels
      /\ \A d \in Of(p) \ {c} : eFileLock'[d] = eFileLock[d] /\ eFileLock[d] <= SHARED_LOCK
      /\ eFileLock'[c] = now
  <2>1. \A d \in Of(p) : Held(d) = eFileLock[d] /\ Held(d)' = eFileLock'[d]
    BY <1>0, <1>1, <1>2, Holding DEF Lowering
  <2>2. \A d \in Of(p) : d \in Conns /\ eFileLock[d] \in Levels /\ eFileLock[d] <= inode[p].eFileLock
    BY <1>0, <2>1 DEF TypeOK, Of, Good, Ranked
  <2>3. \A d \in Of(p) \ {c} : eFileLock[d] <= SHARED_LOCK
    BY <1>0, <2>2 DEF Good, Ranked
  <2>q. QED BY <1>0, <1>1, <2>1, <2>2, <2>3 DEF TypeOK
<1>5. got => \A d \in Of(p) \ {c} : eFileLock[d] = NO_LOCK
  BY <1>0, <1>3, Finite, Alone DEF Good, Counted, Reading
<1>6. Counted(p)'
  BY <1>0, <1>1, <1>2, <1>3 DEF Good, Counted
<1>7. Ranked(p)'
  BY <1>0, <1>2, <1>3, <1>4, <1>5 DEF Ranked, Of
<1>8. BackedIn(p)'
  BY <1>0, <1>2, <1>4, <1>5 DEF Good, BackedIn, HeldBy, Of
<1>9. InCall(p)'
  BY <1>2 DEF InCall
<1>10. Accounted(p)'
  BY <1>0, <1>2, <1>3, <1>4 DEF Good, Accounted, Of, Idle
<1>11. Only(p) /\ Granted(p)
  BY <1>0, <1>1, <1>2 DEF Only, Granted, Bytes, TypeOK
<1>12. TypeOK'
  BY <1>0, <1>1, <1>2 DEF TypeOK, Locks, Inodes
<1>q. QED BY <1>6, <1>7, <1>8, <1>9, <1>10, <1>11, <1>12, Moves DEF Good

-----------------------------------------------------------------------------
(* posixUnlock *)

LEMMA UnlockStep ==
  ASSUME NEW c \in Conns, NEW to \in {NO_LOCK, SHARED_LOCK}, NEW closing \in BOOLEAN,
         IInv, Unlock(c, to, closing)
  PROVE  IInv'
<1> DEFINE p == ProcOf[c]
           where == IF eFileLock[c] > SHARED_LOCK THEN "bytes" ELSE "last"
<1>0. /\ p \in Procs /\ c \in Of(p) /\ TypeOK /\ Good(p)
      /\ inode[p] \in Inodes /\ os[p] \in Locks
      /\ call[p] = Idle /\ c \in open
      /\ eFileLock[c] \in Levels /\ eFileLock[c] > to
  BY Here DEF Unlock, Ready
<1>1. /\ call' = [call EXCEPT ![p] = [at |-> where, conn |-> c, to |-> to, closing |-> closing]]
      /\ open' = open /\ inode' = inode /\ eFileLock' = eFileLock
      /\ IF to = SHARED_LOCK
         THEN CanSet(p, "shared", "read") /\ os' = [os EXCEPT ![p].shared = "read"]
         ELSE os' = os
  BY DEF Unlock, At, SetLock
<1>2. /\ os'[p] \in Locks
      /\ os'[p].pending = os[p].pending /\ os'[p].reserved = os[p].reserved
      /\ IF to = SHARED_LOCK THEN os'[p].shared = "read" ELSE os'[p].shared = os[p].shared
      /\ os' \in [Procs -> Locks]
      /\ \A q \in Procs \ {p} : os'[q] = os[q]
  <2>1. CASE to = SHARED_LOCK
    BY <1>0, <1>1, <2>1 DEF TypeOK, Locks, Bytes
  <2>2. CASE to # SHARED_LOCK
    BY <1>0, <1>1, <2>2 DEF TypeOK, Locks
  <2>q. QED BY <2>1, <2>2
<1>3. /\ call'[p].at = where /\ call'[p].conn = c /\ call'[p].to = to /\ call'[p] \in Calls
      /\ call'[p] # Idle
      /\ \A q \in Procs \ {p} : call'[q] = call[q]
  BY <1>0, <1>1 DEF TypeOK, Calls, Idle
<1>4. Reading(p)' = Reading(p) /\ OpenOf(p)' = OpenOf(p) /\ c \in OpenOf(p) /\ c \in Reading(p)
  BY <1>0, <1>1 DEF Reading, OpenOf, TypeOK
<1>5. /\ \A d \in Of(p) : Held(d) = eFileLock[d] /\ eFileLock[d] \in Levels
      /\ \A d \in Of(p) \ {c} : Held(d)' = eFileLock[d]
      /\ Held(c)' \in {eFileLock[c], SHARED_LOCK}
      /\ Held(c)' <= eFileLock[c]
      /\ to = SHARED_LOCK => Held(c)' = SHARED_LOCK
      /\ eFileLock[c] = SHARED_LOCK => Held(c)' = SHARED_LOCK
      /\ Held(c)' # eFileLock[c] => where = "bytes"
      /\ Held(c)' >= SHARED_LOCK
  BY <1>0, <1>1, <1>3, Holding DEF Lowering, TypeOK, Of
<1>6. Counted(p)'
  BY <1>0, <1>1, <1>4 DEF Good, Counted
<1>7. Ranked(p)'
  <2>1. \A d \in Of(p) : Held(d)' <= inode[p].eFileLock
    <3>1. \A d \in Of(p) : eFileLock[d] <= inode[p].eFileLock
      BY <1>0, <1>5 DEF Good, Ranked
    <3>2. \A d \in Of(p) \ {c} : Held(d)' <= inode[p].eFileLock
      BY <3>1, <1>5
    <3>3. inode[p].eFileLock \in Levels
      BY <1>0 DEF Inodes
    <3>4. Held(c)' <= inode[p].eFileLock
      BY <3>1, <3>3, <1>0, <1>5
    <3>q. QED BY <3>2, <3>4
  <2>q. QED BY <2>1, <1>0, <1>1, <1>4 DEF Good, Ranked, Of
<1>8. BackedIn(p)'
  <2>1. \A d \in Of(p) \ {c} : HeldBy(d, os[p])'
    BY <1>0, <1>2, <1>5 DEF Good, BackedIn, HeldBy, Ranked
  <2>2. HeldBy(c, os[p])'
    BY <1>0, <1>2, <1>5 DEF Good, BackedIn, HeldBy
  <2>q. QED BY <2>1, <2>2, <1>0 DEF BackedIn, Of
<1>9. InCall(p)'
  BY <1>0, <1>1, <1>3, <1>4 DEF InCall
<1>10. Accounted(p)'
  <2>1. os[p].pending # "none" => \E d \in Of(p) : eFileLock[d] >= PENDING_LOCK
    BY <1>0, <1>5 DEF Good, Accounted, Idle
  <2>2. os[p].reserved # "none" => \E d \in Of(p) : eFileLock[d] >= RESERVED_LOCK
    BY <1>0, <1>5 DEF Good, Accounted, Idle
  <2>3. where = "bytes" \/ \A d \in Of(p) : Held(d)' = eFileLock[d]
    BY <1>5
  <2>q. QED BY <2>1, <2>2, <2>3, <1>0, <1>1, <1>2, <1>3, <1>4 DEF Good, Accounted, Of
<1>11. Only(p) /\ Granted(p)
  BY <1>0, <1>1, <1>2, <1>3 DEF Only, Granted, Bytes
<1>12. TypeOK'
  BY <1>0, <1>1, <1>2, <1>3 DEF TypeOK, Locks
<1>q. QED BY <1>0, <1>6, <1>7, <1>8, <1>9, <1>10, <1>11, <1>12, Moves DEF Good

LEMMA UnlockBytesStep ==
  ASSUME NEW p \in Procs, IInv, UnlockBytes(p)
  PROVE  IInv'
<1> DEFINE to == call[p].to
<1>0. PICK c \in Conns :
      /\ c = call[p].conn /\ TypeOK /\ Good(p) /\ inode[p] \in Inodes /\ os[p] \in Locks
      /\ call[p] # Idle /\ call[p].at = "bytes" /\ ProcOf[c] = p
      /\ c \in OpenOf(p) /\ c \in Of(p) /\ eFileLock[c] \in Levels /\ eFileLock[c] > SHARED_LOCK
      /\ call[p] \in Calls
  BY Here DEF UnlockBytes, In, Idle, Good, InCall, OpenOf
<1>1. /\ os' = [os EXCEPT ![p].pending = "none", ![p].reserved = "none"]
      /\ inode' = [inode EXCEPT ![p].eFileLock = SHARED_LOCK]
      /\ open' = open
      /\ IF to = SHARED_LOCK
         THEN /\ eFileLock' = [eFileLock EXCEPT ![c] = SHARED_LOCK]
              /\ call' = [call EXCEPT ![p] = Idle]
         ELSE /\ eFileLock' = eFileLock
              /\ call' = [call EXCEPT ![p] =
                            [at |-> "last", conn |-> c, to |-> NO_LOCK, closing |-> call[p].closing]]
  BY <1>0 DEF UnlockBytes, Lock, Return, At
<1>2. /\ os'[p] \in Locks /\ os'[p].pending = "none" /\ os'[p].reserved = "none"
      /\ os'[p].shared = os[p].shared
      /\ os' \in [Procs -> Locks]
      /\ \A q \in Procs \ {p} : os'[q] = os[q]
  BY <1>0, <1>1 DEF TypeOK, Locks, Bytes
<1>3. /\ inode'[p] \in Inodes /\ inode'[p].eFileLock = SHARED_LOCK
      /\ inode'[p].nShared = inode[p].nShared /\ inode'[p].nLock = inode[p].nLock
      /\ inode'[p].nRef = inode[p].nRef /\ inode'[p].pUnused = inode[p].pUnused
      /\ inode' \in [Procs -> Inodes]
      /\ \A q \in Procs \ {p} : inode'[q] = inode[q]
  <2>1. PICK l \in Levels : l = SHARED_LOCK
    OBVIOUS
  <2>2. inode' = [inode EXCEPT ![p].eFileLock = l]
    BY <1>1, <2>1
  <2>q. QED BY <1>0, <2>1, <2>2, LevelSet
<1>4. /\ \A q \in Procs \ {p} : call'[q] = call[q]
      /\ call' \in [Procs -> {Idle} \cup Calls]
      /\ \/ call'[p] = Idle
         \/ call'[p] # Idle /\ call'[p].at = "last" /\ call'[p].conn = c /\ eFileLock' = eFileLock
  <2>1. CASE to = SHARED_LOCK
    BY <1>0, <1>1, <2>1 DEF TypeOK
  <2>2. CASE to # SHARED_LOCK
    <3> DEFINE k == [at |-> "last", conn |-> c, to |-> NO_LOCK, closing |-> call[p].closing]
    <3>1. k \in Calls /\ k # Idle /\ k.at = "last" /\ k.conn = c
      BY <1>0 DEF Calls, Idle
    <3>2. call' = [call EXCEPT ![p] = k] /\ eFileLock' = eFileLock
      BY <1>1, <2>2
    <3> HIDE DEF k
    <3>q. QED BY <1>0, <3>1, <3>2 DEF TypeOK
  <2>q. QED BY <2>1, <2>2
<1>5. /\ eFileLock' \in [Conns -> Levels]
      /\ eFileLock'[c] >= SHARED_LOCK
      /\ \A d \in Conns \ {c} : eFileLock'[d] = eFileLock[d]
      /\ eFileLock'[c] # SHARED_LOCK => eFileLock'[c] = eFileLock[c]
  BY <1>0, <1>1 DEF TypeOK
<1>6. Reading(p)' = Reading(p) /\ OpenOf(p)' = OpenOf(p)
  BY <1>0, <1>1, <1>5 DEF Reading, OpenOf, Of
<1>7. /\ Held(c)' = SHARED_LOCK /\ Held(c) >= SHARED_LOCK
      /\ \A d \in Of(p) \ {c} : /\ Held(d) = eFileLock[d] /\ Held(d)' = eFileLock[d]
                                /\ eFileLock[d] \in {NO_LOCK, SHARED_LOCK}
  <2>1. \A d \in Of(p) \ {c} : d \in Conns /\ eFileLock[d] \in Levels /\ eFileLock[d] <= SHARED_LOCK
    BY <1>0 DEF TypeOK, Of, Good, Ranked
  <2>2. \A d \in Of(p) \ {c} : Held(d) = eFileLock[d] /\ Held(d)' = eFileLock'[d]
    BY <1>0, <1>4, Holding DEF Lowering
  <2>3. Held(c)' = SHARED_LOCK
    <3>1. CASE call'[p] = Idle
      <4>1. eFileLock'[c] = SHARED_LOCK
        BY <1>0, <1>1, <3>1 DEF TypeOK, Idle
      <4>q. QED BY <3>1, <4>1, <1>0, Holding
    <3>2. CASE call'[p].at = "last" /\ call'[p].conn = c
      BY <3>2, <1>0, Holding DEF Lowering
    <3>q. QED BY <3>1, <3>2, <1>4
  <2>4. Held(c) >= SHARED_LOCK
    BY <1>0, Holding
  <2>q. QED BY <1>5, <2>1, <2>2, <2>3, <2>4
<1>8. Counted(p)'
  BY <1>0, <1>1, <1>3, <1>6 DEF Good, Counted
<1>9. Ranked(p)'
  <2>1. Reading(p) # {}
    BY <1>0 DEF Reading
  <2>2. \A d \in Of(p) : Held(d)' <= SHARED_LOCK
    BY <1>7
  <2>3. \A d \in Of(p) \ {c} : eFileLock'[d] = eFileLock[d]
    BY <1>5 DEF Of
  <2>4. \A d \in Of(p) : \A e \in Of(p) \ {d} :
          /\ eFileLock'[d] > SHARED_LOCK => eFileLock'[e] <= SHARED_LOCK
          /\ eFileLock'[d] = EXCLUSIVE_LOCK => eFileLock'[e] = NO_LOCK
    BY <1>0, <1>5, <1>7, <2>3 DEF Good, Ranked
  <2>q. QED BY <1>3, <1>6, <2>1, <2>2, <2>4 DEF Ranked, Of
<1>10. BackedIn(p)'
  BY <1>0, <1>2, <1>7 DEF Good, BackedIn, HeldBy, Of
<1>11. InCall(p)'
  BY <1>0, <1>4, <1>6 DEF InCall
<1>12. Accounted(p)'
  BY <1>0, <1>2, <1>3, <1>6 DEF Good, Accounted
<1>13. Only(p) /\ Granted(p)
  BY <1>0, <1>1, <1>2, <1>3, <1>4, <1>5 DEF Only, Granted, Bytes
<1>14. TypeOK'
  BY <1>0, <1>1, <1>2, <1>3, <1>4, <1>5 DEF TypeOK, Locks, Inodes
<1>q. QED BY <1>8, <1>9, <1>10, <1>11, <1>12, <1>13, <1>14, Moves DEF Good

LEMMA UnlockLastStep ==
  ASSUME NEW p \in Procs, IInv, UnlockLast(p)
  PROVE  IInv'
<1>0. PICK c \in Conns :
      /\ c = call[p].conn /\ TypeOK /\ Good(p)
      /\ inode[p] \in Inodes /\ os[p] \in Locks
      /\ call[p] # Idle /\ call[p].at = "last" /\ ProcOf[c] = p
      /\ c \in OpenOf(p) /\ c \in Of(p) /\ c \in Reading(p)
      /\ call[p] \in Calls
  BY Here DEF UnlockLast, In, Idle, Good, InCall, OpenOf, Reading
<1>1. /\ eFileLock' = [eFileLock EXCEPT ![c] = NO_LOCK]
      /\ open' = open
  BY <1>0 DEF UnlockLast, Lock
<1>2. /\ \A q \in Procs \ {p} : call'[q] = call[q]
      /\ call' \in [Procs -> {Idle} \cup Calls]
      /\ \/ call'[p] = Idle
         \/ call'[p] # Idle /\ call'[p].at = "close" /\ call'[p].conn = c
  <2>1. CASE call[p].closing
    <3> DEFINE k == [at |-> "close", conn |-> c, to |-> NO_LOCK, closing |-> TRUE]
    <3>1. k \in Calls /\ k # Idle /\ k.at = "close" /\ k.conn = c
      BY <1>0 DEF Calls, Idle
    <3>2. call' = [call EXCEPT ![p] = k]
      BY <1>0, <2>1 DEF UnlockLast, At
    <3> HIDE DEF k
    <3>q. QED BY <1>0, <3>1, <3>2 DEF TypeOK
  <2>2. CASE ~ call[p].closing
    BY <1>0, <2>2 DEF UnlockLast, Return, TypeOK
  <2>q. QED BY <2>1, <2>2
<1>3. /\ Reading(p)' = Reading(p) \ {c} /\ OpenOf(p)' = OpenOf(p)
      /\ inode[p].nShared = Cardinality(Reading(p)) /\ inode[p].nShared >= 1
      /\ inode[p].nLock = inode[p].nShared
      /\ Cardinality(Reading(p)') = inode[p].nShared - 1
      /\ inode[p].nShared = 1 <=> Reading(p)' = {}
  <2>1. Reading(p)' = Reading(p) \ {c} /\ OpenOf(p)' = OpenOf(p)
    BY <1>0, <1>1 DEF Reading, OpenOf, Of, TypeOK
  <2>2. Cardinality(Reading(p) \ {c}) = Cardinality(Reading(p)) - 1
    BY <1>0, Finite, FS_RemoveElement
  <2>3. inode[p].nShared = Cardinality(Reading(p)) /\ inode[p].nLock = inode[p].nShared
    BY <1>0 DEF Good, Counted
  <2>q. QED BY <2>1, <2>2, <2>3, <1>0, Finite, Alone, FS_EmptySet DEF Inodes
<1>4. /\ \A d \in Of(p) \ {c} : /\ Held(d)' = Held(d) /\ Held(d) = eFileLock[d]
                                /\ eFileLock'[d] = eFileLock[d]
      /\ Held(c)' = NO_LOCK /\ eFileLock'[c] = NO_LOCK /\ Held(c) = SHARED_LOCK
  <2>1. \A d \in Of(p) : Held(d)' = eFileLock'[d]
    BY <1>2, Holding DEF Lowering
  <2>2. \A d \in Of(p) \ {c} : Held(d) = eFileLock[d]
    BY <1>0, Holding
  <2>3. Held(c) = SHARED_LOCK
    BY <1>0, Holding DEF Lowering
  <2>q. QED BY <1>0, <1>1, <2>1, <2>2, <2>3 DEF TypeOK, Of
<1> DEFINE last == inode[p].nShared = 1
<1>5. /\ inode'[p] \in Inodes /\ inode'[p].nShared = inode[p].nShared - 1
      /\ inode'[p].nLock = inode[p].nLock - 1 /\ inode'[p].nRef = inode[p].nRef
      /\ inode'[p].eFileLock = IF last THEN NO_LOCK ELSE inode[p].eFileLock
      /\ inode'[p].pUnused = IF last THEN 0 ELSE inode[p].pUnused
      /\ inode' \in [Procs -> Inodes]
      /\ \A q \in Procs \ {p} : inode'[q] = inode[q]
  <2> DEFINE less == [inode[p] EXCEPT !.nShared = inode[p].nShared - 1, !.nLock = inode[p].nLock - 1]
             none == [less EXCEPT !.eFileLock = NO_LOCK]
  <2>1. /\ less \in Inodes /\ less.nShared = inode[p].nShared - 1 /\ less.nLock = inode[p].nLock - 1
        /\ less.nRef = inode[p].nRef /\ less.eFileLock = inode[p].eFileLock
        /\ less.pUnused = inode[p].pUnused
    <3>1. inode[p].nShared - 1 \in Nat /\ inode[p].nLock - 1 \in Nat
      BY <1>0, <1>3 DEF Inodes
    <3>2. PICK n \in Nat, m \in Nat : n = inode[p].nShared - 1 /\ m = inode[p].nLock - 1
      BY <3>1
    <3>3. PICK i \in Inodes : i = inode[p]
      BY <1>0
    <3>4. less = Less(i, n, m)
      BY <3>2, <3>3, Zenon DEF Less
    <3> HIDE DEF less
    <3>5. /\ Less(i, n, m) \in Inodes /\ Less(i, n, m).nShared = n /\ Less(i, n, m).nLock = m
          /\ Less(i, n, m).nRef = i.nRef /\ Less(i, n, m).eFileLock = i.eFileLock
          /\ Less(i, n, m).pUnused = i.pUnused
      BY Discounted, Zenon
    <3>q. QED BY <3>2, <3>3, <3>4, <3>5
  <2>2. inode' = [inode EXCEPT ![p] = IF last THEN closePendingFds(none) ELSE less]
    BY DEF UnlockLast
  <2> HIDE DEF less
  <2>3. LET j == closePendingFds(none) IN
        /\ j \in Inodes /\ j.nShared = less.nShared /\ j.nLock = less.nLock
        /\ j.nRef = less.nRef /\ j.eFileLock = NO_LOCK /\ j.pUnused = 0
    BY <2>1, Emptied
  <2> HIDE DEF none
  <2>4. inode \in [Procs -> Inodes]
    BY <1>0 DEF TypeOK, Inodes
  <2>q. QED BY <2>1, <2>2, <2>3, <2>4
<1>6. /\ os'[p] \in Locks /\ os' \in [Procs -> Locks]
      /\ IF last THEN os'[p] = Free ELSE os'[p] = os[p]
      /\ \A q \in Procs \ {p} : os'[q] = os[q]
  <2>1. os \in [Procs -> Locks] /\ Free \in Locks
    BY <1>0 DEF TypeOK, Locks, Free
  <2>q. QED BY <2>1, <1>0 DEF UnlockLast
<1>7. Counted(p)'
  BY <1>0, <1>1, <1>3, <1>5 DEF Good, Counted
<1>8. Ranked(p)'
  <2>1. \A d \in Of(p) : Held(d)' <= inode'[p].eFileLock
    <3>1. CASE last
      BY <3>1, <1>3, <1>4, <1>5 DEF Reading, Of
    <3>2. CASE ~ last
      BY <3>2, <1>0, <1>4, <1>5 DEF Good, Ranked, Inodes
    <3>q. QED BY <3>1, <3>2
  <2>2. inode'[p].eFileLock = NO_LOCK <=> Reading(p)' = {}
    BY <1>0, <1>3, <1>5 DEF Good, Ranked
  <2>3. \A d \in Of(p) : \A e \in Of(p) \ {d} :
          /\ eFileLock'[d] > SHARED_LOCK => eFileLock'[e] <= SHARED_LOCK
          /\ eFileLock'[d] = EXCLUSIVE_LOCK => eFileLock'[e] = NO_LOCK
    BY <1>0, <1>4 DEF Good, Ranked
  <2>q. QED BY <2>1, <2>2, <2>3 DEF Ranked, Of
<1>9. BackedIn(p)'
  <2>1. CASE last
    <3>1. \A d \in Of(p) : Held(d)' = NO_LOCK
      BY <2>1, <1>0, <1>3, <1>4 DEF Reading, Of
    <3>q. QED BY <3>1 DEF BackedIn, HeldBy, Of
  <2>2. CASE ~ last
    BY <2>2, <1>0, <1>4, <1>6 DEF Good, BackedIn, HeldBy, Of
  <2>q. QED BY <2>1, <2>2
<1>10. InCall(p)'
  BY <1>0, <1>2, <1>3, <1>4 DEF InCall
<1>11. Accounted(p)'
  <2>1. CASE last
    BY <2>1, <1>5, <1>6 DEF Accounted, Free, Bytes
  <2>2. CASE ~ last
    <3>1. /\ os[p].pending # "none" => \E d \in Of(p) : Held(d) >= PENDING_LOCK
          /\ os[p].reserved # "none" => \E d \in Of(p) : Held(d) >= RESERVED_LOCK
      BY <1>0 DEF Good, Accounted
    <3>2. /\ os[p].pending # "none" => \E d \in Of(p) : Held(d)' >= PENDING_LOCK
          /\ os[p].reserved # "none" => \E d \in Of(p) : Held(d)' >= RESERVED_LOCK
      BY <3>1, <1>4
    <3>q. QED BY <2>2, <3>2, <1>3, <1>6 DEF Accounted, Of
  <2>q. QED BY <2>1, <2>2
<1>12. Only(p) /\ Granted(p)
  BY <1>0, <1>1, <1>2, <1>5, <1>6 DEF Only, Granted, Free, Bytes, TypeOK
<1>13. TypeOK'
  BY <1>0, <1>1, <1>2, <1>5, <1>6 DEF TypeOK, Locks, Inodes
<1>q. QED BY <1>7, <1>8, <1>9, <1>10, <1>11, <1>12, <1>13, Moves DEF Good

-----------------------------------------------------------------------------
LEMMA CrashStep ==
  ASSUME NEW p \in Procs, IInv, Crash(p)
  PROVE  IInv'
<1>0. TypeOK /\ Good(p)
  BY Here
<1>1. /\ inode'[p] = NoInode /\ os'[p] = Free /\ call'[p] = Idle
      /\ \A q \in Procs \ {p} : inode'[q] = inode[q] /\ os'[q] = os[q] /\ call'[q] = call[q]
      /\ open' = open \ Of(p)
      /\ \A c \in Conns : eFileLock'[c] = IF c \in Of(p) THEN NO_LOCK ELSE eFileLock[c]
  BY <1>0 DEF Crash, TypeOK
<1>2. Reading(p)' = {} /\ OpenOf(p)' = {}
  BY <1>1 DEF Reading, OpenOf, Of
<1>3. \A c \in Of(p) : eFileLock'[c] = NO_LOCK /\ Held(c)' = NO_LOCK
  BY <1>1, Holding DEF Of
<1>4. Counted(p)'
  BY <1>1, <1>2, FS_EmptySet DEF Counted, NoInode
<1>5. Ranked(p)'
  BY <1>1, <1>2, <1>3 DEF Ranked, NoInode, Of
<1>6. BackedIn(p)'
  BY <1>3 DEF BackedIn, HeldBy, Of
<1>7. InCall(p)'
  BY <1>1 DEF InCall
<1>8. Accounted(p)'
  BY <1>1 DEF Accounted, Free, Bytes, NoInode
<1>9. Only(p) /\ Granted(p)
  BY <1>1 DEF Only, Granted, Free, Bytes, Of
<1>10. NoInode \in Inodes /\ Free \in Locks
  BY DEF NoInode, Inodes, Free, Locks
<1>11. TypeOK'
  BY <1>0, <1>10 DEF TypeOK, Crash, Inodes, Locks, Of
<1>q. QED BY <1>4, <1>5, <1>6, <1>7, <1>8, <1>9, <1>11, Moves DEF Good

LEMMA InitHolds == Init => IInv
<1> SUFFICES ASSUME Init PROVE IInv
  OBVIOUS
<1>1. TypeOK
  BY DEF Init, TypeOK, NoInode, Free
<1>2. Apart
  BY DEF Init, Apart, Free, Bytes
<1>3. ASSUME NEW p \in Procs PROVE Good(p)
  <2>1. Reading(p) = {} /\ OpenOf(p) = {}
    BY DEF Init, Reading, OpenOf, Of
  <2>2. \A c \in Of(p) : Held(c) = NO_LOCK /\ eFileLock[c] = NO_LOCK
    BY Holding DEF Init, Of
  <2>3. inode[p] = NoInode /\ os[p] = Free /\ call[p] = Idle
    BY DEF Init
  <2>4. Counted(p)
    BY <2>1, <2>3, FS_EmptySet DEF Counted, NoInode
  <2>5. Ranked(p) /\ BackedIn(p) /\ InCall(p)
    BY <2>1, <2>2, <2>3 DEF Ranked, BackedIn, HeldBy, InCall, NoInode
  <2>6. Accounted(p)
    BY <2>3 DEF Accounted, NoInode, Free, Bytes
  <2>q. QED BY <2>4, <2>5, <2>6 DEF Good
<1>q. QED BY <1>1, <1>2, <1>3 DEF IInv

LEMMA StepHolds == IInv /\ [Next]_vars => IInv'
<1> SUFFICES ASSUME IInv, [Next]_vars PROVE IInv'
  OBVIOUS
<1>1. ASSUME NEW c \in Conns, Open(c) PROVE IInv'
  BY <1>1, OpenStep
<1>2. ASSUME NEW c \in Conns, OpenFails(c) PROVE IInv'
  BY <1>2, OpenFailsStep
<1>3. ASSUME NEW c \in Conns, Close(c) PROVE IInv'
  BY <1>3, CloseStep
<1>4. ASSUME NEW c \in Conns, ShareInProcess(c) PROVE IInv'
  BY <1>4, ShareInProcessStep
<1>5. ASSUME NEW c \in Conns, SharePending(c) PROVE IInv'
  BY <1>5, SharePendingStep
<1>6. ASSUME NEW c \in Conns, Reserve(c) PROVE IInv'
  BY <1>6, ReserveStep
<1>7. ASSUME NEW c \in Conns, ExclusivePending(c) PROVE IInv'
  BY <1>7, ExclusivePendingStep
<1>8. ASSUME NEW c \in Conns, NEW to \in {NO_LOCK, SHARED_LOCK}, NEW closing \in BOOLEAN,
             Unlock(c, to, closing)
      PROVE IInv'
  BY <1>8, UnlockStep
<1>9. ASSUME NEW p \in Procs, ShareRange(p) PROVE IInv'
  BY <1>9, ShareRangeStep
<1>10. ASSUME NEW p \in Procs, ShareDone(p) PROVE IInv'
  BY <1>10, ShareDoneStep
<1>11. ASSUME NEW p \in Procs, ExclusiveRange(p) PROVE IInv'
  BY <1>11, ExclusiveRangeStep
<1>12. ASSUME NEW p \in Procs, UnlockBytes(p) PROVE IInv'
  BY <1>12, UnlockBytesStep
<1>13. ASSUME NEW p \in Procs, UnlockLast(p) PROVE IInv'
  BY <1>13, UnlockLastStep
<1>14. ASSUME NEW p \in Procs, UnlockClose(p) PROVE IInv'
  BY <1>14, UnlockCloseStep
<1>15. ASSUME NEW p \in Procs, Crash(p) PROVE IInv'
  BY <1>15, CrashStep
<1>16. CASE UNCHANGED vars
  <2>1. \A p \in Procs : Good(p)' <=> Good(p)
    BY <1>16 DEF vars, Good, Counted, Ranked, BackedIn, HeldBy, InCall, Accounted,
                 Reading, OpenOf, Held, Lowering
  <2>q. QED BY <1>16, <2>1 DEF IInv, TypeOK, Apart, vars
<1>q. QED
  BY <1>1, <1>2, <1>3, <1>4, <1>5, <1>6, <1>7, <1>8, <1>9, <1>10, <1>11, <1>12, <1>13,
     <1>14, <1>15, <1>16 DEF Next

LEMMA Invariant == Spec => []IInv
BY InitHolds, StepHolds, PTL DEF Spec

-----------------------------------------------------------------------------
(* What the invariant says of two connections, of one process or of two.    *)

LEMMA Sane ==
  ASSUME IInv, NEW c \in Conns
  PROVE  /\ ProcOf[c] \in Procs /\ c \in Of(ProcOf[c])
         /\ eFileLock[c] \in Levels /\ Held(c) \in Levels /\ Held(c) <= eFileLock[c]
         /\ Held(c) <= inode[ProcOf[c]].eFileLock
         /\ Held(c) = NO_LOCK <=> eFileLock[c] = NO_LOCK
         /\ Held(c) # NO_LOCK => c \in open
<1>1. PICK p \in Procs : p = ProcOf[c] /\ c \in Of(p) /\ eFileLock[c] \in Levels /\ Good(p)
  BY Here
<1>2. \/ Held(c) = eFileLock[c]
      \/ Held(c) = SHARED_LOCK /\ Lowering(call[p]) /\ call[p].conn = c
  BY <1>1, Holding
<1>3. Lowering(call[p]) /\ call[p].conn = c => eFileLock[c] >= SHARED_LOCK
  BY <1>1 DEF Good, InCall, Lowering, Idle
<1>4. Held(c) <= inode[p].eFileLock /\ (eFileLock[c] # NO_LOCK => c \in open)
  BY <1>1 DEF Good, Ranked, Counted, Reading
<1>q. QED BY <1>1, <1>2, <1>3, <1>4

LEMMA SameProcess ==
  ASSUME IInv, NEW c \in Conns, NEW d \in Conns \ {c}, ProcOf[c] = ProcOf[d]
  PROVE  /\ Held(c) > SHARED_LOCK => Held(d) <= SHARED_LOCK
         /\ Held(c) = EXCLUSIVE_LOCK => Held(d) = NO_LOCK
<1>1. Good(ProcOf[c]) /\ d \in Of(ProcOf[c])
  BY Here
<1>q. QED BY <1>1, Sane DEF Good, Ranked

LEMMA TwoProcesses ==
  ASSUME IInv, NEW c \in Conns, NEW d \in Conns, ProcOf[c] # ProcOf[d]
  PROVE  /\ Held(c) = EXCLUSIVE_LOCK => Held(d) = NO_LOCK
         /\ Held(c) >= PENDING_LOCK => Held(d) < PENDING_LOCK
         /\ os[ProcOf[c]].reserved = "write" => Held(d) # RESERVED_LOCK /\ d \notin ReservedBy
<1>1. HeldBy(c, os[ProcOf[c]]) /\ HeldBy(d, os[ProcOf[d]])
  BY Here DEF Good, BackedIn
<1>2. \A b \in Bytes : os[ProcOf[c]][b] = "write" => os[ProcOf[d]][b] = "none"
  BY Sane DEF IInv, Apart
<1>q. QED BY <1>1, <1>2, Sane DEF HeldBy, Bytes, ReservedBy

(* The operating system holds what a connection believes it holds.          *)
THEOREM BackedAlways == Spec => []Backed
<1>1. IInv => Backed
  BY Here DEF Backed, Good, BackedIn, HeldBy
<1>q. QED BY <1>1, Invariant, PTL

(* Types, among them that no counter of unixInodeInfo goes below zero.      *)
THEOREM Typed == Spec => []TypeOK
<1>1. IInv => TypeOK
  BY DEF IInv
<1>q. QED BY <1>1, Invariant, PTL

LEMMA ExclusionHolds == IInv => Exclusion
<1> SUFFICES ASSUME IInv, NEW c \in Conns, NEW d \in Conns \ {c}
             PROVE  /\ Held(c) = EXCLUSIVE_LOCK => Held(d) = NO_LOCK
                    /\ Held(c) = PENDING_LOCK => Held(d) # PENDING_LOCK
                    /\ Held(c) = RESERVED_LOCK => Held(d) # RESERVED_LOCK
                    /\ c \in ReservedBy => d \notin ReservedBy
  BY DEF Exclusion, Promise!Exclusion, Promise!Others, Promise!NO_LOCK, Promise!RESERVED_LOCK,
         Promise!PENDING_LOCK, Promise!EXCLUSIVE_LOCK
<1>1. CASE ProcOf[c] = ProcOf[d]
  <2>1. /\ Held(c) \in Levels /\ Held(d) \in Levels
        /\ Held(c) > SHARED_LOCK => Held(d) <= SHARED_LOCK
        /\ Held(c) = EXCLUSIVE_LOCK => Held(d) = NO_LOCK
    BY <1>1, Sane, SameProcess
  <2>q. QED BY <2>1 DEF ReservedBy
<1>2. CASE ProcOf[c] # ProcOf[d]
  <2>1. HeldBy(c, os[ProcOf[c]])
    BY Here DEF Good, BackedIn
  <2>q. QED BY <1>2, <2>1, TwoProcesses DEF ReservedBy, HeldBy
<1>q. QED BY <1>1, <1>2

(* EXCLUSIVE is alone; one RESERVED and one PENDING connection at most.     *)
THEOREM Excluded == Spec => []Exclusion
BY ExclusionHolds, Invariant, PTL

(* No lock is left behind by a process that is in no call.                  *)
THEOREM NoneLeaks == Spec => []NothingLeaks
<1>1. IInv => NothingLeaks
  <2> SUFFICES ASSUME IInv, NEW p \in Procs, call[p] = Idle
               PROVE  /\ os[p].pending # "none" => \E c \in Of(p) : eFileLock[c] >= PENDING_LOCK
                      /\ os[p].reserved # "none" => \E c \in Of(p) : eFileLock[c] >= RESERVED_LOCK
                      /\ os[p].shared # "none" => \E c \in Of(p) : eFileLock[c] >= SHARED_LOCK
                      /\ inode[p].pUnused > 0 => \E c \in Of(p) : eFileLock[c] >= SHARED_LOCK
    BY DEF NothingLeaks
  <2>1. Accounted(p) /\ \A c \in Of(p) : Held(c) = eFileLock[c] /\ eFileLock[c] \in Levels
    BY Here, Holding DEF Good, Of
  <2>2. Reading(p) # {} => \E c \in Of(p) : eFileLock[c] >= SHARED_LOCK
    BY <2>1 DEF Reading
  <2>q. QED BY <2>1, <2>2 DEF Accounted, Idle
<1>q. QED BY <1>1, Invariant, PTL

(* A journal is rolled back only when nobody is writing it.                 *)
THEOREM ReservedSeen == Spec => []ReservedIsSeen
<1>1. IInv => ReservedIsSeen
  <2> SUFFICES ASSUME IInv, NEW c \in Conns, NEW d \in Conns, ~ CheckReservedLock(c)
               PROVE  Held(d) # RESERVED_LOCK /\ d \notin ReservedBy
    BY DEF ReservedIsSeen
  <2>1. HeldBy(d, os[ProcOf[d]])
    BY Here DEF Good, BackedIn
  <2>2. CASE ProcOf[d] = ProcOf[c]
    BY <2>2, Sane, Here DEF CheckReservedLock, ReservedBy, Inodes
  <2>3. CASE ProcOf[d] # ProcOf[c]
    BY <2>1, <2>3, Sane DEF CheckReservedLock, ReservedBy, HeldBy
  <2>q. QED BY <2>2, <2>3
<1>q. QED BY <1>1, Invariant, PTL

-----------------------------------------------------------------------------
(* UnixLock implements FileLock: every system call raises or lowers what at *)
(* most one connection holds, or leaves all as it is.                       *)

LEMMA OnlyOne ==
  ASSUME TypeOK
  PROVE  /\ \A c \in Conns :
              (\/ Open(c) \/ OpenFails(c) \/ Close(c) \/ ShareInProcess(c) \/ SharePending(c)
               \/ Reserve(c) \/ ExclusivePending(c)
               \/ \E to \in {NO_LOCK, SHARED_LOCK}, closing \in BOOLEAN : Unlock(c, to, closing))
              => Only(ProcOf[c])
         /\ \A p \in Procs :
              /\ \/ ShareRange(p) \/ ShareDone(p) \/ ExclusiveRange(p) \/ UnlockBytes(p)
                 \/ UnlockLast(p) \/ UnlockClose(p)
              /\ call[p] # Idle => ProcOf[call[p].conn] = p
              => Only(p)
<1>1. ASSUME NEW c \in Conns, Open(c) \/ OpenFails(c) \/ Close(c) PROVE Only(ProcOf[c])
  BY <1>1, UnixLockAssumption DEF Only, Of, TypeOK, Open, OpenFails, Close, CloseFile
<1>2. ASSUME NEW c \in Conns, ShareInProcess(c) \/ SharePending(c) \/ Reserve(c)
      PROVE  Only(ProcOf[c])
  BY <1>2, UnixLockAssumption
     DEF Only, Of, TypeOK, ShareInProcess, SharePending, Reserve, Lock, SetLock, At
<1>3. ASSUME NEW c \in Conns,
             \/ ExclusivePending(c)
             \/ \E to \in {NO_LOCK, SHARED_LOCK}, closing \in BOOLEAN : Unlock(c, to, closing)
      PROVE  Only(ProcOf[c])
  BY <1>3, UnixLockAssumption DEF Only, Of, TypeOK, ExclusivePending, Unlock, SetLock, At
<1>4. ASSUME NEW p \in Procs, call[p] # Idle => ProcOf[call[p].conn] = p,
             \/ ShareRange(p) \/ ShareDone(p) \/ ExclusiveRange(p) \/ UnlockBytes(p)
             \/ UnlockLast(p) \/ UnlockClose(p)
      PROVE  Only(p)
  <2>1. PICK c : c = call[p].conn /\ ProcOf[c] = p
    <3>1. call[p].at # "idle"
      BY <1>4 DEF ShareRange, ShareDone, ExclusiveRange, UnlockBytes, UnlockLast, UnlockClose, In
    <3>2. call[p] # Idle
      BY <3>1 DEF Idle
    <3>q. QED BY <1>4, <3>2
  <2>2. ASSUME ShareRange(p) \/ ShareDone(p) PROVE Only(p)
    BY <2>1, <2>2 DEF Only, Of, TypeOK, ShareRange, ShareDone, SetLock, At, Return, Lock
  <2>3. ASSUME ExclusiveRange(p) \/ UnlockBytes(p) PROVE Only(p)
    BY <2>1, <2>3 DEF Only, Of, TypeOK, ExclusiveRange, UnlockBytes, SetLock, At, Return, Lock
  <2>4. ASSUME UnlockLast(p) \/ UnlockClose(p) PROVE Only(p)
    BY <2>1, <2>4 DEF Only, Of, TypeOK, UnlockLast, UnlockClose, CloseFile, At, Return, Lock
  <2>q. QED BY <1>4, <2>2, <2>3, <2>4
<1>q. QED BY <1>1, <1>2, <1>3, <1>4

Level == [c \in Conns |-> Held(c)]

LEMMA Untouched ==
  ASSUME NEW p \in Procs, Only(p), NEW d \in Conns \ Of(p), ProcOf[d] \in Procs
  PROVE  Held(d)' = Held(d) /\ (d \in ReservedBy' <=> d \in ReservedBy)
<1>1. ProcOf[d] # p
  BY DEF Of
<1>q. QED BY <1>1 DEF Only, Held, Lowering, ReservedBy

LEMMA Stutters ==
  ASSUME NEW p \in Procs, IInv, Only(p),
         \A d \in Of(p) : Held(d)' = Held(d),
         os'[p].reserved = os[p].reserved \/ \A d \in Of(p) : Held(d) <= SHARED_LOCK
  PROVE  Level' = Level /\ ReservedBy' = ReservedBy
<1>1. \A d \in Conns \ Of(p) : Held(d)' = Held(d) /\ (d \in ReservedBy' <=> d \in ReservedBy)
  BY Here, Untouched
<1>2. \A d \in Of(p) : d \in Conns /\ ProcOf[d] = p /\ Held(d) \in Levels
  BY Sane DEF Of
<1>3. \A d \in Of(p) : d \in ReservedBy' <=> d \in ReservedBy
  BY <1>2 DEF ReservedBy
<1>4. \A d \in Conns : Held(d)' = Held(d) /\ (d \in ReservedBy' <=> d \in ReservedBy)
  BY <1>1, <1>3
<1>q. QED BY <1>4 DEF Level, ReservedBy

LEMMA Changes ==
  ASSUME NEW p \in Procs, IInv, Only(p), NEW c \in Of(p),
         \A d \in Of(p) \ {c} : Held(d)' = Held(d),
         os'[p].reserved = os[p].reserved \/ \A d \in Of(p) \ {c} : Held(d) <= SHARED_LOCK
  PROVE  /\ Level' = [Level EXCEPT ![c] = Held(c)']
         /\ ReservedBy' \ {c} = ReservedBy \ {c}
<1>1. \A d \in Conns \ Of(p) : Held(d)' = Held(d) /\ (d \in ReservedBy' <=> d \in ReservedBy)
  BY Here, Untouched
<1>2. \A d \in Of(p) : d \in Conns /\ ProcOf[d] = p /\ Held(d) \in Levels
  BY Sane DEF Of
<1>3. \A d \in Of(p) \ {c} : d \in ReservedBy' <=> d \in ReservedBy
  BY <1>2 DEF ReservedBy
<1>4. \A d \in Conns \ {c} : Held(d)' = Held(d) /\ (d \in ReservedBy' <=> d \in ReservedBy)
  BY <1>1, <1>3
<1>q. QED BY <1>2, <1>4 DEF Level, ReservedBy

(* A step of connection c, or of the call its process p is in.              *)
Mapped == [Promise!Next]_<<Level, ReservedBy>>

LEMMA MappedSet ==
  ASSUME NEW c \in Conns, NEW l, Level' = [Level EXCEPT ![c] = l]
  PROVE  Promise!Set(c, l)
BY DEF Promise!Set, Level

USE DEF Promise!NO_LOCK, Promise!SHARED_LOCK, Promise!RESERVED_LOCK, Promise!PENDING_LOCK,
        Promise!EXCLUSIVE_LOCK, Promise!Levels

LEMMA MappedShare ==
  ASSUME IInv, NEW c \in Conns, Held(c) = NO_LOCK,
         \A d \in Conns \ {c} : Held(d) # EXCLUSIVE_LOCK,
         Level' = [Level EXCEPT ![c] = SHARED_LOCK], ReservedBy' = ReservedBy
  PROVE  Mapped
<1>1. Promise!Share(c)
  BY MappedSet DEF Promise!Share, Promise!Others, Level
<1>q. QED BY <1>1 DEF Mapped, Promise!Next

LEMMA MappedReserve ==
  ASSUME IInv, NEW c \in Conns, Held(c) = SHARED_LOCK,
         \A d \in Conns \ {c} : Held(d) # EXCLUSIVE_LOCK,
         Level' = [Level EXCEPT ![c] = RESERVED_LOCK], ReservedBy = {}, ReservedBy' = {c}
  PROVE  Mapped
<1>1. Promise!Reserve(c)
  BY MappedSet DEF Promise!Reserve, Promise!Others, Level
<1>q. QED BY <1>1 DEF Mapped, Promise!Next

LEMMA MappedPend ==
  ASSUME IInv, NEW c \in Conns, Held(c) \in {SHARED_LOCK, RESERVED_LOCK},
         \A d \in Conns \ {c} : Held(d) \notin {PENDING_LOCK, EXCLUSIVE_LOCK},
         Level' = [Level EXCEPT ![c] = PENDING_LOCK], ReservedBy' = ReservedBy
  PROVE  Mapped
<1>1. Promise!Pend(c)
  BY MappedSet DEF Promise!Pend, Promise!Others, Level
<1>q. QED BY <1>1 DEF Mapped, Promise!Next

LEMMA MappedExclude ==
  ASSUME IInv, NEW c \in Conns, Held(c) \in {SHARED_LOCK, RESERVED_LOCK, PENDING_LOCK},
         \A d \in Conns \ {c} : Held(d) = NO_LOCK,
         Level' = [Level EXCEPT ![c] = EXCLUSIVE_LOCK], ReservedBy' = ReservedBy
  PROVE  Mapped
<1>1. Promise!Exclude(c)
  BY MappedSet DEF Promise!Exclude, Promise!Others, Level
<1>q. QED BY <1>1 DEF Mapped, Promise!Next

LEMMA MappedLower ==
  ASSUME IInv, NEW c \in Conns, NEW l \in {NO_LOCK, SHARED_LOCK}, l < Held(c),
         Level' = [Level EXCEPT ![c] = l], ReservedBy' = ReservedBy \ {c}
  PROVE  Mapped
<1>1. Promise!Lower(c, l)
  BY MappedSet DEF Promise!Lower, Level
<1>q. QED BY <1>1 DEF Mapped, Promise!Next

-----------------------------------------------------------------------------
LEMMA MapsOpenClose ==
  ASSUME IInv, NEW c \in Conns, Open(c) \/ OpenFails(c) \/ Close(c) \/ UnlockClose(ProcOf[c])
  PROVE  Mapped
<1> DEFINE p == ProcOf[c]
<1>1. /\ p \in Procs /\ TypeOK /\ Good(p) /\ inode[p] \in Inodes
      /\ call[p] # Idle => ProcOf[call[p].conn] = p
  BY Here
<1>2. Only(p)
  BY <1>1, OnlyOne
<1>3. eFileLock' = eFileLock /\ ~ Lowering(call[p]) /\ ~ Lowering(call[p])'
  <2>1. ASSUME call[p] = Idle, call'[p] = Idle PROVE ~ Lowering(call[p]) /\ ~ Lowering(call[p])'
    BY <2>1 DEF Lowering, Idle
  <2>2. CASE Open(c) \/ OpenFails(c) \/ Close(c)
    <3>1. call[p] = Idle /\ call' = call /\ eFileLock' = eFileLock
      BY <2>2 DEF Open, OpenFails, Close, Ready
    <3>q. QED BY <2>1, <3>1
  <2>3. CASE UnlockClose(p)
    <3>1. /\ call[p].at = "close" /\ eFileLock' = eFileLock
          /\ call' = [call EXCEPT ![ProcOf[call[p].conn]] = Idle]
      BY <2>3 DEF UnlockClose, In, Return
    <3>2. call[p] # Idle
      BY <3>1 DEF Idle
    <3>3. call'[p] = Idle
      BY <1>1, <3>1, <3>2 DEF TypeOK
    <3>q. QED BY <3>1, <3>3 DEF Lowering, Idle
  <2>q. QED BY <2>2, <2>3
<1>4. \A d \in Of(p) : Held(d)' = Held(d) /\ Held(d) = eFileLock[d]
  BY <1>1, <1>3, Holding
<1>5. os'[p].reserved = os[p].reserved \/ Reading(p) = {}
  <2>1. inode[p].nRef = 0 => Reading(p) = {}
    BY <1>1, Finite, FS_EmptySet DEF Good, Counted, OpenOf, Reading
  <2>2. inode[p].nLock = 0 => Reading(p) = {}
    BY <1>1, Finite, FS_EmptySet DEF Good, Counted
  <2>3. os' = os \/ inode[p].nRef = 0 \/ inode[p].nLock = 0
    <3>1. ASSUME NEW d, ProcOf[d] = p, CloseFile(d) PROVE os' = os \/ inode[p].nLock = 0
      BY <1>1, <3>1 DEF CloseFile, Inodes
    <3>2. CASE Open(c) \/ OpenFails(c)
      BY <3>2 DEF Open, OpenFails
    <3>3. CASE Close(c)
      BY <3>1, <3>3 DEF Close
    <3>4. CASE UnlockClose(p)
      <4>1. call[p] # Idle
        BY <3>4 DEF UnlockClose, In, Idle
      <4>q. QED BY <1>1, <3>1, <3>4, <4>1 DEF UnlockClose
    <3>q. QED BY <3>2, <3>3, <3>4
  <2>q. QED BY <2>1, <2>2, <2>3
<1>6. Level' = Level /\ ReservedBy' = ReservedBy
  <2>1. Reading(p) = {} => \A d \in Of(p) : Held(d) <= SHARED_LOCK
    BY <1>4 DEF Reading
  <2>q. QED BY <1>1, <1>2, <1>4, <1>5, <2>1, Stutters
<1>q. QED BY <1>6 DEF Mapped

(* The temporary lock on the pending byte, and what comes before the shared *)
(* range is locked.                                                         *)
LEMMA MapsQuiet ==
  ASSUME IInv, NEW c \in Conns,
         SharePending(c) \/ ExclusivePending(c) \/ ShareRange(ProcOf[c])
  PROVE  Mapped
<1> DEFINE p == ProcOf[c]
<1>1. /\ p \in Procs /\ TypeOK /\ Good(p)
      /\ call[p] # Idle => ProcOf[call[p].conn] = p
  BY Here
<1>2. Only(p)
  BY <1>1, OnlyOne
<1>3. /\ eFileLock' = eFileLock /\ ~ Lowering(call[p]) /\ ~ Lowering(call[p])'
      /\ os'[p].reserved = os[p].reserved
  <2>1. CASE SharePending(c) \/ ExclusivePending(c)
    <3>1. eFileLock' = eFileLock /\ call[p] = Idle
      BY <2>1 DEF SharePending, ExclusivePending, Ready
    <3>2. os'[p].reserved = os[p].reserved
      BY <1>1, <2>1 DEF SharePending, ExclusivePending, SetLock, TypeOK, Bytes
    <3>3. call'[p].at \in {"range", "exclusive"}
      BY <1>1, <2>1 DEF SharePending, ExclusivePending, At, TypeOK
    <3>q. QED BY <3>1, <3>2, <3>3 DEF Lowering, Idle
  <2>2. CASE ShareRange(p)
    <3>1. call[p].at = "range" /\ call[p] # Idle
      BY <2>2 DEF ShareRange, In, Idle
    <3>2. os'[p].reserved = os[p].reserved /\ eFileLock' = eFileLock
      <4>1. os' = os \/ os' = [os EXCEPT ![p].shared = "read"]
        BY <2>2 DEF ShareRange, SetLock
      <4>2. os'[p].reserved = os[p].reserved
        BY <1>1, <4>1 DEF TypeOK, Bytes
      <4>q. QED BY <2>2, <4>2 DEF ShareRange
    <3>3. call'[p].at = "unpend"
      <4>1. \E to \in {NO_LOCK, SHARED_LOCK} :
              call' = [call EXCEPT ![ProcOf[call[p].conn]] =
                         [at |-> "unpend", conn |-> call[p].conn, to |-> to, closing |-> FALSE]]
        BY <2>2 DEF ShareRange, At
      <4>q. QED BY <1>1, <3>1, <4>1 DEF TypeOK
    <3>q. QED BY <3>1, <3>2, <3>3 DEF Lowering
  <2>q. QED BY <2>1, <2>2
<1>4. \A d \in Of(p) : Held(d)' = Held(d)
  BY <1>1, <1>3, Holding
<1>5. Level' = Level /\ ReservedBy' = ReservedBy
  BY <1>1, <1>2, <1>3, <1>4, Stutters
<1>q. QED BY <1>5 DEF Mapped

LEMMA MapsShareInProcess ==
  ASSUME IInv, NEW c \in Conns, ShareInProcess(c)
  PROVE  Mapped
<1> DEFINE p == ProcOf[c]
<1>1. /\ p \in Procs /\ TypeOK /\ Good(p) /\ c \in Of(p) /\ Only(p)
      /\ call[p] = Idle /\ call' = call /\ os' = os /\ eFileLock[c] = NO_LOCK
      /\ eFileLock' = [eFileLock EXCEPT ![c] = SHARED_LOCK]
      /\ inode[p].eFileLock \in {SHARED_LOCK, RESERVED_LOCK}
  BY Here, OnlyOne DEF ShareInProcess, Ready, Lock
<1>2. /\ \A d \in Of(p) \ {c} : Held(d)' = Held(d)
      /\ Held(c) = NO_LOCK /\ Held(c)' = SHARED_LOCK
  BY <1>1, Holding DEF TypeOK, Of
<1>3. /\ Level' = [Level EXCEPT ![c] = SHARED_LOCK]
      /\ ReservedBy' \ {c} = ReservedBy \ {c}
  BY <1>1, <1>2, Changes
<1>4. ReservedBy' = ReservedBy
  BY <1>2, <1>3 DEF ReservedBy
<1>5. \A d \in Conns \ {c} : Held(d) # EXCLUSIVE_LOCK
  <2>1. ASSUME NEW d \in Conns \ {c}, ProcOf[d] = p PROVE Held(d) # EXCLUSIVE_LOCK
    BY <1>1, <2>1, Sane
  <2>2. PICK e \in Of(p) : e \in Conns /\ ProcOf[e] = p /\ Held(e) # NO_LOCK
    BY <1>1, Sane DEF Good, Ranked, Reading, Of
  <2>3. ASSUME NEW d \in Conns \ {c}, ProcOf[d] # p PROVE Held(d) # EXCLUSIVE_LOCK
    BY <2>2, <2>3, TwoProcesses
  <2>q. QED BY <2>1, <2>3
<1>q. QED BY <1>2, <1>3, <1>4, <1>5, MappedShare

LEMMA MapsShareDone ==
  ASSUME IInv, NEW p \in Procs, ShareDone(p)
  PROVE  Mapped
<1>1. PICK c \in Conns :
      /\ c = call[p].conn /\ TypeOK /\ Good(p) /\ c \in Of(p) /\ ProcOf[c] = p
      /\ call[p] # Idle /\ call[p].at = "unpend" /\ Reading(p) = {}
  BY Here DEF ShareDone, In, Idle, Good, InCall, OpenOf, Of
<1>2. Only(p) /\ call'[p] = Idle /\ os'[p].reserved = os[p].reserved /\ os'[p].shared = os[p].shared
  BY <1>1, OnlyOne DEF ShareDone, Return, SetLock, TypeOK, Bytes
<1>3. \A d \in Of(p) : d \in Conns /\ Held(d) = NO_LOCK /\ eFileLock[d] = NO_LOCK /\ Held(d)' = eFileLock'[d]
  BY <1>1, <1>2, Holding DEF Reading, Of, Lowering
<1>4. CASE call[p].to = SHARED_LOCK
  <2>1. eFileLock' = [eFileLock EXCEPT ![c] = SHARED_LOCK]
    BY <1>1, <1>4 DEF ShareDone, Lock
  <2>2. Held(c)' = SHARED_LOCK /\ \A d \in Of(p) \ {c} : Held(d)' = Held(d)
    BY <1>1, <1>3, <2>1 DEF TypeOK
  <2>3. /\ Level' = [Level EXCEPT ![c] = SHARED_LOCK]
        /\ ReservedBy' \ {c} = ReservedBy \ {c}
    BY <1>1, <1>2, <2>2, Changes
  <2>4. ReservedBy' = ReservedBy
    BY <1>1, <1>3, <2>2, <2>3 DEF ReservedBy
  <2>5. ASSUME NEW d \in Conns \ {c} PROVE Held(d) # EXCLUSIVE_LOCK
    <3>1. CASE ProcOf[d] = p
      BY <1>3, <3>1 DEF Of
    <3>2. CASE ProcOf[d] # p
      <4>1. os[p].shared # "none"
        BY <1>1, <1>4 DEF Good, InCall
      <4>2. HeldBy(d, os[ProcOf[d]]) /\ ProcOf[d] \in Procs
        BY Here DEF Good, BackedIn
      <4>q. QED BY <3>2, <4>1, <4>2 DEF IInv, Apart, HeldBy, Bytes
    <3>q. QED BY <3>1, <3>2
  <2>q. QED BY <1>1, <1>3, <2>3, <2>4, <2>5, MappedShare
<1>5. CASE call[p].to # SHARED_LOCK
  <2>1. eFileLock' = eFileLock
    BY <1>5 DEF ShareDone
  <2>q. QED BY <1>2, <1>3, <2>1, Stutters DEF Mapped
<1>q. QED BY <1>4, <1>5

LEMMA MapsReserve ==
  ASSUME IInv, NEW c \in Conns, Reserve(c)
  PROVE  Mapped
<1> DEFINE p == ProcOf[c]
<1>1. /\ p \in Procs /\ TypeOK /\ Good(p) /\ c \in Of(p) /\ Only(p)
      /\ call[p] = Idle /\ call' = call /\ eFileLock[c] = SHARED_LOCK
      /\ eFileLock' = [eFileLock EXCEPT ![c] = RESERVED_LOCK]
      /\ inode[p].eFileLock = SHARED_LOCK
      /\ CanSet(p, "reserved", "write") /\ os'[p].reserved = "write"
  BY Here, OnlyOne DEF Reserve, Ready, Lock, SetLock, Leads, TypeOK, Bytes
<1>2. /\ \A d \in Of(p) \ {c} : Held(d)' = Held(d)
      /\ \A d \in Of(p) : Held(d) <= SHARED_LOCK
      /\ Held(c) = SHARED_LOCK /\ Held(c)' = RESERVED_LOCK
  BY <1>1, Holding DEF TypeOK, Of, Good, Ranked
<1>3. /\ Level' = [Level EXCEPT ![c] = RESERVED_LOCK]
      /\ ReservedBy' \ {c} = ReservedBy \ {c}
  BY <1>1, <1>2, Changes
<1>4. ReservedBy = {}
  BY <1>1, <1>2, Sane DEF ReservedBy, CanSet, Of
<1>5. ReservedBy' = {c}
  BY <1>1, <1>2, <1>3, <1>4 DEF ReservedBy
<1>6. ASSUME NEW d \in Conns \ {c} PROVE Held(d) # EXCLUSIVE_LOCK
  <2>1. CASE ProcOf[d] = p
    BY <1>2, <2>1, Sane
  <2>2. CASE ProcOf[d] # p
    BY <1>2, <2>2, TwoProcesses
  <2>q. QED BY <2>1, <2>2
<1>q. QED BY <1>2, <1>3, <1>4, <1>5, <1>6, MappedReserve

LEMMA MapsExclusiveRange ==
  ASSUME IInv, NEW p \in Procs, ExclusiveRange(p)
  PROVE  Mapped
<1> DEFINE got == inode[p].nShared = 1 /\ CanSet(p, "shared", "write")
           now == IF got THEN EXCLUSIVE_LOCK ELSE PENDING_LOCK
<1>1. PICK c \in Conns :
      /\ c = call[p].conn /\ TypeOK /\ Good(p) /\ c \in Of(p) /\ ProcOf[c] = p
      /\ call[p] # Idle /\ call[p].at = "exclusive"
      /\ eFileLock[c] \in {SHARED_LOCK, RESERVED_LOCK, PENDING_LOCK}
      /\ eFileLock[c] = inode[p].eFileLock /\ os[p].pending = "write"
  BY Here DEF ExclusiveRange, In, Idle, Good, InCall, OpenOf, Of
<1>2. /\ Only(p) /\ call'[p] = Idle
      /\ eFileLock' = [eFileLock EXCEPT ![c] = now]
      /\ os' = os \/ os' = [os EXCEPT ![p].shared = "write"]
  BY <1>1, OnlyOne DEF ExclusiveRange, Return, SetLock, TypeOK, Lock
<1>3. os'[p].reserved = os[p].reserved
  BY <1>1, <1>2 DEF TypeOK, Bytes
<1>4. /\ \A d \in Of(p) \ {c} : Held(d)' = Held(d)
      /\ \A d \in Of(p) : d \in Conns /\ ProcOf[d] = p /\ Held(d) = eFileLock[d]
      /\ Held(c)' = now
  <2>1. \A d \in Of(p) : /\ Held(d)' = eFileLock'[d] /\ Held(d) = eFileLock[d]
                         /\ d \in Conns /\ ProcOf[d] = p
    BY <1>1, <1>2, Holding DEF Lowering, Of
  <2>2. \A d \in Of(p) \ {c} : eFileLock'[d] = eFileLock[d]
    BY <1>1, <1>2, <2>1 DEF TypeOK
  <2>3. eFileLock'[c] = now
    BY <1>1, <1>2 DEF TypeOK
  <2>q. QED BY <1>1, <2>1, <2>2, <2>3
<1>5. /\ Level' = [Level EXCEPT ![c] = now]
      /\ ReservedBy' \ {c} = ReservedBy \ {c}
  BY <1>1, <1>2, <1>3, <1>4, Changes
<1>6. ReservedBy' = ReservedBy
  <2>1. os'[p].reserved = "write" => Held(c) >= RESERVED_LOCK
    <3>1. os[p].reserved = "write" => \E d \in Of(p) : Held(d) >= RESERVED_LOCK
      BY <1>1 DEF Good, Accounted
    <3>2. \A d \in Of(p) : Held(d) <= Held(c) /\ Held(d) \in Levels
      BY <1>1, <1>4, Sane
    <3>q. QED BY <1>3, <3>1, <3>2, <1>1
  <2>2. c \in ReservedBy' <=> c \in ReservedBy
    BY <2>1, <1>1, <1>3, <1>4 DEF ReservedBy
  <2>q. QED BY <2>2, <1>5
<1>7. ASSUME NEW d \in Conns \ {c}, ProcOf[d] = p
      PROVE  Held(d) <= SHARED_LOCK /\ (got => Held(d) = NO_LOCK)
  <2>1. d \in Of(p) /\ Held(d) \in Levels /\ Held(d) <= Held(c)
    BY <1>1, <1>4, <1>7, Sane DEF Of
  <2>2. Held(c) > SHARED_LOCK => Held(d) <= SHARED_LOCK
    BY <1>1, <1>7, SameProcess
  <2>3. got => Held(d) = NO_LOCK
    <3>1. c \in Reading(p)
      BY <1>1 DEF Reading
    <3>2. inode[p].nShared = 1 => Reading(p) = {c}
      BY <1>1, <3>1, Finite, Alone DEF Good, Counted
    <3>q. QED BY <1>4, <2>1, <3>2 DEF Reading
  <2>q. QED BY <1>1, <1>4, <2>1, <2>2, <2>3
<1>8. ASSUME NEW d \in Conns \ {c}, ProcOf[d] # p
      PROVE  Held(d) \notin {PENDING_LOCK, EXCLUSIVE_LOCK} /\ (got => Held(d) = NO_LOCK)
  <2>1. HeldBy(d, os[ProcOf[d]]) /\ ProcOf[d] \in Procs /\ Held(d) \in Levels
    BY Here, Sane DEF Good, BackedIn
  <2>2. os[ProcOf[d]].pending = "none" /\ (got => os[ProcOf[d]].shared = "none")
    BY <1>1, <1>8, <2>1 DEF IInv, Apart, Bytes, CanSet
  <2>q. QED BY <2>1, <2>2 DEF HeldBy
<1>9. CASE got
  BY <1>1, <1>4, <1>5, <1>6, <1>7, <1>8, <1>9, MappedExclude
<1>10. CASE ~ got
  <2>1. CASE Held(c) = PENDING_LOCK
    BY <2>1, <1>1, <1>2, <1>3, <1>4, <1>10, Stutters DEF Mapped
  <2>2. CASE Held(c) # PENDING_LOCK
    <3>1. Held(c) \in {SHARED_LOCK, RESERVED_LOCK}
      BY <2>2, <1>1, <1>4
    <3>2. ASSUME NEW d \in Conns \ {c} PROVE Held(d) \notin {PENDING_LOCK, EXCLUSIVE_LOCK}
      BY <1>7, <1>8
    <3>3. Level' = [Level EXCEPT ![c] = PENDING_LOCK]
      BY <1>5, <1>10
    <3>q. QED BY <3>1, <3>2, <3>3, <1>6, MappedPend
  <2>q. QED BY <2>1, <2>2
<1>q. QED BY <1>9, <1>10

LEMMA MapsUnlock ==
  ASSUME IInv, NEW c \in Conns, NEW to \in {NO_LOCK, SHARED_LOCK}, NEW closing \in BOOLEAN,
         Unlock(c, to, closing)
  PROVE  Mapped
<1> DEFINE p == ProcOf[c]
<1>1. /\ p \in Procs /\ TypeOK /\ Good(p) /\ c \in Of(p) /\ Only(p)
      /\ call[p] = Idle /\ eFileLock' = eFileLock /\ eFileLock[c] > to /\ eFileLock[c] \in Levels
  BY Here, OnlyOne DEF Unlock, Ready
<1>2. /\ call'[p].conn = c /\ call'[p].to = to
      /\ call'[p].at = IF eFileLock[c] > SHARED_LOCK THEN "bytes" ELSE "last"
  BY <1>1 DEF Unlock, At, TypeOK
<1>3. os'[p].reserved = os[p].reserved
  <2>1. os' = os \/ os' = [os EXCEPT ![p].shared = "read"]
    BY DEF Unlock, SetLock
  <2>q. QED BY <1>1, <2>1 DEF TypeOK, Bytes
<1>4. /\ \A d \in Of(p) \ {c} : Held(d)' = Held(d)
      /\ Held(c) = eFileLock[c]
      /\ Held(c)' = IF to = SHARED_LOCK THEN SHARED_LOCK ELSE Held(c)
  BY <1>1, <1>2, Holding DEF Lowering
<1>5. CASE to = SHARED_LOCK
  <2>1. /\ Level' = [Level EXCEPT ![c] = SHARED_LOCK]
        /\ ReservedBy' \ {c} = ReservedBy \ {c}
    BY <1>1, <1>3, <1>4, <1>5, Changes
  <2>2. ReservedBy' = ReservedBy \ {c}
    BY <1>4, <1>5, <2>1 DEF ReservedBy
  <2>q. QED BY <1>1, <1>4, <1>5, <2>1, <2>2, MappedLower
<1>6. CASE to # SHARED_LOCK
  BY <1>1, <1>3, <1>4, <1>6, Stutters DEF Mapped
<1>q. QED BY <1>5, <1>6

LEMMA MapsUnlockBytes ==
  ASSUME IInv, NEW p \in Procs, UnlockBytes(p)
  PROVE  Mapped
<1>1. PICK c \in Conns :
      /\ c = call[p].conn /\ TypeOK /\ Good(p) /\ c \in Of(p) /\ ProcOf[c] = p
      /\ call[p] # Idle /\ call[p].at = "bytes" /\ call[p].to \in Levels
      /\ eFileLock[c] > SHARED_LOCK /\ eFileLock[c] \in Levels
  BY Here DEF UnlockBytes, In, Idle, Good, InCall, OpenOf, Of, Calls
<1>2. Only(p)
  BY <1>1, OnlyOne
<1>3. /\ \A d \in Of(p) : d \in Conns /\ ProcOf[d] = p
      /\ \A d \in Of(p) \ {c} : Held(d) = eFileLock[d] /\ Held(d) <= SHARED_LOCK
  <2>1. \A d \in Of(p) : d \in Conns /\ ProcOf[d] = p
    BY DEF Of
  <2>2. \A d \in Of(p) \ {c} : Held(d) = eFileLock[d]
    BY <1>1, Holding
  <2>q. QED BY <1>1, <2>1, <2>2 DEF Good, Ranked
<1>4. CASE call[p].to = SHARED_LOCK
  <2>1. call'[p] = Idle /\ eFileLock' = [eFileLock EXCEPT ![c] = SHARED_LOCK]
    BY <1>1, <1>4 DEF UnlockBytes, Return, Lock, TypeOK
  <2>2. Held(c) = SHARED_LOCK
    BY <1>1, <1>4, Holding DEF Lowering
  <2>3. \A d \in Of(p) : Held(d)' = Held(d)
    BY <1>1, <1>3, <2>1, <2>2, Holding DEF TypeOK
  <2>q. QED BY <1>1, <1>2, <1>3, <2>2, <2>3, Stutters DEF Mapped
<1>5. CASE call[p].to # SHARED_LOCK
  <2>1. /\ call'[p].at = "last" /\ call'[p].conn = c /\ eFileLock' = eFileLock
        /\ os'[p].reserved = "none"
    BY <1>1, <1>5 DEF UnlockBytes, At, TypeOK, Bytes
  <2>2. Held(c) = eFileLock[c] /\ Held(c)' = SHARED_LOCK
    BY <1>1, <1>5, <2>1, Holding DEF Lowering
  <2>3. \A d \in Of(p) \ {c} : Held(d)' = Held(d)
    BY <1>3, <2>1, Holding
  <2>4. /\ Level' = [Level EXCEPT ![c] = SHARED_LOCK]
        /\ ReservedBy' \ {c} = ReservedBy \ {c}
    BY <1>1, <1>2, <1>3, <2>2, <2>3, Changes
  <2>5. ReservedBy' = ReservedBy \ {c}
    BY <1>1, <2>1, <2>4 DEF ReservedBy
  <2>q. QED BY <1>1, <2>2, <2>4, <2>5, MappedLower
<1>q. QED BY <1>4, <1>5

LEMMA MapsUnlockLast ==
  ASSUME IInv, NEW p \in Procs, UnlockLast(p)
  PROVE  Mapped
<1>1. PICK c \in Conns :
      /\ c = call[p].conn /\ TypeOK /\ Good(p) /\ c \in Of(p) /\ ProcOf[c] = p
      /\ call[p] # Idle /\ call[p].at = "last" /\ c \in Reading(p)
  BY Here DEF UnlockLast, In, Idle, Good, InCall, OpenOf, Of, Reading
<1>2. /\ Only(p) /\ eFileLock' = [eFileLock EXCEPT ![c] = NO_LOCK]
      /\ ~ Lowering(call[p])'
  <2>1. Only(p)
    BY <1>1, OnlyOne
  <2>2. call'[p] = Idle \/ call'[p].at = "close"
    BY <1>1 DEF UnlockLast, At, Return, TypeOK
  <2>q. QED BY <1>1, <2>1, <2>2 DEF UnlockLast, Lock, Lowering, Idle
<1>3. /\ Held(c) = SHARED_LOCK /\ Held(c)' = NO_LOCK
      /\ \A d \in Of(p) \ {c} : Held(d)' = Held(d) /\ Held(d) = eFileLock[d]
  <2>1. Held(c) = SHARED_LOCK
    BY <1>1, Holding DEF Lowering
  <2>2. \A d \in Of(p) \ {c} : Held(d) = eFileLock[d]
    BY <1>1, Holding
  <2>3. \A d \in Of(p) : d \in Conns /\ Held(d)' = eFileLock'[d]
    BY <1>2, Holding DEF Of
  <2>q. QED BY <1>1, <1>2, <2>1, <2>2, <2>3 DEF TypeOK
<1>4. os'[p].reserved = os[p].reserved \/ \A d \in Of(p) \ {c} : Held(d) <= SHARED_LOCK
  <2>1. CASE inode[p].nShared = 1
    <3>1. Reading(p) = {c}
      BY <2>1, <1>1, Finite, Alone DEF Good, Counted
    <3>q. QED BY <3>1, <1>3 DEF Reading
  <2>2. CASE inode[p].nShared # 1
    BY <2>2 DEF UnlockLast
  <2>q. QED BY <2>1, <2>2
<1>5. /\ Level' = [Level EXCEPT ![c] = NO_LOCK]
      /\ ReservedBy' \ {c} = ReservedBy \ {c}
  BY <1>1, <1>2, <1>3, <1>4, Changes
<1>6. ReservedBy' = ReservedBy \ {c}
  BY <1>3, <1>5 DEF ReservedBy
<1>7. PICK l \in {NO_LOCK, SHARED_LOCK} :
        l < Held(c) /\ Level' = [Level EXCEPT ![c] = l]
  BY <1>3, <1>5
<1>q. QED BY <1>6, <1>7, MappedLower

LEMMA MapsCrash ==
  ASSUME IInv, NEW p \in Procs, Crash(p)
  PROVE  Mapped
<1>1. /\ TypeOK /\ call'[p] = Idle /\ os'[p] = Free
      /\ \A c \in Conns : eFileLock'[c] = IF c \in Of(p) THEN NO_LOCK ELSE eFileLock[c]
  BY Here DEF Crash, TypeOK
<1>2. Only(p)
  BY <1>1 DEF Only, Crash, TypeOK, Of
<1>3. \A c \in Conns \ Of(p) : Held(c)' = Held(c) /\ (c \in ReservedBy' <=> c \in ReservedBy)
  BY <1>2, Here, Untouched
<1>4. \A c \in Of(p) : c \in Conns /\ Held(c)' = NO_LOCK /\ c \notin ReservedBy'
  <2>1. \A c \in Of(p) : c \in Conns /\ Held(c)' = NO_LOCK
    BY <1>1, Holding DEF Of
  <2>q. QED BY <2>1 DEF ReservedBy
<1>5. /\ Level' = [c \in Conns |-> IF c \in Of(p) THEN NO_LOCK ELSE Level[c]]
      /\ ReservedBy' = ReservedBy \ Of(p)
  BY <1>3, <1>4 DEF Level, ReservedBy
<1>6. Promise!Vanish(Of(p)) /\ Of(p) \in SUBSET Conns
  BY <1>5 DEF Promise!Vanish, Level, Of
<1>q. QED BY <1>6 DEF Mapped, Promise!Next

LEMMA StepMaps == IInv /\ [Next]_vars => Mapped
<1> SUFFICES ASSUME IInv, [Next]_vars PROVE Mapped
  OBVIOUS
<1>1. ASSUME NEW c \in Conns,
             \/ Open(c) \/ OpenFails(c) \/ Close(c) \/ ShareInProcess(c) \/ SharePending(c)
             \/ Reserve(c) \/ ExclusivePending(c)
             \/ \E to \in {NO_LOCK, SHARED_LOCK}, closing \in BOOLEAN : Unlock(c, to, closing)
      PROVE Mapped
  BY <1>1, MapsOpenClose, MapsShareInProcess, MapsQuiet, MapsReserve, MapsUnlock
<1>2. ASSUME NEW p \in Procs, ShareRange(p) \/ UnlockClose(p) PROVE Mapped
  <2>1. call[p].at \in {"range", "close"}
    BY <1>2 DEF ShareRange, UnlockClose, In
  <2>2. PICK c \in Conns : ProcOf[c] = p
    BY <2>1, Here DEF Idle
  <2>q. QED BY <1>2, <2>2, MapsOpenClose, MapsQuiet
<1>3. ASSUME NEW p \in Procs,
             ShareDone(p) \/ ExclusiveRange(p) \/ UnlockBytes(p) \/ UnlockLast(p) \/ Crash(p)
      PROVE Mapped
  BY <1>3, MapsShareDone, MapsExclusiveRange, MapsUnlockBytes, MapsUnlockLast, MapsCrash
<1>4. CASE UNCHANGED vars
  BY <1>4 DEF vars, Mapped, Level, ReservedBy, Held, Lowering
<1>q. QED BY <1>1, <1>2, <1>3, <1>4 DEF Next

LEMMA InitMaps == Init => Promise!Init
<1> SUFFICES ASSUME Init PROVE Promise!Init
  OBVIOUS
<1>1. \A c \in Conns : Held(c) = NO_LOCK
  BY Holding, Here, InitHolds DEF Init
<1>q. QED BY <1>1 DEF Promise!Init, ReservedBy

(* The locks of os_unix.c are the locks the pager is promised.              *)
THEOREM Implements == Spec => IsFileLock
<1>1. IInv /\ [Next]_vars => [Promise!Next]_<<[c \in Conns |-> Held(c)], ReservedBy>>
  BY StepMaps DEF Mapped, Level
<1>q. QED BY <1>1, InitMaps, Invariant, PTL DEF Spec, IsFileLock, Promise!Spec

(* A process without a lock does not become a reader while a connection of  *)
(* another process is PENDING.                                              *)
THEOREM PendingBlocks == Spec => PendingBlocksProcesses
<1> DEFINE Blocked ==
      \A c, d \in Conns :
        /\ ProcOf[c] # ProcOf[d]
        /\ Held(d) = PENDING_LOCK /\ Held(d)' = PENDING_LOCK
        /\ inode[ProcOf[c]].nShared = 0
        /\ eFileLock[c] = NO_LOCK
        => eFileLock'[c] = NO_LOCK
<1>1. IInv /\ [Next]_vars => [Blocked]_vars
  <2> SUFFICES ASSUME IInv, Next, NEW c \in Conns, NEW d \in Conns,
                      ProcOf[c] # ProcOf[d], Held(d) = PENDING_LOCK,
                      inode[ProcOf[c]].nShared = 0, eFileLock[c] = NO_LOCK
               PROVE  eFileLock'[c] = NO_LOCK
    OBVIOUS
  <2>0. TypeOK /\ \A p \in Procs : call[p] # Idle => ProcOf[call[p].conn] = p /\ Good(p)
    BY Here
  <2>1. ASSUME NEW e \in Conns, ShareInProcess(e) PROVE eFileLock'[c] = NO_LOCK
    <3>1. e # c
      <4>1. Reading(ProcOf[e]) # {} /\ inode[ProcOf[e]].nShared # 0
        BY <2>1, Here, Finite, FS_EmptySet DEF ShareInProcess, Good, Ranked, Counted
      <4>q. QED BY <4>1
    <3>q. QED BY <2>0, <2>1, <3>1 DEF ShareInProcess, Lock, TypeOK
  <2>2. ASSUME NEW p \in Procs, ShareDone(p) PROVE eFileLock'[c] = NO_LOCK
    <3>1. call[p] # Idle /\ call[p].at = "unpend" /\ os[p].pending = "read"
      BY <2>2, Here DEF ShareDone, In, Idle, Good, InCall
    <3>2. os[ProcOf[d]].pending = "write" /\ ProcOf[d] \in Procs
      BY Here DEF Good, BackedIn, HeldBy
    <3>3. p = ProcOf[d]
      BY <3>1, <3>2 DEF IInv, Apart, Bytes
    <3>4. call[p].conn # c
      BY <2>0, <3>1, <3>3
    <3>q. QED BY <2>0, <2>2, <3>4 DEF ShareDone, Lock, TypeOK
  <2>3. ASSUME NEW e \in Conns, Reserve(e) PROVE eFileLock'[c] = NO_LOCK
    BY <2>0, <2>3 DEF Reserve, Lock, TypeOK
  <2>4. ASSUME NEW p \in Procs, ExclusiveRange(p) PROVE eFileLock'[c] = NO_LOCK
    <3>1. call[p] # Idle /\ call[p].at = "exclusive"
      BY <2>4 DEF ExclusiveRange, In, Idle
    <3>2. call[p].conn # c
      BY <2>0, <2>4, <3>1 DEF Good, InCall
    <3>q. QED BY <2>0, <2>4, <3>2 DEF ExclusiveRange, Lock, TypeOK
  <2>5. ASSUME NEW p \in Procs, UnlockBytes(p) PROVE eFileLock'[c] = NO_LOCK
    <3>1. call[p] # Idle /\ call[p].at = "bytes"
      BY <2>5 DEF UnlockBytes, In, Idle
    <3>2. call[p].conn # c
      BY <2>0, <2>5, <3>1 DEF Good, InCall
    <3>q. QED BY <2>0, <2>5, <3>2 DEF UnlockBytes, Lock, TypeOK
  <2>6. ASSUME NEW p \in Procs, UnlockLast(p) \/ UnlockClose(p) \/ ShareRange(p) \/ Crash(p)
        PROVE eFileLock'[c] = NO_LOCK
    BY <2>0, <2>6 DEF UnlockLast, UnlockClose, ShareRange, Crash, Lock, TypeOK
  <2>7. ASSUME NEW e \in Conns,
               \/ Open(e) \/ OpenFails(e) \/ Close(e) \/ SharePending(e) \/ ExclusivePending(e)
               \/ \E to \in {NO_LOCK, SHARED_LOCK}, closing \in BOOLEAN : Unlock(e, to, closing)
        PROVE eFileLock'[c] = NO_LOCK
    BY <2>7 DEF Open, OpenFails, Close, SharePending, ExclusivePending, Unlock
  <2>q. QED BY <2>1, <2>2, <2>3, <2>4, <2>5, <2>6, <2>7 DEF Next
<1>q. QED BY <1>1, Invariant, PTL DEF Spec, PendingBlocksProcesses
=============================================================================
