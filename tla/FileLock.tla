------------------------------ MODULE FileLock ------------------------------
(***************************************************************************)
(* What the lock levels of a database file promise to the pager, whatever  *)
(* the operating system offers: one level per connection; EXCLUSIVE        *)
(* excludes every other lock, and there is one RESERVED, one PENDING       *)
(* holder at most.  A connection that failed to become EXCLUSIVE is left   *)
(* at PENDING, and it may have got there without having been RESERVED.     *)
(***************************************************************************)
EXTENDS LockLevels

CONSTANT Conns

VARIABLES level,
          reserved   \* the connections that became RESERVED on their way up

Others(c) == Conns \ {c}

Init == level = [c \in Conns |-> NO_LOCK] /\ reserved = {}

Set(c, l) == level' = [level EXCEPT ![c] = l]

Share(c) == /\ level[c] = NO_LOCK
            /\ \A d \in Others(c) : level[d] # EXCLUSIVE_LOCK
            /\ Set(c, SHARED_LOCK)
            /\ UNCHANGED reserved

Reserve(c) == /\ level[c] = SHARED_LOCK
              /\ reserved = {}
              /\ \A d \in Others(c) : level[d] # EXCLUSIVE_LOCK
              /\ Set(c, RESERVED_LOCK)
              /\ reserved' = {c}

Pend(c) == /\ level[c] \in {SHARED_LOCK, RESERVED_LOCK}
           /\ \A d \in Others(c) : level[d] \notin {PENDING_LOCK, EXCLUSIVE_LOCK}
           /\ Set(c, PENDING_LOCK)
           /\ UNCHANGED reserved

Exclude(c) == /\ level[c] \in {SHARED_LOCK, RESERVED_LOCK, PENDING_LOCK}
              /\ \A d \in Others(c) : level[d] = NO_LOCK
              /\ Set(c, EXCLUSIVE_LOCK)
              /\ UNCHANGED reserved

Lower(c, l) == /\ l <= SHARED_LOCK /\ l < level[c]
               /\ Set(c, l)
               /\ reserved' = reserved \ {c}

\* A process dies: all its connections lose their locks.
Vanish(P) == /\ level' = [c \in Conns |-> IF c \in P THEN NO_LOCK ELSE level[c]]
             /\ reserved' = reserved \ P

Next == \/ \E c \in Conns : \/ Share(c) \/ Reserve(c) \/ Pend(c) \/ Exclude(c)
                            \/ \E l \in Levels : Lower(c, l)
        \/ \E P \in SUBSET Conns : Vanish(P)

Spec == Init /\ [][Next]_<<level, reserved>>

\* EXCLUSIVE means alone; one connection at most waits for it, and one is or was
\* RESERVED.
Exclusion ==
  \A c \in Conns : \A d \in Others(c) :
    /\ level[c] = EXCLUSIVE_LOCK => level[d] = NO_LOCK
    /\ level[c] = PENDING_LOCK => level[d] # PENDING_LOCK
    /\ level[c] = RESERVED_LOCK => level[d] # RESERVED_LOCK
    /\ c \in reserved => d \notin reserved
=============================================================================
