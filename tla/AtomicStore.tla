---------------------------- MODULE AtomicStore ----------------------------
(***************************************************************************)
(* What a database file promises to its connections: a connection sees the *)
(* store as it was when it started to read, together with its own changes, *)
(* and a transaction replaces the store at once, when nobody else reads.   *)
(* A crash takes views away and leaves the store as it is.                 *)
(***************************************************************************)
EXTENDS Integers

CONSTANTS Conns, Images, None

VARIABLES store,   \* the committed image
          view     \* what each connection sees; None when it is not reading

vars == <<store, view>>

Others(c) == Conns \ {c}

Init == store \in Images /\ view = [c \in Conns |-> None]

Look(c) == /\ view[c] = None
           /\ view' = [view EXCEPT ![c] = store]
           /\ UNCHANGED store

\* Changes of one connection, on top of the store, that nobody else sees.
Change(c) == /\ view[c] # None
             /\ \A d \in Others(c) : view[d] \in {None, store}
             /\ view'[c] \in Images
             /\ view' = [view EXCEPT ![c] = view'[c]]
             /\ UNCHANGED store

Commit(c) == /\ view[c] # None
             /\ \A d \in Others(c) : view[d] = None
             /\ store' = view[c]
             /\ UNCHANGED view

\* A commit whose connection fails at once: it is told of an error, but the
\* transaction has become the store.
CommitAndFail(c) == /\ view[c] # None
                    /\ \A d \in Others(c) : view[d] = None
                    /\ store' = view[c]
                    /\ view' = [view EXCEPT ![c] = None]

Undo(c) == /\ view[c] # None
           /\ view' = [view EXCEPT ![c] = store]
           /\ UNCHANGED store

Leave(C) == /\ view' = [c \in Conns |-> IF c \in C THEN None ELSE view[c]]
            /\ UNCHANGED store

Next == \/ \E c \in Conns : Look(c) \/ Change(c) \/ Commit(c) \/ CommitAndFail(c) \/ Undo(c)
        \/ \E C \in SUBSET Conns : Leave(C)

Spec == Init /\ [][Next]_vars
=============================================================================
