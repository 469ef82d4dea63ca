--------------------------- MODULE SnapshotStore ---------------------------
(***************************************************************************)
(* What a database with a write-ahead log promises to its connections: a   *)
(* connection sees the store as it was when it began to read, together     *)
(* with its own changes; it may change what is committed last only, one    *)
(* connection at a time; a transaction becomes the store at once, while    *)
(* others read on.  A transaction whose process dies is in limbo until the *)
(* next one settles it.  After a power failure the latest transactions may *)
(* be gone, each one wholly.                                               *)
(***************************************************************************)
EXTENDS Integers, Sequences

CONSTANTS Conns, None

VARIABLES log,      \* the images that were committed, in order
          view,     \* what each connection sees; None when it is not reading
          writer,   \* who is changing the store; None
          limbo,    \* the transaction that may turn out to be committed; None
          outage    \* a power failure has not been recovered from

vars == <<log, view, writer, limbo, outage>>

Latest == log[Len(log)]

Init == /\ Len(log) = 1 /\ view = [c \in Conns |-> None]
        /\ writer = None /\ limbo = None /\ outage = FALSE

Look(c) == /\ view[c] = None /\ ~outage
           /\ view' = [view EXCEPT ![c] = Latest]
           /\ UNCHANGED <<log, writer, limbo, outage>>

Begin(c) == /\ writer = None /\ view[c] = Latest
            /\ writer' = c
            /\ UNCHANGED <<log, view, limbo, outage>>

Change(c) == /\ writer = c
             /\ view' = [view EXCEPT ![c] = view'[c]]
             /\ UNCHANGED <<log, writer, limbo, outage>>

\* What is written down may outlive its process.
Write(c) == /\ writer = c
            /\ limbo' \in {None, view[c]}
            /\ UNCHANGED <<log, view, writer, outage>>

Commit(c) == /\ writer = c /\ limbo = view[c]
             /\ log' = Append(log, view[c])
             /\ writer' = None /\ limbo' = None
             /\ UNCHANGED <<view, outage>>

Undo(c) == /\ writer = c
           /\ view' = [view EXCEPT ![c] = Latest] /\ writer' = None
           /\ UNCHANGED <<log, limbo, outage>>

\* At the end of a read, or at the death of a process.
Leave(c) == /\ view' = [view EXCEPT ![c] = None]
            /\ writer' = IF writer = c THEN None ELSE writer
            /\ limbo' \in {limbo, None}
            /\ UNCHANGED <<log, outage>>

\* Nobody reads while this is decided.
Settle == /\ \A c \in Conns : view[c] = None
          /\ LET all == IF limbo = None THEN log ELSE Append(log, limbo) IN
             \E n \in 1 .. Len(all) :
               /\ ~outage => n >= Len(log)
               /\ log' = SubSeq(all, 1, n)
          /\ limbo' = None /\ outage' = FALSE
          /\ UNCHANGED <<view, writer>>

PowerFailure == /\ view' = [c \in Conns |-> None] /\ writer' = None /\ outage' = TRUE
                /\ UNCHANGED <<log, limbo>>

Next == \/ \E c \in Conns : Look(c) \/ Begin(c) \/ Change(c) \/ Write(c)
                            \/ Commit(c) \/ Undo(c) \/ Leave(c)
        \/ Settle \/ PowerFailure

Spec == Init /\ [][Next]_vars
=============================================================================
