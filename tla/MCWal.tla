------------------------------- MODULE MCWal -------------------------------
(* Up to three connections on a database of two pages; logs of at most four
   frames, two or three transactions. *)
EXTENDS Wal
CONSTANTS c1, c2, c3

Writes == {"read", "write"}
Copies == {"read", "passive"}
Roles(r1, r2, r3) == [c \in Conns |-> IF c = c1 THEN r1 ELSE IF c = c2 THEN r2 ELSE r3]
OneOrBoth == {{1}, {1, 2}}

Plain ==
  [ may |-> Roles(Writes, Copies, {}), writes |-> OneOrBoth, sizes |-> {2}, spills |-> {},
    synchronous |-> "normal", caching |-> FALSE, windows |-> FALSE,
    txs |-> 2, crash |-> 0, power |-> 0 ]

\* A log that is written, copied and begun anew while it is read: for longer,
\* with three processes, with caches that outlive a read, with two writers.
Longer == [Plain EXCEPT !.txs = 3]
Three == [Plain EXCEPT !.may = Roles(Writes, {"passive"}, {"read"}), !.writes = {{1, 2}}]
Caching == [Plain EXCEPT !.caching = TRUE, !.writes = {{1, 2}}]
Rivals == [Plain EXCEPT !.may = Roles(Writes \cup {"passive"}, Writes, {}), !.writes = {{1}, {2}}]

\* The other modes, with databases that shrink and grow, and connections that close.
OtherModes == [Plain EXCEPT !.may = Roles(Writes, {"read", "full", "truncate"}, {}),
                            !.writes = {{1}}, !.sizes = {1, 2}]
Closing == [Plain EXCEPT !.may = Roles(Writes \cup {"close"}, {"read", "close"}, {}), !.writes = {{1}, {2}},
                         !.power = 1]

\* Processes die, or the power fails, while there are spilled pages in the log too.
Crashing == [Plain EXCEPT !.crash = 1]
CrashSpill == [Plain EXCEPT !.may = Roles(Writes, {"read"}, {}), !.writes = {{1, 2}},
                            !.spills = {1}, !.crash = 1]
Failing == [Plain EXCEPT !.may = Roles(Writes \cup {"passive"}, {}, {}), !.writes = {{1, 2}},
                         !.spills = {1}, !.power = 1]
FailingFull == [Plain EXCEPT !.may = Roles(Writes \cup {"truncate"}, {}, {}), !.synchronous = "full",
                             !.writes = OneOrBoth \cup {{2}}, !.sizes = {1, 2}, !.power = 1]

AllSettings == {Longer, Three, Caching, Rivals, OtherModes, Closing, Crashing, CrashSpill,
                Failing, FailingFull}

\* The log is begun anew between the two looks of a checkpoint.
Window == [Plain EXCEPT !.may = Roles(Writes \cup {"passive"}, {"passive"}, {}), !.windows = TRUE]
Windows == {Window}
=============================================================================
