------------------------------ MODULE MCPager ------------------------------
(* Two connections on a database of two pages, or on one that does not exist
   yet; three pages and two or three transactions at most. *)
EXTENDS Pager
CONSTANTS c1, c2
Connections == Permutations(Conns)

TwoPages == << [ver |-> 1, sz |-> 2], [ver |-> 1, sz |-> 0] >>
Plain ==
  [ journalMode |-> "delete", synchronous |-> "full", initDb |-> TwoPages,
    spilling |-> TRUE, vacuuming |-> FALSE, exclusive |-> FALSE,
    sector |-> 1, pages |-> 2, txs |-> 3, crash |-> 0, power |-> 0, fault |-> 0 ]
Big == [Plain EXCEPT !.pages = 3, !.txs = 2]
Vacuumed == [Big EXCEPT !.vacuuming = TRUE]

\* Processes die in a transaction, or in the recovery from another death.
Crashing == [Plain EXCEPT !.crash = 2, !.vacuuming = TRUE, !.txs = 2]

\* The power fails, after a process has died too, or while journals are written
\* over older ones, or files cut.
Failing == [Plain EXCEPT !.txs = 2, !.crash = 1, !.power = 1]
Growing == [Big EXCEPT !.power = 1]
Persisting == [Plain EXCEPT !.journalMode = "persist", !.power = 1]
Extra == [Vacuumed EXCEPT !.synchronous = "extra", !.spilling = FALSE, !.power = 1, !.fault = 1]

\* Calls fail, also the first commit of all. Nothing is synced, on a database that
\* is made.
Faulty == [Vacuumed EXCEPT !.journalMode = "truncate", !.pages = 2, !.fault = 2]
Emptied == [Plain EXCEPT !.initDb = <<>>, !.spilling = FALSE, !.txs = 2, !.fault = 1]
Off == [Plain EXCEPT !.synchronous = "off", !.initDb = <<>>, !.exclusive = TRUE,
                     !.txs = 2, !.crash = 1]
AllSettings == {Crashing, Failing, Growing, Persisting, Extra, Faulty, Emptied, Off}

\* A commit fails behind the sync of a journal that ends at a sector's end, where
\* an older transaction had begun a header.
ThreePages == TwoPages \o << [ver |-> 1, sz |-> 0] >>
Stale == [Plain EXCEPT !.journalMode = "persist", !.initDb = [ThreePages EXCEPT ![1].sz = 3],
                       !.sector = 2, !.pages = 3, !.txs = 4, !.fault = 2]
StaleSettings == {Stale}
=============================================================================
