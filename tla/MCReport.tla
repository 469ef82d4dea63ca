------------------------------ MODULE MCReport ------------------------------
(* Small instances of Report for TLC.                                      *)
EXTENDS Report

L(tag, n) == [tag |-> tag, n |-> n]
Totals(elapsed, queries, paths) ==
  <<L("elapsed", elapsed), L("queries", queries), L("paths", paths)>>
Counts(all, relevant, dependent, unhandled) ==
  <<L("all", all), L("relevant", relevant),
    L("address_dependent", dependent), L("unhandled", unhandled)>>

TwoPrograms == <<"m4", "json">>

\* A long run, a short one, and a long one that explored other paths.
Long  == [work |-> 2, info |-> Totals(3, 4, 1), messages |-> <<>>]
Short == [Long EXCEPT !.work = 1]
Other == [Long EXCEPT !.info = Totals(4, 4, 2)]
OverheadGoals == {Long, Short, Other}

\* The two lines about cache sizes, in either order.
Cached == [Short EXCEPT !.messages = <<L("total_cache", 0), L("query_cache", 5)>>]
Total  == [Other EXCEPT !.messages = <<L("total_cache", 7), L("query_cache", 6)>>]
PairGoals == {Cached, Total}

Counted == [Long EXCEPT !.messages = Counts(9, 8, 7, 2)]
Quick   == [Short EXCEPT !.messages = Counts(9, 8, 7, 0)]
StatsGoals == {Counted, Quick}

AllScripts == {"overhead", "time", "queries", "cache_size", "memory", "stats"}
GoalsOf == [report \in AllScripts |->
              CASE report = "overhead" -> OverheadGoals
                [] report = "stats"    -> StatsGoals
                [] OTHER               -> PairGoals]

\* A report on pairs finds the directories of one program and not of the other.
Started(x) == script = "stats" \/ x[1] = "m4"

MCInit ==
  /\ Init
  /\ \A x \in Runs : Started(x) \/ goal[x] = CHOOSE g \in Goals[script] : TRUE
MCNext ==
  /\ Next
  /\ \A x \in Runs : Started(x) \/ run'[x].st = "absent"
MCSpec == MCInit /\ [][MCNext]_vars
=============================================================================
