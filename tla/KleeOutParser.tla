--------------------------- MODULE KleeOutParser ---------------------------
(***************************************************************************)
(* klee_out_parser.py: what the report scripts read out of a KLEE output   *)
(* directory.  A file is the sequence of its lines, a line the pattern it  *)
(* matches (a tag) and the number behind it.  Each reader is a loop that   *)
(* stops at the first line it accepts.                                     *)
(***************************************************************************)
EXTENDS Naturals, Sequences

CONSTANT None    \* Python's None

Tags == {"paths", "queries", "elapsed", "total_cache", "query_cache", "all",
         "relevant", "address_dependent", "unhandled", "other"}

(* Line i of q is the first one that is in S. *)
FirstIn(q, S, i) ==
  /\ i \in DOMAIN q
  /\ q[i] \in S
  /\ \A k \in 1 .. i - 1 : q[k] \notin S

(* The number of the first line of q in S, or None. *)
FirstNumber(q, S) ==
  IF \E i \in DOMAIN q : FirstIn(q, S, i)
  THEN q[CHOOSE i \in DOMAIN q : FirstIn(q, S, i)].n
  ELSE None

Tagged(t) == [tag : {t}, n : Nat]

get_completed_paths(q) == FirstNumber(q, Tagged("paths"))
get_queries(q)         == FirstNumber(q, Tagged("queries"))
get_elapsed_time(q)    == FirstNumber(q, Tagged("elapsed"))

\* Bug: an empty cache is reported at once.
get_cache_size_zero(q) == FirstNumber(q, Tagged("total_cache") \cup Tagged("query_cache"))

\* Bug: the loop goes on after a match, the last one counts.
get_cache_size_last(q) ==
  LET hits == {i \in DOMAIN q : q[i].tag \in {"total_cache", "query_cache"}}
  IN  IF hits = {} THEN None
      ELSE q[CHOOSE i \in hits : \A k \in hits : k <= i].n

\* A total of 0 is passed over: the size is then on a later line.
get_cache_size(q) ==
  FirstNumber(q, (Tagged("total_cache") \ [tag : {"total_cache"}, n : {0}])
                 \cup Tagged("query_cache"))

get_all_queries(q)      == FirstNumber(q, Tagged("all"))
get_relevant_queries(q) == FirstNumber(q, Tagged("relevant"))
get_relevant_address_dependent_queries(q) == FirstNumber(q, Tagged("address_dependent"))

\* Bug: the last matching line wins.
get_unhandled_queries_last(q) ==
  LET hits == {i \in DOMAIN q : q[i].tag = "unhandled"}
  IN  IF hits = {} THEN None
      ELSE q[CHOOSE i \in hits : \A k \in hits : k <= i].n

\* Bug: a missing line is read as no unhandled query.
get_unhandled_queries_zero(q) ==
  IF \E i \in DOMAIN q : q[i].tag = "unhandled"
  THEN FirstNumber(q, Tagged("unhandled")) ELSE 0

get_unhandled_queries(q) == FirstNumber(q, Tagged("unhandled"))

\* What is read from info, and from messages.txt with and without statistics.
parse_info(q) ==
  [paths |-> get_completed_paths(q), queries |-> get_queries(q),
   elapsed |-> get_elapsed_time(q)]
parse_query_stats(q) ==
  [all |-> get_all_queries(q), relevant |-> get_relevant_queries(q),
   address_dependent |-> get_relevant_address_dependent_queries(q),
   unhandled |-> get_unhandled_queries(q)]
=============================================================================
