------------------------------ MODULE KleeOut ------------------------------
(***************************************************************************)
(* One file of a KLEE output directory while KLEE appends to it, and what  *)
(* the readers of KleeOutParser find in it meanwhile.                      *)
(***************************************************************************)
EXTENDS KleeOutParser

CONSTANTS
  Numbers,     \* the numbers a line may carry
  MaxLines     \* bound on the length of the file

ASSUME NumbersAssumption == Numbers \subseteq Nat /\ MaxLines \in Nat /\ None \notin Nat

FileLines == [tag : Tags, n : Numbers]

Metrics(q) ==
  {<<"paths", get_completed_paths(q)>>, <<"queries", get_queries(q)>>,
   <<"elapsed", get_elapsed_time(q)>>, <<"cache_size", get_cache_size(q)>>,
   <<"all", get_all_queries(q)>>, <<"relevant", get_relevant_queries(q)>>,
   <<"address_dependent", get_relevant_address_dependent_queries(q)>>,
   <<"unhandled", get_unhandled_queries(q)>>}
-----------------------------------------------------------------------------
VARIABLE klee_file

NewFile == klee_file = <<>>

AppendLine(line) ==
  /\ Len(klee_file) < MaxLines
  /\ klee_file' = Append(klee_file, line)

GrowFile == \E line \in FileLines : AppendLine(line)

FileSpec == NewFile /\ [][GrowFile]_klee_file
-----------------------------------------------------------------------------
TypeOK == klee_file \in Seq(FileLines)

(* A number that a report has read stays the number of that run: KLEE may   *)
(* still be appending to the file the report reads.                         *)
StableMetrics ==
  [][\A m \in Metrics(klee_file) : m[2] # None => m \in Metrics(klee_file')]_klee_file

(* The loop of a reader, line by line: it returns at the first line it      *)
(* accepts, and get_cache_size tries both patterns on each line in turn.    *)
Loop(q) ==
  LET cache[i \in 1 .. Len(q) + 1] ==
        IF i > Len(q) THEN None
        ELSE IF q[i].tag = "total_cache" /\ q[i].n # 0 THEN q[i].n
        ELSE IF q[i].tag = "query_cache" THEN q[i].n
        ELSE cache[i + 1]
  IN  cache[1]

(* The cache size is what the loop over the lines returns.                  *)
CacheSizeIsLoop == get_cache_size(klee_file) = Loop(klee_file)
=============================================================================
