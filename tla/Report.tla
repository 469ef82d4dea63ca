------------------------------- MODULE Report -------------------------------
(***************************************************************************)
(* The report scripts check_overhead.py, check_time.py, check_queries.py,  *)
(* check_cache_size.py, check_memory_usage.py and check_stats.py, reading  *)
(* result directories that KLEE runs may still be filling.                 *)
(*                                                                         *)
(* A run's directory holds run.stats (its rows, abstracted to the work the *)
(* last row tells: klee-stats reports that row), info and messages.txt.    *)
(* KLEE is external: it ends with its last row, then prints its totals.    *)
(***************************************************************************)
EXTENDS KleeOutParser

CONSTANTS
  Programs,    \* PROGRAMS of the check scripts, programs of get_dirs
  Scripts,     \* the report scripts that may be started
  Goals        \* per script, what a run it reads can end with: its work, info
               \* and messages.txt

Lines == [tag : Tags, n : Nat]

ASSUME ProgramsAssumption ==
  /\ Programs \in Seq({Programs[i] : i \in DOMAIN Programs}) /\ Programs # <<>>
  /\ \A i, k \in DOMAIN Programs : Programs[i] = Programs[k] => i = k

ASSUME ScriptsAssumption ==
  Scripts \subseteq {"overhead", "time", "queries", "cache_size", "memory", "stats"}

Seen(g) == [info |-> parse_info(g.info), cache_size |-> get_cache_size(g.messages),
            stats |-> parse_query_stats(g.messages), work |-> g.work]

\* What KLEE ends with: some work, and in info its three totals.
ASSUME GoalsAssumption ==
  \A report \in Scripts : \A g \in Goals[report] :
    /\ g.work \in Nat \ {0}
    /\ g.info \in Seq(Lines) /\ g.messages \in Seq(Lines)
    /\ Seen(g).info.paths # None /\ Seen(g).info.queries # None
    /\ Seen(g).info.elapsed # None

\* A validation run prints its counts, the first two before the third.
ASSUME CountsAssumption ==
  "stats" \in Scripts =>
    \A g \in Goals["stats"] :
      /\ Seen(g).stats.address_dependent # None /\ Seen(g).stats.unhandled # None
      /\ \A m \in 0 .. Len(g.messages) :
           LET read == parse_query_stats(SubSeq(g.messages, 1, m))
           IN  read.address_dependent # None => read.all # None /\ read.relevant # None

\* The directories a report reads per program.  A qc or overhead directory
\* holds pairs; check_stats.py reads one member of a validation pair.
Roles(report) ==
  IF report = "stats" THEN <<"out-fmm">> ELSE <<"out-klee", "out-cache">>

VARIABLES
  goal,     \* per program and role: what the run will have written at its end
  run,      \* per program and role: the output directory
  script,   \* the report script
  began,    \* the runs that were complete when the report was started
  pc,       \* its next step
  todo,     \* the programs it has not looked for
  dirs,     \* the programs it has found the directories of
  ko,       \* the KLEEOut objects made for the program at hand
  out       \* the lines it has printed

klee == <<goal, run>>
vars == <<klee, script, began, pc, todo, dirs, ko, out>>

Runs == DOMAIN goal
Of(p) == {x \in Runs : x[1] = p}
Info(x) == SubSeq(goal[x].info, 1, run[x].info)
Messages(x) == SubSeq(goal[x].messages, 1, run[x].messages)

NotRun == [st |-> "absent", work |-> 0, info |-> 0, messages |-> 0]

Complete(x) ==
  /\ run[x].work = goal[x].work
  /\ run[x].info = Len(goal[x].info)
  /\ run[x].messages = Len(goal[x].messages)

Init ==
  /\ script \in Scripts
  /\ goal \in [{<<Programs[i], Roles(script)[j]>> :
                   i \in DOMAIN Programs, j \in DOMAIN Roles(script)} -> Goals[script]]
  /\ run = [x \in Runs |-> NotRun]
  /\ began = {}
  /\ pc = "idle"
  /\ todo = Programs
  /\ dirs = <<>>
  /\ ko = <<>>
  /\ out = <<>>
-----------------------------------------------------------------------------
(* A KLEE run.                                                             *)

Writes(x, r) ==
  /\ run' = [run EXCEPT ![x] = r]
  /\ UNCHANGED <<goal, script, began, pc, todo, dirs, ko, out>>

MakeOutputDir(x) ==
  run[x].st = "absent" /\ Writes(x, [run[x] EXCEPT !.st = "made"])

OpenFiles(x) ==
  run[x].st = "made" /\ Writes(x, [run[x] EXCEPT !.st = "open"])

WriteRow(x) ==
  /\ run[x].st = "open"
  /\ run[x].work < goal[x].work
  /\ Writes(x, [run[x] EXCEPT !.work = @ + 1])

\* The totals follow the last row of run.stats.
WriteInfo(x) ==
  /\ run[x].st = "open"
  /\ run[x].work = goal[x].work
  /\ run[x].info < Len(goal[x].info)
  /\ Writes(x, [run[x] EXCEPT !.info = @ + 1])

WriteMessage(x) ==
  /\ run[x].st = "open"
  /\ run[x].messages < Len(goal[x].messages)
  /\ Writes(x, [run[x] EXCEPT !.messages = @ + 1])

Die(x) ==
  /\ run[x].st = "open"
  /\ ~Complete(x)
  /\ Writes(x, [run[x] EXCEPT !.st = "dead"])
-----------------------------------------------------------------------------
(* The report.                                                             *)

Start ==
  /\ pc = "idle"
  /\ pc' = "look"
  /\ began' = {x \in Runs : Complete(x)}
  /\ UNCHANGED <<klee, script, todo, dirs, ko, out>>

\* Bug: one directory of the pair is enough.
Exist_either(p) == \E x \in Of(p) : run[x].st # "absent"

\* os.path.exists of every directory the report reads about p
Exist(p) == \A x \in Of(p) : run[x].st # "absent"

Line(p, text, shown) == [prog |-> p, text |-> text, shown |-> shown]

(* get_dirs: looks for all programs before any directory is read.          *)
get_dirs ==
  /\ pc = "look" /\ script = "overhead"
  /\ todo' = Tail(todo)
  /\ IF Exist(Head(todo))
     THEN dirs' = Append(dirs, Head(todo)) /\ UNCHANGED out
     ELSE out' = Append(out, Line(Head(todo), "skipping", <<>>)) /\ UNCHANGED dirs
  /\ pc' = IF Tail(todo) # <<>> THEN "look"
           ELSE IF dirs' # <<>> THEN "make" ELSE "end"
  /\ UNCHANGED <<klee, script, began, ko>>

(* dump: looks for a program when its turn comes; a missing one is fatal.  *)
dump ==
  /\ pc = "look" /\ script # "overhead"
  /\ IF Exist(Head(todo))
     THEN /\ dirs' = <<Head(todo)>>
          /\ todo' = Tail(todo)
          /\ pc' = "make"
     ELSE pc' = "crashed" /\ UNCHANGED <<dirs, todo>>
  /\ UNCHANGED <<klee, script, began, ko, out>>

\* The directory of the KLEEOut that is being made.
Current == <<Head(dirs), Roles(script)[Len(ko)]>>

Blank == [info |-> None, cache_size |-> None, stats |-> None, work |-> None]

\* Bug: parse_stats comes before parse_info.
Order_stats_first == <<"stats", "info", "messages">>

\* KLEEOut.__init__ reads a directory file by file.
Order == <<"info", "messages", "stats">>

Go(label) == pc' = label /\ UNCHANGED <<klee, script, began, todo, dirs, out>>

\* The step after step n of __init__: the next file, the next KLEEOut, or print.
After(n) ==
  IF n < Len(Order) THEN Order[n + 1]
  ELSE IF Len(ko) < Len(Roles(script)) THEN "make" ELSE "print"

Position(file) == CHOOSE n \in DOMAIN Order : Order[n] = file

(* KLEEOut.__init__: a missing directory is fatal.                         *)
MakeKleeOut ==
  /\ pc = "make"
  /\ IF run[<<Head(dirs), Roles(script)[Len(ko) + 1]>>].st = "absent"
     THEN Go("crashed") /\ UNCHANGED ko
     ELSE ko' = Append(ko, Blank) /\ Go(Order[1])

HasFiles(x) == run[x].st \in {"open", "dead"}

ReadInfo ==
  /\ pc = "info"
  /\ IF ~HasFiles(Current)
     THEN Go("crashed") /\ UNCHANGED ko
     ELSE /\ ko' = [ko EXCEPT ![Len(ko)].info = parse_info(Info(Current))]
          /\ Go(After(Position("info")))

ReadMessages ==
  /\ pc = "messages"
  /\ ko' = [ko EXCEPT
       ![Len(ko)].cache_size = get_cache_size(Messages(Current)),
       ![Len(ko)].stats = IF script = "stats"
                          THEN parse_query_stats(Messages(Current)) ELSE None]
  /\ Go(After(Position("messages")))

(* klee-stats prints the last row; without a row there is no fourth line   *)
(* to index.                                                               *)
parse_stats ==
  /\ pc = "stats"
  /\ IF run[Current].work = 0
     THEN Go("crashed") /\ UNCHANGED ko
     ELSE /\ ko' = [ko EXCEPT ![Len(ko)].work = run[Current].work]
          /\ Go(After(Position("stats")))
-----------------------------------------------------------------------------
(* What each script prints about a program.                                *)

validate(k1, k2) == k1.work = k2.work /\ k1.info.paths = k2.info.paths

compare(p) ==
  IF validate(ko[1], ko[2])
  THEN Line(p, "values", <<ko[1].work, ko[2].work>>)
  ELSE Line(p, "inconsistent",
            <<ko[1].work, ko[1].info.paths, ko[2].work, ko[2].info.paths>>)

check_time(p)       == Line(p, "values", <<ko[1].info.elapsed, ko[2].info.elapsed>>)
check_queries(p)    == Line(p, "values", <<ko[1].info.queries, ko[2].info.queries>>)
check_cache_size(p) == Line(p, "values", <<ko[1].cache_size, ko[2].cache_size>>)
check_memory_usage(p) == Line(p, "values", <<ko[1].work, ko[2].work>>)
check_stats(p) ==
  LET k == ko[1].stats
  IN  Line(p, "values", <<k.all, k.relevant, k.address_dependent,
                          k.address_dependent - k.unhandled>>)

Printed(p) ==
  CASE script = "overhead"   -> compare(p)
    [] script = "time"       -> check_time(p)
    [] script = "queries"    -> check_queries(p)
    [] script = "cache_size" -> check_cache_size(p)
    [] script = "memory"     -> check_memory_usage(p)
    [] script = "stats"      -> check_stats(p)

\* C3 of check_stats.py is a difference: Python refuses to take it from None.
Subtracts ==
  script = "stats" => /\ ko[1].stats.address_dependent # None
                      /\ ko[1].stats.unhandled # None

\* Bug: the loop ends after its first program.
PrintProgram_once ==
  /\ pc = "print"
  /\ Subtracts
  /\ out' = Append(out, Printed(Head(dirs)))
  /\ dirs' = Tail(dirs)
  /\ ko' = <<>>
  /\ pc' = "end"
  /\ UNCHANGED <<klee, script, began, todo>>

PrintProgram ==
  /\ pc = "print"
  /\ Subtracts
  /\ out' = Append(out, Printed(Head(dirs)))
  /\ dirs' = Tail(dirs)
  /\ ko' = <<>>
  /\ pc' = IF Tail(dirs) # <<>> THEN "make"
           ELSE IF todo # <<>> THEN "look" ELSE "end"
  /\ UNCHANGED <<klee, script, began, todo>>

FailToPrint ==
  /\ pc = "print"
  /\ ~Subtracts
  /\ Go("crashed")
  /\ UNCHANGED ko

Read == get_dirs \/ dump \/ MakeKleeOut \/ ReadInfo \/ ReadMessages \/ parse_stats
        \/ PrintProgram \/ FailToPrint

Next ==
  \/ \E x \in Runs :
       \/ MakeOutputDir(x)
       \/ OpenFiles(x)
       \/ WriteRow(x)
       \/ WriteInfo(x)
       \/ WriteMessage(x)
       \/ Die(x)
  \/ Start
  \/ Read

Spec == Init /\ [][Next]_vars
-----------------------------------------------------------------------------
Finals(p) == [i \in DOMAIN Roles(script) |-> Seen(goal[<<p, Roles(script)[i]>>])]

Agree(p) ==
  /\ Finals(p)[1].work = Finals(p)[2].work
  /\ Finals(p)[1].info.paths = Finals(p)[2].info.paths

\* The line a script prints about runs that are over.
FinalLine(p) ==
  LET f == Finals(p)
      Shown(v) == Line(p, "values", v)
  IN CASE script = "overhead" /\ Agree(p) -> Shown(<<f[1].work, f[2].work>>)
       [] script = "overhead" /\ ~Agree(p) ->
            Line(p, "inconsistent",
                 <<f[1].work, f[1].info.paths, f[2].work, f[2].info.paths>>)
       [] script = "time"       -> Shown(<<f[1].info.elapsed, f[2].info.elapsed>>)
       [] script = "queries"    -> Shown(<<f[1].info.queries, f[2].info.queries>>)
       [] script = "cache_size" -> Shown(<<f[1].cache_size, f[2].cache_size>>)
       [] script = "memory"     -> Shown(<<f[1].work, f[2].work>>)
       [] script = "stats"      ->
            Shown(<<f[1].stats.all, f[1].stats.relevant,
                    f[1].stats.address_dependent,
                    f[1].stats.address_dependent - f[1].stats.unhandled>>)

(* check_overhead.py may be started while KLEE runs: info is read before   *)
(* run.stats and KLEE writes them in the opposite order, so two runs that  *)
(* are found consistent on a number of paths are compared on their final   *)
(* time and memory, and really ended alike.                                *)
OverheadLineFinal ==
  /\ pc = "print" /\ script = "overhead"
  /\ validate(ko[1], ko[2]) /\ ko[1].info.paths # None
  => Agree(Head(dirs)) /\ Printed(Head(dirs)) = FinalLine(Head(dirs))

(* A number in a line of check_time.py, check_queries.py, check_stats.py or *)
(* check_cache_size.py is final however early it was read; only check_stats *)
(* must have found every number to print a line at all.                     *)
NumbersFinal ==
  script \in {"time", "queries", "cache_size", "stats"} =>
    \A i \in DOMAIN out :
      \A c \in DOMAIN out[i].shown :
        \/ out[i].shown[c] = FinalLine(out[i].prog).shown[c]
        \/ out[i].shown[c] = None /\ script # "stats"

(* The runs that were over when the report was started are reported once,  *)
(* by their final numbers, and are never what makes the report fail.       *)
OverIsReported ==
  /\ pc = "end" =>
       \A i \in DOMAIN Programs :
         LET p == Programs[i]
             lines == {k \in DOMAIN out : out[k].prog = p}
         IN Of(p) \subseteq began =>
              \E k \in lines : lines = {k} /\ out[k] = FinalLine(p)
  /\ pc = "crashed" => \E x \in Runs : x \notin began

(* Directories appear while the report goes through them.  check_overhead  *)
(* skips a program whose two runs are not both there, for good: it never   *)
(* reads a directory that does not exist.                                  *)
OverheadSkips ==
  script = "overhead" =>
    /\ \A i \in DOMAIN dirs : \A x \in Of(dirs[i]) : run[x].st # "absent"
    /\ \A i \in DOMAIN out : out[i].text = "skipping" => ~(Of(out[i].prog) \subseteq began)
=============================================================================
