--------------------------- MODULE Report_proofs ---------------------------
(***************************************************************************)
(* What holds of every report, whatever the programs, the contents of the  *)
(* directories, and the points at which KLEE and the report take turns.    *)
(***************************************************************************)
EXTENDS Report, KleeOut, SequenceTheorems, WellFoundedInduction, TLAPS

Names == {Programs[i] : i \in DOMAIN Programs}
Keys  == {<<Programs[i], Roles(script)[j]>> : i \in DOMAIN Programs, j \in DOMAIN Roles(script)}

RunRecords == [st : {"absent", "made", "open", "dead"}, work : Nat, info : Nat, messages : Nat]

Figures == Nat \cup {None}
Infos   == [paths : Figures, queries : Figures, elapsed : Figures]
Counts  == [all : Figures, relevant : Figures, address_dependent : Figures, unhandled : Figures]
Kleeouts == [info : Infos \cup {None}, cache_size : Figures, stats : Counts \cup {None},
             work : Figures]

Reading == {"make", "info", "messages", "stats", "print"}
Steps   == Reading \cup {"idle", "look", "end", "crashed"}

-----------------------------------------------------------------------------
(* The inductive invariant. *)

\* A directory is filled up to its goal, and its totals follow its last row.
RunOf(x) ==
  /\ run[x].work <= goal[x].work
  /\ run[x].info <= Len(goal[x].info) /\ run[x].messages <= Len(goal[x].messages)
  /\ run[x].info > 0 => run[x].work = goal[x].work
  /\ run[x].st \in {"absent", "made"} => run[x].work = 0

World ==
  /\ script \in Scripts
  /\ goal \in [Keys -> Goals[script]]
  /\ run \in [Keys -> RunRecords]
  /\ \A x \in Keys : RunOf(x)
  /\ \A x \in began : x \in Keys /\ Complete(x)

Control ==
  /\ pc \in Steps
  /\ todo \in Seq(Names) /\ dirs \in Seq(Names) /\ ko \in Seq(Kleeouts)
  /\ Len(ko) <= Len(Roles(script))
  /\ pc \in Reading => dirs # <<>>
  /\ pc = "look" => todo # <<>>
  /\ pc = "idle" => todo = Programs /\ dirs = <<>> /\ out = <<>>
  /\ pc \in {"idle", "look"} => ko = <<>>
  /\ pc \in {"info", "messages", "stats"} => Len(ko) > 0
  /\ pc = "make" => Len(ko) < Len(Roles(script))
  /\ pc = "print" => Len(ko) = Len(Roles(script))

\* What is read is final, or was not there yet.
Late(v, final, x) == v = final \/ (v = None /\ x \notin began)

InfoOf(k, x) ==
  LET f == parse_info(goal[x].info) IN
  /\ k.info \in Infos
  /\ Late(k.info.paths, f.paths, x) /\ Late(k.info.queries, f.queries, x)
  /\ Late(k.info.elapsed, f.elapsed, x)
  /\ k.info.paths # None => run[x].work = goal[x].work

MessagesOf(k, x) ==
  LET f == parse_query_stats(goal[x].messages) IN
  /\ Late(k.cache_size, get_cache_size(goal[x].messages), x)
  /\ script = "stats" =>
       /\ k.stats \in Counts
       /\ Late(k.stats.all, f.all, x) /\ Late(k.stats.relevant, f.relevant, x)
       /\ Late(k.stats.address_dependent, f.address_dependent, x)
       /\ Late(k.stats.unhandled, f.unhandled, x)
       /\ k.stats.address_dependent # None => k.stats.all # None /\ k.stats.relevant # None

WorkOf(k, x) ==
  k.info.paths # None \/ x \in began => k.work = goal[x].work

\* The directory that KLEEOut number i was made for.
Dir(i) == <<Head(dirs), Roles(script)[i]>>

HasRead(i, labels) == i < Len(ko) \/ pc \in labels

KleeoutOf(i) ==
  /\ HasRead(i, {"messages", "stats", "print", "make"}) => InfoOf(ko[i], Dir(i))
  /\ HasRead(i, {"stats", "print", "make"}) => MessagesOf(ko[i], Dir(i))
  /\ HasRead(i, {"print", "make"}) => WorkOf(ko[i], Dir(i))

ReadSoFar == pc \in Reading => \A i \in DOMAIN ko : KleeoutOf(i)

IInv == World /\ Control /\ ReadSoFar

-----------------------------------------------------------------------------
(* What is read out of the beginning of a file. *)

LEMMA FirstUnique ==
  ASSUME NEW q \in Seq(Lines), NEW S,
         NEW i \in DOMAIN q, NEW k \in DOMAIN q, FirstIn(q, S, i), FirstIn(q, S, k)
  PROVE  i = k
<1>1. i \in Nat /\ k \in Nat /\ i > 0 /\ k > 0
  OBVIOUS
<1>2. CASE i < k
  BY <1>1, <1>2 DEF FirstIn
<1>3. CASE k < i
  BY <1>1, <1>3 DEF FirstIn
<1> QED
  BY <1>1, <1>2, <1>3

LEMMA NumberAt ==
  ASSUME NEW q \in Seq(Lines), NEW S, NEW i \in DOMAIN q, FirstIn(q, S, i)
  PROVE  FirstNumber(q, S) = q[i].n
<1> DEFINE c == CHOOSE k \in DOMAIN q : FirstIn(q, S, k)
<1>1. c \in DOMAIN q /\ FirstIn(q, S, c)
  OBVIOUS
<1> HIDE DEF c
<1>2. c = i
  BY <1>1, FirstUnique
<1> QED
  BY <1>2 DEF FirstNumber, c

LEMMA NumberTyped ==
  ASSUME NEW q \in Seq(Lines), NEW S
  PROVE  FirstNumber(q, S) \in Figures
<1>1. CASE \E i \in DOMAIN q : FirstIn(q, S, i)
  <2>1. PICK i \in DOMAIN q : FirstIn(q, S, i)
    BY <1>1
  <2>2. q[i] \in Lines
    OBVIOUS
  <2> QED
    BY <2>1, <2>2, NumberAt DEF Lines, Figures
<1>2. CASE ~ \E i \in DOMAIN q : FirstIn(q, S, i)
  BY <1>2 DEF FirstNumber, Figures
<1> QED
  BY <1>1, <1>2

LEMMA Prefix ==
  ASSUME NEW q \in Seq(Lines), NEW m \in 0 .. Len(q)
  PROVE  /\ SubSeq(q, 1, m) \in Seq(Lines) /\ DOMAIN SubSeq(q, 1, m) = 1 .. m
         /\ \A i \in 1 .. m : SubSeq(q, 1, m)[i] = q[i]
         /\ m = Len(q) => SubSeq(q, 1, m) = q
OBVIOUS

(* A number found in the beginning of a file is the number of the file.     *)
LEMMA NumberInPrefix ==
  ASSUME NEW q \in Seq(Lines), NEW m \in 0 .. Len(q), NEW S,
         FirstNumber(SubSeq(q, 1, m), S) # None
  PROVE  m > 0 /\ FirstNumber(SubSeq(q, 1, m), S) = FirstNumber(q, S)
<1> DEFINE p == SubSeq(q, 1, m)
<1>1. /\ p \in Seq(Lines) /\ DOMAIN p = 1 .. m /\ \A i \in 1 .. m : p[i] = q[i]
  BY Prefix
<1> HIDE DEF p
<1>2. PICK i \in DOMAIN p : FirstIn(p, S, i)
  BY DEF FirstNumber, p
<1>3. i \in DOMAIN q /\ FirstIn(q, S, i)
  <2>1. i \in 1 .. m /\ i \in DOMAIN q /\ p[i] = q[i] /\ \A k \in 1 .. i - 1 : p[k] = q[k]
    BY <1>1
  <2> QED
    BY <1>2, <2>1 DEF FirstIn
<1>4. FirstNumber(p, S) = p[i].n /\ FirstNumber(q, S) = q[i].n
  BY <1>1, <1>2, <1>3, NumberAt
<1> QED
  BY <1>1, <1>2, <1>4 DEF p

(* The readers, on the beginning of a file and on all of it.                *)
LEMMA InfoInPrefix ==
  ASSUME NEW q \in Seq(Lines), NEW m \in 0 .. Len(q)
  PROVE  LET r == parse_info(SubSeq(q, 1, m))
             f == parse_info(q)
         IN /\ r \in Infos
            /\ r.paths \in {f.paths, None} /\ r.queries \in {f.queries, None}
            /\ r.elapsed \in {f.elapsed, None}
            /\ r.paths # None => m > 0
            /\ m = Len(q) => r = f
<1> DEFINE p == SubSeq(q, 1, m)
<1>1. p \in Seq(Lines) /\ (m = Len(q) => p = q)
  BY Prefix
<1>2. \A S : /\ FirstNumber(p, S) \in {FirstNumber(q, S), None}
             /\ FirstNumber(p, S) # None => m > 0
             /\ FirstNumber(p, S) \in Figures
  BY <1>1, NumberInPrefix, NumberTyped
<1> HIDE DEF p
<1>3. /\ get_completed_paths(p) \in {get_completed_paths(q), None}
      /\ get_completed_paths(p) # None => m > 0
      /\ get_queries(p) \in {get_queries(q), None}
      /\ get_elapsed_time(p) \in {get_elapsed_time(q), None}
      /\ get_completed_paths(p) \in Figures /\ get_queries(p) \in Figures
      /\ get_elapsed_time(p) \in Figures
  BY <1>2 DEF get_completed_paths, get_queries, get_elapsed_time
<1>4. /\ parse_info(p) \in Infos
      /\ parse_info(p).paths = get_completed_paths(p)
      /\ parse_info(p).queries = get_queries(p)
      /\ parse_info(p).elapsed = get_elapsed_time(p)
      /\ parse_info(q).paths = get_completed_paths(q)
      /\ parse_info(q).queries = get_queries(q)
      /\ parse_info(q).elapsed = get_elapsed_time(q)
  BY <1>3 DEF parse_info, Infos
<1> QED
  BY <1>1, <1>3, <1>4 DEF p

LEMMA StatsInPrefix ==
  ASSUME NEW q \in Seq(Lines), NEW m \in 0 .. Len(q)
  PROVE  LET r == parse_query_stats(SubSeq(q, 1, m))
             f == parse_query_stats(q)
         IN /\ r \in Counts
            /\ r.all \in {f.all, None} /\ r.relevant \in {f.relevant, None}
            /\ r.address_dependent \in {f.address_dependent, None}
            /\ r.unhandled \in {f.unhandled, None}
            /\ get_cache_size(SubSeq(q, 1, m)) \in {get_cache_size(q), None} \cap Figures
            /\ m = Len(q) => r = f /\ get_cache_size(SubSeq(q, 1, m)) = get_cache_size(q)
<1> DEFINE p == SubSeq(q, 1, m)
<1>1. p \in Seq(Lines) /\ (m = Len(q) => p = q)
  BY Prefix
<1>2. \A S : /\ FirstNumber(p, S) \in {FirstNumber(q, S), None}
             /\ FirstNumber(p, S) \in Figures
  BY <1>1, NumberInPrefix, NumberTyped
<1> HIDE DEF p
<1>3. /\ get_all_queries(p) \in {get_all_queries(q), None} \cap Figures
      /\ get_relevant_queries(p) \in {get_relevant_queries(q), None} \cap Figures
      /\ get_relevant_address_dependent_queries(p)
           \in {get_relevant_address_dependent_queries(q), None} \cap Figures
      /\ get_unhandled_queries(p) \in {get_unhandled_queries(q), None} \cap Figures
      /\ get_cache_size(p) \in {get_cache_size(q), None} \cap Figures
  BY <1>2 DEF get_all_queries, get_relevant_queries, get_relevant_address_dependent_queries,
     get_unhandled_queries, get_cache_size
<1>4. ASSUME NEW s
      PROVE  /\ parse_query_stats(s).all = get_all_queries(s)
             /\ parse_query_stats(s).relevant = get_relevant_queries(s)
             /\ parse_query_stats(s).address_dependent
                  = get_relevant_address_dependent_queries(s)
             /\ parse_query_stats(s).unhandled = get_unhandled_queries(s)
  BY DEF parse_query_stats
<1>5. parse_query_stats(p) \in Counts
  BY <1>3 DEF parse_query_stats, Counts
<1> QED
  BY <1>1, <1>3, <1>4, <1>5 DEF p

-----------------------------------------------------------------------------
(* What KLEE does to the directories. *)

LEMMA GoalFacts ==
  ASSUME World
  PROVE  /\ Runs = Keys /\ script \in Scripts
         /\ \A x \in Keys : /\ goal[x] \in Goals[script]
                            /\ goal[x].work \in Nat \ {0}
                            /\ goal[x].info \in Seq(Lines) /\ goal[x].messages \in Seq(Lines)
                            /\ Len(goal[x].info) \in Nat /\ Len(goal[x].messages) \in Nat
<1>1. Runs = Keys /\ script \in Scripts /\ \A x \in Keys : goal[x] \in Goals[script]
  BY DEF World, Runs
<1> QED
  BY <1>1, GoalsAssumption

\* A record that directory x may get: no less than it holds, no more than its goal.
Fills(x, r) ==
  /\ r \in RunRecords
  /\ r.work <= goal[x].work
  /\ r.info <= Len(goal[x].info) /\ r.messages <= Len(goal[x].messages)
  /\ r.info > 0 => r.work = goal[x].work
  /\ r.st \in {"absent", "made"} => r.work = 0
  /\ run[x].work = goal[x].work => r.work = goal[x].work
  /\ run[x].st # "absent" => r.st # "absent"
  /\ Complete(x) => /\ r.work = goal[x].work /\ r.info = Len(goal[x].info)
                    /\ r.messages = Len(goal[x].messages)

KleeAt(x) ==
  MakeOutputDir(x) \/ OpenFiles(x) \/ WriteRow(x) \/ WriteInfo(x) \/ WriteMessage(x) \/ Die(x)

\* A run record with one part changed.
LEMMA RunParts ==
  ASSUME NEW r \in RunRecords, NEW st \in {"absent", "made", "open", "dead"}, NEW n \in Nat
  PROVE  /\ [r EXCEPT !.st = st] = [st |-> st, work |-> r.work, info |-> r.info, messages |-> r.messages]
         /\ [r EXCEPT !.work = n] = [st |-> r.st, work |-> n, info |-> r.info, messages |-> r.messages]
         /\ [r EXCEPT !.info = n] = [st |-> r.st, work |-> r.work, info |-> n, messages |-> r.messages]
         /\ [r EXCEPT !.messages = n] = [st |-> r.st, work |-> r.work, info |-> r.info, messages |-> n]
BY DEF RunRecords

LEMMA KleeFills ==
  ASSUME World, NEW x \in Keys, KleeAt(x)
  PROVE  \E r \in RunRecords : Writes(x, r) /\ Fills(x, r)
<1> DEFINE o == run[x]
           W == goal[x].work
           I == Len(goal[x].info)
           M == Len(goal[x].messages)
<1>1. /\ o \in RunRecords /\ W \in Nat \ {0} /\ I \in Nat /\ M \in Nat
      /\ o.work <= W /\ o.info <= I /\ o.messages <= M
      /\ o.info > 0 => o.work = W
      /\ o.st \in {"absent", "made"} => o.work = 0
  BY GoalFacts DEF World, RunOf
<1>2. /\ o.work \in Nat /\ o.info \in Nat /\ o.messages \in Nat
      /\ o.st \in {"absent", "made", "open", "dead"}
  BY <1>1 DEF RunRecords
<1>3. Complete(x) <=> o.work = W /\ o.info = I /\ o.messages = M
  BY DEF Complete
<1>4. ASSUME NEW st \in {"absent", "made", "open", "dead"},
             NEW w \in Nat, NEW i \in Nat, NEW m \in Nat,
             Writes(x, [st |-> st, work |-> w, info |-> i, messages |-> m]),
             w <= W, i <= I, m <= M, i > 0 => w = W,
             st \in {"absent", "made"} => w = 0,
             o.work = W => w = W, o.st # "absent" => st # "absent",
             Complete(x) => w = W /\ i = I /\ m = M
      PROVE  \E r \in RunRecords : Writes(x, r) /\ Fills(x, r)
  <2> DEFINE r == [st |-> st, work |-> w, info |-> i, messages |-> m]
  <2>1. /\ r \in RunRecords
        /\ r.st = st /\ r.work = w /\ r.info = i /\ r.messages = m
    BY DEF RunRecords
  <2>2. Writes(x, r)
    BY <1>4
  <2> HIDE DEF r
  <2>3. Fills(x, r)
    BY <1>4, <2>1 DEF Fills
  <2> QED
    BY <2>1, <2>2, <2>3
<1> HIDE DEF o, W, I, M
<1>5. CASE MakeOutputDir(x)
  <2>1. o.st = "absent" /\ Writes(x, [o EXCEPT !.st = "made"])
    BY <1>5 DEF MakeOutputDir, o
  <2>2. Writes(x, [st |-> "made", work |-> o.work, info |-> o.info, messages |-> o.messages])
    BY <1>1, <1>2, <2>1, RunParts
  <2> QED
    BY <1>1, <1>2, <1>3, <1>4, <2>1, <2>2
<1>6. CASE OpenFiles(x)
  <2>1. o.st = "made" /\ Writes(x, [o EXCEPT !.st = "open"])
    BY <1>6 DEF OpenFiles, o
  <2>2. Writes(x, [st |-> "open", work |-> o.work, info |-> o.info, messages |-> o.messages])
    BY <1>1, <1>2, <2>1, RunParts
  <2> QED
    BY <1>1, <1>2, <1>3, <1>4, <2>2
<1>7. CASE WriteRow(x)
  <2>1. o.st = "open" /\ o.work < W /\ Writes(x, [o EXCEPT !.work = o.work + 1])
    BY <1>7 DEF WriteRow, o, W
  <2>2. o.work + 1 \in Nat /\ o.work + 1 <= W /\ o.work # W /\ ~ (o.info > 0)
    BY <1>1, <1>2, <2>1
  <2>3. Writes(x, [st |-> "open", work |-> o.work + 1, info |-> o.info, messages |-> o.messages])
    BY <1>1, <1>2, <2>1, <2>2, RunParts
  <2> QED
    BY <1>1, <1>2, <1>3, <1>4, <2>1, <2>2, <2>3
<1>8. CASE WriteInfo(x)
  <2>1. o.st = "open" /\ o.work = W /\ o.info < I /\ Writes(x, [o EXCEPT !.info = o.info + 1])
    BY <1>8 DEF WriteInfo, o, W, I
  <2>2. o.info + 1 \in Nat /\ o.info + 1 <= I /\ o.info # I
    BY <1>1, <1>2, <2>1
  <2>3. Writes(x, [st |-> "open", work |-> o.work, info |-> o.info + 1, messages |-> o.messages])
    BY <1>1, <1>2, <2>1, <2>2, RunParts
  <2> QED
    BY <1>1, <1>2, <1>3, <1>4, <2>1, <2>2, <2>3
<1>9. CASE WriteMessage(x)
  <2>1. o.st = "open" /\ o.messages < M /\ Writes(x, [o EXCEPT !.messages = o.messages + 1])
    BY <1>9 DEF WriteMessage, o, M
  <2>2. o.messages + 1 \in Nat /\ o.messages + 1 <= M /\ o.messages # M
    BY <1>1, <1>2, <2>1
  <2>3. Writes(x, [st |-> "open", work |-> o.work, info |-> o.info, messages |-> o.messages + 1])
    BY <1>1, <1>2, <2>1, <2>2, RunParts
  <2> QED
    BY <1>1, <1>2, <1>3, <1>4, <2>1, <2>2, <2>3
<1>10. CASE Die(x)
  <2>1. o.st = "open" /\ ~ Complete(x) /\ Writes(x, [o EXCEPT !.st = "dead"])
    BY <1>10 DEF Die, o
  <2>2. Writes(x, [st |-> "dead", work |-> o.work, info |-> o.info, messages |-> o.messages])
    BY <1>1, <1>2, <2>1, RunParts
  <2> QED
    BY <1>1, <1>2, <1>3, <1>4, <2>1, <2>2
<1> QED
  BY <1>5, <1>6, <1>7, <1>8, <1>9, <1>10 DEF KleeAt

\* What every step does to the directories.
Grown ==
  \A x \in Keys : /\ run[x].work = goal[x].work => run'[x].work = goal[x].work
                  /\ run[x].st # "absent" => run'[x].st # "absent"
                  /\ Complete(x) => Complete(x)'

\* The report's own state.
report == <<script, began, pc, todo, dirs, ko, out>>

LEMMA KleeKeepsWorld ==
  ASSUME World, NEW x \in Keys, KleeAt(x)
  PROVE  World' /\ Grown /\ UNCHANGED <<goal, report>>
<1>1. PICK r \in RunRecords : Writes(x, r) /\ Fills(x, r)
  BY KleeFills
<1>2. run' = [run EXCEPT ![x] = r] /\ UNCHANGED <<goal, report>> /\ Keys' = Keys
  BY <1>1 DEF Writes, report, Keys, Roles
<1>3. /\ run \in [Keys -> RunRecords] /\ run'[x] = r
      /\ \A y \in Keys : y # x => run'[y] = run[y]
  BY <1>2 DEF World
<1>4. ASSUME NEW y \in Keys
      PROVE  /\ RunOf(y)'
             /\ run[y].work = goal[y].work => run'[y].work = goal[y].work
             /\ run[y].st # "absent" => run'[y].st # "absent"
             /\ Complete(y) => Complete(y)'
  <2>1. CASE y = x
    BY <1>1, <1>2, <1>3, <2>1 DEF Fills, RunOf, Complete
  <2>2. CASE y # x
    BY <1>2, <1>3, <2>2 DEF World, RunOf, Complete
  <2> QED
    BY <2>1, <2>2
<1>5. Grown
  BY <1>4 DEF Grown
<1>6. World'
  <2>1. run' \in [Keys -> RunRecords]
    BY <1>2, <1>3
  <2>2. /\ script' \in Scripts /\ goal' \in [Keys -> Goals[script]] /\ script' = script
        /\ began' = began
    BY <1>2 DEF World, report
  <2>3. \A y \in began : y \in Keys /\ Complete(y)'
    BY <1>4 DEF World
  <2> QED
    BY <1>2, <1>4, <2>1, <2>2, <2>3 DEF World
<1> QED
  BY <1>2, <1>5, <1>6

-----------------------------------------------------------------------------
(* Where the report is. *)

LEMMA RolesFacts ==
  /\ Len(Roles(script)) \in {1, 2} /\ DOMAIN Roles(script) = 1 .. Len(Roles(script))
  /\ script # "stats" => Len(Roles(script)) = 2
  /\ script = "stats" => Len(Roles(script)) = 1
<1>1. script = "stats" => Roles(script) = <<"out-fmm">>
  BY DEF Roles
<1>2. script # "stats" => Roles(script) = <<"out-klee", "out-cache">>
  BY DEF Roles
<1>3. Len(<<"out-fmm">>) = 1 /\ DOMAIN <<"out-fmm">> = 1 .. 1
  OBVIOUS
<1>4. Len(<<"out-klee", "out-cache">>) = 2 /\ DOMAIN <<"out-klee", "out-cache">> = 1 .. 2
  OBVIOUS
<1> HIDE DEF Roles
<1> QED
  BY <1>1, <1>2, <1>3, <1>4

LEMMA AfterFacts ==
  /\ Order[1] = "info"
  /\ After(Position("info")) = "messages" /\ After(Position("messages")) = "stats"
  /\ After(Position("stats")) = IF Len(ko) < Len(Roles(script)) THEN "make" ELSE "print"
<1>1. /\ DOMAIN Order = 1 .. 3 /\ Len(Order) = 3
      /\ Order[1] = "info" /\ Order[2] = "messages" /\ Order[3] = "stats"
  BY DEF Order
<1>2. ASSUME NEW file, NEW n \in 1 .. 3, Order[n] = file PROVE Position(file) = n
  <2>1. \A k \in 1 .. 3 : Order[k] = file => k = n
    BY <1>1, <1>2
  <2> QED
    BY <1>1, <1>2, <2>1 DEF Position
<1>3. Position("info") = 1 /\ Position("messages") = 2 /\ Position("stats") = 3
  BY <1>1, <1>2
<1> QED
  BY <1>1, <1>3 DEF After

\* The directory at hand is one that the report is about.
LEMMA DirFacts ==
  ASSUME Control, pc \in Reading, NEW i \in 1 .. Len(Roles(script))
  PROVE  Dir(i) \in Keys /\ Head(dirs) \in Names /\ Dir(i)[1] = Head(dirs)
<1>1. Head(dirs) \in Names
  BY DEF Control
<1>2. i \in DOMAIN Roles(script)
  BY RolesFacts
<1> QED
  BY <1>1, <1>2 DEF Dir, Keys, Names

LEMMA CurrentDir ==
  ASSUME Control, pc \in {"info", "messages", "stats"}
  PROVE  /\ Len(ko) \in 1 .. Len(Roles(script)) /\ Len(ko) \in DOMAIN ko
         /\ ko[Len(ko)] \in Kleeouts
         /\ Current = Dir(Len(ko)) /\ Current \in Keys
<1>1. Len(ko) \in 1 .. Len(Roles(script)) /\ Len(ko) \in DOMAIN ko /\ ko[Len(ko)] \in Kleeouts
  BY RolesFacts DEF Control
<1> QED
  BY <1>1, DirFacts DEF Current, Dir, Reading

\* What is typed of what the report reads at directory x.
LEMMA ReadTyped ==
  ASSUME World, NEW x \in Keys
  PROVE  /\ run[x] \in RunRecords /\ run[x].work \in Nat
         /\ run[x].info \in 0 .. Len(goal[x].info)
         /\ run[x].messages \in 0 .. Len(goal[x].messages)
         /\ parse_info(Info(x)) \in Infos
         /\ get_cache_size(Messages(x)) \in Figures
         /\ parse_query_stats(Messages(x)) \in Counts
<1>1. /\ goal[x].info \in Seq(Lines) /\ goal[x].messages \in Seq(Lines)
      /\ Len(goal[x].info) \in Nat /\ Len(goal[x].messages) \in Nat
  BY GoalFacts
<1>2. run[x] \in RunRecords /\ RunOf(x)
  BY DEF World
<1>3. /\ run[x].work \in Nat /\ run[x].info \in 0 .. Len(goal[x].info)
      /\ run[x].messages \in 0 .. Len(goal[x].messages)
  BY <1>1, <1>2 DEF RunRecords, RunOf
<1> QED
  BY <1>1, <1>2, <1>3, InfoInPrefix, StatsInPrefix DEF Info, Messages

LEMMA KleeoutParts ==
  ASSUME NEW k \in Kleeouts, NEW i \in Infos, NEW c \in Figures, NEW s \in Counts \cup {None},
         NEW w \in Figures
  PROVE  /\ [k EXCEPT !.info = i] \in Kleeouts
         /\ [k EXCEPT !.info = i].info = i
         /\ [k EXCEPT !.cache_size = c, !.stats = s] \in Kleeouts
         /\ [k EXCEPT !.cache_size = c, !.stats = s].info = k.info
         /\ [k EXCEPT !.cache_size = c, !.stats = s].cache_size = c
         /\ [k EXCEPT !.cache_size = c, !.stats = s].stats = s
         /\ [k EXCEPT !.work = w] \in Kleeouts
         /\ [k EXCEPT !.work = w].info = k.info
         /\ [k EXCEPT !.work = w].cache_size = k.cache_size
         /\ [k EXCEPT !.work = w].stats = k.stats
         /\ [k EXCEPT !.work = w].work = w
BY DEF Kleeouts

(* A step of the report that does not crash, as a change of its last        *)
(* KLEEOut.                                                                 *)
Extends(k, label) ==
  /\ ko' = Append(ko, k) /\ pc' = label /\ dirs' = dirs /\ todo' = todo /\ out' = out

Amends(k, label) ==
  /\ ko' = [ko EXCEPT ![Len(ko)] = k] /\ pc' = label
  /\ dirs' = dirs /\ todo' = todo /\ out' = out

Crashes == pc' = "crashed" /\ ko' = ko /\ dirs' = dirs /\ todo' = todo /\ out' = out

LEMMA MakeKleeOutEffect ==
  ASSUME Control, MakeKleeOut
  PROVE  /\ UNCHANGED <<klee, script, began>>
         /\ \/ Crashes /\ run[Dir(Len(ko) + 1)].st = "absent"
            \/ Extends(Blank, "info")
BY AfterFacts DEF MakeKleeOut, Go, Extends, Crashes, Dir

LEMMA ReadInfoEffect ==
  ASSUME World, Control, ReadInfo
  PROVE  /\ UNCHANGED <<klee, script, began>>
         /\ \/ Crashes /\ ~ HasFiles(Current)
            \/ Amends([ko[Len(ko)] EXCEPT !.info = parse_info(Info(Current))], "messages")
<1>1. pc = "info" /\ ko \in Seq(Kleeouts) /\ Len(ko) \in DOMAIN ko
  BY CurrentDir DEF ReadInfo, Control
<1>2. CASE ~ HasFiles(Current)
  BY <1>2 DEF ReadInfo, Go, Crashes
<1>3. CASE HasFiles(Current)
  <2>1. /\ ko' = [ko EXCEPT ![Len(ko)] = [ko[Len(ko)] EXCEPT !.info = parse_info(Info(Current))]]
        /\ Go(After(Position("info")))
    BY <1>1, <1>3 DEF ReadInfo
  <2> QED
    BY <2>1, AfterFacts DEF Go, Amends
<1> QED
  BY <1>2, <1>3 DEF ReadInfo, Go

LEMMA ReadMessagesEffect ==
  ASSUME World, Control, ReadMessages
  PROVE  /\ UNCHANGED <<klee, script, began>>
         /\ Amends([ko[Len(ko)] EXCEPT
                      !.cache_size = get_cache_size(Messages(Current)),
                      !.stats = IF script = "stats"
                                THEN parse_query_stats(Messages(Current)) ELSE None], "stats")
<1>1. pc = "messages" /\ ko \in Seq(Kleeouts) /\ Len(ko) \in DOMAIN ko
  BY CurrentDir DEF ReadMessages, Control
<1> DEFINE c == get_cache_size(Messages(Current))
           s == IF script = "stats" THEN parse_query_stats(Messages(Current)) ELSE None
<1>2. /\ ko' = [ko EXCEPT ![Len(ko)].cache_size = c, ![Len(ko)].stats = s]
      /\ Go(After(Position("messages")))
  BY DEF ReadMessages
<1> HIDE DEF c, s
<1>3. ko' = [ko EXCEPT ![Len(ko)] = [ko[Len(ko)] EXCEPT !.cache_size = c, !.stats = s]]
  BY <1>1, <1>2
<1> QED
  BY <1>2, <1>3, AfterFacts DEF Go, Amends, c, s

LEMMA ParseStatsEffect ==
  ASSUME World, Control, parse_stats
  PROVE  /\ UNCHANGED <<klee, script, began>>
         /\ \/ Crashes /\ run[Current].work = 0
            \/ Amends([ko[Len(ko)] EXCEPT !.work = run[Current].work],
                      IF Len(ko) < Len(Roles(script)) THEN "make" ELSE "print")
<1>1. pc = "stats" /\ ko \in Seq(Kleeouts) /\ Len(ko) \in DOMAIN ko
  BY CurrentDir DEF parse_stats, Control
<1>2. CASE run[Current].work = 0
  BY <1>2 DEF parse_stats, Go, Crashes
<1>3. CASE run[Current].work # 0
  <2>1. /\ ko' = [ko EXCEPT ![Len(ko)] = [ko[Len(ko)] EXCEPT !.work = run[Current].work]]
        /\ Go(After(Position("stats")))
    BY <1>1, <1>3 DEF parse_stats
  <2> QED
    BY <2>1, AfterFacts DEF Go, Amends
<1> QED
  BY <1>2, <1>3 DEF parse_stats, Go

LEMMA AmendsControl ==
  ASSUME Control, pc \in {"info", "messages", "stats"}, script' = script,
         NEW k \in Kleeouts,
         NEW label \in {"messages", "stats", "make", "print"}, Amends(k, label),
         label = "make" => Len(ko) < Len(Roles(script)),
         label = "print" => ~ (Len(ko) < Len(Roles(script)))
  PROVE  Control'
<1>1. /\ Len(ko) \in 1 .. Len(Roles(script)) /\ Len(ko) \in DOMAIN ko /\ dirs # <<>>
      /\ ko \in Seq(Kleeouts)
  BY CurrentDir DEF Control, Reading
<1>2. ko' \in Seq(Kleeouts) /\ Len(ko') = Len(ko)
  BY <1>1 DEF Amends
<1>3. Roles(script)' = Roles(script)
  BY DEF Roles
<1> QED
  BY <1>1, <1>2, <1>3 DEF Amends, Control, Reading, Steps

\* Between two programs no KLEEOut is at hand.
LEMMA BetweenControl ==
  ASSUME Control, script' = script, todo' \in Seq(Names), dirs' \in Seq(Names), ko' = <<>>,
         pc' \in {"look", "make", "end", "crashed"},
         pc' = "make" => dirs' # <<>>, pc' = "look" => todo' # <<>>
  PROVE  Control'
<1>1. Len(ko') = 0 /\ ko' \in Seq(Kleeouts)
  OBVIOUS
<1>2. Len(Roles(script))' > 0
  <2>1. Roles(script)' = Roles(script)
    BY DEF Roles
  <2> QED
    BY <2>1, RolesFacts
<1>3. /\ pc' \in Steps
      /\ Len(ko') <= Len(Roles(script))' /\ Len(ko') < Len(Roles(script))'
  <2>1. pc' \in Steps
    BY DEF Reading, Steps
  <2>2. Len(Roles(script))' \in Nat
    BY RolesFacts DEF Roles
  <2> QED
    BY <1>1, <1>2, <2>1, <2>2
<1>4. /\ pc' \notin {"idle", "info", "messages", "stats", "print"}
      /\ pc' \in Reading => pc' = "make"
  BY DEF Reading
<1> QED
  BY <1>1, <1>3, <1>4 DEF Control

LEMMA ReportKeepsControl ==
  ASSUME World, Control, Start \/ Read
  PROVE  Control'
<1>1. /\ script' = script /\ Roles(script)' = Roles(script) /\ ko \in Seq(Kleeouts)
      /\ todo \in Seq(Names) /\ dirs \in Seq(Names) /\ Len(Roles(script)) \in {1, 2}
      /\ Len(ko) \in Nat
  BY RolesFacts DEF Start, Read, get_dirs, dump, MakeKleeOut, ReadInfo, ReadMessages,
     parse_stats, PrintProgram, FailToPrint, Go, Control, klee, Roles
<1>2. CASE Start
  <2>1. /\ pc = "idle" /\ pc' = "look" /\ UNCHANGED <<todo, dirs, ko>>
        /\ todo = Programs /\ ko = <<>>
    BY <1>2 DEF Start, Control
  <2>2. todo' # <<>>
    BY <2>1, ProgramsAssumption
  <2> QED
    BY <1>1, <2>1, <2>2, BetweenControl
<1>3. CASE get_dirs
  <2>1. /\ pc = "look" /\ todo # <<>> /\ ko = <<>> /\ ko' = <<>> /\ todo' = Tail(todo)
        /\ dirs' = Append(dirs, Head(todo)) \/ dirs' = dirs
        /\ \/ pc' = "look" /\ Tail(todo) # <<>>
           \/ pc' = "make" /\ dirs' # <<>>
           \/ pc' = "end"
    BY <1>3 DEF get_dirs, Control
  <2>2. Head(todo) \in Names /\ Tail(todo) \in Seq(Names)
    BY <1>1, <2>1
  <2>3. dirs' \in Seq(Names)
    <3>1. Append(dirs, Head(todo)) \in Seq(Names)
      BY ONLY <1>1, <2>2, AppendProperties
    <3> QED
      BY <1>1, <2>1, <3>1
  <2> QED
    BY <1>1, <2>1, <2>2, <2>3, BetweenControl
<1>4. CASE dump
  <2>1. pc = "look" /\ todo # <<>> /\ ko = <<>> /\ ko' = <<>> /\ Len(ko') = 0
    BY <1>4 DEF dump, Control
  <2>2. CASE Exist(Head(todo))
    <3>1. dirs' = <<Head(todo)>> /\ todo' = Tail(todo) /\ pc' = "make"
      BY <1>4, <2>2 DEF dump
    <3>2. todo' \in Seq(Names) /\ dirs' \in Seq(Names) /\ dirs' # <<>>
      BY <1>1, <2>1, <3>1
    <3> QED
      BY <1>1, <2>1, <3>1, <3>2, BetweenControl
  <2>3. CASE ~ Exist(Head(todo))
    BY <1>1, <1>4, <2>1, <2>3, BetweenControl DEF dump
  <2> QED
    BY <2>2, <2>3
<1>5. CASE Crashes
  BY <1>1, <1>5 DEF Crashes, Control, Reading, Steps
<1>6. CASE MakeKleeOut /\ Extends(Blank, "info")
  <2>1. /\ pc = "make" /\ Len(ko) < Len(Roles(script)) /\ dirs # <<>>
    BY <1>6 DEF MakeKleeOut, Control, Reading
  <2>2. Blank \in Kleeouts
    BY DEF Blank, Kleeouts, Figures
  <2>3. ko' \in Seq(Kleeouts) /\ Len(ko') = Len(ko) + 1
    BY <1>1, <1>6, <2>2 DEF Extends
  <2> QED
    BY <1>1, <1>6, <2>1, <2>3 DEF Extends, Control, Reading, Steps
<1>7. CASE ReadInfo /\ ~ Crashes
  <2>1. pc = "info"
    BY <1>7 DEF ReadInfo
  <2>2. /\ ko[Len(ko)] \in Kleeouts /\ parse_info(Info(Current)) \in Infos
    BY <2>1, CurrentDir, ReadTyped
  <2> DEFINE k == [ko[Len(ko)] EXCEPT !.info = parse_info(Info(Current))]
  <2>3. k \in Kleeouts
    BY <2>2, KleeoutParts DEF Figures
  <2>4. Amends(k, "messages")
    BY <1>7, ReadInfoEffect
  <2> HIDE DEF k
  <2> QED
    BY <1>1, <2>1, <2>3, <2>4, AmendsControl
<1>8. CASE ReadMessages
  <2> DEFINE c == get_cache_size(Messages(Current))
             s == IF script = "stats" THEN parse_query_stats(Messages(Current)) ELSE None
             k == [ko[Len(ko)] EXCEPT !.cache_size = c, !.stats = s]
  <2>1. pc = "messages"
    BY <1>8 DEF ReadMessages
  <2>2. /\ ko[Len(ko)] \in Kleeouts /\ c \in Figures /\ s \in Counts \cup {None}
        /\ parse_info(Info(Current)) \in Infos
    BY <2>1, CurrentDir, ReadTyped
  <2>3. Amends(k, "stats")
    BY <1>8, ReadMessagesEffect
  <2> HIDE DEF c, s
  <2>4. k \in Kleeouts
    BY <2>2, KleeoutParts
  <2> HIDE DEF k
  <2> QED
    BY <1>1, <2>1, <2>3, <2>4, AmendsControl
<1>9. CASE parse_stats /\ ~ Crashes
  <2> DEFINE k == [ko[Len(ko)] EXCEPT !.work = run[Current].work]
             label == IF Len(ko) < Len(Roles(script)) THEN "make" ELSE "print"
  <2>1. pc = "stats"
    BY <1>9 DEF parse_stats
  <2>2. ko[Len(ko)] \in Kleeouts /\ run[Current].work \in Figures
    BY <2>1, CurrentDir, ReadTyped DEF Figures
  <2>3. Amends(k, label)
    BY <1>9, ParseStatsEffect
  <2>4. k \in Kleeouts
    BY <2>2 DEF Kleeouts
  <2>5. /\ label \in {"make", "print"}
        /\ label = "make" => Len(ko) < Len(Roles(script))
        /\ label = "print" => ~ (Len(ko) < Len(Roles(script)))
    OBVIOUS
  <2> HIDE DEF k, label
  <2> QED
    BY <1>1, <2>1, <2>3, <2>4, <2>5, AmendsControl
<1>10. CASE PrintProgram
  <2>1. /\ pc = "print" /\ dirs # <<>> /\ dirs' = Tail(dirs) /\ ko' = <<>> /\ Len(ko') = 0
        /\ todo' = todo
        /\ \/ pc' = "make" /\ Tail(dirs) # <<>>
           \/ pc' = "look" /\ todo # <<>>
           \/ pc' = "end"
    BY <1>10 DEF PrintProgram, Control, Reading
  <2>2. dirs' \in Seq(Names)
    BY <1>1, <2>1
  <2> QED
    BY <1>1, <2>1, <2>2, BetweenControl
<1>11. CASE FailToPrint
  <2>1. Crashes
    BY <1>11 DEF FailToPrint, Go, Crashes
  <2> QED
    BY <1>5, <2>1
<1>12. MakeKleeOut => Crashes \/ Extends(Blank, "info")
  BY MakeKleeOutEffect
<1> QED
  BY <1>2, <1>3, <1>4, <1>5, <1>6, <1>7, <1>8, <1>9, <1>10, <1>11, <1>12 DEF Read

-----------------------------------------------------------------------------
(* What has been read stays true. *)

LEMMA ReportKeepsWorld ==
  ASSUME World, Start \/ Read
  PROVE  World' /\ Grown /\ UNCHANGED klee
<1>1. script' = script /\ UNCHANGED klee
  BY DEF Start, Read, get_dirs, dump, MakeKleeOut, ReadInfo, ReadMessages, parse_stats,
     PrintProgram, FailToPrint, Go
<1>2. goal' = goal /\ run' = run /\ Keys' = Keys
  BY <1>1 DEF klee, Keys, Roles
<1>3. ASSUME NEW x PROVE /\ Complete(x)' <=> Complete(x)
                         /\ RunOf(x)' <=> RunOf(x)
  BY <1>2 DEF Complete, RunOf
<1>4. Grown
  BY <1>2, <1>3 DEF Grown
<1>5. \A x \in began' : x \in Keys /\ Complete(x)
  <2>1. CASE Start
    BY <2>1, GoalFacts DEF Start
  <2>2. CASE Read
    <3>1. began' = began
      BY <2>2 DEF Read, get_dirs, dump, MakeKleeOut, ReadInfo, ReadMessages, parse_stats,
         PrintProgram, FailToPrint, Go
    <3> QED
      BY <3>1 DEF World
  <2> QED
    BY <2>1, <2>2
<1>6. /\ script' \in Scripts /\ goal' \in [Keys' -> Goals[script']]
      /\ run' \in [Keys' -> RunRecords]
      /\ \A x \in Keys' : RunOf(x)'
  BY <1>1, <1>2, <1>3 DEF World
<1> QED
  BY <1>1, <1>2, <1>3, <1>4, <1>5, <1>6 DEF World

LEMMA ReadStays ==
  ASSUME World, Control, ReadSoFar, Grown, UNCHANGED <<goal, report>>
  PROVE  Control' /\ ReadSoFar'
<1>1. /\ script' = script /\ began' = began /\ pc' = pc /\ todo' = todo /\ dirs' = dirs
      /\ ko' = ko /\ out' = out /\ goal' = goal
  BY DEF report
<1>2. Roles(script)' = Roles(script)
  BY <1>1 DEF Roles
<1>3. Control'
  BY <1>1, <1>2 DEF Control
<1>4. ASSUME pc \in Reading, NEW i \in DOMAIN ko
      PROVE  KleeoutOf(i)'
  <2>1. i \in 1 .. Len(Roles(script))
    BY <1>4, RolesFacts DEF Control
  <2>2. Dir(i) \in Keys /\ Dir(i)' = Dir(i)
    BY <1>1, <1>2, <1>4, <2>1, DirFacts DEF Dir
  <2>3. KleeoutOf(i)
    BY <1>4 DEF ReadSoFar
  <2>4. \A labels : HasRead(i, labels)' <=> HasRead(i, labels)
    BY <1>1 DEF HasRead
  <2>5. run[Dir(i)].work = goal[Dir(i)].work => run'[Dir(i)].work = goal[Dir(i)].work
    BY <2>2 DEF Grown
  <2>6. InfoOf(ko[i], Dir(i)) => InfoOf(ko[i], Dir(i))'
    BY <1>1, <2>2, <2>5 DEF InfoOf, Late
  <2>7. MessagesOf(ko[i], Dir(i)) => MessagesOf(ko[i], Dir(i))'
    BY <1>1, <2>2 DEF MessagesOf, Late
  <2>8. WorkOf(ko[i], Dir(i)) => WorkOf(ko[i], Dir(i))'
    BY <1>1, <2>2 DEF WorkOf
  <2> QED
    BY <1>1, <2>3, <2>6, <2>7, <2>8 DEF KleeoutOf, HasRead
<1> QED
  BY <1>1, <1>3, <1>4 DEF ReadSoFar

\* The KLEEOuts before the last one are not touched.
LEMMA EarlierStay ==
  ASSUME Control, pc \in Reading, ReadSoFar, UNCHANGED <<klee, script, began, dirs>>,
         NEW i \in DOMAIN ko, ko'[i] = ko[i], HasRead(i, {"make"})
  PROVE  InfoOf(ko[i], Dir(i))' /\ MessagesOf(ko[i], Dir(i))' /\ WorkOf(ko[i], Dir(i))'
<1>1. KleeoutOf(i)
  BY DEF ReadSoFar
<1>2. InfoOf(ko[i], Dir(i)) /\ MessagesOf(ko[i], Dir(i)) /\ WorkOf(ko[i], Dir(i))
  BY <1>1 DEF KleeoutOf, HasRead
<1>3. /\ goal' = goal /\ run' = run /\ script' = script /\ began' = began
      /\ Dir(i)' = Dir(i)
  BY DEF klee, Dir, Roles
<1>4. InfoOf(ko[i], Dir(i))'
  BY <1>2, <1>3 DEF InfoOf, Late
<1>5. MessagesOf(ko[i], Dir(i))'
  BY <1>2, <1>3 DEF MessagesOf, Late
<1>6. WorkOf(ko[i], Dir(i))'
  BY <1>2, <1>3 DEF WorkOf
<1> QED
  BY <1>4, <1>5, <1>6

LEMMA ExtendsKeeps ==
  ASSUME Control, ReadSoFar, pc = "make", UNCHANGED <<klee, script, began>>,
         Extends(Blank, "info")
  PROVE  ReadSoFar'
<1>1. /\ ko \in Seq(Kleeouts) /\ ko' = Append(ko, Blank) /\ pc' = "info" /\ dirs' = dirs
      /\ pc \in Reading
  BY DEF Extends, Control, Reading
<1>2. /\ Len(ko) \in Nat /\ Len(ko') = Len(ko) + 1 /\ DOMAIN ko' = 1 .. Len(ko) + 1
      /\ DOMAIN ko = 1 .. Len(ko)
      /\ \A i \in 1 .. Len(ko) : ko'[i] = ko[i]
  BY <1>1
<1>3. ASSUME NEW i \in DOMAIN ko' PROVE KleeoutOf(i)'
  <2>1. CASE i \in DOMAIN ko
    BY <1>1, <1>2, <2>1, EarlierStay DEF KleeoutOf, HasRead, InfoOf, MessagesOf, WorkOf, Dir, Late
  <2>2. CASE i = Len(ko) + 1
    BY <1>1, <1>2, <2>2 DEF KleeoutOf, HasRead
  <2> QED
    BY <1>2, <2>1, <2>2
<1> QED
  BY <1>3 DEF ReadSoFar

LEMMA AmendsKeeps ==
  ASSUME Control, ReadSoFar, UNCHANGED <<klee, script, began>>,
         pc \in {"info", "messages", "stats"}, NEW k, NEW label, Amends(k, label),
         label \in {"messages", "stats", "print", "make"},
         InfoOf(ko'[Len(ko)], Current),
         label \in {"stats", "print", "make"} => MessagesOf(ko'[Len(ko)], Current),
         label \in {"print", "make"} => WorkOf(ko'[Len(ko)], Current)
  PROVE  ReadSoFar'
<1> DEFINE n == Len(ko)
<1>1. /\ ko \in Seq(Kleeouts) /\ ko' = [ko EXCEPT ![n] = k] /\ pc' = label /\ dirs' = dirs
      /\ pc \in Reading /\ n \in DOMAIN ko
  BY CurrentDir DEF Amends, Control, Reading
<1>2. /\ n \in Nat /\ n' = n /\ DOMAIN ko' = 1 .. n /\ DOMAIN ko = 1 .. n
      /\ \A i \in 1 .. n : i # n => ko'[i] = ko[i]
  BY <1>1
<1>3. /\ goal' = goal /\ run' = run /\ script' = script /\ began' = began
      /\ Dir(n)' = Dir(n) /\ Dir(n) = Current
  BY <1>1, <1>2, CurrentDir DEF klee, Dir, Roles
<1>4. \A labels : HasRead(n, labels)' => label \in labels
  <2>1. n' = Len(ko') /\ n' \in Nat /\ pc' = label
    BY <1>1, <1>2
  <2> QED
    BY ONLY <2>1 DEF HasRead
<1>5. KleeoutOf(n)'
  <2>1. InfoOf(ko[n], Dir(n))'
    BY <1>2, <1>3 DEF InfoOf, Late
  <2>2. label \in {"stats", "print", "make"} => MessagesOf(ko[n], Dir(n))'
    BY <1>2, <1>3 DEF MessagesOf, Late
  <2>3. label \in {"print", "make"} => WorkOf(ko[n], Dir(n))'
    BY <1>2, <1>3 DEF WorkOf
  <2> HIDE DEF n
  <2> QED
    BY <1>4, <2>1, <2>2, <2>3 DEF KleeoutOf
<1>6. ASSUME NEW i \in 1 .. n, i # n PROVE KleeoutOf(i)'
  <2>1. i \in DOMAIN ko /\ ko'[i] = ko[i] /\ i < n
    <3>1. n \in Nat /\ i \in DOMAIN ko /\ ko'[i] = ko[i]
      BY <1>2, <1>6
    <3> HIDE DEF n
    <3> QED
      BY ONLY <1>6, <3>1
  <2>2. HasRead(i, {"make"})
    BY <2>1 DEF HasRead
  <2>3. InfoOf(ko[i], Dir(i))' /\ MessagesOf(ko[i], Dir(i))' /\ WorkOf(ko[i], Dir(i))'
    BY <1>1, <2>1, <2>2, EarlierStay
  <2> QED
    BY <2>3 DEF KleeoutOf
<1>7. \A i \in DOMAIN ko' : KleeoutOf(i)'
  BY <1>2, <1>5, <1>6
<1> QED
  BY <1>7 DEF ReadSoFar

LEMMA ReadInfoKeeps ==
  ASSUME World, Control, ReadSoFar, ReadInfo, ~ Crashes
  PROVE  ReadSoFar'
<1> DEFINE x == Current
           k == [ko[Len(ko)] EXCEPT !.info = parse_info(Info(x))]
           q == goal[x].info
<1>1. /\ pc = "info" /\ ko \in Seq(Kleeouts) /\ Len(ko) \in DOMAIN ko /\ x \in Keys
      /\ ko[Len(ko)] \in Kleeouts
  BY CurrentDir DEF ReadInfo, Control
<1>2. UNCHANGED <<klee, script, began>> /\ Amends(k, "messages")
  BY ReadInfoEffect
<1>3. /\ run[x].info \in 0 .. Len(q) /\ q \in Seq(Lines)
      /\ Info(x) = SubSeq(q, 1, run[x].info) /\ RunOf(x)
  BY <1>1, ReadTyped, GoalFacts DEF Info, World
<1> DEFINE r == parse_info(Info(x))
           f == parse_info(q)
<1>4. /\ r \in Infos
      /\ r.paths \in {f.paths, None} /\ r.queries \in {f.queries, None}
      /\ r.elapsed \in {f.elapsed, None}
      /\ r.paths # None => run[x].info > 0
      /\ run[x].info = Len(q) => r = f
  BY <1>3, InfoInPrefix
<1>5. x \in began => run[x].info = Len(q)
  BY DEF World, Complete
<1>6. ko'[Len(ko)] = k /\ k.info = r
  BY <1>1, <1>2, <1>4 DEF Amends, Kleeouts
<1> HIDE DEF r, k
<1>7. InfoOf(ko'[Len(ko)], x)
  BY <1>3, <1>4, <1>5, <1>6 DEF InfoOf, Late, RunOf
<1> HIDE DEF x
<1> QED
  BY <1>1, <1>2, <1>7, AmendsKeeps DEF x

LEMMA ReadMessagesKeeps ==
  ASSUME World, Control, ReadSoFar, ReadMessages
  PROVE  ReadSoFar'
<1> DEFINE x == Current
           q == goal[x].messages
           c == get_cache_size(Messages(x))
           s == IF script = "stats" THEN parse_query_stats(Messages(x)) ELSE None
           k == [ko[Len(ko)] EXCEPT !.cache_size = c, !.stats = s]
           r == parse_query_stats(Messages(x))
           f == parse_query_stats(q)
<1>1. /\ pc = "messages" /\ ko \in Seq(Kleeouts) /\ Len(ko) \in DOMAIN ko /\ x \in Keys
      /\ ko[Len(ko)] \in Kleeouts /\ x = Dir(Len(ko)) /\ pc \in Reading
  BY CurrentDir DEF ReadMessages, Control, Reading
<1>2. UNCHANGED <<klee, script, began>> /\ Amends(k, "stats")
  BY ReadMessagesEffect
<1>3. /\ run[x].messages \in 0 .. Len(q) /\ q \in Seq(Lines)
      /\ Messages(x) = SubSeq(q, 1, run[x].messages) /\ goal[x] \in Goals[script]
  BY <1>1, ReadTyped, GoalFacts DEF Messages
<1>4. /\ r \in Counts
      /\ r.all \in {f.all, None} /\ r.relevant \in {f.relevant, None}
      /\ r.address_dependent \in {f.address_dependent, None}
      /\ r.unhandled \in {f.unhandled, None}
      /\ c \in {get_cache_size(q), None} \cap Figures
      /\ run[x].messages = Len(q) => r = f /\ c = get_cache_size(q)
  BY <1>3, StatsInPrefix
<1>5. x \in began => run[x].messages = Len(q)
  BY DEF World, Complete
<1>6. script = "stats" => (r.address_dependent # None => r.all # None /\ r.relevant # None)
  BY <1>3, CountsAssumption DEF World
<1>7. InfoOf(ko[Len(ko)], x)
  <2>1. KleeoutOf(Len(ko))
    BY <1>1 DEF ReadSoFar
  <2> HIDE DEF x
  <2> QED
    BY <1>1, <2>1 DEF KleeoutOf, HasRead
<1>8. /\ ko'[Len(ko)] = k /\ k.info = ko[Len(ko)].info /\ k.cache_size = c
      /\ script = "stats" => k.stats = r
  BY <1>1, <1>2, <1>4 DEF Amends, Kleeouts
<1> HIDE DEF r, k, c
<1>9. InfoOf(ko'[Len(ko)], x)
  BY <1>7, <1>8 DEF InfoOf
<1>10. MessagesOf(ko'[Len(ko)], x)
  BY <1>4, <1>5, <1>6, <1>8 DEF MessagesOf, Late
<1> HIDE DEF x
<1> QED
  BY <1>1, <1>2, <1>9, <1>10, AmendsKeeps DEF x

LEMMA ParseStatsKeeps ==
  ASSUME World, Control, ReadSoFar, parse_stats, ~ Crashes
  PROVE  ReadSoFar'
<1> DEFINE x == Current
           k == [ko[Len(ko)] EXCEPT !.work = run[x].work]
           label == IF Len(ko) < Len(Roles(script)) THEN "make" ELSE "print"
<1>1. /\ pc = "stats" /\ ko \in Seq(Kleeouts) /\ Len(ko) \in DOMAIN ko /\ x \in Keys
      /\ ko[Len(ko)] \in Kleeouts /\ x = Dir(Len(ko)) /\ pc \in Reading
  BY CurrentDir DEF parse_stats, Control, Reading
<1>2. UNCHANGED <<klee, script, began>> /\ Amends(k, label)
  BY ParseStatsEffect
<1>3. InfoOf(ko[Len(ko)], x) /\ MessagesOf(ko[Len(ko)], x)
  <2>1. KleeoutOf(Len(ko))
    BY <1>1 DEF ReadSoFar
  <2> HIDE DEF x
  <2> QED
    BY <1>1, <2>1 DEF KleeoutOf, HasRead
<1>4. /\ ko'[Len(ko)] = k /\ k.info = ko[Len(ko)].info /\ k.cache_size = ko[Len(ko)].cache_size
      /\ k.stats = ko[Len(ko)].stats /\ k.work = run[x].work
  BY <1>1, <1>2 DEF Amends, Kleeouts
<1>5. x \in began => run[x].work = goal[x].work
  BY DEF World, Complete
<1>6. label \in {"make", "print"}
  OBVIOUS
<1> HIDE DEF k, label
<1>7. InfoOf(ko'[Len(ko)], x) /\ MessagesOf(ko'[Len(ko)], x)
  BY <1>3, <1>4 DEF InfoOf, MessagesOf
<1>8. WorkOf(ko'[Len(ko)], x)
  BY <1>3, <1>4, <1>5 DEF WorkOf, InfoOf
<1> HIDE DEF x
<1> QED
  BY <1>1, <1>2, <1>6, <1>7, <1>8, AmendsKeeps DEF x

LEMMA ReportKeepsRead ==
  ASSUME World, Control, ReadSoFar, Start \/ Read
  PROVE  ReadSoFar'
<1>1. CASE ko' = <<>>
  <2>1. DOMAIN ko' = {}
    BY <1>1
  <2> QED
    BY <2>1 DEF ReadSoFar
<1>2. CASE Crashes
  BY <1>2 DEF Crashes, ReadSoFar, Reading
<1>3. CASE MakeKleeOut
  BY <1>2, <1>3, MakeKleeOutEffect, ExtendsKeeps DEF MakeKleeOut
<1>4. Start \/ get_dirs \/ dump \/ PrintProgram => ko' = <<>>
  BY DEF Start, get_dirs, dump, PrintProgram, Control
<1>5. FailToPrint => Crashes
  BY DEF FailToPrint, Go, Crashes
<1> QED
  BY <1>1, <1>2, <1>3, <1>4, <1>5, ReadInfoKeeps, ReadMessagesKeeps, ParseStatsKeeps DEF Read

-----------------------------------------------------------------------------
(* Every step keeps the invariant. *)

LEMMA NextParts ==
  ASSUME World, [Next]_vars
  PROVE  \/ Start \/ Read
         \/ Grown /\ World' /\ UNCHANGED <<goal, report>>
<1>1. CASE Next
  <2>1. \A x \in Runs : KleeAt(x) => Grown /\ World' /\ UNCHANGED <<goal, report>>
    BY GoalFacts, KleeKeepsWorld
  <2> QED
    BY <1>1, <2>1 DEF Next, KleeAt
<1>2. CASE UNCHANGED vars
  <2>1. UNCHANGED <<goal, report>> /\ run' = run /\ Keys' = Keys
    BY <1>2 DEF vars, klee, report, Keys, Roles
  <2>2. ASSUME NEW x PROVE (Complete(x)' <=> Complete(x)) /\ (RunOf(x)' <=> RunOf(x))
    BY <2>1 DEF Complete, RunOf
  <2>3. Grown
    BY <2>1, <2>2 DEF Grown
  <2>4. World'
    BY <2>1, <2>2 DEF World, report
  <2> QED
    BY <2>1, <2>3, <2>4
<1> QED
  BY <1>1, <1>2

LEMMA InitIInv ==
  Init => IInv
<1> SUFFICES ASSUME Init PROVE IInv
  OBVIOUS
<1>1. /\ script \in Scripts /\ goal \in [Keys -> Goals[script]] /\ began = {} /\ pc = "idle"
      /\ todo = Programs /\ dirs = <<>> /\ ko = <<>> /\ out = <<>>
      /\ run = [x \in Keys |-> NotRun]
  <2>1. Keys = {<<Programs[i], Roles(script)[j]>> : i \in DOMAIN Programs, j \in DOMAIN Roles(script)}
    BY DEF Keys
  <2>2. goal \in [Keys -> Goals[script]]
    BY <2>1 DEF Init
  <2> QED
    BY <2>2 DEF Init, Runs
<1>2. NotRun \in RunRecords /\ NotRun.work = 0 /\ NotRun.info = 0 /\ NotRun.messages = 0
  BY DEF NotRun, RunRecords
<1>3. \A x \in Keys : run[x] = NotRun
  BY <1>1
<1>4. \A x \in Keys : /\ goal[x].work \in Nat \ {0}
                      /\ goal[x].info \in Seq(Lines) /\ goal[x].messages \in Seq(Lines)
                      /\ Len(goal[x].info) \in Nat /\ Len(goal[x].messages) \in Nat
  BY <1>1, GoalsAssumption
<1>5. \A x \in Keys : RunOf(x)
  BY <1>2, <1>3, <1>4 DEF RunOf
<1>6. World
  BY <1>1, <1>2, <1>3, <1>5 DEF World
<1>7. /\ Programs \in Seq(Names) /\ <<>> \in Seq(Names) /\ <<>> \in Seq(Kleeouts)
      /\ Len(ko) = 0 /\ DOMAIN ko = {}
  BY <1>1, ProgramsAssumption DEF Names
<1>8. Control
  BY <1>1, <1>7, RolesFacts DEF Control, Reading, Steps
<1>9. ReadSoFar
  BY <1>7 DEF ReadSoFar
<1> QED
  BY <1>6, <1>8, <1>9 DEF IInv

LEMMA NextIInv ==
  IInv /\ [Next]_vars => IInv'
<1> SUFFICES ASSUME World, Control, ReadSoFar, [Next]_vars PROVE IInv'
  BY DEF IInv
<1>1. CASE Start \/ Read
  BY <1>1, ReportKeepsWorld, ReportKeepsControl, ReportKeepsRead DEF IInv
<1>2. CASE Grown /\ World' /\ UNCHANGED <<goal, report>>
  BY <1>2, ReadStays DEF IInv
<1> QED
  BY <1>1, <1>2, NextParts

(* Whenever KLEE and the report take turns: what a KLEEOut has read of its  *)
(* directory is final or was not there yet.                                *)
THEOREM Invariant == Spec => []IInv
BY InitIInv, NextIInv, PTL DEF Spec

-----------------------------------------------------------------------------
(* What is printed. *)

\* The KLEEOut number i next to what its run ends with.
LateOf(k, f, x) ==
  /\ Late(k.info.paths, f.info.paths, x) /\ Late(k.info.queries, f.info.queries, x)
  /\ Late(k.info.elapsed, f.info.elapsed, x) /\ Late(k.cache_size, f.cache_size, x)
  /\ k.info.paths # None \/ x \in began => k.work = f.work
  /\ script = "stats" =>
       /\ Late(k.stats.all, f.stats.all, x) /\ Late(k.stats.relevant, f.stats.relevant, x)
       /\ Late(k.stats.address_dependent, f.stats.address_dependent, x)
       /\ Late(k.stats.unhandled, f.stats.unhandled, x)
       /\ k.stats.address_dependent # None => k.stats.all # None /\ k.stats.relevant # None

LEMMA AtPrint ==
  ASSUME World, Control, ReadSoFar, pc = "print", NEW i \in 1 .. Len(Roles(script))
  PROVE  /\ Dir(i) \in Keys /\ Dir(i)[1] = Head(dirs) /\ Head(dirs) \in Names
         /\ Finals(Head(dirs))[i] = Seen(goal[Dir(i)])
         /\ LateOf(ko[i], Finals(Head(dirs))[i], Dir(i))
<1>1. pc \in Reading /\ ko \in Seq(Kleeouts) /\ Len(ko) = Len(Roles(script)) /\ i \in DOMAIN ko
  BY RolesFacts DEF Control, Reading
<1>2. Dir(i) \in Keys /\ Dir(i)[1] = Head(dirs) /\ Head(dirs) \in Names
  BY <1>1, DirFacts
<1>3. Finals(Head(dirs))[i] = Seen(goal[Dir(i)])
  BY RolesFacts DEF Finals, Dir
<1>4. KleeoutOf(i)
  BY <1>1 DEF ReadSoFar
<1>5. InfoOf(ko[i], Dir(i)) /\ MessagesOf(ko[i], Dir(i)) /\ WorkOf(ko[i], Dir(i))
  BY <1>4 DEF KleeoutOf, HasRead
<1> DEFINE k == ko[i]
           x == Dir(i)
           g == goal[Dir(i)]
<1>6. /\ Seen(g).info = parse_info(g.info) /\ Seen(g).cache_size = get_cache_size(g.messages)
      /\ Seen(g).stats = parse_query_stats(g.messages) /\ Seen(g).work = g.work
  BY DEF Seen
<1>7. LateOf(k, Seen(g), x)
  BY <1>5, <1>6 DEF LateOf, InfoOf, MessagesOf, WorkOf
<1> QED
  BY <1>2, <1>3, <1>7

LEMMA BothAtPrint ==
  ASSUME World, Control, ReadSoFar, pc = "print", script # "stats"
  PROVE  /\ Dir(1) \in Keys /\ Dir(1)[1] = Head(dirs)
         /\ Dir(2) \in Keys /\ Dir(2)[1] = Head(dirs)
         /\ LateOf(ko[1], Finals(Head(dirs))[1], Dir(1))
         /\ LateOf(ko[2], Finals(Head(dirs))[2], Dir(2))
<1>1. 1 \in 1 .. Len(Roles(script)) /\ 2 \in 1 .. Len(Roles(script))
  BY RolesFacts
<1> QED
  BY <1>1, AtPrint

(* check_overhead.py compares two runs only by their final numbers,         *)
(* however many of their files KLEE is still writing.                       *)
THEOREM OverheadLinesAreFinal == Spec => []OverheadLineFinal
<1>1. IInv => OverheadLineFinal
  <2> SUFFICES ASSUME World, Control, ReadSoFar, pc = "print", script = "overhead",
                      validate(ko[1], ko[2]), ko[1].info.paths # None
               PROVE  Agree(Head(dirs)) /\ Printed(Head(dirs)) = FinalLine(Head(dirs))
    BY DEF IInv, OverheadLineFinal
  <2> DEFINE p == Head(dirs)
             f1 == Finals(p)[1]
             f2 == Finals(p)[2]
  <2>1. LateOf(ko[1], f1, Dir(1)) /\ LateOf(ko[2], f2, Dir(2))
    BY BothAtPrint
  <2>2. /\ ko[1].work = ko[2].work /\ ko[1].info.paths = ko[2].info.paths
        /\ ko[2].info.paths # None
    BY DEF validate
  <2>3. /\ ko[1].work = f1.work /\ ko[1].info.paths = f1.info.paths
        /\ ko[2].work = f2.work /\ ko[2].info.paths = f2.info.paths
    BY <2>1, <2>2 DEF LateOf, Late
  <2>4. Agree(p)
    BY <2>2, <2>3 DEF Agree
  <2>5. Printed(p) = Line(p, "values", <<ko[1].work, ko[2].work>>)
    BY DEF Printed, compare
  <2>6. FinalLine(p) = Line(p, "values", <<f1.work, f2.work>>)
    BY <2>4 DEF FinalLine
  <2> QED
    BY <2>3, <2>4, <2>5, <2>6
<1> QED
  BY <1>1, Invariant, PTL

Numbered == {"time", "queries", "cache_size", "stats"}

NumbersOf(l) ==
  \A c \in DOMAIN l.shown :
    \/ l.shown[c] = FinalLine(l.prog).shown[c]
    \/ l.shown[c] = None /\ script # "stats"

LEMMA LineParts ==
  ASSUME NEW p, NEW text, NEW shown
  PROVE  /\ Line(p, text, shown).prog = p /\ Line(p, text, shown).text = text
         /\ Line(p, text, shown).shown = shown
BY DEF Line

\* A program is printed under its name, and never as a skipped one.
LEMMA PrintedNames ==
  ASSUME World, NEW p
  PROVE  Printed(p).prog = p /\ Printed(p).text # "skipping"
<1>1. script \in {"overhead", "time", "queries", "cache_size", "memory", "stats"}
  BY ScriptsAssumption DEF World
<1>2. CASE script = "overhead"
  BY <1>2 DEF Printed, compare, Line
<1>3. CASE script = "time"
  BY <1>3 DEF Printed, check_time, Line
<1>4. CASE script = "queries"
  BY <1>4 DEF Printed, check_queries, Line
<1>5. CASE script = "cache_size"
  BY <1>5 DEF Printed, check_cache_size, Line
<1>6. CASE script = "memory"
  BY <1>6 DEF Printed, check_memory_usage, Line
<1>7. CASE script = "stats"
  BY <1>7 DEF Printed, check_stats, Line
<1> QED
  BY <1>1, <1>2, <1>3, <1>4, <1>5, <1>6, <1>7

LEMMA PairOfNumbers ==
  ASSUME NEW l, NEW a, NEW b, NEW c, NEW d, script # "stats",
         l.shown = <<a, b>>, FinalLine(l.prog).shown = <<c, d>>,
         a \in {c, None}, b \in {d, None}
  PROVE  NumbersOf(l)
<1>1. ASSUME NEW i \in {1, 2} PROVE <<a, b>>[i] = <<c, d>>[i] \/ <<a, b>>[i] = None
  OBVIOUS
<1>2. DOMAIN l.shown = {1, 2}
  <2>1. DOMAIN <<a, b>> = {1, 2}
    OBVIOUS
  <2> QED
    BY <2>1
<1> QED
  BY <1>1, <1>2 DEF NumbersOf

LEMMA NumbersPrinted ==
  ASSUME World, Control, ReadSoFar, pc = "print", Subtracts, script \in Numbered
  PROVE  NumbersOf(Printed(Head(dirs)))
<1> DEFINE p == Head(dirs)
           k1 == ko[1]
           k2 == ko[2]
           f1 == Finals(p)[1]
           f2 == Finals(p)[2]
<1>1. script # "stats" => LateOf(k1, f1, Dir(1)) /\ LateOf(k2, f2, Dir(2))
  BY BothAtPrint
<1>2. CASE script = "time"
  <2>1. /\ Printed(p) = Line(p, "values", <<k1.info.elapsed, k2.info.elapsed>>)
        /\ FinalLine(p) = Line(p, "values", <<f1.info.elapsed, f2.info.elapsed>>)
    BY <1>2 DEF Printed, FinalLine, check_time
  <2> HIDE DEF k1, k2, f1, f2
  <2>2. k1.info.elapsed \in {f1.info.elapsed, None} /\ k2.info.elapsed \in {f2.info.elapsed, None}
    BY <1>1, <1>2 DEF LateOf, Late
  <2>3. /\ Printed(p).prog = p
        /\ Printed(p).shown = <<k1.info.elapsed, k2.info.elapsed>>
        /\ FinalLine(Printed(p).prog).shown = <<f1.info.elapsed, f2.info.elapsed>>
    <3>1. Printed(p).prog = p
      BY PrintedNames
    <3> QED
      BY <2>1, <3>1, LineParts
  <2> QED
    BY <1>2, <2>2, <2>3, PairOfNumbers
<1>3. CASE script = "queries"
  <2>1. /\ Printed(p) = Line(p, "values", <<k1.info.queries, k2.info.queries>>)
        /\ FinalLine(p) = Line(p, "values", <<f1.info.queries, f2.info.queries>>)
    BY <1>3 DEF Printed, FinalLine, check_queries
  <2> HIDE DEF k1, k2, f1, f2
  <2>2. k1.info.queries \in {f1.info.queries, None} /\ k2.info.queries \in {f2.info.queries, None}
    BY <1>1, <1>3 DEF LateOf, Late
  <2>3. /\ Printed(p).prog = p
        /\ Printed(p).shown = <<k1.info.queries, k2.info.queries>>
        /\ FinalLine(Printed(p).prog).shown = <<f1.info.queries, f2.info.queries>>
    <3>1. Printed(p).prog = p
      BY PrintedNames
    <3> QED
      BY <2>1, <3>1, LineParts
  <2> QED
    BY <1>3, <2>2, <2>3, PairOfNumbers
<1>4. CASE script = "cache_size"
  <2>1. /\ Printed(p) = Line(p, "values", <<k1.cache_size, k2.cache_size>>)
        /\ FinalLine(p) = Line(p, "values", <<f1.cache_size, f2.cache_size>>)
    BY <1>4 DEF Printed, FinalLine, check_cache_size
  <2> HIDE DEF k1, k2, f1, f2
  <2>2. k1.cache_size \in {f1.cache_size, None} /\ k2.cache_size \in {f2.cache_size, None}
    BY <1>1, <1>4 DEF LateOf, Late
  <2>3. /\ Printed(p).prog = p
        /\ Printed(p).shown = <<k1.cache_size, k2.cache_size>>
        /\ FinalLine(Printed(p).prog).shown = <<f1.cache_size, f2.cache_size>>
    <3>1. Printed(p).prog = p
      BY PrintedNames
    <3> QED
      BY <2>1, <3>1, LineParts
  <2> QED
    BY <1>4, <2>2, <2>3, PairOfNumbers
<1>5. CASE script = "stats"
  <2>1. 1 \in 1 .. Len(Roles(script))
    BY RolesFacts
  <2>2. LateOf(k1, f1, Dir(1)) /\ k1.stats.address_dependent # None /\ k1.stats.unhandled # None
    BY <1>5, <2>1, AtPrint DEF Subtracts
  <2>3. /\ k1.stats.all = f1.stats.all /\ k1.stats.relevant = f1.stats.relevant
        /\ k1.stats.address_dependent = f1.stats.address_dependent
        /\ k1.stats.unhandled = f1.stats.unhandled
    BY <1>5, <2>2 DEF LateOf, Late
  <2>4. Printed(p) = FinalLine(p)
    BY <1>5, <2>3 DEF Printed, FinalLine, check_stats
  <2>5. Printed(p).prog = p
    BY PrintedNames
  <2> QED
    BY <2>4, <2>5 DEF NumbersOf
<1> QED
  BY <1>2, <1>3, <1>4, <1>5 DEF Numbered

\* Of runs that were over when the report was started, the final line is printed.
LEMMA OverPrinted ==
  ASSUME World, Control, ReadSoFar, pc = "print", Of(Head(dirs)) \subseteq began
  PROVE  Printed(Head(dirs)) = FinalLine(Head(dirs))
<1> DEFINE p == Head(dirs)
           k1 == ko[1]
           k2 == ko[2]
           f1 == Finals(p)[1]
           f2 == Finals(p)[2]
<1>1. script \in {"overhead", "time", "queries", "cache_size", "memory", "stats"}
  BY ScriptsAssumption DEF World
<1>2. \A x \in Keys : x[1] = p => x \in began
  BY GoalFacts DEF Of
<1>3. CASE script = "stats"
  <2>1. 1 \in 1 .. Len(Roles(script))
    BY RolesFacts
  <2>2. LateOf(k1, f1, Dir(1)) /\ Dir(1) \in began
    BY <1>2, <2>1, AtPrint
  <2>3. /\ k1.stats.all = f1.stats.all /\ k1.stats.relevant = f1.stats.relevant
        /\ k1.stats.address_dependent = f1.stats.address_dependent
        /\ k1.stats.unhandled = f1.stats.unhandled
    BY <1>3, <2>2 DEF LateOf, Late
  <2> QED
    BY <1>3, <2>3 DEF Printed, FinalLine, check_stats
<1>4. CASE script # "stats"
  <2>1. /\ LateOf(k1, f1, Dir(1)) /\ Dir(1) \in began
        /\ LateOf(k2, f2, Dir(2)) /\ Dir(2) \in began
    BY <1>2, <1>4, BothAtPrint
  <2>2. /\ k1.info.paths = f1.info.paths /\ k2.info.paths = f2.info.paths
        /\ k1.info.queries = f1.info.queries /\ k2.info.queries = f2.info.queries
        /\ k1.info.elapsed = f1.info.elapsed /\ k2.info.elapsed = f2.info.elapsed
        /\ k1.cache_size = f1.cache_size /\ k2.cache_size = f2.cache_size
        /\ k1.work = f1.work /\ k2.work = f2.work
    BY <2>1 DEF LateOf, Late
  <2>3. CASE script = "overhead"
    <3>1. validate(k1, k2) <=> Agree(p)
      BY <2>2 DEF validate, Agree
    <3> QED
      BY <2>2, <2>3, <3>1 DEF Printed, FinalLine, compare
  <2>4. CASE script = "time"
    BY <2>2, <2>4 DEF Printed, FinalLine, check_time
  <2>5. CASE script = "queries"
    BY <2>2, <2>5 DEF Printed, FinalLine, check_queries
  <2>6. CASE script = "cache_size"
    BY <2>2, <2>6 DEF Printed, FinalLine, check_cache_size
  <2>7. CASE script = "memory"
    BY <2>2, <2>7 DEF Printed, FinalLine, check_memory_usage
  <2> QED
    BY <1>1, <1>4, <2>3, <2>4, <2>5, <2>6, <2>7
<1> QED
  BY <1>3, <1>4

-----------------------------------------------------------------------------
(* Every program is looked for, read or printed, one of the three.          *)

In(s) == {s[i] : i \in DOMAIN s}
Distinct(s) == \A i, k \in DOMAIN s : s[i] = s[k] => i = k
Done == {out[i].prog : i \in DOMAIN out}

LineOf(l) ==
  /\ l.prog \in Names
  /\ Of(l.prog) \subseteq began => l = FinalLine(l.prog) /\ l.text # "skipping"
  /\ script \in Numbered => NumbersOf(l)

Account ==
  /\ out \in Seq(In(out))
  /\ Distinct(todo) /\ Distinct(dirs)
  /\ \A i, k \in DOMAIN out : out[i].prog = out[k].prog => i = k
  /\ Names \subseteq In(todo) \cup In(dirs) \cup Done
  /\ In(todo) \cap In(dirs) = {}
  /\ Done \cap (In(todo) \cup In(dirs)) = {}

Endings ==
  /\ pc = "look" /\ script # "overhead" => dirs = <<>>
  /\ pc = "end" => todo = <<>> /\ dirs = <<>>
  /\ pc = "crashed" => \E x \in Keys : x \notin began

Printing == \A i \in DOMAIN out : LineOf(out[i])

Found == script = "overhead" => \A p \in In(dirs) : \A x \in Of(p) : run[x].st # "absent"

Output == Account /\ Endings /\ Printing /\ Found

LEMMA AppendIn ==
  ASSUME NEW s, s \in Seq(In(s)), NEW e
  PROVE  /\ Append(s, e) \in Seq(In(Append(s, e)))
         /\ In(Append(s, e)) = In(s) \cup {e}
         /\ Len(s) \in Nat /\ DOMAIN s = 1 .. Len(s) /\ DOMAIN Append(s, e) = 1 .. Len(s) + 1
         /\ Append(s, e)[Len(s) + 1] = e
         /\ \A i \in 1 .. Len(s) : Append(s, e)[i] = s[i]
         /\ Distinct(s) /\ e \notin In(s) => Distinct(Append(s, e))
<1> DEFINE a == Append(s, e)
           n == Len(s)
<1>1. /\ n \in Nat /\ DOMAIN s = 1 .. n /\ DOMAIN a = 1 .. n + 1 /\ Len(a) = n + 1
      /\ a[n + 1] = e /\ \A i \in 1 .. n : a[i] = s[i]
  OBVIOUS
<1>2. a \in Seq(In(s) \cup {e})
  <2>1. s \in Seq(In(s) \cup {e})
    OBVIOUS
  <2> QED
    BY <2>1
<1> HIDE DEF a, n
<1>3. In(a) = In(s) \cup {e}
  BY <1>1 DEF In
<1>4. ASSUME Distinct(s), e \notin In(s) PROVE Distinct(a)
  <2>1. \A i \in 1 .. n : a[i] # e
    BY <1>1, <1>4 DEF In
  <2>2. \A i, k \in 1 .. n : a[i] = a[k] => i = k
    BY <1>1, <1>4 DEF Distinct
  <2>3. \A i \in DOMAIN a : i \in 1 .. n \/ i = n + 1
    BY <1>1
  <2> QED
    BY <1>1, <2>1, <2>2, <2>3 DEF Distinct
<1> QED
  BY <1>1, <1>2, <1>3, <1>4 DEF a, n

LEMMA TailIn ==
  ASSUME NEW S, NEW s \in Seq(S), s # <<>>, Distinct(s)
  PROVE  /\ Head(s) \in In(s) /\ In(Tail(s)) = In(s) \ {Head(s)} /\ Distinct(Tail(s))
         /\ Tail(s) \in Seq(S)
<1> DEFINE t == Tail(s)
           n == Len(s) - 1
<1>1. /\ n \in Nat /\ DOMAIN s = 1 .. n + 1 /\ DOMAIN t = 1 .. n
      /\ Head(s) = s[1] /\ \A i \in 1 .. n : t[i] = s[i + 1]
      /\ t \in Seq(S)
  OBVIOUS
<1> HIDE DEF t, n
<1>2. Head(s) \in In(s)
  BY <1>1 DEF In
<1>3. \A i \in 1 .. n : i + 1 \in DOMAIN s /\ i + 1 # 1 /\ 1 \in DOMAIN s
  BY <1>1
<1>4. In(t) \subseteq In(s) \ {Head(s)}
  BY <1>1, <1>3 DEF In, Distinct
<1>5. In(s) \ {Head(s)} \subseteq In(t)
  <2> SUFFICES ASSUME NEW i \in DOMAIN s, s[i] # s[1] PROVE s[i] \in In(t)
    BY <1>1 DEF In
  <2>1. i - 1 \in 1 .. n /\ (i - 1) + 1 = i
    BY <1>1
  <2>2. t[i - 1] = s[i]
    BY <1>1, <2>1
  <2> QED
    BY <1>1, <2>1, <2>2 DEF In
<1>6. Distinct(t)
  <2> SUFFICES ASSUME NEW i \in 1 .. n, NEW k \in 1 .. n, t[i] = t[k] PROVE i = k
    BY <1>1 DEF Distinct
  <2>1. i + 1 = k + 1
    BY <1>1, <1>3 DEF Distinct
  <2> QED
    BY <2>1
<1> QED
  BY <1>1, <1>2, <1>4, <1>5, <1>6 DEF t

LEMMA FinalStays ==
  ASSUME goal' = goal, script' = script
  PROVE  \A p : FinalLine(p)' = FinalLine(p) /\ Of(p)' = Of(p)
<1>1. Roles(script)' = Roles(script) /\ Runs' = Runs
  BY DEF Roles, Runs
<1>2. \A p : Finals(p)' = Finals(p)
  BY <1>1 DEF Finals
<1>3. \A p : Agree(p)' <=> Agree(p)
  BY <1>2 DEF Agree
<1>4. \A p : FinalLine(p)' = FinalLine(p)
  BY <1>2, <1>3 DEF FinalLine, Line
<1> QED
  BY <1>1, <1>4 DEF Of

\* Lines that are there stay what they are, once the report has begun.
LEMMA LinesStay ==
  ASSUME goal' = goal, script' = script, began' = began, NEW l, LineOf(l)
  PROVE  LineOf(l)'
BY FinalStays DEF LineOf, NumbersOf, Numbered, Names

LEMMA PrintingStays ==
  ASSUME goal' = goal, script' = script, began' = began, out' = out, Printing
  PROVE  Printing'
<1> SUFFICES ASSUME NEW i \in DOMAIN out' PROVE LineOf(out[i])'
  BY DEF Printing
<1>1. PICK l : l = out[i]
  OBVIOUS
<1>2. l = out'[i] /\ LineOf(l)
  BY <1>1 DEF Printing
<1>3. LineOf(l)'
  BY <1>2, LinesStay
<1> QED
  BY <1>2, <1>3 DEF LineOf, NumbersOf

LEMMA PrintingGrows ==
  ASSUME goal' = goal, script' = script, began' = began, Account, Printing,
         NEW l, LineOf(l), out' = Append(out, l)
  PROVE  Printing'
<1>1. /\ Len(out) \in Nat /\ DOMAIN out = 1 .. Len(out) /\ DOMAIN out' = 1 .. Len(out) + 1
      /\ out'[Len(out) + 1] = l
      /\ \A i \in 1 .. Len(out) : out'[i] = out[i]
  BY AppendIn DEF Account
<1>2. \A i \in DOMAIN out' : i \in 1 .. Len(out) \/ i = Len(out) + 1
  BY <1>1
<1> SUFFICES ASSUME NEW i \in DOMAIN out' PROVE LineOf(out[i])'
  BY DEF Printing
<1>3. PICK m : m = out'[i]
  OBVIOUS
<1>4. LineOf(m)
  BY <1>1, <1>2, <1>3 DEF Printing
<1>5. LineOf(m)'
  BY <1>4, LinesStay
<1> QED
  BY <1>3, <1>5 DEF LineOf, NumbersOf

\* A program is looked for, and its directories are found.
LEMMA AccountFinds ==
  ASSUME Control, Account, todo # <<>>, out' = out, todo' = Tail(todo),
         dirs' = Append(dirs, Head(todo))
  PROVE  Account'
<1> DEFINE p == Head(todo)
<1>1. p \in In(todo) /\ In(todo') = In(todo) \ {p} /\ Distinct(todo')
  BY TailIn DEF Control, Account
<1>2. dirs \in Seq(In(dirs))
  BY DEF Control, In
<1>3. p \notin In(dirs)
  BY <1>1 DEF Account
<1>4. In(dirs') = In(dirs) \cup {p} /\ Distinct(dirs')
  BY <1>2, <1>3, AppendIn DEF Account
<1>5. Done' = Done /\ In(todo)' = In(todo') /\ In(dirs)' = In(dirs') /\ In(out)' = In(out)
      /\ (Distinct(todo)' <=> Distinct(todo')) /\ (Distinct(dirs)' <=> Distinct(dirs'))
  BY DEF Done, In, Distinct
<1> HIDE DEF p
<1> QED
  BY <1>1, <1>3, <1>4, <1>5 DEF Account

\* A program that was looked for or read gets its line.
LEMMA AccountPrints ==
  ASSUME Control, Account, NEW l, out' = Append(out, l),
         l.prog \in In(todo) \cup In(dirs), Distinct(todo'), Distinct(dirs'),
         In(todo') \subseteq In(todo), In(dirs') \subseteq In(dirs),
         In(todo') \cup In(dirs') = (In(todo) \cup In(dirs)) \ {l.prog}
  PROVE  Account'
<1>1. /\ out' \in Seq(In(out'))
      /\ Len(out) \in Nat /\ DOMAIN out = 1 .. Len(out) /\ DOMAIN out' = 1 .. Len(out) + 1
      /\ out'[Len(out) + 1] = l
      /\ \A i \in 1 .. Len(out) : out'[i] = out[i]
  BY AppendIn DEF Account
<1>2. \A i \in DOMAIN out' : i \in DOMAIN out \/ i = Len(out) + 1
  BY <1>1
<1>3. Done' = Done \cup {l.prog}
  <2>1. Done' \subseteq Done \cup {l.prog}
    BY <1>1, <1>2 DEF Done
  <2>2. Done \cup {l.prog} \subseteq Done'
    <3>1. \A i \in DOMAIN out : i \in DOMAIN out' /\ out'[i] = out[i]
      BY <1>1
    <3>2. Len(out) + 1 \in DOMAIN out' /\ out'[Len(out) + 1] = l
      BY <1>1
    <3> QED
      BY <3>1, <3>2 DEF Done
  <2> QED
    BY <2>1, <2>2
<1>4. l.prog \notin Done
  BY DEF Account
<1>5. \A i \in DOMAIN out : out'[i].prog # l.prog
  BY <1>1, <1>4 DEF Done
<1>6. ASSUME NEW i \in DOMAIN out', NEW k \in DOMAIN out', out'[i].prog = out'[k].prog
      PROVE  i = k
  <2>1. CASE i \in DOMAIN out /\ k \in DOMAIN out
    BY <1>1, <1>6, <2>1 DEF Account
  <2>2. CASE i = Len(out) + 1 \/ k = Len(out) + 1
    BY <1>1, <1>2, <1>5, <1>6, <2>2
  <2> QED
    BY <1>2, <2>1, <2>2
<1>7. In(todo)' = In(todo') /\ In(dirs)' = In(dirs') /\ In(out)' = In(out')
      /\ (Distinct(todo)' <=> Distinct(todo')) /\ (Distinct(dirs)' <=> Distinct(dirs'))
  BY DEF In, Distinct
<1>8. /\ Names \subseteq In(todo') \cup In(dirs') \cup Done'
      /\ Done' \cap (In(todo') \cup In(dirs')) = {}
      /\ In(todo') \cap In(dirs') = {}
  BY <1>3 DEF Account
<1> QED
  BY <1>1, <1>6, <1>7, <1>8 DEF Account, Names

\* A step of KLEE, or of the report, that neither finds nor prints.
LEMMA OutputStays ==
  ASSUME World, Output, goal' = goal, script' = script, began' = began, Grown,
         todo' = todo, dirs' = dirs, out' = out, Endings'
  PROVE  Output'
<1>1. Account'
  <2>1. /\ In(todo)' = In(todo) /\ In(dirs)' = In(dirs) /\ In(out)' = In(out) /\ Done' = Done
        /\ (Distinct(todo)' <=> Distinct(todo)) /\ (Distinct(dirs)' <=> Distinct(dirs))
    BY DEF In, Distinct, Done
  <2> QED
    BY <2>1 DEF Output, Account, Names
<1>2. Printing'
  BY PrintingStays DEF Output
<1>3. Found'
  <2>1. \A p : Of(p)' = Of(p)
    BY FinalStays
  <2>2. In(dirs)' = In(dirs)
    BY DEF In
  <2>3. \A p : \A x \in Of(p) : run[x].st # "absent" => run'[x].st # "absent"
    BY GoalFacts DEF Grown, Of
  <2> QED
    BY <2>1, <2>2, <2>3 DEF Output, Found
<1> QED
  BY <1>1, <1>2, <1>3 DEF Output

LEMMA KleeKeepsOutput ==
  ASSUME World, Output, Grown, UNCHANGED <<goal, report>>
  PROVE  Output'
<1>1. /\ goal' = goal /\ script' = script /\ began' = began /\ pc' = pc
      /\ todo' = todo /\ dirs' = dirs /\ out' = out /\ Keys' = Keys
  BY DEF report, Keys, Roles
<1>2. Endings'
  BY <1>1 DEF Output, Endings
<1> QED
  BY <1>1, <1>2, OutputStays

LEMMA StartKeepsOutput ==
  ASSUME World, Control, Output, Start
  PROVE  Output'
<1>1. /\ goal' = goal /\ run' = run /\ script' = script /\ todo' = todo /\ dirs' = <<>>
      /\ dirs = <<>> /\ out' = <<>> /\ out = <<>> /\ pc' = "look"
  BY DEF Start, Control, klee
<1>2. Account'
  BY <1>1 DEF Output, Account, In, Distinct, Done, Names
<1>3. Endings'
  BY <1>1 DEF Endings
<1>4. DOMAIN out' = {} /\ DOMAIN dirs' = {}
  BY <1>1
<1>5. Printing' /\ Found'
  BY <1>4 DEF Printing, Found, In
<1> QED
  BY <1>2, <1>3, <1>5 DEF Output

\* A run without a row was not over when the report was started.
LEMMA NotOver ==
  ASSUME World, NEW x \in Keys
  PROVE  /\ run[x].st \in {"absent", "made"} => run[x].work = 0
         /\ run[x].work = 0 => x \notin began
         /\ ~ HasFiles(x) => x \notin began
<1>1. RunOf(x) /\ run[x] \in RunRecords /\ goal[x].work # 0
  BY GoalFacts DEF World
<1>2. run[x].st \in {"absent", "made", "open", "dead"}
  BY <1>1 DEF RunRecords
<1>3. x \in began => run[x].work = goal[x].work
  BY DEF World, Complete
<1> QED
  BY <1>1, <1>2, <1>3 DEF RunOf, HasFiles

LEMMA MissingNotOver ==
  ASSUME World, NEW p, ~ Exist(p)
  PROVE  ~ (Of(p) \subseteq began) /\ \E x \in Keys : x \notin began
<1>1. PICK x \in Of(p) : run[x].st = "absent"
  BY DEF Exist
<1>2. x \in Keys
  BY GoalFacts DEF Of
<1> QED
  BY <1>1, <1>2, NotOver

LEMMA get_dirsKeepsOutput ==
  ASSUME World, Control, Output, get_dirs
  PROVE  Output'
<1> DEFINE p == Head(todo)
<1>1. /\ goal' = goal /\ run' = run /\ script' = script /\ began' = began
      /\ todo # <<>> /\ todo' = Tail(todo) /\ script = "overhead"
      /\ pc' = IF Tail(todo) # <<>> THEN "look" ELSE IF dirs' # <<>> THEN "make" ELSE "end"
  BY DEF get_dirs, Control, klee
<1>2. p \in In(todo) /\ In(todo') = In(todo) \ {p} /\ Distinct(todo') /\ p \in Names
  <2>1. p \in Names
    BY <1>1 DEF Control
  <2> QED
    BY <1>1, <2>1, TailIn DEF Control, Output, Account
<1>3. Endings'
  BY <1>1 DEF Endings
<1>4. \A q : Of(q)' = Of(q)
  BY <1>1, FinalStays
<1>5. CASE Exist(p)
  <2>1. dirs' = Append(dirs, p) /\ out' = out
    BY <1>5 DEF get_dirs
  <2>2. Account'
    BY <1>1, <2>1, AccountFinds DEF Output
  <2>3. Printing'
    BY <1>1, <2>1, PrintingStays DEF Output
  <2>4. In(dirs') = In(dirs) \cup {p} /\ In(dirs)' = In(dirs')
    <3>1. dirs \in Seq(In(dirs))
      BY DEF Control, In
    <3> QED
      BY <2>1, <3>1, AppendIn DEF In
  <2>5. \A x \in Of(p) : run[x].st # "absent"
    BY <1>5 DEF Exist
  <2>6. Found'
    BY <1>1, <1>4, <2>4, <2>5 DEF Found, Output
  <2> QED
    BY <1>3, <2>2, <2>3, <2>6 DEF Output
<1>6. CASE ~ Exist(p)
  <2> DEFINE l == Line(p, "skipping", <<>>)
  <2>1. dirs' = dirs /\ out' = Append(out, l)
    BY <1>6 DEF get_dirs
  <2>2. l.prog = p /\ ~ (Of(p) \subseteq began)
    BY <1>6, MissingNotOver DEF Line
  <2> HIDE DEF l
  <2>3. LineOf(l)
    BY <1>1, <1>2, <2>2 DEF LineOf, Numbered
  <2>4. Printing'
    BY <1>1, <2>1, <2>3, PrintingGrows DEF Output
  <2>5. /\ l.prog \in In(todo) \cup In(dirs) /\ Distinct(todo') /\ Distinct(dirs')
        /\ In(todo') \subseteq In(todo) /\ In(dirs') \subseteq In(dirs)
        /\ In(todo') \cup In(dirs') = (In(todo) \cup In(dirs)) \ {l.prog}
    BY <1>2, <2>1, <2>2 DEF Output, Account
  <2>6. Account'
    BY <2>1, <2>5, AccountPrints DEF Output
  <2>7. Found'
    BY <1>1, <1>4, <2>1 DEF Found, Output, In
  <2> QED
    BY <1>3, <2>4, <2>6, <2>7 DEF Output
<1> QED
  BY <1>5, <1>6

LEMMA dumpKeepsOutput ==
  ASSUME World, Control, Output, dump
  PROVE  Output'
<1> DEFINE p == Head(todo)
<1>1. /\ goal' = goal /\ run' = run /\ script' = script /\ began' = began
      /\ todo # <<>> /\ script # "overhead" /\ dirs = <<>> /\ out' = out /\ Keys' = Keys
  BY DEF dump, Control, klee, Output, Endings, Keys, Roles
<1>2. CASE Exist(p)
  <2>1. dirs' = <<p>> /\ todo' = Tail(todo) /\ pc' = "make"
    BY <1>2 DEF dump
  <2>2. dirs' = Append(dirs, p)
    BY <1>1, <2>1
  <2>3. Account'
    BY <1>1, <2>1, <2>2, AccountFinds DEF Output
  <2>4. Printing'
    BY <1>1, PrintingStays DEF Output
  <2>5. Found' /\ Endings'
    BY <1>1, <2>1 DEF Found, Endings
  <2> QED
    BY <2>3, <2>4, <2>5 DEF Output
<1>3. CASE ~ Exist(p)
  <2>1. dirs' = dirs /\ todo' = todo /\ pc' = "crashed"
    BY <1>3 DEF dump
  <2>2. Endings'
    BY <1>1, <1>3, <2>1, MissingNotOver DEF Endings
  <2>3. Grown
    BY <1>1 DEF Grown, Complete
  <2> QED
    BY <1>1, <2>1, <2>2, <2>3, OutputStays
<1> QED
  BY <1>2, <1>3

LEMMA PrintProgramKeepsOutput ==
  ASSUME World, Control, ReadSoFar, Output, PrintProgram
  PROVE  Output'
<1> DEFINE p == Head(dirs)
           l == Printed(p)
<1>1. /\ goal' = goal /\ run' = run /\ script' = script /\ began' = began
      /\ pc = "print" /\ Subtracts /\ dirs # <<>> /\ dirs' = Tail(dirs) /\ todo' = todo
      /\ out' = Append(out, l)
      /\ pc' = IF Tail(dirs) # <<>> THEN "make" ELSE IF todo # <<>> THEN "look" ELSE "end"
  BY DEF PrintProgram, Control, klee, Reading
<1>2. p \in In(dirs) /\ In(dirs') = In(dirs) \ {p} /\ Distinct(dirs') /\ p \in Names
  <2>1. p \in Names
    BY <1>1 DEF Control
  <2> QED
    BY <1>1, <2>1, TailIn DEF Control, Output, Account
<1>3. l.prog = p /\ l.text # "skipping"
  BY PrintedNames
<1>4. LineOf(l)
  <2>1. Of(p) \subseteq began => l = FinalLine(p)
    BY <1>1, OverPrinted
  <2>2. script \in Numbered => NumbersOf(l)
    BY <1>1, NumbersPrinted
  <2> HIDE DEF l
  <2> QED
    BY <1>2, <1>3, <2>1, <2>2 DEF LineOf
<1> HIDE DEF l
<1>5. Printing'
  BY <1>1, <1>4, PrintingGrows DEF Output
<1>6. Account'
  <2>1. /\ l.prog \in In(todo) \cup In(dirs) /\ Distinct(todo') /\ Distinct(dirs')
        /\ In(todo') \subseteq In(todo) /\ In(dirs') \subseteq In(dirs)
        /\ In(todo') \cup In(dirs') = (In(todo) \cup In(dirs)) \ {l.prog}
    BY <1>1, <1>2, <1>3 DEF Output, Account
  <2> QED
    BY <1>1, <2>1, AccountPrints DEF Output
<1>7. Endings'
  BY <1>1 DEF Endings
<1>8. Found'
  <2>1. (\A q : Of(q)' = Of(q)) /\ In(dirs)' = In(dirs')
    BY <1>1, FinalStays DEF In
  <2> QED
    BY <1>1, <1>2, <2>1 DEF Found, Output
<1> QED
  BY <1>5, <1>6, <1>7, <1>8 DEF Output

\* check_stats.py fails only on a run that was not over.
LEMMA FailsNotOver ==
  ASSUME World, Control, ReadSoFar, pc = "print", ~ Subtracts
  PROVE  \E x \in Keys : x \notin began
<1>1. script = "stats" /\ 1 \in 1 .. Len(Roles(script))
  BY RolesFacts DEF Subtracts
<1>2. /\ Dir(1) \in Keys /\ Finals(Head(dirs))[1] = Seen(goal[Dir(1)])
      /\ LateOf(ko[1], Seen(goal[Dir(1)]), Dir(1))
  BY <1>1, AtPrint
<1>3. goal[Dir(1)] \in Goals["stats"] /\ "stats" \in Scripts
  BY <1>1, <1>2, GoalFacts
<1>4. /\ Seen(goal[Dir(1)]).stats.address_dependent # None
      /\ Seen(goal[Dir(1)]).stats.unhandled # None
  BY <1>3, CountsAssumption
<1>5. Dir(1) \notin began
  BY <1>1, <1>2, <1>4 DEF LateOf, Late, Subtracts
<1> QED
  BY <1>2, <1>5

LEMMA ReadersKeepOutput ==
  ASSUME World, Control, ReadSoFar, Output,
         MakeKleeOut \/ ReadInfo \/ ReadMessages \/ parse_stats \/ FailToPrint
  PROVE  Output'
<1>1. /\ goal' = goal /\ run' = run /\ script' = script /\ began' = began
      /\ todo' = todo /\ dirs' = dirs /\ out' = out /\ Keys' = Keys
  BY DEF MakeKleeOut, ReadInfo, ReadMessages, parse_stats, FailToPrint, Go, klee, Keys, Roles
<1>2. Grown
  BY <1>1 DEF Grown, Complete
<1>3. CASE pc' \in Reading
  <2>1. Endings'
    BY <1>3 DEF Endings, Reading
  <2> QED
    BY <1>1, <1>2, <2>1, OutputStays
<1>4. CASE pc' = "crashed" /\ \E x \in Keys : x \notin began
  <2>1. Endings'
    BY <1>1, <1>4 DEF Endings
  <2> QED
    BY <1>1, <1>2, <2>1, OutputStays
<1>5. CASE MakeKleeOut
  <2>1. CASE Extends(Blank, "info")
    BY <1>3, <2>1 DEF Extends, Reading
  <2>2. CASE Crashes /\ run[Dir(Len(ko) + 1)].st = "absent"
    <3>1. pc = "make" /\ Len(ko) + 1 \in 1 .. Len(Roles(script))
      BY <1>5, RolesFacts DEF MakeKleeOut, Control
    <3>2. Dir(Len(ko) + 1) \in Keys
      BY <3>1, DirFacts DEF Reading
    <3> QED
      BY <1>4, <2>2, <3>2, NotOver DEF Crashes
  <2> QED
    BY <1>5, <2>1, <2>2, MakeKleeOutEffect
<1>6. CASE ReadInfo
  <2>1. Current \in Keys
    BY <1>6, CurrentDir DEF ReadInfo
  <2>2. CASE Crashes /\ ~ HasFiles(Current)
    BY <1>4, <2>1, <2>2, NotOver DEF Crashes
  <2>3. CASE ~ Crashes
    BY <1>3, <1>6, <2>3, ReadInfoEffect DEF Amends, Reading
  <2> QED
    BY <1>6, <2>2, <2>3, ReadInfoEffect DEF Crashes, Amends
<1>7. CASE ReadMessages
  BY <1>3, <1>7, ReadMessagesEffect DEF Amends, Reading
<1>8. CASE parse_stats
  <2>1. Current \in Keys
    BY <1>8, CurrentDir DEF parse_stats
  <2>2. CASE Crashes /\ run[Current].work = 0
    BY <1>4, <2>1, <2>2, NotOver DEF Crashes
  <2>3. CASE ~ (Crashes /\ run[Current].work = 0)
    BY <1>3, <1>8, <2>3, ParseStatsEffect DEF Amends, Reading
  <2> QED
    BY <2>2, <2>3
<1>9. CASE FailToPrint
  <2>1. pc' = "crashed" /\ pc = "print" /\ ~ Subtracts
    BY <1>9 DEF FailToPrint, Go
  <2> QED
    BY <1>4, <2>1, FailsNotOver
<1> QED
  BY <1>5, <1>6, <1>7, <1>8, <1>9

LEMMA InitOutput ==
  Init => Output
<1> SUFFICES ASSUME Init PROVE Output
  OBVIOUS
<1>1. /\ pc = "idle" /\ todo = Programs /\ dirs = <<>> /\ out = <<>>
      /\ DOMAIN out = {} /\ DOMAIN dirs = {}
  BY DEF Init
<1>2. /\ In(dirs) = {} /\ Done = {} /\ In(out) = {} /\ out \in Seq({})
  BY <1>1 DEF In, Done
<1>3. In(todo) = Names /\ Distinct(todo) /\ Distinct(dirs)
  BY <1>1, ProgramsAssumption DEF In, Names, Distinct
<1>4. Account
  BY <1>1, <1>2, <1>3 DEF Account
<1>5. Endings /\ Printing /\ Found
  BY <1>1, <1>2 DEF Endings, Printing, Found
<1> QED
  BY <1>4, <1>5 DEF Output

LEMMA NextOutput ==
  IInv /\ Output /\ [Next]_vars => Output'
<1> SUFFICES ASSUME World, Control, ReadSoFar, Output, [Next]_vars PROVE Output'
  BY DEF IInv
<1>1. CASE Start \/ Read
  BY <1>1, StartKeepsOutput, get_dirsKeepsOutput, dumpKeepsOutput, PrintProgramKeepsOutput,
     ReadersKeepOutput DEF Read
<1>2. CASE Grown /\ World' /\ UNCHANGED <<goal, report>>
  BY <1>2, KleeKeepsOutput
<1> QED
  BY <1>1, <1>2, NextParts

(* Every program is still to be read or has its one line, and the line      *)
(* tells what its runs end with.                                            *)
LEMMA OutputInvariant == Spec => []Output
BY Invariant, InitOutput, NextOutput, PTL DEF Spec

(* The numbers in the lines of check_time.py, check_queries.py,             *)
(* check_cache_size.py and check_stats.py are the numbers the runs end      *)
(* with, at whatever moment the files were read; a missing one is printed   *)
(* as None, and never by check_stats.py.                                    *)
THEOREM NumbersAreFinal == Spec => []NumbersFinal
<1>1. Output => NumbersFinal
  BY DEF Output, Printing, LineOf, NumbersOf, Numbered, NumbersFinal
<1> QED
  BY <1>1, OutputInvariant, PTL

(* check_overhead.py reads only pairs of directories that exist, and skips  *)
(* only programs that were not over when it was started.                    *)
THEOREM OverheadSkipsRunning == Spec => []OverheadSkips
<1>1. Output => OverheadSkips
  BY DEF Output, Printing, LineOf, Found, In, OverheadSkips
<1> QED
  BY <1>1, OutputInvariant, PTL

(* A report that gets to its end has exactly one line for every program     *)
(* whose runs were over when it was started, with their final numbers; one  *)
(* that crashes was started while some run was not over.                    *)
THEOREM OverAreReported == Spec => []OverIsReported
<1>1. IInv /\ Output => OverIsReported
  <2> SUFFICES ASSUME World, Output PROVE OverIsReported
    BY DEF IInv
  <2>1. ASSUME pc = "end", NEW j \in DOMAIN Programs, Of(Programs[j]) \subseteq began
        PROVE  \E k \in {k \in DOMAIN out : out[k].prog = Programs[j]} :
                 /\ {i \in DOMAIN out : out[i].prog = Programs[j]} = {k}
                 /\ out[k] = FinalLine(Programs[j])
    <3>1. DOMAIN todo = {} /\ DOMAIN dirs = {}
      BY <2>1 DEF Output, Endings
    <3>2. Programs[j] \in Done
      BY <3>1 DEF Output, Account, In, Names
    <3>3. PICK k \in DOMAIN out : out[k].prog = Programs[j]
      BY <3>2 DEF Done
    <3>4. {i \in DOMAIN out : out[i].prog = Programs[j]} = {k}
      BY <3>3 DEF Output, Account
    <3>5. out[k] = FinalLine(Programs[j])
      BY <2>1, <3>3 DEF Output, Printing, LineOf
    <3> QED
      BY <3>3, <3>4, <3>5
  <2>2. pc = "crashed" => \E x \in Runs : x \notin began
    BY GoalFacts DEF Output, Endings
  <2> QED
    BY <2>1, <2>2 DEF OverIsReported
<1> QED
  BY <1>1, Invariant, OutputInvariant, PTL

-----------------------------------------------------------------------------
(***************************************************************************)
(* One file alone: a metric that a reader has found in it does not change  *)
(* while it grows, whatever the lines and however many there are; and the  *)
(* cache size found is the one the loop over the lines returns.            *)
(***************************************************************************)
(* Its lines are among those that a report may read.                        *)
LEMMA FileLinesAre == FileLines \subseteq Lines /\ Seq(FileLines) \subseteq Seq(Lines)
<1>1. FileLines \subseteq Lines
  BY NumbersAssumption DEF FileLines, Lines
<1> QED
  BY <1>1

(* A line appended to a file leaves a number that was found where it is.    *)
LEMMA FirstNumberStable ==
  ASSUME NEW q \in Seq(FileLines), NEW S, NEW line \in FileLines, FirstNumber(q, S) # None
  PROVE  FirstNumber(Append(q, line), S) = FirstNumber(q, S)
<1>1. PICK i \in DOMAIN q : FirstIn(q, S, i)
  BY DEF FirstNumber
<1> DEFINE r == Append(q, line)
<1>2. /\ r \in Seq(FileLines) /\ i \in DOMAIN r /\ r[i] = q[i]
      /\ \A k \in 1 .. i - 1 : r[k] = q[k]
  OBVIOUS
<1> HIDE DEF r
<1>3. FirstIn(r, S, i)
  BY <1>1, <1>2 DEF FirstIn
<1>4. FirstNumber(r, S) = r[i].n /\ FirstNumber(q, S) = q[i].n
  BY <1>1, <1>2, <1>3, NumberAt, FileLinesAre
<1> QED
  BY <1>2, <1>4 DEF r

LEMMA MetricStable ==
  ASSUME NEW q \in Seq(FileLines), NEW line \in FileLines, NEW m \in Metrics(q), m[2] # None
  PROVE  m \in Metrics(Append(q, line))
<1>1. \A S : FirstNumber(q, S) # None =>
               FirstNumber(Append(q, line), S) = FirstNumber(q, S)
  BY FirstNumberStable
<1> DEFINE r == Append(q, line)
<1>2. /\ get_completed_paths(q) # None => get_completed_paths(r) = get_completed_paths(q)
      /\ get_queries(q) # None => get_queries(r) = get_queries(q)
      /\ get_elapsed_time(q) # None => get_elapsed_time(r) = get_elapsed_time(q)
      /\ get_cache_size(q) # None => get_cache_size(r) = get_cache_size(q)
  BY <1>1 DEF get_completed_paths, get_queries, get_elapsed_time, get_cache_size
<1>3. /\ get_all_queries(q) # None => get_all_queries(r) = get_all_queries(q)
      /\ get_relevant_queries(q) # None => get_relevant_queries(r) = get_relevant_queries(q)
      /\ get_relevant_address_dependent_queries(q) # None =>
           get_relevant_address_dependent_queries(r)
             = get_relevant_address_dependent_queries(q)
      /\ get_unhandled_queries(q) # None =>
           get_unhandled_queries(r) = get_unhandled_queries(q)
  BY <1>1 DEF get_all_queries, get_relevant_queries,
     get_relevant_address_dependent_queries, get_unhandled_queries
<1> HIDE DEF r
<1>4. m \in Metrics(r)
  BY <1>2, <1>3 DEF Metrics
<1> QED
  BY <1>4 DEF r

LEMMA FileTyped == FileSpec => []TypeOK
<1>1. NewFile => TypeOK
  BY DEF NewFile, TypeOK
<1>2. TypeOK /\ [GrowFile]_klee_file => TypeOK'
  BY DEF TypeOK, GrowFile, AppendLine
<1> QED
  BY <1>1, <1>2, PTL DEF FileSpec

(* What a report has read of a run stays what the run's file says.          *)
THEOREM MetricsAreStable == FileSpec => StableMetrics
<1>1. TypeOK /\ [GrowFile]_klee_file =>
        [\A m \in Metrics(klee_file) : m[2] # None => m \in Metrics(klee_file')]_klee_file
  <2> SUFFICES ASSUME TypeOK, GrowFile
               PROVE  \A m \in Metrics(klee_file) : m[2] # None => m \in Metrics(klee_file')
    OBVIOUS
  <2>1. PICK line \in FileLines : AppendLine(line)
    BY DEF GrowFile
  <2>2. klee_file' = Append(klee_file, line) /\ klee_file \in Seq(FileLines)
    BY <2>1 DEF AppendLine, TypeOK
  <2> QED
    BY <2>1, <2>2, MetricStable
<1> QED
  BY <1>1, FileTyped, PTL DEF FileSpec, StableMetrics

-----------------------------------------------------------------------------
(* Induction over numbers, as its principle of the least counterexample.   *)
LEMMA LeastNumber ==
  ASSUME NEW T \in SUBSET Nat, T # {}
  PROVE  \E x \in T : \A y \in T : x <= y
<1> DEFINE R == OpToRel(<, Nat)
<1>1. IsWellFoundedOn(R, Nat)
  BY NatLessThanWellFounded
<1>2. \A x, y \in Nat : <<y, x>> \in R <=> y < x
  BY DEF OpToRel
<1> HIDE DEF R
<1>3. \E x \in T : \A y \in T : ~ (<<y, x>> \in R)
  BY <1>1, WFMin
<1>4. PICK x \in T : \A y \in T : ~ (<<y, x>> \in R)
  BY <1>3
<1>5. \A y \in T : ~ (y < x)
  BY <1>2, <1>4
<1>6. \A y \in T : x <= y
  BY <1>5
<1> QED
  BY <1>6

LEMMA GreatestNumber ==
  ASSUME NEW n \in Nat, NEW T \in SUBSET (1 .. n), T # {}
  PROVE  \E x \in T : \A y \in T : y <= x
<1> DEFINE U == { n - x : x \in T }
<1>1. \A x \in T : x \in Nat /\ x <= n
  OBVIOUS
<1>2. U \in SUBSET Nat /\ U # {}
  <2>1. \A x \in T : n - x \in Nat
    BY <1>1
  <2>2. PICK x \in T : TRUE
    OBVIOUS
  <2>3. n - x \in U
    BY <2>2
  <2> QED
    BY <2>1, <2>3
<1>3. PICK u \in U : \A v \in U : u <= v
  BY <1>2, LeastNumber
<1>4. PICK x \in T : u = n - x
  BY <1>3
<1>5. \A y \in T : n - x <= n - y
  BY <1>3, <1>4
<1>6. \A y \in T : y <= x
  BY <1>1, <1>5
<1> QED
  BY <1>6

-----------------------------------------------------------------------------
(* The lines a reader of the cache size accepts.                            *)
Accepted(q) == { i \in 1 .. Len(q) : \/ q[i].tag = "total_cache" /\ q[i].n # 0
                                     \/ q[i].tag = "query_cache" }
(* What the loop returns when it starts at line i: the number of the next   *)
(* accepted line.                                                           *)
IsNext(q, i, j) == j \in Accepted(q) /\ j >= i /\ \A k \in Accepted(q) : k >= i => j <= k
From(q, i) == IF \E j \in Accepted(q) : j >= i
              THEN q[CHOOSE j \in Accepted(q) : IsNext(q, i, j)].n
              ELSE None

(* Some accepted line from i on, hence a first one.                        *)
LEMMA NextExists ==
  ASSUME NEW q \in Seq(FileLines), NEW i \in Nat, NEW j \in Accepted(q), j >= i
  PROVE  \E k \in Accepted(q) : IsNext(q, i, k)
<1> DEFINE T == { k \in Accepted(q) : k >= i }
<1>1. T \in SUBSET Nat /\ T # {}
  BY DEF Accepted
<1>2. \E x \in T : \A y \in T : x <= y
  BY <1>1, LeastNumber
<1> QED
  BY <1>2 DEF IsNext

(* From is the number on that line.                                        *)
LEMMA FromIs ==
  ASSUME NEW q \in Seq(FileLines), NEW i \in Nat, NEW j \in Accepted(q), IsNext(q, i, j)
  PROVE  From(q, i) = q[j].n
<1> DEFINE c == CHOOSE k \in Accepted(q) : IsNext(q, i, k)
<1>1. c \in Accepted(q) /\ IsNext(q, i, c)
  OBVIOUS
<1> HIDE DEF c
<1>2. c \in Nat /\ j \in Nat
  BY <1>1 DEF Accepted
<1>3. c = j
  BY <1>1, <1>2 DEF IsNext
<1>4. \E k \in Accepted(q) : k >= i
  BY DEF IsNext
<1> QED
  BY <1>3, <1>4 DEF From, c

(* From satisfies the recursive equation of the loop.                      *)
LEMMA FromEquation ==
  ASSUME NEW q \in Seq(FileLines), NEW i \in 1 .. Len(q) + 1
  PROVE  From(q, i) = IF i > Len(q) THEN None
                      ELSE IF q[i].tag = "total_cache" /\ q[i].n # 0 THEN q[i].n
                      ELSE IF q[i].tag = "query_cache" THEN q[i].n
                      ELSE From(q, i + 1)
<1>1. CASE i > Len(q)
  BY <1>1 DEF From, Accepted
<1>2. CASE i \in Accepted(q)
  <2>1. IsNext(q, i, i)
    BY <1>2 DEF IsNext, Accepted
  <2>2. From(q, i) = q[i].n
    BY <1>2, <2>1, FromIs
  <2> QED
    BY <1>2, <2>2 DEF Accepted
<1>3. CASE i <= Len(q) /\ i \notin Accepted(q)
  <2>1. \A j \in Accepted(q) : j >= i <=> j >= i + 1
    BY <1>3 DEF Accepted
  <2>2. CASE \E j \in Accepted(q) : j >= i
    <3>1. PICK j \in Accepted(q) : IsNext(q, i, j)
      BY <2>2, NextExists
    <3>2. IsNext(q, i + 1, j)
      BY <2>1, <3>1 DEF IsNext
    <3>3. From(q, i) = q[j].n /\ From(q, i + 1) = q[j].n
      BY <3>1, <3>2, FromIs
    <3> QED
      BY <1>3, <3>3 DEF Accepted
  <2>3. CASE ~ \E j \in Accepted(q) : j >= i
    <3>1. From(q, i) = None /\ From(q, i + 1) = None
      BY <2>1, <2>3 DEF From
    <3> QED
      BY <1>3, <3>1 DEF Accepted
  <2> QED
    BY <2>2, <2>3
<1> QED
  BY <1>1, <1>2, <1>3

(* The recursive function of Loop exists, and is From: a line from which   *)
(* they differed could not be the last such line.                          *)
LEMMA LoopIs ==
  ASSUME NEW q \in Seq(FileLines)
  PROVE  Loop(q) = From(q, 1)
<1> DEFINE n == Len(q)
           Def(g, i) == IF i > n THEN None
                        ELSE IF q[i].tag = "total_cache" /\ q[i].n # 0 THEN q[i].n
                        ELSE IF q[i].tag = "query_cache" THEN q[i].n
                        ELSE g[i + 1]
           G == [i \in 1 .. n + 1 |-> From(q, i)]
           c == CHOOSE g : g = [i \in 1 .. n + 1 |-> Def(g, i)]
<1>1. n \in Nat
  OBVIOUS
<1>2. G = [i \in 1 .. n + 1 |-> Def(G, i)]
  <2>1. ASSUME NEW i \in 1 .. n + 1
        PROVE  G[i] = Def(G, i)
    <3>1. CASE i > n
      BY <3>1, FromEquation
    <3>2. CASE i <= n
      <4>1. i + 1 \in 1 .. n + 1
        BY <3>2
      <4>2. G[i + 1] = From(q, i + 1) /\ G[i] = From(q, i)
        BY <4>1
      <4> QED
        BY <4>2, <3>2, FromEquation
    <3> QED
      BY <3>1, <3>2
  <2> QED
    BY <2>1
<1>3. c = [i \in 1 .. n + 1 |-> Def(c, i)]
  BY <1>2
<1>4. Loop(q) = c[1]
  BY DEF Loop
<1> HIDE DEF c
<1> DEFINE T == { i \in 1 .. n + 1 : c[i] # From(q, i) }
<1>5. T = {}
  <2> SUFFICES ASSUME T # {} PROVE FALSE
    OBVIOUS
  <2>1. n + 1 \in Nat /\ T \in SUBSET (1 .. n + 1)
    BY <1>1
  <2>2. PICK i \in T : \A y \in T : y <= i
    BY <2>1, GreatestNumber
  <2>3. c[i] = Def(c, i)
    BY <1>3, <2>2
  <2>4. CASE i > n
    BY <2>2, <2>3, <2>4, FromEquation
  <2>5. CASE i <= n
    <3>1. i + 1 \in 1 .. n + 1 /\ i + 1 \notin T
      BY <2>2, <2>5
    <3>2. c[i + 1] = From(q, i + 1)
      BY <3>1
    <3> QED
      BY <2>2, <2>3, <2>5, <3>2, FromEquation
  <2> QED
    BY <2>2, <2>4, <2>5, <1>1
<1> QED
  BY <1>4, <1>5, <1>1

(* get_cache_size, the first line of one of two kinds, is From as well.    *)
LEMMA CacheSizeIs ==
  ASSUME NEW q \in Seq(FileLines)
  PROVE  get_cache_size(q) = From(q, 1)
<1> DEFINE S == (Tagged("total_cache") \ [tag : {"total_cache"}, n : {0}])
                 \cup Tagged("query_cache")
<1>1. \A i \in DOMAIN q : q[i] \in S <=> i \in Accepted(q)
  <2> TAKE i \in DOMAIN q
  <2>1. q[i] \in FileLines /\ i \in 1 .. Len(q)
    OBVIOUS
  <2>2. q[i] \in [tag : Tags, n : Nat]
    BY <2>1, NumbersAssumption DEF FileLines
  <2> QED
    BY <2>1, <2>2 DEF Accepted, Tagged
<1> HIDE DEF S
<1>2. \A i \in DOMAIN q : FirstIn(q, S, i) <=> IsNext(q, 1, i)
  <2> TAKE i \in DOMAIN q
  <2>1. \A k \in 1 .. i - 1 : k \in DOMAIN q
    OBVIOUS
  <2>2. ASSUME FirstIn(q, S, i)
        PROVE  IsNext(q, 1, i)
    <3>1. \A k \in Accepted(q) : i <= k
      <4> SUFFICES ASSUME NEW k \in Accepted(q), k < i PROVE FALSE
        BY DEF Accepted
      <4>1. k \in 1 .. i - 1
        BY DEF Accepted
      <4> QED
        BY <4>1, <1>1, <2>1, <2>2 DEF FirstIn
    <3> QED
      BY <2>2, <1>1, <3>1 DEF FirstIn, IsNext, Accepted
  <2>3. ASSUME IsNext(q, 1, i)
        PROVE  FirstIn(q, S, i)
    <3>1. \A k \in 1 .. i - 1 : q[k] \notin S
      BY <1>1, <2>1, <2>3 DEF IsNext
    <3> QED
      BY <1>1, <2>3, <3>1 DEF FirstIn, IsNext
  <2> QED
    BY <2>2, <2>3
<1>3. CASE \E j \in Accepted(q) : j >= 1
  <2>1. PICK j \in Accepted(q) : IsNext(q, 1, j)
    BY <1>3, NextExists
  <2>2. j \in DOMAIN q /\ FirstIn(q, S, j)
    BY <1>2, <2>1 DEF Accepted
  <2>3. FirstNumber(q, S) = q[j].n
    BY <2>2, NumberAt, FileLinesAre
  <2> QED
    BY <2>1, <2>3, FromIs DEF get_cache_size, S
<1>4. CASE ~ \E j \in Accepted(q) : j >= 1
  <2>1. \A i \in DOMAIN q : ~ FirstIn(q, S, i)
    BY <1>2, <1>4 DEF IsNext
  <2>2. FirstNumber(q, S) = None
    BY <2>1 DEF FirstNumber
  <2> QED
    BY <2>2, <1>4 DEF From, get_cache_size, S
<1> QED
  BY <1>3, <1>4

(* In a file of any length, the size that is reported is the one the loop  *)
(* over its lines stops at.                                                *)
THEOREM CacheSizeCorrect == FileSpec => []CacheSizeIsLoop
<1>1. TypeOK => CacheSizeIsLoop
  BY LoopIs, CacheSizeIs DEF TypeOK, CacheSizeIsLoop
<1> QED
  BY <1>1, FileTyped, PTL
=============================================================================
