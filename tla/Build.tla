------------------------------- MODULE Build -------------------------------
(***************************************************************************)
(* build.sh and the Makefiles of the benchmarks.  build.sh runs one make   *)
(* per benchmark; no line of it looks at the status of another.  A         *)
(* Makefile is the sequence of its rules in the order make comes to them.  *)
(* A rule's recipe runs when its target is missing or older than something *)
(* it needs.  A step of a recipe is named for the command it runs.         *)
(*                                                                         *)
(* Of a file the model keeps its modification time (0 when it is missing)  *)
(* and whether it is what a finished, successful step writes.  tar and     *)
(* unzip give a directory the time it had in the archive.                  *)
(***************************************************************************)
EXTENDS Naturals, Sequences

CONSTANTS
  Order,       \* the benchmarks of build.sh, in its order
  MaxBuilds,   \* bound on the runs of build.sh
  MaxHurts,    \* bound on failing tools and kills
  MaxCleans    \* bound on the uses of make clean

Benchmarks == {"m4", "make", "sqlite", "apr", "libxml2", "expat", "bash",
               "json", "libosip", "libyaml", "coreutils"}
Listed == {Order[i] : i \in DOMAIN Order}

ASSUME OrderAssumption ==
  /\ Order \in Seq(Benchmarks) /\ Len(Order) > 0
  /\ \A i, j \in DOMAIN Order : Order[i] = Order[j] => i = j
  /\ MaxBuilds \in Nat /\ MaxHurts \in Nat /\ MaxCleans \in Nat

\* The sources, a generated configure script, the build directory, the library
\* or program built in it, the compiled driver, the linked driver, and the
\* bitcode that the scripts run.
Made == {"src", "script", "build", "lib", "obj", "prog", "bc"}

\* An input of the repository, and a target that is never a file.
Files == Made \cup {"input", "phony"}

\* Bug: tar -m, the directory gets the time of its extraction, here the latest.
Archived_never == 1000

\* The times before any build: of a directory in its archive, and of the files
\* of the repository.
Archived == 1
CheckedOut == 2

Rule(target, needs, recipe) == [target |-> target, needs |-> needs, recipe |-> recipe]
-----------------------------------------------------------------------------
(* The Makefiles.                                                          *)

\* Bug: the bitcode is extracted before make -C, as in coreutils.
m4_Makefile_extracts_first ==
  <<Rule("src", {}, <<"unpack">>),
    Rule("build", {"src"}, <<"rm build", "mkdir", "configure; cd -">>),
    Rule("bc", {"build"}, <<"extract-bc lib", "make -C">>)>>

m4_Makefile ==
  <<Rule("src", {}, <<"unpack">>),
    Rule("build", {"src"}, <<"rm build", "mkdir", "configure; cd -">>),
    Rule("bc", {"build"}, <<"make -C", "extract-bc lib">>)>>

make_Makefile ==
  <<Rule("src", {"input"}, <<"unpack to patch", "patch">>),
    Rule("build", {"src"}, <<"mkdir", "configure; cd -">>),
    Rule("phony", {"build"}, <<"make -C">>),
    Rule("bc", {"phony"}, <<"extract-bc lib">>)>>

bash_Makefile == make_Makefile

sqlite_Makefile ==
  <<Rule("build", {}, <<"mkdir -p">>),
    Rule("obj", {"input"}, <<"cc">>),
    Rule("lib", {"input"}, <<"cc lib">>),
    Rule("bc", {"obj", "lib"}, <<"llvm-link">>)>>

apr_Makefile ==
  <<Rule("src", {"input"}, <<"unpack">>),
    Rule("build", {"src"}, <<"mkdir -p", "configure; cd -">>),
    Rule("obj", {"input", "src"}, <<"cc">>),
    Rule("lib", {"build"}, <<"make -C">>),
    Rule("prog", {"build", "obj", "lib"}, <<"link">>),
    Rule("bc", {"prog"}, <<"extract-bc">>)>>

\* A library and a driver, linked, extracted and optimised in place.
Library(configure) ==
  <<Rule("src", {"input"}, <<"unpack">>),
    Rule("obj", {"input", "src"}, <<"cc">>),
    Rule("build", {"src"}, <<"mkdir -p", configure>>),
    Rule("lib", {"build"}, <<"make -C">>),
    Rule("prog", {"obj", "lib"}, <<"link">>),
    Rule("bc", {"prog"}, <<"extract-bc to opt", "opt", "llvm-dis">>)>>

libxml2_Makefile == Library("configure; cd -")
expat_Makefile   == Library("configure; cd -")
libosip_Makefile == Library("configure")
libyaml_Makefile == Library("configure")

json_Makefile ==
  <<Rule("src", {"input"}, <<"unpack to patch", "patch">>),
    Rule("build", {"src"}, <<"mkdir -p", "autogen; cd -", "configure; cd -">>),
    Rule("lib", {"build"}, <<"make -C">>),
    Rule("obj", {"input"}, <<"cc">>),
    Rule("prog", {"lib", "obj"}, <<"link">>),
    Rule("bc", {"prog"}, <<"extract-bc to opt", "opt", "llvm-dis">>)>>

\* make expands $(shell ./extract_bc.sh) before it runs a line of the recipe.
coreutils_Makefile ==
  <<Rule("src", {}, <<"unpack">>),
    Rule("build", {"src"}, <<"rm build", "mkdir", "configure; cd -">>),
    Rule("phony", {"build"}, <<"extract_bc.sh", "make -C">>)>>

Makefile(b) ==
  CASE b = "m4"        -> m4_Makefile
    [] b = "make"      -> make_Makefile
    [] b = "sqlite"    -> sqlite_Makefile
    [] b = "apr"       -> apr_Makefile
    [] b = "libxml2"   -> libxml2_Makefile
    [] b = "expat"     -> expat_Makefile
    [] b = "bash"      -> bash_Makefile
    [] b = "json"      -> json_Makefile
    [] b = "libosip"   -> libosip_Makefile
    [] b = "libyaml"   -> libyaml_Makefile
    [] b = "coreutils" -> coreutils_Makefile

\* What is inside the build directory.
InBuild(b) ==
  CASE b \in {"m4", "make", "bash", "coreutils"} -> {"build", "lib", "bc"}
    [] b = "sqlite" -> {"build", "obj", "lib", "bc"}
    [] OTHER        -> {"build", "lib"}

\* What make clean removes.
clean(b) ==
  CASE b \in {"m4", "sqlite", "coreutils"} -> InBuild(b)
    [] b \in {"make", "bash"} -> InBuild(b) \cup {"src"}
    [] b = "json" -> {"obj", "prog", "bc"}
    [] OTHER      -> {"build", "lib", "obj", "prog", "bc"}
-----------------------------------------------------------------------------
(* The steps of the recipes.                                               *)

Writes(step) ==
  CASE step \in {"unpack", "unpack to patch", "patch"} -> "src"
    [] step = "autogen; cd -" -> "script"
    [] step \in {"rm build", "mkdir", "mkdir -p", "configure", "configure; cd -"} -> "build"
    [] step \in {"make -C", "cc lib"} -> "lib"
    [] step = "cc" -> "obj"
    [] step = "link" -> "prog"
    [] step \in {"extract-bc", "extract-bc lib", "extract-bc to opt", "opt",
                 "llvm-dis", "llvm-link", "extract_bc.sh"} -> "bc"

\* What a step cannot do without.
Uses(b, step) ==
  CASE step \in {"configure", "configure; cd -"} ->
         {"src"} \cup (IF b = "json" THEN {"script"} ELSE {})
    [] step = "make -C" -> {"src", "build"}
    [] step = "cc" -> IF b = "sqlite" THEN {} ELSE {"src"}
    [] step \in {"link", "llvm-link"} -> {"obj", "lib"}
    [] step \in {"extract-bc", "extract-bc to opt"} -> {"prog"}
    [] step \in {"extract-bc lib", "extract_bc.sh"} -> {"lib"}
    [] OTHER -> {}

\* The status of configure; cd - is that of cd -, in apr that of make; cd - as
\* well, and what extract_bc.sh prints, not its status, is part of the recipe.
Masked(b, step) ==
  \/ step \in {"configure; cd -", "autogen; cd -", "extract_bc.sh"}
  \/ b = "apr" /\ step = "make -C"

\* File f has been written at time t, and is whole or not.
Write(d, f, t, whole) ==
  [at |-> [d.at EXCEPT ![f] = t],
   whole |-> IF whole THEN d.whole \cup {f} ELSE d.whole \ {f}]

Remove(d, fs) ==
  [at |-> [f \in DOMAIN d.at |-> IF f \in fs THEN 0 ELSE d.at[f]],
   whole |-> d.whole \ fs]

Works(b, d, step) ==
  /\ Uses(b, step) \subseteq d.whole
  /\ step = "mkdir" => d.at["build"] = 0

\* What a step that works leaves at time t.
Does(b, d, step, t) ==
  CASE step = "rm build" -> Remove(d, InBuild(b))
    [] step \in {"unpack", "unpack to patch"} ->
         Write(d, "src", Archived, step = "unpack")
    [] step = "mkdir" -> Write(d, "build", t, FALSE)
    [] step = "mkdir -p" -> IF d.at["build"] # 0 THEN d ELSE Write(d, "build", t, FALSE)
    [] step = "autogen; cd -" -> Write(Write(d, "script", t, TRUE), "src", t, "src" \in d.whole)
    [] step = "make -C" -> IF "lib" \in d.whole THEN d ELSE Write(d, "lib", t, TRUE)
    [] step = "extract-bc to opt" -> Write(d, "bc", t, FALSE)
    [] step = "llvm-dis" -> d
    [] OTHER -> Write(d, Writes(step), t, TRUE)

\* What a step that is killed or fails may leave: nothing new, a part of its
\* file, or (make removes a target that it was interrupted at) no file.
Breaks(d, step, t) ==
  {d, Write(d, Writes(step), t, FALSE)}
  \cup IF Writes(step) \in {"src", "build"} THEN {}
       ELSE {Write(d, Writes(step), 0, FALSE)}
-----------------------------------------------------------------------------
VARIABLES
  disk,     \* per benchmark: the time of each file, and the set of whole files
  clock,    \* the time
  at,       \* build.sh: benchmark, rule and step it is at; idle at benchmark 0
  builds,   \* the runs of build.sh so far
  made,     \* per benchmark: the makes that ended, not killed, since a clean
  cleans,   \* the uses of make clean so far
  hurts,    \* the failing tools and kills so far
  hurt      \* <<benchmark, file>>: what they have spoilt and no clean removed

vars == <<disk, clock, at, builds, made, cleans, hurts, hurt>>

Idle == [bench |-> 0, rule |-> 1, step |-> 0]
Fresh(b) ==
  [at |-> [f \in Files |-> IF f = "input" THEN CheckedOut ELSE 0], whole |-> {}]

Init ==
  /\ disk = [b \in Listed |-> Fresh(b)]
  /\ clock = CheckedOut
  /\ at = Idle
  /\ builds = 0
  /\ made = [b \in Listed |-> 0]
  /\ cleans = 0
  /\ hurts = 0
  /\ hurt = {}

Bench == Order[at.bench]
Here == Makefile(Bench)[at.rule]
Step == Here.recipe[at.step]

(* The operator runs build.sh, again or for the first time.                *)
Launch ==
  /\ at = Idle
  /\ builds < MaxBuilds
  /\ builds' = builds + 1
  /\ at' = [Idle EXCEPT !.bench = 1]
  /\ UNCHANGED <<disk, clock, made, cleans, hurts, hurt>>

\* make ends, whatever its status: build.sh goes on with the next benchmark.
MakeEnds ==
  /\ at' = IF at.bench < Len(Order) THEN [Idle EXCEPT !.bench = at.bench + 1] ELSE Idle
  /\ made' = [made EXCEPT ![Bench] = @ + 1]

\* The rule at hand is done with: on to the next, or to the next make.
RuleDone ==
  IF at.rule < Len(Makefile(Bench))
  THEN at' = [at EXCEPT !.rule = @ + 1, !.step = 0] /\ UNCHANGED made
  ELSE MakeEnds

StepDone ==
  IF at.step < Len(Here.recipe)
  THEN at' = [at EXCEPT !.step = @ + 1] /\ UNCHANGED made
  ELSE RuleDone

Stale(d, r) ==
  \/ d.at[r.target] = 0
  \/ \E f \in r.needs : d.at[f] = 0 \/ d.at[f] > d.at[r.target]

Decide ==
  /\ at.bench # 0 /\ at.step = 0
  /\ IF Stale(disk[Bench], Here)
     THEN at' = [at EXCEPT !.step = 1] /\ UNCHANGED made
     ELSE RuleDone
  /\ UNCHANGED <<disk, clock, builds, cleans, hurts, hurt>>

Running == at.bench # 0 /\ at.step # 0

RunStep ==
  /\ Running
  /\ Works(Bench, disk[Bench], Step)
  /\ clock' = clock + 1
  /\ disk' = [disk EXCEPT ![Bench] = Does(Bench, @, Step, clock')]
  /\ StepDone
  /\ UNCHANGED <<builds, cleans, hurts, hurt>>

(* A step that cannot work: make gives up on this benchmark, and build.sh  *)
(* goes on with the next one, unless the failure is masked.                *)
FailStep ==
  /\ Running
  /\ ~Works(Bench, disk[Bench], Step)
  /\ IF Masked(Bench, Step) THEN StepDone ELSE MakeEnds
  /\ UNCHANGED <<disk, clock, builds, cleans, hurts, hurt>>

Hurts ==
  /\ Running
  /\ hurts < MaxHurts
  /\ hurts' = hurts + 1
  /\ clock' = clock + 1
  /\ disk' \in {[disk EXCEPT ![Bench] = d] : d \in Breaks(disk[Bench], Step, clock')}
  /\ hurt' = hurt \cup {<<Bench, Writes(Step)>>}
  /\ UNCHANGED <<builds, cleans>>

(* A tool fails: no space, no memory, a missing package.                   *)
ToolFails ==
  /\ Hurts
  /\ IF Masked(Bench, Step) THEN StepDone ELSE MakeEnds

(* The operator interrupts build.sh and everything it runs.                *)
Kill ==
  /\ Hurts
  /\ at' = Idle
  /\ UNCHANGED made

(* make -C <benchmark> clean                                               *)
Clean(b) ==
  /\ at = Idle
  /\ cleans < MaxCleans
  /\ cleans' = cleans + 1
  /\ disk' = [disk EXCEPT ![b] = Remove(@, clean(b))]
  /\ made' = [made EXCEPT ![b] = 0]
  /\ hurt' = {h \in hurt : ~(h[1] = b /\ h[2] \in clean(b))}
  /\ UNCHANGED <<clock, at, builds, hurts>>

Next ==
  \/ Launch
  \/ Decide
  \/ RunStep
  \/ FailStep
  \/ ToolFails
  \/ Kill
  \/ \E b \in Listed : Clean(b)

Spec == Init /\ [][Next]_vars
-----------------------------------------------------------------------------
Unhurt(b) == \A h \in hurt : h[1] # b

\* The makes it takes to get the bitcode of a benchmark.
MakesFor(b) == IF b = "coreutils" THEN 2 ELSE 1

(* README: "Compile the benchmarks: cd benchmarks; ./build.sh".  Where no  *)
(* tool failed and nothing was killed, one make yields the bitcode.        *)
CompiledByBuild ==
  hurts = 0 => \A b \in Listed : made[b] >= 1 => "bc" \in disk[b].whole

(* Whatever fails or is killed in one benchmark, the others get their      *)
(* bitcode and keep it through every later build; so does the benchmark    *)
(* itself after a clean that removes what was spoilt.                      *)
BuiltUnlessHurt ==
  \A b \in Listed :
    Unhurt(b) /\ made[b] >= MakesFor(b) => "bc" \in disk[b].whole

(* Building again what is built repeats no configure, no compilation and   *)
(* no link, although the archives are unpacked again each time: the sources *)
(* keep their old times.                                                   *)
RebuildIsCheap ==
  Running /\ Unhurt(Bench) /\ made[Bench] >= MakesFor(Bench) =>
    Step \in {"unpack", "make -C", "extract-bc lib", "extract_bc.sh"}
=============================================================================
