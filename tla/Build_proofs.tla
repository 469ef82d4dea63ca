---------------------------- MODULE Build_proofs ----------------------------
(***************************************************************************)
(* Whatever the order of the benchmarks, the number of builds and cleans,  *)
(* and whatever fails or is killed, a benchmark that nothing spoilt is     *)
(* built, and building it again is cheap.                                  *)
(*                                                                         *)
(* The argument is about one benchmark at a time.  A file is affected when *)
(* it or a file it is made from was spoilt.  Of the files that are not,    *)
(* one that is there is whole and newer than what it is made from, except  *)
(* while its recipe runs; this survives the spoiling of other files, and a *)
(* clean, because what a clean leaves is made from nothing it removes.     *)
(***************************************************************************)
EXTENDS Build, TLAPS

(* The files that a file is made from, in any benchmark, and itself.       *)
Behind(f) ==
  CASE f = "src"    -> {"src"}
    [] f = "script" -> {"src", "script"}
    [] f = "build"  -> {"src", "script", "build"}
    [] f = "lib"    -> {"src", "script", "build", "lib"}
    [] f = "obj"    -> {"src", "obj"}
    [] f = "prog"   -> Made \ {"bc"}
    [] OTHER        -> Made

Affected(H, f) == Behind(f) \cap H # {}

(* A rule that is not repeated when its target is there.                   *)
Firm(r) == r.recipe[1] # "unpack" /\ r.target # "phony" /\ "phony" \notin r.needs

(* The target has been made: the build directory of sqlite stays empty.    *)
There(b, d, f) ==
  IF b = "sqlite" /\ f = "build" THEN d.at[f] # 0 ELSE f \in d.whole

Good(b, d, r) ==
  /\ There(b, d, r.target)
  /\ Firm(r) => r.needs \ {"input"} \subseteq d.whole /\ ~ Stale(d, r)

-----------------------------------------------------------------------------
(* The invariant of benchmark b, with files d at time t, when its make is  *)
(* at step s of rule i (0 and 0 when it is not running), m makes ended,    *)
(* and the files of H are spoilt.                                          *)
Disks == [at : [Files -> Nat], whole : SUBSET Files]

Sane(d, t, m, H) ==
  /\ d \in Disks
  /\ t \in Nat /\ t >= CheckedOut /\ \A f \in Files : d.at[f] <= t
  /\ d.at["input"] = CheckedOut /\ d.at["phony"] = 0
  /\ \A f \in d.whole : d.at[f] # 0
  /\ m \in Nat /\ H \subseteq Made

Place(b, i, s) ==
  \/ i = 0 /\ s = 0
  \/ i \in 1 .. Len(Makefile(b)) /\ s \in 0 .. Len(Makefile(b)[i].recipe)

(* What is there is good, unless its recipe has begun to write it.         *)
KeptAt(b, d, H, j) ==
  LET r == Makefile(b)[j] IN
  r.target # "phony" /\ ~ Affected(H, r.target) /\ d.at[r.target] # 0 => Good(b, d, r)

Kept(b, d, i, s, H) ==
  \A j \in 1 .. Len(Makefile(b)) : (j = i /\ s > 1) \/ KeptAt(b, d, H, j)

(* Rule j has been made.                                                   *)
PassedAt(b, d, H, j) ==
  LET f == Makefile(b)[j].target IN
  IF f = "phony" THEN "lib" \in d.whole ELSE Affected(H, f) \/ There(b, d, f)

Passed(b, d, i, H) == \A j \in 1 .. i - 1 : PassedAt(b, d, H, j)

(* So have all, if a make ended and nothing is spoilt.                     *)
Complete(b, d, m, H) ==
  H = {} /\ m >= 1 =>
    /\ \A j \in 1 .. Len(Makefile(b)) : PassedAt(b, d, H, j)
    /\ m >= MakesFor(b) => "bc" \in d.whole

(* What the steps of a recipe before this one have left.                   *)
SoFar(b, d, i, s, m, H) ==
  LET r == Makefile(b)[i]
      st == r.recipe[s]
  IN i # 0 /\ s # 0 =>
       /\ Firm(r) /\ ~ Affected(H, r.target) =>
            /\ H = {} => m = 0
            /\ IF st = "llvm-dis" THEN Good(b, d, r) ELSE r.target \notin d.whole
            /\ st = "mkdir" => d.at["build"] = 0
            /\ st \in {"configure", "configure; cd -"} /\ b = "json" => "script" \in d.whole
            /\ st = "extract-bc lib" => "lib" \in d.whole
       /\ st = "make -C" /\ b = "coreutils" /\ H = {} /\ m >= 1 => "bc" \in d.whole

Sound(b, d, t, i, s, m, H) ==
  /\ Sane(d, t, m, H)
  /\ Place(b, i, s)
  /\ Kept(b, d, i, s, H)
  /\ Passed(b, d, i, H)
  /\ Complete(b, d, m, H)
  /\ SoFar(b, d, i, s, m, H)

-----------------------------------------------------------------------------
(* The state of build.sh.                                                  *)
AtHand(b) == at.bench # 0 /\ Order[at.bench] = b
RuleAt(b) == IF AtHand(b) THEN at.rule ELSE 0
StepAt(b) == IF AtHand(b) THEN at.step ELSE 0
Spoilt(b) == {f \in Made : <<b, f>> \in hurt}

IInv ==
  /\ at \in [bench : 0 .. Len(Order), rule : Nat, step : Nat]
  /\ at.bench = 0 => at = Idle
  /\ at.bench # 0 => at.rule # 0
  /\ DOMAIN disk = Listed /\ DOMAIN made = Listed
  /\ hurt \subseteq Listed \X Made
  /\ clock \in Nat /\ clock >= CheckedOut
  /\ \A b \in Listed : Sound(b, disk[b], clock, RuleAt(b), StepAt(b), made[b], Spoilt(b))

-----------------------------------------------------------------------------
(* The Makefiles, rule by rule.                                            *)
One(r, f, needs, a) ==
  r.target = f /\ r.needs = needs /\ Len(r.recipe) = 1 /\ r.recipe[1] = a
Two(r, f, needs, a, b) ==
  /\ r.target = f /\ r.needs = needs /\ Len(r.recipe) = 2
  /\ r.recipe[1] = a /\ r.recipe[2] = b
Three(r, f, needs, a, b, c) ==
  /\ r.target = f /\ r.needs = needs /\ Len(r.recipe) = 3
  /\ r.recipe[1] = a /\ r.recipe[2] = b /\ r.recipe[3] = c

LEMMA Shapes ==
  ASSUME NEW f, NEW needs, NEW a, NEW b, NEW c
  PROVE  /\ One(Rule(f, needs, <<a>>), f, needs, a)
         /\ Two(Rule(f, needs, <<a, b>>), f, needs, a, b)
         /\ Three(Rule(f, needs, <<a, b, c>>), f, needs, a, b, c)
BY DEF One, Two, Three, Rule

M4Shape(M) ==
  /\ Len(M) = 3
  /\ One(M[1], "src", {}, "unpack")
  /\ Three(M[2], "build", {"src"}, "rm build", "mkdir", "configure; cd -")
  /\ Two(M[3], "bc", {"build"}, "make -C", "extract-bc lib")

MakeShape(M) ==
  /\ Len(M) = 4
  /\ Two(M[1], "src", {"input"}, "unpack to patch", "patch")
  /\ Two(M[2], "build", {"src"}, "mkdir", "configure; cd -")
  /\ One(M[3], "phony", {"build"}, "make -C")
  /\ One(M[4], "bc", {"phony"}, "extract-bc lib")

SqliteShape(M) ==
  /\ Len(M) = 4
  /\ One(M[1], "build", {}, "mkdir -p")
  /\ One(M[2], "obj", {"input"}, "cc")
  /\ One(M[3], "lib", {"input"}, "cc lib")
  /\ One(M[4], "bc", {"obj", "lib"}, "llvm-link")

AprShape(M) ==
  /\ Len(M) = 6
  /\ One(M[1], "src", {"input"}, "unpack")
  /\ Two(M[2], "build", {"src"}, "mkdir -p", "configure; cd -")
  /\ One(M[3], "obj", {"input", "src"}, "cc")
  /\ One(M[4], "lib", {"build"}, "make -C")
  /\ One(M[5], "prog", {"build", "obj", "lib"}, "link")
  /\ One(M[6], "bc", {"prog"}, "extract-bc")

LibraryShape(M, configure) ==
  /\ Len(M) = 6
  /\ One(M[1], "src", {"input"}, "unpack")
  /\ One(M[2], "obj", {"input", "src"}, "cc")
  /\ Two(M[3], "build", {"src"}, "mkdir -p", configure)
  /\ One(M[4], "lib", {"build"}, "make -C")
  /\ One(M[5], "prog", {"obj", "lib"}, "link")
  /\ Three(M[6], "bc", {"prog"}, "extract-bc to opt", "opt", "llvm-dis")

JsonShape(M) ==
  /\ Len(M) = 6
  /\ Two(M[1], "src", {"input"}, "unpack to patch", "patch")
  /\ Three(M[2], "build", {"src"}, "mkdir -p", "autogen; cd -", "configure; cd -")
  /\ One(M[3], "lib", {"build"}, "make -C")
  /\ One(M[4], "obj", {"input"}, "cc")
  /\ One(M[5], "prog", {"lib", "obj"}, "link")
  /\ Three(M[6], "bc", {"prog"}, "extract-bc to opt", "opt", "llvm-dis")

CoreutilsShape(M) ==
  /\ Len(M) = 3
  /\ One(M[1], "src", {}, "unpack")
  /\ Three(M[2], "build", {"src"}, "rm build", "mkdir", "configure; cd -")
  /\ Two(M[3], "phony", {"build"}, "extract_bc.sh", "make -C")

LEMMA M4Is == M4Shape(m4_Makefile)
<1>1. /\ Len(m4_Makefile) = 3
      /\ m4_Makefile[1] = Rule("src", {}, <<"unpack">>)
      /\ m4_Makefile[2] = Rule("build", {"src"}, <<"rm build", "mkdir", "configure; cd -">>)
      /\ m4_Makefile[3] = Rule("bc", {"build"}, <<"make -C", "extract-bc lib">>)
  BY DEF m4_Makefile
<1> QED
  BY <1>1, Shapes, Zenon DEF M4Shape

LEMMA MakeIs == MakeShape(make_Makefile)
<1>1. /\ Len(make_Makefile) = 4
      /\ make_Makefile[1] = Rule("src", {"input"}, <<"unpack to patch", "patch">>)
      /\ make_Makefile[2] = Rule("build", {"src"}, <<"mkdir", "configure; cd -">>)
      /\ make_Makefile[3] = Rule("phony", {"build"}, <<"make -C">>)
      /\ make_Makefile[4] = Rule("bc", {"phony"}, <<"extract-bc lib">>)
  BY DEF make_Makefile
<1> QED
  BY <1>1, Shapes, Zenon DEF MakeShape

LEMMA SqliteIs == SqliteShape(sqlite_Makefile)
<1>1. /\ Len(sqlite_Makefile) = 4
      /\ sqlite_Makefile[1] = Rule("build", {}, <<"mkdir -p">>)
      /\ sqlite_Makefile[2] = Rule("obj", {"input"}, <<"cc">>)
      /\ sqlite_Makefile[3] = Rule("lib", {"input"}, <<"cc lib">>)
      /\ sqlite_Makefile[4] = Rule("bc", {"obj", "lib"}, <<"llvm-link">>)
  BY DEF sqlite_Makefile
<1> QED
  BY <1>1, Shapes, Zenon DEF SqliteShape

LEMMA AprIs == AprShape(apr_Makefile)
<1>1. /\ Len(apr_Makefile) = 6
      /\ apr_Makefile[1] = Rule("src", {"input"}, <<"unpack">>)
      /\ apr_Makefile[2] = Rule("build", {"src"}, <<"mkdir -p", "configure; cd -">>)
      /\ apr_Makefile[3] = Rule("obj", {"input", "src"}, <<"cc">>)
      /\ apr_Makefile[4] = Rule("lib", {"build"}, <<"make -C">>)
      /\ apr_Makefile[5] = Rule("prog", {"build", "obj", "lib"}, <<"link">>)
      /\ apr_Makefile[6] = Rule("bc", {"prog"}, <<"extract-bc">>)
  BY DEF apr_Makefile
<1> QED
  BY <1>1, Shapes, Zenon DEF AprShape

LEMMA LibraryIs == ASSUME NEW configure PROVE LibraryShape(Library(configure), configure)
<1>1. /\ Len(Library(configure)) = 6
      /\ Library(configure)[1] = Rule("src", {"input"}, <<"unpack">>)
      /\ Library(configure)[2] = Rule("obj", {"input", "src"}, <<"cc">>)
      /\ Library(configure)[3] = Rule("build", {"src"}, <<"mkdir -p", configure>>)
      /\ Library(configure)[4] = Rule("lib", {"build"}, <<"make -C">>)
      /\ Library(configure)[5] = Rule("prog", {"obj", "lib"}, <<"link">>)
      /\ Library(configure)[6] = Rule("bc", {"prog"}, <<"extract-bc to opt", "opt", "llvm-dis">>)
  BY DEF Library
<1> QED
  BY <1>1, Shapes, Zenon DEF LibraryShape

LEMMA JsonIs == JsonShape(json_Makefile)
<1>1. /\ Len(json_Makefile) = 6
      /\ json_Makefile[1] = Rule("src", {"input"}, <<"unpack to patch", "patch">>)
      /\ json_Makefile[2] = Rule("build", {"src"}, <<"mkdir -p", "autogen; cd -", "configure; cd -">>)
      /\ json_Makefile[3] = Rule("lib", {"build"}, <<"make -C">>)
      /\ json_Makefile[4] = Rule("obj", {"input"}, <<"cc">>)
      /\ json_Makefile[5] = Rule("prog", {"lib", "obj"}, <<"link">>)
      /\ json_Makefile[6] = Rule("bc", {"prog"}, <<"extract-bc to opt", "opt", "llvm-dis">>)
  BY DEF json_Makefile
<1> QED
  BY <1>1, Shapes, Zenon DEF JsonShape

LEMMA CoreutilsIs == CoreutilsShape(coreutils_Makefile)
<1>1. /\ Len(coreutils_Makefile) = 3
      /\ coreutils_Makefile[1] = Rule("src", {}, <<"unpack">>)
      /\ coreutils_Makefile[2] = Rule("build", {"src"}, <<"rm build", "mkdir", "configure; cd -">>)
      /\ coreutils_Makefile[3] = Rule("phony", {"build"}, <<"extract_bc.sh", "make -C">>)
  BY DEF coreutils_Makefile
<1> QED
  BY <1>1, Shapes, Zenon DEF CoreutilsShape

Shape(b, M) ==
  \/ b = "m4" /\ M4Shape(M)
  \/ b \in {"make", "bash"} /\ MakeShape(M)
  \/ b = "sqlite" /\ SqliteShape(M)
  \/ b = "apr" /\ AprShape(M)
  \/ b \in {"libxml2", "expat"} /\ LibraryShape(M, "configure; cd -")
  \/ b \in {"libosip", "libyaml"} /\ LibraryShape(M, "configure")
  \/ b = "json" /\ JsonShape(M)
  \/ b = "coreutils" /\ CoreutilsShape(M)

LEMMA ShapeIs == ASSUME NEW b \in Benchmarks PROVE Shape(b, Makefile(b))
<1>1. CASE b = "m4"
  BY <1>1, M4Is DEF Makefile, Shape
<1>2. CASE b = "make"
  BY <1>2, MakeIs DEF Makefile, Shape
<1>3. CASE b = "sqlite"
  BY <1>3, SqliteIs DEF Makefile, Shape
<1>4. CASE b = "apr"
  BY <1>4, AprIs DEF Makefile, Shape
<1>5. CASE b = "libxml2"
  BY <1>5, LibraryIs DEF Makefile, Shape, libxml2_Makefile
<1>6. CASE b = "expat"
  BY <1>6, LibraryIs DEF Makefile, Shape, expat_Makefile
<1>7. CASE b = "bash"
  BY <1>7, MakeIs DEF Makefile, Shape, bash_Makefile
<1>8. CASE b = "json"
  BY <1>8, JsonIs DEF Makefile, Shape
<1>9. CASE b = "libosip"
  BY <1>9, LibraryIs DEF Makefile, Shape, libosip_Makefile
<1>10. CASE b = "libyaml"
  BY <1>10, LibraryIs DEF Makefile, Shape, libyaml_Makefile
<1>11. CASE b = "coreutils"
  BY <1>11, CoreutilsIs DEF Makefile, Shape
<1> QED
  BY <1>1, <1>2, <1>3, <1>4, <1>5, <1>6, <1>7, <1>8, <1>9, <1>10, <1>11 DEF Benchmarks

(* The same as cases of the rule r at place i of the Makefile of b.        *)
M4Rule(i, r) ==
  \/ i = 1 /\ One(r, "src", {}, "unpack")
  \/ i = 2 /\ Three(r, "build", {"src"}, "rm build", "mkdir", "configure; cd -")
  \/ i = 3 /\ Two(r, "bc", {"build"}, "make -C", "extract-bc lib")

MakeRule(i, r) ==
  \/ i = 1 /\ Two(r, "src", {"input"}, "unpack to patch", "patch")
  \/ i = 2 /\ Two(r, "build", {"src"}, "mkdir", "configure; cd -")
  \/ i = 3 /\ One(r, "phony", {"build"}, "make -C")
  \/ i = 4 /\ One(r, "bc", {"phony"}, "extract-bc lib")

SqliteRule(i, r) ==
  \/ i = 1 /\ One(r, "build", {}, "mkdir -p")
  \/ i = 2 /\ One(r, "obj", {"input"}, "cc")
  \/ i = 3 /\ One(r, "lib", {"input"}, "cc lib")
  \/ i = 4 /\ One(r, "bc", {"obj", "lib"}, "llvm-link")

AprRule(i, r) ==
  \/ i = 1 /\ One(r, "src", {"input"}, "unpack")
  \/ i = 2 /\ Two(r, "build", {"src"}, "mkdir -p", "configure; cd -")
  \/ i = 3 /\ One(r, "obj", {"input", "src"}, "cc")
  \/ i = 4 /\ One(r, "lib", {"build"}, "make -C")
  \/ i = 5 /\ One(r, "prog", {"build", "obj", "lib"}, "link")
  \/ i = 6 /\ One(r, "bc", {"prog"}, "extract-bc")

LibraryRule(i, r, configure) ==
  \/ i = 1 /\ One(r, "src", {"input"}, "unpack")
  \/ i = 2 /\ One(r, "obj", {"input", "src"}, "cc")
  \/ i = 3 /\ Two(r, "build", {"src"}, "mkdir -p", configure)
  \/ i = 4 /\ One(r, "lib", {"build"}, "make -C")
  \/ i = 5 /\ One(r, "prog", {"obj", "lib"}, "link")
  \/ i = 6 /\ Three(r, "bc", {"prog"}, "extract-bc to opt", "opt", "llvm-dis")

JsonRule(i, r) ==
  \/ i = 1 /\ Two(r, "src", {"input"}, "unpack to patch", "patch")
  \/ i = 2 /\ Three(r, "build", {"src"}, "mkdir -p", "autogen; cd -", "configure; cd -")
  \/ i = 3 /\ One(r, "lib", {"build"}, "make -C")
  \/ i = 4 /\ One(r, "obj", {"input"}, "cc")
  \/ i = 5 /\ One(r, "prog", {"lib", "obj"}, "link")
  \/ i = 6 /\ Three(r, "bc", {"prog"}, "extract-bc to opt", "opt", "llvm-dis")

CoreutilsRule(i, r) ==
  \/ i = 1 /\ One(r, "src", {}, "unpack")
  \/ i = 2 /\ Three(r, "build", {"src"}, "rm build", "mkdir", "configure; cd -")
  \/ i = 3 /\ Two(r, "phony", {"build"}, "extract_bc.sh", "make -C")

KnownRule(b, i, n, r) ==
  \/ b = "m4" /\ n = 3 /\ M4Rule(i, r)
  \/ b \in {"make", "bash"} /\ n = 4 /\ MakeRule(i, r)
  \/ b = "sqlite" /\ n = 4 /\ SqliteRule(i, r)
  \/ b = "apr" /\ n = 6 /\ AprRule(i, r)
  \/ b \in {"libxml2", "expat"} /\ n = 6 /\ LibraryRule(i, r, "configure; cd -")
  \/ b \in {"libosip", "libyaml"} /\ n = 6 /\ LibraryRule(i, r, "configure")
  \/ b = "json" /\ n = 6 /\ JsonRule(i, r)
  \/ b = "coreutils" /\ n = 3 /\ CoreutilsRule(i, r)

LEMMA RuleIs ==
  ASSUME NEW b \in Benchmarks, NEW i \in 1 .. Len(Makefile(b))
  PROVE  KnownRule(b, i, Len(Makefile(b)), Makefile(b)[i])
<1> DEFINE M == Makefile(b)
<1>0. Shape(b, M) /\ i \in 1 .. Len(M)
  BY ShapeIs
<1> SUFFICES KnownRule(b, i, Len(M), M[i])
  OBVIOUS
<1> HIDE DEF M
<1>1. ASSUME M4Shape(M) PROVE Len(M) = 3 /\ M4Rule(i, M[i])
  <2>1. Len(M) = 3
    BY <1>1 DEF M4Shape
  <2>2. i = 1 \/ i = 2 \/ i = 3
    BY <1>0, <2>1
  <2> QED
    BY <1>1, <2>1, <2>2 DEF M4Shape, M4Rule
<1>2. ASSUME MakeShape(M) PROVE Len(M) = 4 /\ MakeRule(i, M[i])
  <2>1. Len(M) = 4
    BY <1>2 DEF MakeShape
  <2>2. i = 1 \/ i = 2 \/ i = 3 \/ i = 4
    BY <1>0, <2>1
  <2> QED
    BY <1>2, <2>1, <2>2 DEF MakeShape, MakeRule
<1>3. ASSUME SqliteShape(M) PROVE Len(M) = 4 /\ SqliteRule(i, M[i])
  <2>1. Len(M) = 4
    BY <1>3 DEF SqliteShape
  <2>2. i = 1 \/ i = 2 \/ i = 3 \/ i = 4
    BY <1>0, <2>1
  <2> QED
    BY <1>3, <2>1, <2>2 DEF SqliteShape, SqliteRule
<1>4. ASSUME AprShape(M) PROVE Len(M) = 6 /\ AprRule(i, M[i])
  <2>1. Len(M) = 6
    BY <1>4 DEF AprShape
  <2>2. i = 1 \/ i = 2 \/ i = 3 \/ i = 4 \/ i = 5 \/ i = 6
    BY <1>0, <2>1
  <2> QED
    BY <1>4, <2>1, <2>2 DEF AprShape, AprRule
<1>5. ASSUME LibraryShape(M, "configure; cd -") PROVE Len(M) = 6 /\ LibraryRule(i, M[i], "configure; cd -")
  <2>1. Len(M) = 6
    BY <1>5 DEF LibraryShape
  <2>2. i = 1 \/ i = 2 \/ i = 3 \/ i = 4 \/ i = 5 \/ i = 6
    BY <1>0, <2>1
  <2> QED
    BY <1>5, <2>1, <2>2 DEF LibraryShape, LibraryRule
<1>6. ASSUME LibraryShape(M, "configure") PROVE Len(M) = 6 /\ LibraryRule(i, M[i], "configure")
  <2>1. Len(M) = 6
    BY <1>6 DEF LibraryShape
  <2>2. i = 1 \/ i = 2 \/ i = 3 \/ i = 4 \/ i = 5 \/ i = 6
    BY <1>0, <2>1
  <2> QED
    BY <1>6, <2>1, <2>2 DEF LibraryShape, LibraryRule
<1>7. ASSUME JsonShape(M) PROVE Len(M) = 6 /\ JsonRule(i, M[i])
  <2>1. Len(M) = 6
    BY <1>7 DEF JsonShape
  <2>2. i = 1 \/ i = 2 \/ i = 3 \/ i = 4 \/ i = 5 \/ i = 6
    BY <1>0, <2>1
  <2> QED
    BY <1>7, <2>1, <2>2 DEF JsonShape, JsonRule
<1>8. ASSUME CoreutilsShape(M) PROVE Len(M) = 3 /\ CoreutilsRule(i, M[i])
  <2>1. Len(M) = 3
    BY <1>8 DEF CoreutilsShape
  <2>2. i = 1 \/ i = 2 \/ i = 3
    BY <1>0, <2>1
  <2> QED
    BY <1>8, <2>1, <2>2 DEF CoreutilsShape, CoreutilsRule
<1> QED
  BY <1>0, <1>1, <1>2, <1>3, <1>4, <1>5, <1>6, <1>7, <1>8, Zenon DEF Shape, KnownRule

(* Targets, needs and lengths alone.                                       *)
Makes(r, f, needs, n) == r.target = f /\ r.needs = needs /\ Len(r.recipe) = n

M4Makes(i, r) ==
  \/ i = 1 /\ Makes(r, "src", {}, 1)
  \/ i = 2 /\ Makes(r, "build", {"src"}, 3)
  \/ i = 3 /\ Makes(r, "bc", {"build"}, 2)

MakeMakes(i, r) ==
  \/ i = 1 /\ Makes(r, "src", {"input"}, 2)
  \/ i = 2 /\ Makes(r, "build", {"src"}, 2)
  \/ i = 3 /\ Makes(r, "phony", {"build"}, 1)
  \/ i = 4 /\ Makes(r, "bc", {"phony"}, 1)

SqliteMakes(i, r) ==
  \/ i = 1 /\ Makes(r, "build", {}, 1)
  \/ i = 2 /\ Makes(r, "obj", {"input"}, 1)
  \/ i = 3 /\ Makes(r, "lib", {"input"}, 1)
  \/ i = 4 /\ Makes(r, "bc", {"obj", "lib"}, 1)

AprMakes(i, r) ==
  \/ i = 1 /\ Makes(r, "src", {"input"}, 1)
  \/ i = 2 /\ Makes(r, "build", {"src"}, 2)
  \/ i = 3 /\ Makes(r, "obj", {"input", "src"}, 1)
  \/ i = 4 /\ Makes(r, "lib", {"build"}, 1)
  \/ i = 5 /\ Makes(r, "prog", {"build", "obj", "lib"}, 1)
  \/ i = 6 /\ Makes(r, "bc", {"prog"}, 1)

LibraryMakes(i, r) ==
  \/ i = 1 /\ Makes(r, "src", {"input"}, 1)
  \/ i = 2 /\ Makes(r, "obj", {"input", "src"}, 1)
  \/ i = 3 /\ Makes(r, "build", {"src"}, 2)
  \/ i = 4 /\ Makes(r, "lib", {"build"}, 1)
  \/ i = 5 /\ Makes(r, "prog", {"obj", "lib"}, 1)
  \/ i = 6 /\ Makes(r, "bc", {"prog"}, 3)

JsonMakes(i, r) ==
  \/ i = 1 /\ Makes(r, "src", {"input"}, 2)
  \/ i = 2 /\ Makes(r, "build", {"src"}, 3)
  \/ i = 3 /\ Makes(r, "lib", {"build"}, 1)
  \/ i = 4 /\ Makes(r, "obj", {"input"}, 1)
  \/ i = 5 /\ Makes(r, "prog", {"lib", "obj"}, 1)
  \/ i = 6 /\ Makes(r, "bc", {"prog"}, 3)

CoreutilsMakes(i, r) ==
  \/ i = 1 /\ Makes(r, "src", {}, 1)
  \/ i = 2 /\ Makes(r, "build", {"src"}, 3)
  \/ i = 3 /\ Makes(r, "phony", {"build"}, 2)

BriefRule(b, i, n, r) ==
  \/ b = "m4" /\ n = 3 /\ M4Makes(i, r)
  \/ b \in {"make", "bash"} /\ n = 4 /\ MakeMakes(i, r)
  \/ b = "sqlite" /\ n = 4 /\ SqliteMakes(i, r)
  \/ b = "apr" /\ n = 6 /\ AprMakes(i, r)
  \/ b \in {"libxml2", "expat", "libosip", "libyaml"} /\ n = 6 /\ LibraryMakes(i, r)
  \/ b = "json" /\ n = 6 /\ JsonMakes(i, r)
  \/ b = "coreutils" /\ n = 3 /\ CoreutilsMakes(i, r)

LEMMA RuleIsBrief ==
  ASSUME NEW b, NEW i, NEW n, NEW r, KnownRule(b, i, n, r)
  PROVE  BriefRule(b, i, n, r)
<1>1. ASSUME NEW f, NEW needs, NEW a, NEW c, NEW e
      PROVE  /\ One(r, f, needs, a) => Makes(r, f, needs, 1)
             /\ Two(r, f, needs, a, c) => Makes(r, f, needs, 2)
             /\ Three(r, f, needs, a, c, e) => Makes(r, f, needs, 3)
  BY DEF One, Two, Three, Makes
<1>2. M4Rule(i, r) => M4Makes(i, r)
  BY <1>1, Zenon DEF M4Rule, M4Makes
<1>3. MakeRule(i, r) => MakeMakes(i, r)
  BY <1>1, Zenon DEF MakeRule, MakeMakes
<1>4. SqliteRule(i, r) => SqliteMakes(i, r)
  BY <1>1, Zenon DEF SqliteRule, SqliteMakes
<1>5. AprRule(i, r) => AprMakes(i, r)
  BY <1>1, Zenon DEF AprRule, AprMakes
<1>6. ASSUME NEW configure, LibraryRule(i, r, configure) PROVE LibraryMakes(i, r)
  BY <1>6, <1>1, Zenon DEF LibraryRule, LibraryMakes
<1>7. JsonRule(i, r) => JsonMakes(i, r)
  BY <1>1, Zenon DEF JsonRule, JsonMakes
<1>8. CoreutilsRule(i, r) => CoreutilsMakes(i, r)
  BY <1>1, Zenon DEF CoreutilsRule, CoreutilsMakes
<1> QED
  BY <1>2, <1>3, <1>4, <1>5, <1>6, <1>7, <1>8 DEF KnownRule, BriefRule

-----------------------------------------------------------------------------
(* What the proofs use of them.                                            *)

(* The place of the rule that makes a file.                                *)
Turn(b, f) ==
  IF b \in {"m4", "coreutils"}
  THEN IF f = "src" THEN 1 ELSE IF f = "build" THEN 2 ELSE 3
  ELSE IF b \in {"make", "bash"}
  THEN IF f = "src" THEN 1 ELSE IF f = "build" THEN 2 ELSE IF f = "phony" THEN 3 ELSE 4
  ELSE IF b = "sqlite"
  THEN IF f = "build" THEN 1 ELSE IF f = "obj" THEN 2 ELSE IF f = "lib" THEN 3 ELSE 4
  ELSE IF b = "apr"
  THEN IF f = "src" THEN 1 ELSE IF f = "build" THEN 2 ELSE IF f = "obj" THEN 3
       ELSE IF f = "lib" THEN 4 ELSE IF f = "prog" THEN 5 ELSE 6
  ELSE IF b = "json"
  THEN IF f = "src" THEN 1 ELSE IF f = "build" THEN 2 ELSE IF f = "lib" THEN 3
       ELSE IF f = "obj" THEN 4 ELSE IF f = "prog" THEN 5 ELSE 6
  ELSE IF f = "src" THEN 1 ELSE IF f = "obj" THEN 2 ELSE IF f = "build" THEN 3
       ELSE IF f = "lib" THEN 4 ELSE IF f = "prog" THEN 5 ELSE 6

RuleFacts(b, i, n, r) ==
  /\ i \in 1 .. n /\ n \in {3, 4, 6}
  /\ r.target \in {"src", "build", "lib", "obj", "prog", "bc", "phony"}
  /\ r.needs \subseteq {"src", "build", "lib", "obj", "prog", "phony", "input"}
  /\ Len(r.recipe) \in {1, 2, 3}
  /\ i = Turn(b, r.target)
  /\ r.target = "phony" => i = 3 /\ b \in {"make", "bash", "coreutils"}
  /\ "phony" \in r.needs => i = 4 /\ b \in {"make", "bash"} /\ r.target = "bc"
  /\ i > 3 /\ b \in {"make", "bash", "coreutils"} => r.target = "bc"
  /\ i = n => r.target = IF b = "coreutils" THEN "phony" ELSE "bc"
  /\ r.target \in {"src", "build", "lib", "obj", "prog"} => i < n

LEMMA RuleFactsHold ==
  ASSUME NEW b, NEW i, NEW n, NEW r, BriefRule(b, i, n, r)
  PROVE  RuleFacts(b, i, n, r)
<1>1. CASE b = "m4" /\ n = 3 /\ M4Makes(i, r)
  BY <1>1 DEF M4Makes, Makes, RuleFacts, Turn
<1>2. CASE b \in {"make", "bash"} /\ n = 4 /\ MakeMakes(i, r)
  BY <1>2 DEF MakeMakes, Makes, RuleFacts, Turn
<1>3. CASE b = "sqlite" /\ n = 4 /\ SqliteMakes(i, r)
  BY <1>3 DEF SqliteMakes, Makes, RuleFacts, Turn
<1>4. CASE b = "apr" /\ n = 6 /\ AprMakes(i, r)
  BY <1>4 DEF AprMakes, Makes, RuleFacts, Turn
<1>5. CASE b \in {"libxml2", "expat", "libosip", "libyaml"} /\ n = 6 /\ LibraryMakes(i, r)
  BY <1>5 DEF LibraryMakes, Makes, RuleFacts, Turn
<1>6. CASE b = "json" /\ n = 6 /\ JsonMakes(i, r)
  BY <1>6 DEF JsonMakes, Makes, RuleFacts, Turn
<1>7. CASE b = "coreutils" /\ n = 3 /\ CoreutilsMakes(i, r)
  BY <1>7 DEF CoreutilsMakes, Makes, RuleFacts, Turn
<1> QED
  BY <1>1, <1>2, <1>3, <1>4, <1>5, <1>6, <1>7 DEF BriefRule

(* What a target is made from is behind it, and made before.               *)
LEMMA NeedsBehind ==
  ASSUME NEW b, NEW i, NEW n, NEW r, BriefRule(b, i, n, r), r.target # "phony",
         NEW g \in r.needs \ {"input", "phony"}
  PROVE  /\ g \in Made /\ g # r.target /\ Behind(g) \subseteq Behind(r.target)
         /\ g \in Behind(g) /\ Turn(b, g) \in {1, 2, 3, 4, 5} /\ Turn(b, g) < i
<1>1. CASE b = "m4" /\ n = 3 /\ M4Makes(i, r)
  BY <1>1 DEF M4Makes, Makes, Turn, Behind, Made
<1>2. CASE b \in {"make", "bash"} /\ n = 4 /\ MakeMakes(i, r)
  BY <1>2 DEF MakeMakes, Makes, Turn, Behind, Made
<1>3. CASE b = "sqlite" /\ n = 4 /\ SqliteMakes(i, r)
  BY <1>3 DEF SqliteMakes, Makes, Turn, Behind, Made
<1>4. CASE b = "apr" /\ n = 6 /\ AprMakes(i, r)
  BY <1>4 DEF AprMakes, Makes, Turn, Behind, Made
<1>5. CASE b \in {"libxml2", "expat", "libosip", "libyaml"} /\ n = 6 /\ LibraryMakes(i, r)
  BY <1>5 DEF LibraryMakes, Makes, Turn, Behind, Made
<1>6. CASE b = "json" /\ n = 6 /\ JsonMakes(i, r)
  BY <1>6 DEF JsonMakes, Makes, Turn, Behind, Made
<1>7. CASE b = "coreutils" /\ n = 3 /\ CoreutilsMakes(i, r)
  BY <1>7 DEF CoreutilsMakes, Makes, Turn, Behind, Made
<1> QED
  BY <1>1, <1>2, <1>3, <1>4, <1>5, <1>6, <1>7 DEF BriefRule

(* What a clean leaves is made from nothing that it removes.               *)
LEMMA CleanLeaves ==
  ASSUME NEW b, NEW i, NEW n, NEW r, BriefRule(b, i, n, r),
         r.target \notin clean(b) \cup {"phony"}
  PROVE  Behind(r.target) \cap clean(b) = {} /\ r.needs \cap clean(b) = {}
<1>1. CASE b = "m4" /\ n = 3 /\ M4Makes(i, r)
  BY <1>1 DEF M4Makes, Makes, Behind, Made, clean, InBuild
<1>2. CASE b \in {"make", "bash"} /\ n = 4 /\ MakeMakes(i, r)
  BY <1>2 DEF MakeMakes, Makes, Behind, Made, clean, InBuild
<1>3. CASE b = "sqlite" /\ n = 4 /\ SqliteMakes(i, r)
  BY <1>3 DEF SqliteMakes, Makes, Behind, Made, clean, InBuild
<1>4. CASE b = "apr" /\ n = 6 /\ AprMakes(i, r)
  BY <1>4 DEF AprMakes, Makes, Behind, Made, clean, InBuild
<1>5. CASE b \in {"libxml2", "expat", "libosip", "libyaml"} /\ n = 6 /\ LibraryMakes(i, r)
  BY <1>5 DEF LibraryMakes, Makes, Behind, Made, clean, InBuild
<1>6. CASE b = "json" /\ n = 6 /\ JsonMakes(i, r)
  BY <1>6 DEF JsonMakes, Makes, Behind, Made, clean, InBuild
<1>7. CASE b = "coreutils" /\ n = 3 /\ CoreutilsMakes(i, r)
  BY <1>7 DEF CoreutilsMakes, Makes, Behind, Made, clean, InBuild
<1> QED
  BY <1>1, <1>2, <1>3, <1>4, <1>5, <1>6, <1>7 DEF BriefRule

-----------------------------------------------------------------------------
(* The steps and where they are: the rule's target f and its length n.     *)
StepKnown(b, i, s, r) ==
  LET st == r.recipe[s]
      f == r.target
      n == Len(r.recipe)
  IN
  \/ st = "unpack" /\ f = "src" /\ s = 1 /\ n = 1 /\ ~ Firm(r)
  \/ st = "unpack to patch" /\ f = "src" /\ s = 1 /\ n = 2 /\ Firm(r) /\ r.recipe[2] = "patch"
  \/ st = "patch" /\ f = "src" /\ s = 2 /\ n = 2 /\ Firm(r)
  \/ st = "rm build" /\ f = "build" /\ s = 1 /\ n = 3 /\ Firm(r) /\ r.recipe[2] = "mkdir"
     /\ b \in {"m4", "coreutils"}
  \/ st = "mkdir" /\ f = "build" /\ s = 2 /\ n = 3 /\ Firm(r)
     /\ r.recipe[3] = "configure; cd -" /\ b \in {"m4", "coreutils"}
  \/ st = "mkdir" /\ f = "build" /\ s = 1 /\ n = 2 /\ Firm(r)
     /\ r.recipe[2] = "configure; cd -" /\ b \in {"make", "bash"}
  \/ st = "mkdir -p" /\ f = "build" /\ s = 1 /\ n = 1 /\ Firm(r) /\ b = "sqlite"
  \/ st = "mkdir -p" /\ f = "build" /\ s = 1 /\ n = 2 /\ Firm(r)
     /\ b \notin {"sqlite", "m4", "coreutils", "make", "bash", "json"}
     /\ r.recipe[2] \in {"configure", "configure; cd -"}
  \/ st = "mkdir -p" /\ f = "build" /\ s = 1 /\ n = 3 /\ Firm(r) /\ b = "json"
     /\ r.recipe[2] = "autogen; cd -"
  \/ st = "autogen; cd -" /\ f = "build" /\ s = 2 /\ n = 3 /\ Firm(r) /\ b = "json"
     /\ r.recipe[3] = "configure; cd -"
  \/ st \in {"configure", "configure; cd -"} /\ f = "build" /\ s = n /\ n \in {2, 3} /\ Firm(r)
     /\ r.needs = {"src"} /\ b # "sqlite"
  \/ st = "make -C" /\ f = "lib" /\ s = 1 /\ n = 1 /\ Firm(r)
     /\ b \notin {"sqlite", "m4", "coreutils", "make", "bash"}
  \/ st = "make -C" /\ f = "bc" /\ s = 1 /\ n = 2 /\ Firm(r) /\ b = "m4"
     /\ r.recipe[2] = "extract-bc lib"
  \/ st = "make -C" /\ f = "phony" /\ s = 1 /\ n = 1 /\ ~ Firm(r) /\ b \in {"make", "bash"}
  \/ st = "make -C" /\ f = "phony" /\ s = 2 /\ n = 2 /\ ~ Firm(r) /\ b = "coreutils"
  \/ st = "cc" /\ f = "obj" /\ s = 1 /\ n = 1 /\ Firm(r)
     /\ b \notin {"m4", "coreutils", "make", "bash"}
  \/ st = "cc lib" /\ f = "lib" /\ s = 1 /\ n = 1 /\ Firm(r) /\ b = "sqlite"
  \/ st = "link" /\ f = "prog" /\ s = 1 /\ n = 1 /\ Firm(r)
     /\ b \notin {"sqlite", "m4", "coreutils", "make", "bash"}
  \/ st = "extract-bc" /\ f = "bc" /\ s = 1 /\ n = 1 /\ Firm(r) /\ b = "apr"
  \/ st = "extract-bc lib" /\ f = "bc" /\ s = 2 /\ n = 2 /\ Firm(r) /\ b = "m4"
  \/ st = "extract-bc lib" /\ f = "bc" /\ s = 1 /\ n = 1 /\ ~ Firm(r) /\ i = 4
     /\ b \in {"make", "bash"}
  \/ st = "extract-bc to opt" /\ f = "bc" /\ s = 1 /\ n = 3 /\ Firm(r) /\ r.recipe[2] = "opt"
     /\ b \in {"json", "libxml2", "expat", "libosip", "libyaml"}
  \/ st = "opt" /\ f = "bc" /\ s = 2 /\ n = 3 /\ Firm(r) /\ r.recipe[3] = "llvm-dis"
     /\ b \in {"json", "libxml2", "expat", "libosip", "libyaml"}
  \/ st = "llvm-dis" /\ f = "bc" /\ s = 3 /\ n = 3 /\ Firm(r)
     /\ b \in {"json", "libxml2", "expat", "libosip", "libyaml"}
  \/ st = "llvm-link" /\ f = "bc" /\ s = 1 /\ n = 1 /\ Firm(r) /\ b = "sqlite"
  \/ st = "extract_bc.sh" /\ f = "phony" /\ s = 1 /\ n = 2 /\ ~ Firm(r) /\ b = "coreutils"
     /\ i = 3 /\ r.recipe[2] = "make -C"

LEMMA SmallRange ==
  ASSUME NEW k, NEW s \in 1 .. k
  PROVE  /\ k = 1 => s = 1
         /\ k = 2 => s = 1 \/ s = 2
         /\ k = 3 => s = 1 \/ s = 2 \/ s = 3
OBVIOUS

LEMMA StepIsKnown ==
  ASSUME NEW b, NEW i, NEW n, NEW r, KnownRule(b, i, n, r), NEW s \in 1 .. Len(r.recipe)
  PROVE  StepKnown(b, i, s, r)
<1>1. ASSUME b = "m4", M4Rule(i, r) PROVE StepKnown(b, i, s, r)
  <2>1. CASE i = 1 /\ One(r, "src", {}, "unpack")
    <3>1. /\ r.recipe[1] = "unpack"
          /\ Len(r.recipe) = 1 /\ r.target = "src" /\ r.needs = {}
      BY <2>1, Zenon DEF One
    <3>a. s = 1
      BY <3>1, SmallRange, Zenon
    <3>2. ~ Firm(r)
      BY <3>1 DEF Firm
    <3> QED
      BY <1>1, <2>1, <3>1, <3>2, <3>a DEF StepKnown
  <2>2. CASE i = 2 /\ Three(r, "build", {"src"}, "rm build", "mkdir", "configure; cd -")
    <3>1. /\ r.recipe[1] = "rm build" /\ r.recipe[2] = "mkdir" /\ r.recipe[3] = "configure; cd -"
          /\ Len(r.recipe) = 3 /\ r.target = "build" /\ r.needs = {"src"}
      BY <2>2, Zenon DEF Three
    <3>a. s = 1 \/ s = 2 \/ s = 3
      BY <3>1, SmallRange, Zenon
    <3>2. Firm(r)
      BY <3>1 DEF Firm
    <3>3. CASE s = 1
      BY <1>1, <2>2, <3>1, <3>2, <3>3 DEF StepKnown
    <3>4. CASE s = 2
      BY <1>1, <2>2, <3>1, <3>2, <3>4 DEF StepKnown
    <3>5. CASE s = 3
      BY <1>1, <2>2, <3>1, <3>2, <3>5 DEF StepKnown
    <3> QED
      BY <3>a, <3>3, <3>4, <3>5
  <2>3. CASE i = 3 /\ Two(r, "bc", {"build"}, "make -C", "extract-bc lib")
    <3>1. /\ r.recipe[1] = "make -C" /\ r.recipe[2] = "extract-bc lib"
          /\ Len(r.recipe) = 2 /\ r.target = "bc" /\ r.needs = {"build"}
      BY <2>3, Zenon DEF Two
    <3>a. s = 1 \/ s = 2
      BY <3>1, SmallRange, Zenon
    <3>2. Firm(r)
      BY <3>1 DEF Firm
    <3>3. CASE s = 1
      BY <1>1, <2>3, <3>1, <3>2, <3>3 DEF StepKnown
    <3>4. CASE s = 2
      BY <1>1, <2>3, <3>1, <3>2, <3>4 DEF StepKnown
    <3> QED
      BY <3>a, <3>3, <3>4
  <2> QED
    BY <1>1, <2>1, <2>2, <2>3, Zenon DEF M4Rule
<1>2. ASSUME b \in {"make", "bash"}, MakeRule(i, r) PROVE StepKnown(b, i, s, r)
  <2>1. CASE i = 1 /\ Two(r, "src", {"input"}, "unpack to patch", "patch")
    <3>1. /\ r.recipe[1] = "unpack to patch" /\ r.recipe[2] = "patch"
          /\ Len(r.recipe) = 2 /\ r.target = "src" /\ r.needs = {"input"}
      BY <2>1, Zenon DEF Two
    <3>a. s = 1 \/ s = 2
      BY <3>1, SmallRange, Zenon
    <3>2. Firm(r)
      BY <3>1 DEF Firm
    <3>3. CASE s = 1
      BY <1>2, <2>1, <3>1, <3>2, <3>3 DEF StepKnown
    <3>4. CASE s = 2
      BY <1>2, <2>1, <3>1, <3>2, <3>4 DEF StepKnown
    <3> QED
      BY <3>a, <3>3, <3>4
  <2>2. CASE i = 2 /\ Two(r, "build", {"src"}, "mkdir", "configure; cd -")
    <3>1. /\ r.recipe[1] = "mkdir" /\ r.recipe[2] = "configure; cd -"
          /\ Len(r.recipe) = 2 /\ r.target = "build" /\ r.needs = {"src"}
      BY <2>2, Zenon DEF Two
    <3>a. s = 1 \/ s = 2
      BY <3>1, SmallRange, Zenon
    <3>2. Firm(r)
      BY <3>1 DEF Firm
    <3>3. CASE s = 1
      BY <1>2, <2>2, <3>1, <3>2, <3>3 DEF StepKnown
    <3>4. CASE s = 2
      BY <1>2, <2>2, <3>1, <3>2, <3>4 DEF StepKnown
    <3> QED
      BY <3>a, <3>3, <3>4
  <2>3. CASE i = 3 /\ One(r, "phony", {"build"}, "make -C")
    <3>1. /\ r.recipe[1] = "make -C"
          /\ Len(r.recipe) = 1 /\ r.target = "phony" /\ r.needs = {"build"}
      BY <2>3, Zenon DEF One
    <3>a. s = 1
      BY <3>1, SmallRange, Zenon
    <3>2. ~ Firm(r)
      BY <3>1 DEF Firm
    <3> QED
      BY <1>2, <2>3, <3>1, <3>2, <3>a DEF StepKnown
  <2>4. CASE i = 4 /\ One(r, "bc", {"phony"}, "extract-bc lib")
    <3>1. /\ r.recipe[1] = "extract-bc lib"
          /\ Len(r.recipe) = 1 /\ r.target = "bc" /\ r.needs = {"phony"}
      BY <2>4, Zenon DEF One
    <3>a. s = 1
      BY <3>1, SmallRange, Zenon
    <3>2. ~ Firm(r)
      BY <3>1 DEF Firm
    <3> QED
      BY <1>2, <2>4, <3>1, <3>2, <3>a DEF StepKnown
  <2> QED
    BY <1>2, <2>1, <2>2, <2>3, <2>4, Zenon DEF MakeRule
<1>3. ASSUME b = "sqlite", SqliteRule(i, r) PROVE StepKnown(b, i, s, r)
  <2>1. CASE i = 1 /\ One(r, "build", {}, "mkdir -p")
    <3>1. /\ r.recipe[1] = "mkdir -p"
          /\ Len(r.recipe) = 1 /\ r.target = "build" /\ r.needs = {}
      BY <2>1, Zenon DEF One
    <3>a. s = 1
      BY <3>1, SmallRange, Zenon
    <3>2. Firm(r)
      BY <3>1 DEF Firm
    <3> QED
      BY <1>3, <2>1, <3>1, <3>2, <3>a DEF StepKnown
  <2>2. CASE i = 2 /\ One(r, "obj", {"input"}, "cc")
    <3>1. /\ r.recipe[1] = "cc"
          /\ Len(r.recipe) = 1 /\ r.target = "obj" /\ r.needs = {"input"}
      BY <2>2, Zenon DEF One
    <3>a. s = 1
      BY <3>1, SmallRange, Zenon
    <3>2. Firm(r)
      BY <3>1 DEF Firm
    <3> QED
      BY <1>3, <2>2, <3>1, <3>2, <3>a DEF StepKnown
  <2>3. CASE i = 3 /\ One(r, "lib", {"input"}, "cc lib")
    <3>1. /\ r.recipe[1] = "cc lib"
          /\ Len(r.recipe) = 1 /\ r.target = "lib" /\ r.needs = {"input"}
      BY <2>3, Zenon DEF One
    <3>a. s = 1
      BY <3>1, SmallRange, Zenon
    <3>2. Firm(r)
      BY <3>1 DEF Firm
    <3> QED
      BY <1>3, <2>3, <3>1, <3>2, <3>a DEF StepKnown
  <2>4. CASE i = 4 /\ One(r, "bc", {"obj", "lib"}, "llvm-link")
    <3>1. /\ r.recipe[1] = "llvm-link"
          /\ Len(r.recipe) = 1 /\ r.target = "bc" /\ r.needs = {"obj", "lib"}
      BY <2>4, Zenon DEF One
    <3>a. s = 1
      BY <3>1, SmallRange, Zenon
    <3>2. Firm(r)
      BY <3>1 DEF Firm
    <3> QED
      BY <1>3, <2>4, <3>1, <3>2, <3>a DEF StepKnown
  <2> QED
    BY <1>3, <2>1, <2>2, <2>3, <2>4, Zenon DEF SqliteRule
<1>4. ASSUME b = "apr", AprRule(i, r) PROVE StepKnown(b, i, s, r)
  <2>1. CASE i = 1 /\ One(r, "src", {"input"}, "unpack")
    <3>1. /\ r.recipe[1] = "unpack"
          /\ Len(r.recipe) = 1 /\ r.target = "src" /\ r.needs = {"input"}
      BY <2>1, Zenon DEF One
    <3>a. s = 1
      BY <3>1, SmallRange, Zenon
    <3>2. ~ Firm(r)
      BY <3>1 DEF Firm
    <3> QED
      BY <1>4, <2>1, <3>1, <3>2, <3>a DEF StepKnown
  <2>2. CASE i = 2 /\ Two(r, "build", {"src"}, "mkdir -p", "configure; cd -")
    <3>1. /\ r.recipe[1] = "mkdir -p" /\ r.recipe[2] = "configure; cd -"
          /\ Len(r.recipe) = 2 /\ r.target = "build" /\ r.needs = {"src"}
      BY <2>2, Zenon DEF Two
    <3>a. s = 1 \/ s = 2
      BY <3>1, SmallRange, Zenon
    <3>2. Firm(r)
      BY <3>1 DEF Firm
    <3>3. CASE s = 1
      BY <1>4, <2>2, <3>1, <3>2, <3>3 DEF StepKnown
    <3>4. CASE s = 2
      BY <1>4, <2>2, <3>1, <3>2, <3>4 DEF StepKnown
    <3> QED
      BY <3>a, <3>3, <3>4
  <2>3. CASE i = 3 /\ One(r, "obj", {"input", "src"}, "cc")
    <3>1. /\ r.recipe[1] = "cc"
          /\ Len(r.recipe) = 1 /\ r.target = "obj" /\ r.needs = {"input", "src"}
      BY <2>3, Zenon DEF One
    <3>a. s = 1
      BY <3>1, SmallRange, Zenon
    <3>2. Firm(r)
      BY <3>1 DEF Firm
    <3> QED
      BY <1>4, <2>3, <3>1, <3>2, <3>a DEF StepKnown
  <2>4. CASE i = 4 /\ One(r, "lib", {"build"}, "make -C")
    <3>1. /\ r.recipe[1] = "make -C"
          /\ Len(r.recipe) = 1 /\ r.target = "lib" /\ r.needs = {"build"}
      BY <2>4, Zenon DEF One
    <3>a. s = 1
      BY <3>1, SmallRange, Zenon
    <3>2. Firm(r)
      BY <3>1 DEF Firm
    <3> QED
      BY <1>4, <2>4, <3>1, <3>2, <3>a DEF StepKnown
  <2>5. CASE i = 5 /\ One(r, "prog", {"build", "obj", "lib"}, "link")
    <3>1. /\ r.recipe[1] = "link"
          /\ Len(r.recipe) = 1 /\ r.target = "prog" /\ r.needs = {"build", "obj", "lib"}
      BY <2>5, Zenon DEF One
    <3>a. s = 1
      BY <3>1, SmallRange, Zenon
    <3>2. Firm(r)
      BY <3>1 DEF Firm
    <3> QED
      BY <1>4, <2>5, <3>1, <3>2, <3>a DEF StepKnown
  <2>6. CASE i = 6 /\ One(r, "bc", {"prog"}, "extract-bc")
    <3>1. /\ r.recipe[1] = "extract-bc"
          /\ Len(r.recipe) = 1 /\ r.target = "bc" /\ r.needs = {"prog"}
      BY <2>6, Zenon DEF One
    <3>a. s = 1
      BY <3>1, SmallRange, Zenon
    <3>2. Firm(r)
      BY <3>1 DEF Firm
    <3> QED
      BY <1>4, <2>6, <3>1, <3>2, <3>a DEF StepKnown
  <2> QED
    BY <1>4, <2>1, <2>2, <2>3, <2>4, <2>5, <2>6, Zenon DEF AprRule
<1>5. ASSUME NEW configure, LibraryRule(i, r, configure),
             \/ b \in {"libxml2", "expat"} /\ configure = "configure; cd -"
             \/ b \in {"libosip", "libyaml"} /\ configure = "configure"
      PROVE  StepKnown(b, i, s, r)
  <2>1. CASE i = 1 /\ One(r, "src", {"input"}, "unpack")
    <3>1. /\ r.recipe[1] = "unpack"
          /\ Len(r.recipe) = 1 /\ r.target = "src" /\ r.needs = {"input"}
      BY <2>1, Zenon DEF One
    <3>a. s = 1
      BY <3>1, SmallRange, Zenon
    <3>2. ~ Firm(r)
      BY <3>1 DEF Firm
    <3> QED
      BY <1>5, <2>1, <3>1, <3>2, <3>a DEF StepKnown
  <2>2. CASE i = 2 /\ One(r, "obj", {"input", "src"}, "cc")
    <3>1. /\ r.recipe[1] = "cc"
          /\ Len(r.recipe) = 1 /\ r.target = "obj" /\ r.needs = {"input", "src"}
      BY <2>2, Zenon DEF One
    <3>a. s = 1
      BY <3>1, SmallRange, Zenon
    <3>2. Firm(r)
      BY <3>1 DEF Firm
    <3> QED
      BY <1>5, <2>2, <3>1, <3>2, <3>a DEF StepKnown
  <2>3. CASE i = 3 /\ Two(r, "build", {"src"}, "mkdir -p", configure)
    <3>1. /\ r.recipe[1] = "mkdir -p" /\ r.recipe[2] = configure
          /\ Len(r.recipe) = 2 /\ r.target = "build" /\ r.needs = {"src"}
      BY <2>3, Zenon DEF Two
    <3>a. s = 1 \/ s = 2
      BY <3>1, SmallRange, Zenon
    <3>2. Firm(r)
      BY <3>1 DEF Firm
    <3>3. CASE s = 1
      BY <1>5, <2>3, <3>1, <3>2, <3>3 DEF StepKnown
    <3>4. CASE s = 2
      BY <1>5, <2>3, <3>1, <3>2, <3>4 DEF StepKnown
    <3> QED
      BY <3>a, <3>3, <3>4
  <2>4. CASE i = 4 /\ One(r, "lib", {"build"}, "make -C")
    <3>1. /\ r.recipe[1] = "make -C"
          /\ Len(r.recipe) = 1 /\ r.target = "lib" /\ r.needs = {"build"}
      BY <2>4, Zenon DEF One
    <3>a. s = 1
      BY <3>1, SmallRange, Zenon
    <3>2. Firm(r)
      BY <3>1 DEF Firm
    <3> QED
      BY <1>5, <2>4, <3>1, <3>2, <3>a DEF StepKnown
  <2>5. CASE i = 5 /\ One(r, "prog", {"obj", "lib"}, "link")
    <3>1. /\ r.recipe[1] = "link"
          /\ Len(r.recipe) = 1 /\ r.target = "prog" /\ r.needs = {"obj", "lib"}
      BY <2>5, Zenon DEF One
    <3>a. s = 1
      BY <3>1, SmallRange, Zenon
    <3>2. Firm(r)
      BY <3>1 DEF Firm
    <3> QED
      BY <1>5, <2>5, <3>1, <3>2, <3>a DEF StepKnown
  <2>6. CASE i = 6 /\ Three(r, "bc", {"prog"}, "extract-bc to opt", "opt", "llvm-dis")
    <3>1. /\ r.recipe[1] = "extract-bc to opt" /\ r.recipe[2] = "opt" /\ r.recipe[3] = "llvm-dis"
          /\ Len(r.recipe) = 3 /\ r.target = "bc" /\ r.needs = {"prog"}
      BY <2>6, Zenon DEF Three
    <3>a. s = 1 \/ s = 2 \/ s = 3
      BY <3>1, SmallRange, Zenon
    <3>2. Firm(r)
      BY <3>1 DEF Firm
    <3>3. CASE s = 1
      BY <1>5, <2>6, <3>1, <3>2, <3>3 DEF StepKnown
    <3>4. CASE s = 2
      BY <1>5, <2>6, <3>1, <3>2, <3>4 DEF StepKnown
    <3>5. CASE s = 3
      BY <1>5, <2>6, <3>1, <3>2, <3>5 DEF StepKnown
    <3> QED
      BY <3>a, <3>3, <3>4, <3>5
  <2> QED
    BY <1>5, <2>1, <2>2, <2>3, <2>4, <2>5, <2>6, Zenon DEF LibraryRule
<1>6. ASSUME b = "json", JsonRule(i, r) PROVE StepKnown(b, i, s, r)
  <2>1. CASE i = 1 /\ Two(r, "src", {"input"}, "unpack to patch", "patch")
    <3>1. /\ r.recipe[1] = "unpack to patch" /\ r.recipe[2] = "patch"
          /\ Len(r.recipe) = 2 /\ r.target = "src" /\ r.needs = {"input"}
      BY <2>1, Zenon DEF Two
    <3>a. s = 1 \/ s = 2
      BY <3>1, SmallRange, Zenon
    <3>2. Firm(r)
      BY <3>1 DEF Firm
    <3>3. CASE s = 1
      BY <1>6, <2>1, <3>1, <3>2, <3>3 DEF StepKnown
    <3>4. CASE s = 2
      BY <1>6, <2>1, <3>1, <3>2, <3>4 DEF StepKnown
    <3> QED
      BY <3>a, <3>3, <3>4
  <2>2. CASE i = 2 /\ Three(r, "build", {"src"}, "mkdir -p", "autogen; cd -", "configure; cd -")
    <3>1. /\ r.recipe[1] = "mkdir -p" /\ r.recipe[2] = "autogen; cd -" /\ r.recipe[3] = "configure; cd -"
          /\ Len(r.recipe) = 3 /\ r.target = "build" /\ r.needs = {"src"}
      BY <2>2, Zenon DEF Three
    <3>a. s = 1 \/ s = 2 \/ s = 3
      BY <3>1, SmallRange, Zenon
    <3>2. Firm(r)
      BY <3>1 DEF Firm
    <3>3. CASE s = 1
      BY <1>6, <2>2, <3>1, <3>2, <3>3 DEF StepKnown
    <3>4. CASE s = 2
      BY <1>6, <2>2, <3>1, <3>2, <3>4 DEF StepKnown
    <3>5. CASE s = 3
      BY <1>6, <2>2, <3>1, <3>2, <3>5 DEF StepKnown
    <3> QED
      BY <3>a, <3>3, <3>4, <3>5
  <2>3. CASE i = 3 /\ One(r, "lib", {"build"}, "make -C")
    <3>1. /\ r.recipe[1] = "make -C"
          /\ Len(r.recipe) = 1 /\ r.target = "lib" /\ r.needs = {"build"}
      BY <2>3, Zenon DEF One
    <3>a. s = 1
      BY <3>1, SmallRange, Zenon
    <3>2. Firm(r)
      BY <3>1 DEF Firm
    <3> QED
      BY <1>6, <2>3, <3>1, <3>2, <3>a DEF StepKnown
  <2>4. CASE i = 4 /\ One(r, "obj", {"input"}, "cc")
    <3>1. /\ r.recipe[1] = "cc"
          /\ Len(r.recipe) = 1 /\ r.target = "obj" /\ r.needs = {"input"}
      BY <2>4, Zenon DEF One
    <3>a. s = 1
      BY <3>1, SmallRange, Zenon
    <3>2. Firm(r)
      BY <3>1 DEF Firm
    <3> QED
      BY <1>6, <2>4, <3>1, <3>2, <3>a DEF StepKnown
  <2>5. CASE i = 5 /\ One(r, "prog", {"lib", "obj"}, "link")
    <3>1. /\ r.recipe[1] = "link"
          /\ Len(r.recipe) = 1 /\ r.target = "prog" /\ r.needs = {"lib", "obj"}
      BY <2>5, Zenon DEF One
    <3>a. s = 1
      BY <3>1, SmallRange, Zenon
    <3>2. Firm(r)
      BY <3>1 DEF Firm
    <3> QED
      BY <1>6, <2>5, <3>1, <3>2, <3>a DEF StepKnown
  <2>6. CASE i = 6 /\ Three(r, "bc", {"prog"}, "extract-bc to opt", "opt", "llvm-dis")
    <3>1. /\ r.recipe[1] = "extract-bc to opt" /\ r.recipe[2] = "opt" /\ r.recipe[3] = "llvm-dis"
          /\ Len(r.recipe) = 3 /\ r.target = "bc" /\ r.needs = {"prog"}
      BY <2>6, Zenon DEF Three
    <3>a. s = 1 \/ s = 2 \/ s = 3
      BY <3>1, SmallRange, Zenon
    <3>2. Firm(r)
      BY <3>1 DEF Firm
    <3>3. CASE s = 1
      BY <1>6, <2>6, <3>1, <3>2, <3>3 DEF StepKnown
    <3>4. CASE s = 2
      BY <1>6, <2>6, <3>1, <3>2, <3>4 DEF StepKnown
    <3>5. CASE s = 3
      BY <1>6, <2>6, <3>1, <3>2, <3>5 DEF StepKnown
    <3> QED
      BY <3>a, <3>3, <3>4, <3>5
  <2> QED
    BY <1>6, <2>1, <2>2, <2>3, <2>4, <2>5, <2>6, Zenon DEF JsonRule
<1>7. ASSUME b = "coreutils", CoreutilsRule(i, r) PROVE StepKnown(b, i, s, r)
  <2>1. CASE i = 1 /\ One(r, "src", {}, "unpack")
    <3>1. /\ r.recipe[1] = "unpack"
          /\ Len(r.recipe) = 1 /\ r.target = "src" /\ r.needs = {}
      BY <2>1, Zenon DEF One
    <3>a. s = 1
      BY <3>1, SmallRange, Zenon
    <3>2. ~ Firm(r)
      BY <3>1 DEF Firm
    <3> QED
      BY <1>7, <2>1, <3>1, <3>2, <3>a DEF StepKnown
  <2>2. CASE i = 2 /\ Three(r, "build", {"src"}, "rm build", "mkdir", "configure; cd -")
    <3>1. /\ r.recipe[1] = "rm build" /\ r.recipe[2] = "mkdir" /\ r.recipe[3] = "configure; cd -"
          /\ Len(r.recipe) = 3 /\ r.target = "build" /\ r.needs = {"src"}
      BY <2>2, Zenon DEF Three
    <3>a. s = 1 \/ s = 2 \/ s = 3
      BY <3>1, SmallRange, Zenon
    <3>2. Firm(r)
      BY <3>1 DEF Firm
    <3>3. CASE s = 1
      BY <1>7, <2>2, <3>1, <3>2, <3>3 DEF StepKnown
    <3>4. CASE s = 2
      BY <1>7, <2>2, <3>1, <3>2, <3>4 DEF StepKnown
    <3>5. CASE s = 3
      BY <1>7, <2>2, <3>1, <3>2, <3>5 DEF StepKnown
    <3> QED
      BY <3>a, <3>3, <3>4, <3>5
  <2>3. CASE i = 3 /\ Two(r, "phony", {"build"}, "extract_bc.sh", "make -C")
    <3>1. /\ r.recipe[1] = "extract_bc.sh" /\ r.recipe[2] = "make -C"
          /\ Len(r.recipe) = 2 /\ r.target = "phony" /\ r.needs = {"build"}
      BY <2>3, Zenon DEF Two
    <3>a. s = 1 \/ s = 2
      BY <3>1, SmallRange, Zenon
    <3>2. ~ Firm(r)
      BY <3>1 DEF Firm
    <3>3. CASE s = 1
      BY <1>7, <2>3, <3>1, <3>2, <3>3 DEF StepKnown
    <3>4. CASE s = 2
      BY <1>7, <2>3, <3>1, <3>2, <3>4 DEF StepKnown
    <3> QED
      BY <3>a, <3>3, <3>4
  <2> QED
    BY <1>7, <2>1, <2>2, <2>3, Zenon DEF CoreutilsRule
<1> QED
  BY <1>1, <1>2, <1>3, <1>4, <1>5, <1>6, <1>7, Zenon DEF KnownRule

(* The rule that makes what another rule needs.                            *)
LEMMA NeedIsTarget ==
  ASSUME NEW b, NEW i, NEW j, NEW n, NEW r, NEW q, BriefRule(b, i, n, r), BriefRule(b, j, n, q),
         NEW g \in r.needs \ {"input", "phony"}, j = Turn(b, g)
  PROVE  q.target = g /\ (b = "sqlite" => g # "build")
<1>1. CASE b = "m4" /\ n = 3 /\ M4Makes(i, r) /\ M4Makes(j, q)
  BY <1>1 DEF M4Makes, Makes, Turn
<1>2. CASE b \in {"make", "bash"} /\ n = 4 /\ MakeMakes(i, r) /\ MakeMakes(j, q)
  BY <1>2 DEF MakeMakes, Makes, Turn
<1>3. CASE b = "sqlite" /\ n = 4 /\ SqliteMakes(i, r) /\ SqliteMakes(j, q)
  BY <1>3 DEF SqliteMakes, Makes, Turn
<1>4. CASE b = "apr" /\ n = 6 /\ AprMakes(i, r) /\ AprMakes(j, q)
  BY <1>4 DEF AprMakes, Makes, Turn
<1>5. CASE b \in {"libxml2", "expat", "libosip", "libyaml"} /\ n = 6 /\ LibraryMakes(i, r) /\ LibraryMakes(j, q)
  BY <1>5 DEF LibraryMakes, Makes, Turn
<1>6. CASE b = "json" /\ n = 6 /\ JsonMakes(i, r) /\ JsonMakes(j, q)
  BY <1>6 DEF JsonMakes, Makes, Turn
<1>7. CASE b = "coreutils" /\ n = 3 /\ CoreutilsMakes(i, r) /\ CoreutilsMakes(j, q)
  BY <1>7 DEF CoreutilsMakes, Makes, Turn
<1>8. b \in {"libxml2", "expat", "libosip", "libyaml"} => b # "m4" /\ b \notin {"make", "bash"} /\ b # "sqlite" /\ b # "apr" /\ b # "json" /\ b # "coreutils"
  OBVIOUS
<1> QED
  BY <1>1, <1>2, <1>3, <1>4, <1>5, <1>6, <1>7, <1>8 DEF BriefRule

LEMMA Briefly ==
  ASSUME NEW b \in Benchmarks, NEW i \in 1 .. Len(Makefile(b))
  PROVE  /\ BriefRule(b, i, Len(Makefile(b)), Makefile(b)[i])
         /\ RuleFacts(b, i, Len(Makefile(b)), Makefile(b)[i])
BY RuleIs, RuleIsBrief, RuleFactsHold

(* What a rule needs is the target of an earlier one.                      *)
LEMMA Needed ==
  ASSUME NEW b \in Benchmarks, NEW i \in 1 .. Len(Makefile(b)),
         NEW g \in Makefile(b)[i].needs \ {"input", "phony"}, Makefile(b)[i].target # "phony"
  PROVE  /\ g \in Made /\ g # Makefile(b)[i].target /\ g \in Behind(g)
         /\ Behind(g) \subseteq Behind(Makefile(b)[i].target)
         /\ \E j \in 1 .. i - 1 : Makefile(b)[j].target = g
         /\ b = "sqlite" => g # "build"
<1> DEFINE M == Makefile(b)
           n == Len(M)
           r == M[i]
           j == Turn(b, g)
<1>1. BriefRule(b, i, n, r) /\ RuleFacts(b, i, n, r)
  BY Briefly
<1>2. /\ g \in Made /\ g # r.target /\ Behind(g) \subseteq Behind(r.target)
      /\ g \in Behind(g) /\ j \in {1, 2, 3, 4, 5} /\ j < i
  BY <1>1, NeedsBehind
<1>3. n \in {3, 4, 6} /\ i \in 1 .. n
  BY <1>1 DEF RuleFacts
<1>4. j \in 1 .. n /\ j \in 1 .. i - 1
  <2> HIDE DEF j, n, r, M
  <2> QED
    BY <1>2, <1>3
<1>5. BriefRule(b, j, n, M[j])
  BY <1>4, Briefly
<1>6. M[j].target = g /\ (b = "sqlite" => g # "build")
  BY <1>1, <1>5, NeedIsTarget
<1> QED
  BY <1>2, <1>4, <1>6

(* No two rules have the same target.                                      *)
LEMMA TargetsDiffer ==
  ASSUME NEW b \in Benchmarks, NEW i \in 1 .. Len(Makefile(b)), NEW j \in 1 .. Len(Makefile(b)),
         Makefile(b)[i].target = Makefile(b)[j].target
  PROVE  i = j
BY Briefly DEF RuleFacts

-----------------------------------------------------------------------------
(* The files.                                                              *)
LEMMA WriteIs ==
  ASSUME NEW d \in Disks, NEW f \in Files, NEW x \in Nat, NEW w \in BOOLEAN
  PROVE  /\ Write(d, f, x, w) \in Disks
         /\ \A g \in Files : Write(d, f, x, w).at[g] = IF g = f THEN x ELSE d.at[g]
         /\ \A g : g \in Write(d, f, x, w).whole <=> IF g = f THEN w ELSE g \in d.whole
BY DEF Write, Disks

LEMMA WriteWhole ==
  ASSUME NEW d \in Disks, NEW f \in Files, NEW x \in Nat
  PROVE  /\ Write(d, f, x, TRUE) \in Disks
         /\ \A g \in Files : Write(d, f, x, TRUE).at[g] = IF g = f THEN x ELSE d.at[g]
         /\ \A g : g \in Write(d, f, x, TRUE).whole <=> IF g = f THEN TRUE ELSE g \in d.whole
BY DEF Write, Disks

LEMMA RemoveIs ==
  ASSUME NEW d \in Disks, NEW fs
  PROVE  /\ Remove(d, fs) \in Disks
         /\ \A g \in Files : Remove(d, fs).at[g] = IF g \in fs THEN 0 ELSE d.at[g]
         /\ \A g : g \in Remove(d, fs).whole <=> g \in d.whole /\ g \notin fs
BY DEF Remove, Disks

(* Time goes on.                                                           *)
LEMMA SaneLater ==
  ASSUME NEW d, NEW t, NEW m, NEW H, Sane(d, t, m, H)
  PROVE  Sane(d, t + 1, m, H)
BY DEF Sane, Disks, CheckedOut

LEMMA SaneWriteNow ==
  ASSUME NEW d, NEW t, NEW m, NEW H, Sane(d, t, m, H), NEW f \in Made, NEW w \in BOOLEAN,
         NEW x \in 0 .. t, w => x # 0
  PROVE  Sane(Write(d, f, x, w), t, m, H)
<1>1. d \in Disks /\ t \in Nat /\ f \in Files /\ x \in Nat
  BY DEF Sane, Files
<1>2. f # "input" /\ f # "phony" /\ {"input", "phony"} \subseteq Files
  BY DEF Made, Files
<1> DEFINE e == Write(d, f, x, w)
<1>3. /\ e \in Disks
      /\ \A g \in Files : e.at[g] = IF g = f THEN x ELSE d.at[g]
      /\ \A g : g \in e.whole <=> IF g = f THEN w ELSE g \in d.whole
  BY <1>1, WriteIs
<1>4. d.at \in [Files -> Nat] /\ d.whole \subseteq Files /\ e.at \in [Files -> Nat] /\ e.whole \subseteq Files
  BY <1>1, <1>3 DEF Disks
<1> HIDE DEF e
<1>5. \A g \in Files : e.at[g] <= t
  <2> TAKE g \in Files
  <2>1. d.at[g] <= t /\ d.at[g] \in Nat
    BY <1>4 DEF Sane
  <2> QED
    BY <1>1, <1>3, <2>1
<1>6. e.at["input"] = CheckedOut /\ e.at["phony"] = 0
  BY <1>2, <1>3 DEF Sane
<1>7. \A g \in e.whole : e.at[g] # 0
  BY <1>3, <1>4 DEF Sane
<1>8. t \in Nat /\ t >= CheckedOut /\ m \in Nat /\ H \subseteq Made
  BY <1>1 DEF Sane, CheckedOut
<1> QED
  BY <1>3, <1>5, <1>6, <1>7, <1>8 DEF Sane, e

LEMMA SaneWrite ==
  ASSUME NEW d, NEW t, NEW m, NEW H, Sane(d, t, m, H), NEW f \in Made, NEW w \in BOOLEAN,
         NEW x \in 0 .. t + 1, w => x # 0
  PROVE  Sane(Write(d, f, x, w), t + 1, m, H)
BY SaneLater, SaneWriteNow

LEMMA SaneRemove ==
  ASSUME NEW d, NEW t, NEW m, NEW H, Sane(d, t, m, H), NEW fs \in SUBSET Made
  PROVE  Sane(Remove(d, fs), t, m, H)
<1>1. d \in Disks /\ t \in Nat
  BY DEF Sane
<1>2. "input" \notin fs /\ "phony" \notin fs /\ {"input", "phony"} \subseteq Files
  BY DEF Made, Files
<1>3. \A f \in Files : Remove(d, fs).at[f] <= t
  BY <1>1, RemoveIs DEF Sane, Disks
<1> QED
  BY <1>1, <1>2, <1>3, RemoveIs DEF Sane, Disks

-----------------------------------------------------------------------------
(* What a write leaves of the other rules.                                 *)
Same(d, e, g) == e.at[g] = d.at[g] /\ (g \in e.whole <=> g \in d.whole)

(* A rule whose files are the same is kept.                                *)
LEMMA KeptIfSame ==
  ASSUME NEW b, NEW H, NEW G, NEW j, NEW d, NEW e, KeptAt(b, d, H, j), H \subseteq G,
         Same(d, e, Makefile(b)[j].target),
         \A g \in Makefile(b)[j].needs : Same(d, e, g)
  PROVE  KeptAt(b, e, G, j)
<1> DEFINE r == Makefile(b)[j]
<1> HIDE DEF r
<1>1. Same(d, e, r.target) /\ \A g \in r.needs : Same(d, e, g)
  BY DEF r
<1>2. SUFFICES ASSUME r.target # "phony", ~ Affected(G, r.target), e.at[r.target] # 0
               PROVE  Good(b, e, r)
  BY DEF KeptAt, r
<1>3. ~ Affected(H, r.target)
  BY <1>2 DEF Affected
<1>4. Good(b, d, r)
  BY <1>1, <1>2, <1>3 DEF KeptAt, r, Same
<1>5. There(b, e, r.target)
  BY <1>1, <1>4 DEF Good, There, Same
<1>6. ASSUME Firm(r) PROVE r.needs \ {"input"} \subseteq e.whole /\ ~ Stale(e, r)
  BY <1>1, <1>4, <1>6 DEF Good, Stale, Same
<1> QED
  BY <1>5, <1>6 DEF Good

(* One file has changed, which the rule does not make.  If the rule needs  *)
(* it, it was affected, or missing, or is an old one unpacked again.       *)
LEMMA OthersKeep ==
  ASSUME NEW b \in Benchmarks, NEW H, NEW j \in 1 .. Len(Makefile(b)), NEW d \in Disks, NEW e \in Disks,
         KeptAt(b, d, H, j), NEW f \in Made, f # Makefile(b)[j].target,
         \A g \in Files : g # f => Same(d, e, g),
         f \in Makefile(b)[j].needs => \/ Affected(H, f)
                                       \/ f \notin d.whole
                                       \/ f \in e.whole /\ e.at[f] = 1
  PROVE  KeptAt(b, e, H, j)
<1> DEFINE r == Makefile(b)[j]
<1>0. /\ r.target \in Files /\ r.needs \subseteq Files
      /\ r.needs \ {"input"} \subseteq Made \cup {"phony"}
  BY Briefly DEF RuleFacts, Files, Made
<1>1. ASSUME r.target # "phony", NEW g \in r.needs \ {"input", "phony"}
      PROVE  Behind(g) \subseteq Behind(r.target)
  BY <1>1, Needed
<1> HIDE DEF r
<1>2. f \notin {"input", "phony"} /\ f \in Files /\ f # r.target
  BY DEF Made, Files, r
<1>3. SUFFICES ASSUME r.target # "phony", ~ Affected(H, r.target), e.at[r.target] # 0
               PROVE  Good(b, e, r)
  BY DEF KeptAt, r
<1>4. Same(d, e, r.target) /\ \A g \in r.needs : g # f => Same(d, e, g)
  BY <1>0, <1>2
<1>5. Good(b, d, r)
  BY <1>3, <1>4 DEF KeptAt, r, Same
<1>6. There(b, e, r.target)
  BY <1>4, <1>5 DEF Good, There, Same
<1>7. ASSUME Firm(r) PROVE r.needs \ {"input"} \subseteq e.whole /\ ~ Stale(e, r)
  <2>1. r.needs \ {"input"} \subseteq d.whole /\ ~ Stale(d, r)
    BY <1>5, <1>7 DEF Good
  <2>2. CASE f \notin r.needs
    BY <1>4, <2>1, <2>2 DEF Stale, Same
  <2>3. CASE f \in r.needs
    <3>1. ~ Affected(H, f)
      BY <1>1, <1>2, <1>3, <2>3 DEF Affected
    <3>2. f \in e.whole /\ e.at[f] = 1
      BY <1>2, <2>1, <2>3, <3>1 DEF r
    <3>3. d.at[r.target] \in Nat /\ d.at[r.target] # 0
      BY <1>0, <2>1 DEF Disks, Stale
    <3>4. e.at[r.target] = d.at[r.target] /\ ~ (e.at[f] > e.at[r.target]) /\ e.at[f] # 0
      BY <1>4, <3>2, <3>3 DEF Same
    <3> QED
      BY <1>4, <2>1, <3>2, <3>4 DEF Stale, Same
  <2> QED
    BY <2>2, <2>3
<1> QED
  BY <1>6, <1>7 DEF Good

(* What is made stays made when files of it become whole, or none changes. *)
LEMMA StillPassed ==
  ASSUME NEW b, NEW H, NEW G, NEW j, NEW d, NEW e, PassedAt(b, d, H, j), H \subseteq G,
         NEW f, Makefile(b)[j].target = "phony" => f = "lib",
         Makefile(b)[j].target # "phony" => f = Makefile(b)[j].target,
         \/ Same(d, e, f)
         \/ f \in e.whole /\ e.at[f] # 0
         \/ Makefile(b)[j].target # "phony" /\ Affected(G, f)
  PROVE  PassedAt(b, e, G, j)
<1> DEFINE r == Makefile(b)[j]
<1> HIDE DEF r
<1>1. CASE r.target = "phony"
  BY <1>1 DEF PassedAt, r, Same
<1>2. CASE r.target # "phony"
  <2>1. Affected(H, f) \/ There(b, d, f)
    BY <1>2 DEF PassedAt, r
  <2>2. Affected(H, f) => Affected(G, f)
    BY DEF Affected
  <2>3. f = r.target
    BY <1>2 DEF r
  <2>4. Affected(G, f) \/ There(b, e, f)
    BY <2>1, <2>2 DEF There, Same
  <2> QED
    BY <1>2, <2>3, <2>4 DEF PassedAt, r
<1> QED
  BY <1>1, <1>2

-----------------------------------------------------------------------------
(* What holds in the course of a rule, and once it is done.                *)
Middle(b, d, t, i, m, H) ==
  /\ Sane(d, t, m, H)
  /\ \A j \in 1 .. Len(Makefile(b)) : j = i \/ KeptAt(b, d, H, j)
  /\ Passed(b, d, i, H)
  /\ Complete(b, d, m, H)

Done(b, d, i, m, H) ==
  /\ KeptAt(b, d, H, i)
  /\ PassedAt(b, d, H, i)
  /\ b = "coreutils" /\ i = Len(Makefile(b)) /\ H = {} /\ m >= 1 => "bc" \in d.whole

(* Where make is after step s of rule i.                                   *)
Follows(b, d, t, i, s, m, H) ==
  /\ s < Len(Makefile(b)[i].recipe) => Sound(b, d, t, i, s + 1, m, H)
  /\ s = Len(Makefile(b)[i].recipe) =>
       /\ i < Len(Makefile(b)) => Sound(b, d, t, i + 1, 0, m, H)
       /\ i = Len(Makefile(b)) => Sound(b, d, t, 0, 0, m + 1, H)

LEMMA Lengths ==
  ASSUME NEW b \in Benchmarks
  PROVE  /\ Len(Makefile(b)) \in Nat /\ Len(Makefile(b)) >= 1
         /\ \A i \in 1 .. Len(Makefile(b)) :
              Len(Makefile(b)[i].recipe) \in Nat /\ Len(Makefile(b)[i].recipe) >= 1
<1> DEFINE M == Makefile(b)
<1>1. Len(M) \in {3, 4, 6}
  <2>1. Shape(b, M)
    BY ShapeIs
  <2> HIDE DEF M
  <2> QED
    BY <2>1 DEF Shape, M4Shape, MakeShape, SqliteShape, AprShape, LibraryShape, JsonShape, CoreutilsShape
<1>2. \A i \in 1 .. Len(M) : Len(M[i].recipe) \in {1, 2, 3}
  BY Briefly DEF RuleFacts
<1> HIDE DEF M
<1>3. Len(M) \in Nat /\ Len(M) >= 1
  BY <1>1
<1>4. ASSUME NEW i \in 1 .. Len(M) PROVE Len(M[i].recipe) \in Nat /\ Len(M[i].recipe) >= 1
  <2> DEFINE k == Len(M[i].recipe)
  <2>1. k = 1 \/ k = 2 \/ k = 3
    BY <1>2
  <2> HIDE DEF k
  <2>2. k \in Nat /\ k >= 1
    BY <2>1
  <2> QED
    BY <2>2 DEF k
<1> QED
  BY <1>3, <1>4 DEF M

(* A rule is done: on to the next one, or the make ends.                   *)
LEMMA RuleEnds ==
  ASSUME NEW b \in Benchmarks, NEW d, NEW t, NEW i \in 1 .. Len(Makefile(b)), NEW m, NEW H,
         Middle(b, d, t, i, m, H), Done(b, d, i, m, H)
  PROVE  /\ i < Len(Makefile(b)) => Sound(b, d, t, i + 1, 0, m, H)
         /\ i = Len(Makefile(b)) => Sound(b, d, t, 0, 0, m + 1, H)
<1> DEFINE n == Len(Makefile(b))
<1>0. n \in Nat /\ i \in 1 .. n /\ m \in Nat
  BY Lengths DEF Middle, Sane
<1>1. \A j \in 1 .. n : KeptAt(b, d, H, j)
  BY DEF Middle, Done
<1>2. \A j \in 1 .. i : PassedAt(b, d, H, j)
  <2>1. \A j \in 1 .. i - 1 : PassedAt(b, d, H, j)
    BY DEF Middle, Passed
  <2>2. PassedAt(b, d, H, i)
    BY DEF Done
  <2>3. \A j \in 1 .. i : j = i \/ j \in 1 .. i - 1
    BY <1>0
  <2> QED
    BY <2>1, <2>2, <2>3
<1>3. Sane(d, t, m, H) /\ Complete(b, d, m, H)
  BY DEF Middle
<1>4. i < n => Len(Makefile(b)[i + 1].recipe) \in Nat
  BY <1>0, Lengths
<1>5. \A s : Kept(b, d, i + 1, s, H) /\ Kept(b, d, 0, s, H)
  BY <1>1 DEF Kept
<1>6. Passed(b, d, i + 1, H)
  <2>1. i + 1 - 1 = i
    BY <1>0
  <2> QED
    BY <1>2, <2>1 DEF Passed
<1>7. Passed(b, d, 0, H)
  BY DEF Passed
<1>8. ASSUME i = n PROVE Complete(b, d, m + 1, H)
  <2>1. SUFFICES ASSUME H = {} PROVE /\ \A j \in 1 .. n : PassedAt(b, d, H, j)
                                     /\ m + 1 >= MakesFor(b) => "bc" \in d.whole
    BY DEF Complete
  <2>2. Makefile(b)[i].target = IF b = "coreutils" THEN "phony" ELSE "bc"
    BY <1>8, Briefly DEF RuleFacts
  <2>3. CASE b = "coreutils"
    <3>1. m + 1 >= 2 => m >= 1
      BY <1>0
    <3>2. MakesFor(b) = 2
      BY <2>3 DEF MakesFor
    <3>3. m >= 1 => "bc" \in d.whole
      BY <1>8, <2>1, <2>3 DEF Done
    <3> QED
      BY <1>2, <1>8, <3>1, <3>2, <3>3
  <2>4. CASE b # "coreutils"
    <3>1. Makefile(b)[i].target = "bc" /\ ~ Affected(H, "bc")
      BY <2>1, <2>2, <2>4 DEF Affected
    <3>2. There(b, d, "bc")
      BY <3>1, Zenon DEF Done, PassedAt
    <3>3. "bc" \in d.whole
      BY <3>2 DEF There
    <3> QED
      BY <1>2, <1>8, <3>3
  <2> QED
    BY <1>2, <1>8, <2>3, <2>4
<1>9. Sane(d, t, m + 1, H)
  BY <1>0, <1>3 DEF Sane
<1>10. ASSUME i < n PROVE Sound(b, d, t, i + 1, 0, m, H)
  <2>1. Place(b, i + 1, 0)
    BY <1>0, <1>4, <1>10 DEF Place
  <2>2. SoFar(b, d, i + 1, 0, m, H)
    BY DEF SoFar
  <2> QED
    BY <1>3, <1>5, <1>6, <2>1, <2>2 DEF Sound
<1>11. ASSUME i = n PROVE Sound(b, d, t, 0, 0, m + 1, H)
  <2>1. Place(b, 0, 0) /\ SoFar(b, d, 0, 0, m + 1, H)
    BY DEF SoFar, Place
  <2> QED
    BY <1>5, <1>7, <1>8, <1>9, <1>11, <2>1 DEF Sound
<1> QED
  BY <1>10, <1>11

LEMMA StepEnds ==
  ASSUME NEW b \in Benchmarks, NEW d, NEW t, NEW i \in 1 .. Len(Makefile(b)), NEW m, NEW H,
         NEW s \in 1 .. Len(Makefile(b)[i].recipe), Middle(b, d, t, i, m, H),
         s < Len(Makefile(b)[i].recipe) => SoFar(b, d, i, s + 1, m, H),
         s = Len(Makefile(b)[i].recipe) => Done(b, d, i, m, H)
  PROVE  Follows(b, d, t, i, s, m, H)
<1>1. ASSUME s < Len(Makefile(b)[i].recipe) PROVE Sound(b, d, t, i, s + 1, m, H)
  <2>1. Len(Makefile(b)[i].recipe) \in Nat /\ s \in Nat /\ s + 1 > 1
    BY Lengths
  <2>2. Place(b, i, s + 1)
    BY <1>1, <2>1 DEF Place
  <2>3. Kept(b, d, i, s + 1, H)
    BY <2>1 DEF Kept, Middle
  <2> QED
    BY <1>1, <2>2, <2>3 DEF Sound, Middle
<1>2. ASSUME s = Len(Makefile(b)[i].recipe)
      PROVE  /\ i < Len(Makefile(b)) => Sound(b, d, t, i + 1, 0, m, H)
             /\ i = Len(Makefile(b)) => Sound(b, d, t, 0, 0, m + 1, H)
  BY <1>2, RuleEnds
<1> QED
  BY <1>1, <1>2 DEF Follows

(* make comes to a benchmark.                                              *)
LEMMA MakeBegins ==
  ASSUME NEW b \in Benchmarks, NEW d, NEW t, NEW m, NEW H, Sound(b, d, t, 0, 0, m, H)
  PROVE  Sound(b, d, t, 1, 0, m, H)
<1>1. Place(b, 1, 0)
  <2>1. Len(Makefile(b)) \in Nat /\ Len(Makefile(b)) >= 1
    BY Lengths
  <2>2. 1 \in 1 .. Len(Makefile(b)) /\ Len(Makefile(b)[1].recipe) \in Nat
    BY <2>1, Lengths
  <2> QED
    BY <2>2 DEF Place
<1>2. Kept(b, d, 1, 0, H)
  BY DEF Sound, Kept
<1>3. Passed(b, d, 1, H) /\ SoFar(b, d, 1, 0, m, H)
  BY DEF Passed, SoFar
<1> QED
  BY <1>1, <1>2, <1>3 DEF Sound

(* make gives up on a benchmark, or is killed: something is spoilt.        *)
LEMMA MakeStops ==
  ASSUME NEW b, NEW d, NEW t, NEW m, NEW H, Sane(d, t, m, H), H # {},
         \A j \in 1 .. Len(Makefile(b)) : KeptAt(b, d, H, j)
  PROVE  Sound(b, d, t, 0, 0, m, H) /\ Sound(b, d, t, 0, 0, m + 1, H)
<1>1. Sane(d, t, m + 1, H)
  BY DEF Sane
<1>2. Place(b, 0, 0) /\ Kept(b, d, 0, 0, H) /\ Passed(b, d, 0, H)
  BY DEF Place, Kept, Passed
<1>3. \A k : Complete(b, d, k, H) /\ SoFar(b, d, 0, 0, k, H)
  BY DEF Complete, SoFar
<1> QED
  BY <1>1, <1>2, <1>3 DEF Sound

LEMMA SoundLater ==
  ASSUME NEW b, NEW d, NEW t, NEW i, NEW s, NEW m, NEW H, Sound(b, d, t, i, s, m, H)
  PROVE  Sound(b, d, t + 1, i, s, m, H)
BY SaneLater DEF Sound

LEMMA MiddleOf ==
  ASSUME NEW b, NEW d, NEW t, NEW i, NEW s, NEW m, NEW H, Sound(b, d, t, i, s, m, H)
  PROVE  Middle(b, d, t, i, m, H) /\ Middle(b, d, t + 1, i, m, H)
BY SaneLater DEF Sound, Middle, Kept

-----------------------------------------------------------------------------
(* make looks at a rule.                                                   *)
LEMMA FirstStep ==
  ASSUME NEW b, NEW i, NEW r, StepKnown(b, i, 1, r)
  PROVE  /\ r.recipe[1] \notin {"llvm-dis", "configure; cd -", "configure"}
         /\ r.recipe[1] = "mkdir" => r.target = "build"
         /\ r.recipe[1] = "extract-bc lib" => ~ Firm(r)
         /\ r.recipe[1] = "make -C" => b # "coreutils"
<1> DEFINE st == r.recipe[1]
<1>1. /\ st \in {"configure", "configure; cd -"} => 1 = Len(r.recipe) /\ Len(r.recipe) \in {2, 3}
      /\ st = "llvm-dis" => 1 = 3
  BY Zenon DEF StepKnown
<1>2. /\ st = "mkdir" => r.target = "build"
      /\ st = "extract-bc lib" => ~ Firm(r) \/ 1 = 2
      /\ st = "make -C" => b # "coreutils" \/ 1 = 2
  BY Zenon DEF StepKnown
<1>3. 1 # 2 /\ 1 # 3
  OBVIOUS
<1> QED
  BY <1>1, <1>2, <1>3
LEMMA WhenStale ==
  ASSUME NEW b \in Benchmarks, NEW d, NEW t, NEW i \in 1 .. Len(Makefile(b)), NEW m, NEW H,
         Sound(b, d, t, i, 0, m, H), Stale(d, Makefile(b)[i])
  PROVE  Sound(b, d, t, i, 1, m, H)
<1> DEFINE r == Makefile(b)[i]
<1>1. Sane(d, t, m, H) /\ Passed(b, d, i, H) /\ Complete(b, d, m, H)
  BY DEF Sound
<1>2. \A j \in 1 .. Len(Makefile(b)) : KeptAt(b, d, H, j)
  BY DEF Sound, Kept
<1>a. Len(r.recipe) \in Nat /\ Len(r.recipe) >= 1
  BY Lengths
<1>3. Place(b, i, 1) /\ 1 \in 1 .. Len(r.recipe)
  <2> HIDE DEF r
  <2>1. 1 \in 1 .. Len(r.recipe)
    BY <1>a
  <2>2. 1 \in 0 .. Len(r.recipe)
    BY <1>a
  <2> QED
    BY <2>1, <2>2 DEF Place, r
<1>4. StepKnown(b, i, 1, r)
  BY <1>3, RuleIs, StepIsKnown
<1>5. RuleFacts(b, i, Len(Makefile(b)), r)
  BY Briefly
<1>6. KeptAt(b, d, H, i)
  BY <1>2
<1>7. H = {} /\ m >= 1 => PassedAt(b, d, H, i)
  BY <1>1 DEF Complete
<1>8. Stale(d, r)
  OBVIOUS
<1>9. ASSUME Firm(r), ~ Affected(H, r.target) PROVE d.at[r.target] = 0 /\ r.target \notin d.whole /\ (H = {} => m = 0)
  <2>1. r.target # "phony" /\ r.target \in Files
    BY <1>5, <1>9 DEF RuleFacts, Firm, Files, Made
  <2>2. d.at[r.target] = 0
    BY <1>6, <1>8, <1>9, <2>1 DEF KeptAt, Good
  <2>3. r.target \notin d.whole
    BY <1>1, <2>2 DEF Sane
  <2>4. ~ There(b, d, r.target)
    BY <2>2, <2>3 DEF There
  <2>5. H = {} => ~ (m >= 1)
    BY <1>7, <1>9, <2>1, <2>4 DEF PassedAt
  <2> QED
    BY <1>1, <2>2, <2>3, <2>5 DEF Sane
<1> HIDE DEF r
<1>10. /\ r.recipe[1] \notin {"llvm-dis", "configure; cd -", "configure"}
       /\ r.recipe[1] = "mkdir" => r.target = "build"
       /\ r.recipe[1] = "extract-bc lib" => ~ Firm(r)
       /\ r.recipe[1] = "make -C" => b # "coreutils"
  BY <1>4, FirstStep, Zenon
<1>12. SoFar(b, d, i, 1, m, H)
  BY <1>9, <1>10 DEF SoFar, r
<1>13. Kept(b, d, i, 1, H)
  BY <1>2 DEF Kept
<1> QED
  BY <1>1, <1>3, <1>12, <1>13 DEF Sound

LEMMA WhenFresh ==
  ASSUME NEW b \in Benchmarks, NEW d, NEW t, NEW i \in 1 .. Len(Makefile(b)), NEW m, NEW H,
         Sound(b, d, t, i, 0, m, H), ~ Stale(d, Makefile(b)[i])
  PROVE  /\ i < Len(Makefile(b)) => Sound(b, d, t, i + 1, 0, m, H)
         /\ i = Len(Makefile(b)) => Sound(b, d, t, 0, 0, m + 1, H)
<1> DEFINE r == Makefile(b)[i]
<1>1. d.at[r.target] # 0 /\ d.at["phony"] = 0
  BY DEF Sound, Sane, Stale
<1>2. r.target # "phony"
  BY <1>1
<1>3. KeptAt(b, d, H, i)
  BY DEF Sound, Kept
<1>4. i = Len(Makefile(b)) => b # "coreutils"
  BY <1>2, Briefly DEF RuleFacts
<1>5. PassedAt(b, d, H, i)
  BY <1>1, <1>2, <1>3 DEF KeptAt, PassedAt, Good
<1>6. Done(b, d, i, m, H)
  BY <1>3, <1>4, <1>5 DEF Done
<1> QED
  BY <1>6, MiddleOf, RuleEnds

-----------------------------------------------------------------------------
(* A step runs.                                                            *)
Busy(b, d, t, i, s, m, H) ==
  /\ Sound(b, d, t, i, s, m, H)
  /\ i \in 1 .. Len(Makefile(b)) /\ s \in 1 .. Len(Makefile(b)[i].recipe)

LEMMA BusyFacts ==
  ASSUME NEW b \in Benchmarks, NEW d, NEW t, NEW i, NEW s, NEW m, NEW H, Busy(b, d, t, i, s, m, H)
  PROVE  /\ i \in 1 .. Len(Makefile(b)) /\ s \in 1 .. Len(Makefile(b)[i].recipe)
         /\ i # 0 /\ s # 0 /\ i \in Nat /\ s \in Nat
         /\ d \in Disks /\ t \in Nat /\ t >= 2 /\ m \in Nat
         /\ Sane(d, t, m, H) /\ Passed(b, d, i, H) /\ Complete(b, d, m, H)
         /\ Kept(b, d, i, s, H) /\ SoFar(b, d, i, s, m, H)
         /\ StepKnown(b, i, s, Makefile(b)[i])
         /\ RuleFacts(b, i, Len(Makefile(b)), Makefile(b)[i])
<1>1. i \in 1 .. Len(Makefile(b)) /\ s \in 1 .. Len(Makefile(b)[i].recipe)
  BY DEF Busy
<1>2. Len(Makefile(b)) \in Nat /\ Len(Makefile(b)[i].recipe) \in Nat
  BY <1>1, Lengths
<1>3. i # 0 /\ s # 0 /\ i \in Nat /\ s \in Nat
  BY <1>1, <1>2
<1>4. /\ Sane(d, t, m, H) /\ Passed(b, d, i, H) /\ Complete(b, d, m, H)
      /\ Kept(b, d, i, s, H) /\ SoFar(b, d, i, s, m, H)
  BY DEF Busy, Sound
<1>5. d \in Disks /\ t \in Nat /\ t >= 2 /\ m \in Nat
  BY <1>4 DEF Sane, CheckedOut
<1>6. StepKnown(b, i, s, Makefile(b)[i])
  BY <1>1, RuleIs, StepIsKnown
<1>7. RuleFacts(b, i, Len(Makefile(b)), Makefile(b)[i])
  BY <1>1, Briefly
<1> QED
  BY <1>1, <1>3, <1>4, <1>5, <1>6, <1>7, Zenon

(* The target of a rule that is not repeated is not there while it runs.   *)
LEMMA FirmFacts ==
  ASSUME NEW b \in Benchmarks, NEW d, NEW t, NEW i, NEW s, NEW m, NEW H, Busy(b, d, t, i, s, m, H),
         Firm(Makefile(b)[i])
  PROVE  /\ H = {} => m = 0
         /\ Makefile(b)[i].recipe[s] # "llvm-dis" =>
              Affected(H, Makefile(b)[i].target) \/ Makefile(b)[i].target \notin d.whole
<1>1. SoFar(b, d, i, s, m, H) /\ i # 0 /\ s # 0
  BY BusyFacts, Zenon
<1>2. H = {} => ~ Affected(H, Makefile(b)[i].target)
  BY DEF Affected
<1> QED
  BY <1>1, <1>2 DEF SoFar

(* The files that the rule needs are there.                                *)
LEMMA NeedsAreThere ==
  ASSUME NEW b \in Benchmarks, NEW d, NEW i \in 1 .. Len(Makefile(b)), NEW H, Passed(b, d, i, H),
         Makefile(b)[i].target # "phony", ~ Affected(H, Makefile(b)[i].target),
         NEW g \in Makefile(b)[i].needs \ {"input", "phony"}
  PROVE  g \in d.whole /\ g # Makefile(b)[i].target /\ g \in Files
<1>1. /\ g \in Made /\ g # Makefile(b)[i].target /\ g \in Behind(g)
      /\ Behind(g) \subseteq Behind(Makefile(b)[i].target)
      /\ b = "sqlite" => g # "build"
  BY Needed
<1>2. PICK j \in 1 .. i - 1 : Makefile(b)[j].target = g
  BY Needed
<1>3. ~ Affected(H, g) /\ g # "phony" /\ g \in Files
  BY <1>1 DEF Affected, Made, Files
<1>4. There(b, d, g)
  BY <1>2, <1>3 DEF Passed, PassedAt
<1> QED
  BY <1>1, <1>3, <1>4 DEF There

LEMMA MiddleWrites ==
  ASSUME NEW b \in Benchmarks, NEW d, NEW t, NEW i, NEW s, NEW m, NEW H, Busy(b, d, t, i, s, m, H),
         NEW f \in Made, NEW w \in BOOLEAN, NEW x \in 0 .. t + 1, w => x # 0,
         \A j \in 1 .. Len(Makefile(b)) : j # i => Makefile(b)[j].target # f,
         \A j \in 1 .. Len(Makefile(b)) :
           j # i /\ f \in Makefile(b)[j].needs => Affected(H, f) \/ f \notin d.whole \/ (w /\ x = 1),
         w \/ ~ (H = {} /\ m >= 1),
         f = "lib" => w
  PROVE  Middle(b, Write(d, f, x, w), t + 1, i, m, H)
<1> DEFINE e == Write(d, f, x, w)
           n == Len(Makefile(b))
<1>0. /\ d \in Disks /\ t \in Nat /\ i \in 1 .. n /\ f \in Files /\ x \in Nat /\ n \in Nat
      /\ Sane(d, t, m, H) /\ Passed(b, d, i, H) /\ Complete(b, d, m, H) /\ Kept(b, d, i, s, H)
  BY BusyFacts, Lengths DEF Files
<1>1. /\ e \in Disks
      /\ \A g \in Files : e.at[g] = IF g = f THEN x ELSE d.at[g]
      /\ \A g : g \in e.whole <=> IF g = f THEN w ELSE g \in d.whole
  <2>1. d \in Disks /\ f \in Files /\ x \in Nat /\ w \in BOOLEAN
    BY <1>0
  <2> QED
    BY ONLY <2>1, WriteIs
<1>2. Sane(e, t + 1, m, H)
  BY <1>0, SaneWrite
<1> HIDE DEF e, n
<1>3. \A g \in Files : g # f => Same(d, e, g)
  BY <1>1 DEF Same
<1>4. f \in e.whole <=> w
  BY <1>1
<1>5. e.at[f] = x
  BY <1>0, <1>1
<1>6. \A j \in 1 .. n : j = i \/ KeptAt(b, e, H, j)
  <2> TAKE j \in 1 .. n
  <2>1. SUFFICES ASSUME j # i PROVE KeptAt(b, e, H, j)
    OBVIOUS
  <2>2. KeptAt(b, d, H, j)
    BY <1>0, <2>1 DEF Kept, n
  <2>3. j \in 1 .. Len(Makefile(b)) /\ f # Makefile(b)[j].target
    BY <2>1 DEF n
  <2>4. f \in Makefile(b)[j].needs => Affected(H, f) \/ f \notin d.whole \/ (f \in e.whole /\ e.at[f] = 1)
    BY <1>4, <1>5, <2>1, <2>3
  <2> QED
    BY ONLY <1>0, <1>1, <1>3, <2>2, <2>3, <2>4, OthersKeep, b \in Benchmarks, f \in Made
<1>7. ASSUME NEW j \in 1 .. n, PassedAt(b, d, H, j), f = Makefile(b)[j].target => w
      PROVE  PassedAt(b, e, H, j)
  <2> DEFINE g == IF Makefile(b)[j].target = "phony" THEN "lib" ELSE Makefile(b)[j].target
  <2>1. /\ Makefile(b)[j].target = "phony" => g = "lib"
        /\ Makefile(b)[j].target # "phony" => g = Makefile(b)[j].target
    OBVIOUS
  <2>2. Makefile(b)[j].target \in Files /\ "lib" \in Files
    BY Briefly DEF n, RuleFacts, Files, Made
  <2>3. g \in Files /\ (g = f => w)
    BY <1>7, <2>1, <2>2
  <2> HIDE DEF g
  <2>4. Same(d, e, g) \/ (g \in e.whole /\ e.at[g] # 0)
    BY <1>3, <1>4, <1>5, <2>3
  <2> QED
    BY <1>7, <2>1, <2>4, StillPassed
<1>8. Passed(b, e, i, H)
  <2> SUFFICES ASSUME NEW j \in 1 .. i - 1 PROVE PassedAt(b, e, H, j)
    BY DEF Passed
  <2>1. j \in 1 .. n /\ j # i
    BY <1>0
  <2>2. f # Makefile(b)[j].target
    BY <2>1 DEF n
  <2>3. PassedAt(b, d, H, j)
    BY <1>0 DEF Passed
  <2> QED
    BY <1>7, <2>1, <2>2, <2>3
<1>9. Complete(b, e, m, H)
  <2> SUFFICES ASSUME H = {}, m >= 1
               PROVE  /\ \A j \in 1 .. Len(Makefile(b)) : PassedAt(b, e, H, j)
                      /\ m >= MakesFor(b) => "bc" \in e.whole
    BY DEF Complete
  <2>1. w
    OBVIOUS
  <2>2. \A j \in 1 .. n : PassedAt(b, d, H, j)
    BY <1>0 DEF Complete, n
  <2>3. m >= MakesFor(b) => "bc" \in d.whole
    BY <1>0 DEF Complete
  <2> QED
    BY <1>1, <1>7, <2>1, <2>2, <2>3 DEF n
<1> QED
  BY <1>2, <1>6, <1>8, <1>9 DEF Middle, e, n

(* A step writes the target of a rule that is not repeated.                *)
LEMMA MiddleFirm ==
  ASSUME NEW b \in Benchmarks, NEW d, NEW t, NEW i, NEW s, NEW m, NEW H, Busy(b, d, t, i, s, m, H),
         Firm(Makefile(b)[i]), Makefile(b)[i].recipe[s] # "llvm-dis",
         NEW w \in BOOLEAN, NEW x \in 1 .. t + 1, Makefile(b)[i].target = "lib" => w
  PROVE  Middle(b, Write(d, Makefile(b)[i].target, x, w), t + 1, i, m, H)
<1> DEFINE f == Makefile(b)[i].target
<1>1. f \in Made
  BY BusyFacts DEF Firm, RuleFacts, Made
<1>2. Affected(H, f) \/ f \notin d.whole
  BY FirmFacts
<1>3. ~ (H = {} /\ m >= 1)
  <2>1. H = {} => m = 0
    BY FirmFacts
  <2> QED
    BY <2>1
<1>4. i \in 1 .. Len(Makefile(b)) /\ t \in Nat
  BY BusyFacts
<1>5. \A j \in 1 .. Len(Makefile(b)) : j # i => Makefile(b)[j].target # f
  BY <1>4, TargetsDiffer
<1>6. x \in 0 .. t + 1 /\ x # 0
  BY <1>4
<1> HIDE DEF f
<1>7. f = "lib" => w
  BY DEF f
<1>8. Middle(b, Write(d, f, x, w), t + 1, i, m, H)
  BY <1>1, <1>2, <1>3, <1>5, <1>6, <1>7, MiddleWrites
<1> QED
  BY <1>8 DEF f

(* The last step of a rule writes its target.                              *)
LEMMA TargetIsGood ==
  ASSUME NEW b \in Benchmarks, NEW d, NEW t, NEW i, NEW s, NEW m, NEW H, Busy(b, d, t, i, s, m, H),
         Makefile(b)[i].target # "phony"
  PROVE  LET e == Write(d, Makefile(b)[i].target, t + 1, TRUE) IN
         /\ ~ Affected(H, Makefile(b)[i].target) => Good(b, e, Makefile(b)[i])
         /\ Done(b, e, i, m, H)
<1> DEFINE r == Makefile(b)[i]
           f == r.target
           e == Write(d, f, t + 1, TRUE)
<1>0. /\ d \in Disks /\ t \in Nat /\ i \in 1 .. Len(Makefile(b)) /\ t >= 2
      /\ Sane(d, t, m, H) /\ Passed(b, d, i, H)
      /\ RuleFacts(b, i, Len(Makefile(b)), r)
  BY BusyFacts
<1>1. f \in Files /\ t + 1 \in Nat /\ f # "phony" /\ f # "input" /\ "input" \in Files
  BY <1>0 DEF RuleFacts, Made, Files
<1>2. /\ e \in Disks
      /\ \A g \in Files : e.at[g] = IF g = f THEN t + 1 ELSE d.at[g]
      /\ \A g : g \in e.whole <=> IF g = f THEN TRUE ELSE g \in d.whole
  BY <1>0, <1>1, WriteWhole, Zenon
<1>3. ASSUME ~ Affected(H, f), NEW g \in r.needs \ {"input", "phony"}
      PROVE  g \in d.whole /\ g # f /\ g \in Files
  BY <1>0, <1>1, <1>3, NeedsAreThere
<1> HIDE DEF e, f, r
<1>4. e.at[f] = t + 1 /\ t + 1 # 0 /\ f \in e.whole
  BY <1>0, <1>1, <1>2
<1>5. There(b, e, f)
  BY <1>4 DEF There
<1>6. ASSUME ~ Affected(H, f), Firm(r) PROVE r.needs \ {"input"} \subseteq e.whole /\ ~ Stale(e, r)
  <2>1. "phony" \notin r.needs
    BY <1>6 DEF Firm
  <2>2. r.needs \ {"input"} \subseteq e.whole
    BY <1>2, <1>3, <1>6, <2>1
  <2>3. ASSUME NEW g \in r.needs PROVE e.at[g] # 0 /\ ~ (e.at[g] > t + 1)
    <3>1. CASE g = "input"
      <4>1. e.at[g] = 2
        BY <1>0, <1>1, <1>2, <3>1 DEF Sane, CheckedOut
      <4> QED
        BY <1>0, <4>1
    <3>2. CASE g # "input"
      <4>1. g \in d.whole /\ g # f /\ g \in Files
        BY <1>3, <1>6, <2>1, <2>3, <3>2
      <4>2. e.at[g] = d.at[g] /\ d.at[g] # 0 /\ d.at[g] <= t /\ d.at[g] \in Nat
        BY <1>0, <1>2, <4>1 DEF Sane, Disks
      <4> QED
        BY <1>0, <4>2
    <3> QED
      BY <3>1, <3>2
  <2>4. ~ Stale(e, r)
    BY <1>4, <2>3 DEF Stale, f
  <2> QED
    BY <2>2, <2>4
<1>7. ~ Affected(H, f) => Good(b, e, r)
  BY <1>5, <1>6 DEF Good, f
<1>8. KeptAt(b, e, H, i)
  BY <1>7 DEF KeptAt, r, f
<1>9. PassedAt(b, e, H, i)
  BY <1>1, <1>5 DEF PassedAt, r, f
<1>10. b = "coreutils" /\ i = Len(Makefile(b)) => f = "phony"
  BY <1>0 DEF RuleFacts, f
<1>11. Done(b, e, i, m, H)
  BY <1>1, <1>8, <1>9, <1>10 DEF Done
<1> QED
  BY <1>7, <1>11 DEF e, f, r

LEMMA RunFinal ==
  ASSUME NEW b \in Benchmarks, NEW d, NEW t, NEW i, NEW s, NEW m, NEW H, Busy(b, d, t, i, s, m, H),
         Firm(Makefile(b)[i]), s = Len(Makefile(b)[i].recipe), Makefile(b)[i].recipe[s] # "llvm-dis"
  PROVE  Follows(b, Write(d, Makefile(b)[i].target, t + 1, TRUE), t + 1, i, s, m, H)
<1> DEFINE f == Makefile(b)[i].target
           e == Write(d, f, t + 1, TRUE)
<1>1. /\ i \in 1 .. Len(Makefile(b)) /\ s \in 1 .. Len(Makefile(b)[i].recipe)
      /\ t \in Nat /\ f # "phony"
  BY BusyFacts DEF Firm
<1>2. t + 1 \in 1 .. t + 1
  BY <1>1
<1>3. Middle(b, e, t + 1, i, m, H)
  BY <1>2, MiddleFirm
<1>4. Done(b, e, i, m, H)
  BY <1>1, TargetIsGood
<1>5. ~ (s < Len(Makefile(b)[i].recipe))
  BY Lengths, <1>1
<1> HIDE DEF e
<1>6. Follows(b, e, t + 1, i, s, m, H)
  BY <1>1, <1>3, <1>4, <1>5, StepEnds
<1> QED
  BY <1>6 DEF e

(* A step that changes nothing.                                            *)
LEMMA RunIdle ==
  ASSUME NEW b \in Benchmarks, NEW d, NEW t, NEW i, NEW s, NEW m, NEW H, Busy(b, d, t, i, s, m, H),
         s < Len(Makefile(b)[i].recipe) => SoFar(b, d, i, s + 1, m, H),
         s = Len(Makefile(b)[i].recipe) => Done(b, d, i, m, H)
  PROVE  Follows(b, d, t, i, s, m, H) /\ Follows(b, d, t + 1, i, s, m, H)
<1>1. Middle(b, d, t, i, m, H) /\ Middle(b, d, t + 1, i, m, H)
  BY MiddleOf DEF Busy
<1>2. i \in 1 .. Len(Makefile(b)) /\ s \in 1 .. Len(Makefile(b)[i].recipe)
  BY DEF Busy
<1> QED
  BY <1>1, <1>2, StepEnds

(* What the next step of a rule that is not repeated starts from.          *)
LEMMA SoFarNext ==
  ASSUME NEW b, NEW e, NEW i, NEW s, NEW m, NEW H, H = {} => m = 0,
         Makefile(b)[i].recipe[s] \notin {"llvm-dis", "mkdir", "extract-bc lib"},
         Makefile(b)[i].target \notin e.whole \/ Affected(H, Makefile(b)[i].target),
         \/ b # "json"
         \/ Makefile(b)[i].recipe[s] \notin {"configure", "configure; cd -"}
         \/ "script" \in e.whole
  PROVE  SoFar(b, e, i, s, m, H)
<1>1. ~ (0 >= 1)
  BY ONLY TRUE
<1>2. H = {} => ~ (m >= 1)
  BY <1>1, Zenon
<1> QED
  BY <1>2 DEF SoFar

(* A step that begins to write the target.                                 *)
LEMMA RunBegins ==
  ASSUME NEW b \in Benchmarks, NEW d, NEW t, NEW i, NEW s, NEW m, NEW H, Busy(b, d, t, i, s, m, H),
         Firm(Makefile(b)[i]), s < Len(Makefile(b)[i].recipe), Makefile(b)[i].target # "lib",
         Makefile(b)[i].recipe[s] # "llvm-dis", NEW x \in 1 .. t + 1,
         Makefile(b)[i].recipe[s + 1] \notin {"llvm-dis", "mkdir", "extract-bc lib"},
         b # "json" \/ Makefile(b)[i].recipe[s + 1] \notin {"configure", "configure; cd -"}
  PROVE  Follows(b, Write(d, Makefile(b)[i].target, x, FALSE), t + 1, i, s, m, H)
<1> DEFINE f == Makefile(b)[i].target
           e == Write(d, f, x, FALSE)
<1>1. /\ i \in 1 .. Len(Makefile(b)) /\ s \in 1 .. Len(Makefile(b)[i].recipe)
      /\ t \in Nat /\ f \in Files /\ d \in Disks
  BY BusyFacts DEF RuleFacts, Files, Made
<1>2. Middle(b, e, t + 1, i, m, H)
  BY MiddleFirm
<1>3. f \notin e.whole
  BY DEF Write
<1>4. H = {} => m = 0
  BY ONLY FirmFacts, b \in Benchmarks, Busy(b, d, t, i, s, m, H), Firm(Makefile(b)[i])
<1>5. ~ (s = Len(Makefile(b)[i].recipe))
  <2>1. Len(Makefile(b)[i].recipe) \in Nat
    BY <1>1, Lengths
  <2> QED
    BY ONLY <2>1, s < Len(Makefile(b)[i].recipe)
<1> HIDE DEF e
<1>6. SoFar(b, e, i, s + 1, m, H)
  BY <1>3, <1>4, SoFarNext
<1>7. Follows(b, e, t + 1, i, s, m, H)
  BY <1>1, <1>2, <1>5, <1>6, StepEnds
<1> QED
  BY <1>7 DEF e

LEMMA FirstOf ==
  ASSUME NEW k \in Nat
  PROVE  /\ 1 = k => k = 1
         /\ 1 < k => k # 1
         /\ k = 1 => ~ (1 < k)
         /\ ~ (1 > 1)
OBVIOUS

LEMMA RunMkdirP ==
  ASSUME NEW b \in Benchmarks, NEW d, NEW t, NEW i, NEW s, NEW m, NEW H, Busy(b, d, t, i, s, m, H),
         Firm(Makefile(b)[i]), s = 1, Makefile(b)[i].target = "build",
         Makefile(b)[i].recipe[s] # "llvm-dis",
         \/ Len(Makefile(b)[i].recipe) = 1 /\ b = "sqlite"
         \/ /\ s < Len(Makefile(b)[i].recipe)
            /\ Makefile(b)[i].recipe[s + 1] \notin {"llvm-dis", "mkdir", "extract-bc lib"}
            /\ b # "json" \/ Makefile(b)[i].recipe[s + 1] \notin {"configure", "configure; cd -"}
  PROVE  Follows(b, IF d.at["build"] # 0 THEN d ELSE Write(d, "build", t + 1, FALSE), t + 1, i, s, m, H)
<1>1. /\ i \in 1 .. Len(Makefile(b)) /\ s \in 1 .. Len(Makefile(b)[i].recipe)
      /\ t \in Nat /\ d \in Disks /\ Kept(b, d, i, s, H)
      /\ RuleFacts(b, i, Len(Makefile(b)), Makefile(b)[i])
  BY BusyFacts
<1>b. /\ H = {} => m = 0
      /\ Makefile(b)[i].recipe[s] # "llvm-dis" =>
           Affected(H, Makefile(b)[i].target) \/ Makefile(b)[i].target \notin d.whole
  BY ONLY FirmFacts, b \in Benchmarks, Busy(b, d, t, i, s, m, H), Firm(Makefile(b)[i])
<1>2. H = {} => m = 0
  BY <1>b, Zenon
<1>3. Affected(H, "build") \/ "build" \notin d.whole
  BY <1>b
<1>4. t + 1 \in 1 .. t + 1 /\ t + 1 \in Nat /\ t + 1 # 0
  <2>1. t \in Nat
    BY <1>1
  <2> QED
    BY ONLY <2>1
<1>a. /\ s = Len(Makefile(b)[i].recipe) => Len(Makefile(b)[i].recipe) = 1
      /\ s < Len(Makefile(b)[i].recipe) => Len(Makefile(b)[i].recipe) # 1
      /\ Len(Makefile(b)[i].recipe) = 1 => ~ (s < Len(Makefile(b)[i].recipe))
      /\ ~ (s > 1)
  <2>1. Len(Makefile(b)[i].recipe) \in Nat
    BY <1>1, Lengths
  <2> QED
    BY ONLY <2>1, s = 1, FirstOf, Zenon
<1>5. i # Len(Makefile(b))
  BY <1>1 DEF RuleFacts
<1>6. CASE d.at["build"] # 0
  <2>1. ASSUME s = Len(Makefile(b)[i].recipe) PROVE Done(b, d, i, m, H)
    <3>1. b = "sqlite"
      BY <1>a, <2>1
    <3>2. ~ (i = i /\ s > 1)
      BY <1>a
    <3>3. KeptAt(b, d, H, i)
      BY <1>1, <3>2 DEF Kept
    <3>4. PassedAt(b, d, H, i)
      BY <1>6, <3>1 DEF PassedAt, There
    <3> QED
      BY <1>5, <3>3, <3>4 DEF Done
  <2>2. ASSUME s < Len(Makefile(b)[i].recipe) PROVE SoFar(b, d, i, s + 1, m, H)
    <3>1. Len(Makefile(b)[i].recipe) # 1
      BY <1>a, <2>2
    <3> QED
      BY <1>2, <1>3, <3>1, SoFarNext
  <2> QED
    BY <1>6, <2>1, <2>2, RunIdle
<1>7. CASE ~ (d.at["build"] # 0) /\ Len(Makefile(b)[i].recipe) = 1 /\ b = "sqlite"
  <2> DEFINE e == Write(d, "build", t + 1, FALSE)
  <2>1. Middle(b, e, t + 1, i, m, H)
    BY <1>4, MiddleFirm
  <2>2. e.at["build"] = t + 1
    BY ONLY <1>1, <1>4, WriteIs DEF Files, Made
  <2> HIDE DEF e
  <2>3. Shape(b, Makefile(b))
    BY ShapeIs
  <2>4. Makefile(b)[i].needs = {}
    BY <1>1, <1>7, Briefly DEF BriefRule, SqliteMakes, Makes
  <2>5. Good(b, e, Makefile(b)[i]) /\ There(b, e, "build")
    BY <1>4, <1>7, <2>2, <2>4 DEF Good, There, Stale
  <2>6. Done(b, e, i, m, H)
    BY <1>5, <2>5 DEF Done, KeptAt, PassedAt
  <2>7. ~ (s < Len(Makefile(b)[i].recipe))
    BY <1>a, <1>7
  <2>8. Follows(b, e, t + 1, i, s, m, H)
    BY <1>1, <2>1, <2>6, <2>7, StepEnds
  <2> QED
    BY <1>7, <2>8 DEF e
<1>8. CASE ~ (d.at["build"] # 0) /\ s < Len(Makefile(b)[i].recipe)
  <2>1. Len(Makefile(b)[i].recipe) # 1
    BY <1>a, <1>8
  <2>2. Follows(b, Write(d, "build", t + 1, FALSE), t + 1, i, s, m, H)
    BY <1>4, <1>8, <2>1, RunBegins
  <2> QED
    BY <1>8, <2>2
<1> QED
  BY <1>6, <1>7, <1>8

(* The files that some benchmarks do not make by a rule of their own.      *)
LEMMA NoSuchRule ==
  ASSUME NEW b \in Benchmarks, NEW j \in 1 .. Len(Makefile(b))
  PROVE  /\ "bc" \notin Makefile(b)[j].needs /\ "script" \notin Makefile(b)[j].needs
         /\ Makefile(b)[j].target \in {"src", "build", "lib", "obj", "prog", "bc", "phony"}
         /\ b = "coreutils" => Makefile(b)[j].target \in {"src", "build", "phony"}
         /\ b \in {"m4", "coreutils", "make", "bash"} =>
              Makefile(b)[j].target # "lib" /\ "lib" \notin Makefile(b)[j].needs
         /\ b \in {"m4", "coreutils"} =>
              \/ j = 1 /\ Makefile(b)[j].target = "src" /\ Makefile(b)[j].needs = {}
              \/ j = 2 /\ Makefile(b)[j].target = "build"
              \/ j = 3 /\ Makefile(b)[j].target \in {"bc", "phony"}
         /\ b = "json" =>
              \/ j = 1 /\ Makefile(b)[j].target = "src" /\ Makefile(b)[j].needs = {"input"}
              \/ j = 2 /\ Makefile(b)[j].target = "build"
              \/ Makefile(b)[j].target # "src" /\ "src" \notin Makefile(b)[j].needs
<1> DEFINE r == Makefile(b)[j]
           n == Len(Makefile(b))
<1>1. BriefRule(b, j, n, r) /\ RuleFacts(b, j, n, r)
  BY Briefly
<1> HIDE DEF r, n
<1>2. "bc" \notin r.needs /\ "script" \notin r.needs
      /\ r.target \in {"src", "build", "lib", "obj", "prog", "bc", "phony"}
  BY <1>1 DEF RuleFacts
<1>3. ASSUME b = "m4"
      PROVE  /\ r.target # "lib" /\ "lib" \notin r.needs
             /\ \/ j = 1 /\ r.target = "src" /\ r.needs = {}
                \/ j = 2 /\ r.target = "build"
                \/ j = 3 /\ r.target \in {"bc", "phony"}
  BY <1>1, <1>3 DEF BriefRule, M4Makes, Makes
<1>4. ASSUME b = "coreutils"
      PROVE  /\ r.target # "lib" /\ "lib" \notin r.needs
             /\ \/ j = 1 /\ r.target = "src" /\ r.needs = {}
                \/ j = 2 /\ r.target = "build"
                \/ j = 3 /\ r.target = "phony"
  BY <1>1, <1>4 DEF BriefRule, CoreutilsMakes, Makes
<1>5. ASSUME b \in {"make", "bash"} PROVE r.target # "lib" /\ "lib" \notin r.needs
  BY <1>1, <1>5 DEF BriefRule, MakeMakes, Makes
<1>6. ASSUME b = "json"
      PROVE  \/ j = 1 /\ r.target = "src" /\ r.needs = {"input"}
             \/ j = 2 /\ r.target = "build"
             \/ r.target # "src" /\ "src" \notin r.needs
  BY <1>1, <1>6 DEF BriefRule, JsonMakes, Makes
<1>7. /\ b = "coreutils" => r.target \in {"src", "build", "phony"}
      /\ b \in {"m4", "coreutils", "make", "bash"} => r.target # "lib" /\ "lib" \notin r.needs
      /\ b \in {"m4", "coreutils"} =>
           \/ j = 1 /\ r.target = "src" /\ r.needs = {}
           \/ j = 2 /\ r.target = "build"
           \/ j = 3 /\ r.target \in {"bc", "phony"}
  BY <1>3, <1>4, <1>5
<1> QED
  BY <1>2, <1>6, <1>7, Zenon DEF r

(* A step that makes a file whole which only its own rule makes.           *)
LEMMA MiddleGrows ==
  ASSUME NEW b \in Benchmarks, NEW d, NEW t, NEW i, NEW s, NEW m, NEW H, Busy(b, d, t, i, s, m, H),
         NEW f \in Made, NEW x \in 1 .. t + 1,
         \A j \in 1 .. Len(Makefile(b)) : j # i => Makefile(b)[j].target # f,
         x = 1 \/ \A j \in 1 .. Len(Makefile(b)) : f \notin Makefile(b)[j].needs
  PROVE  Middle(b, Write(d, f, x, TRUE), t + 1, i, m, H)
<1>1. x \in 0 .. t + 1 /\ x # 0
  <2>1. t \in Nat
    BY BusyFacts
  <2> QED
    BY <2>1
<1>2. TRUE \in BOOLEAN
  OBVIOUS
<1>3. \A j \in 1 .. Len(Makefile(b)) :
        j # i /\ f \in Makefile(b)[j].needs => Affected(H, f) \/ f \notin d.whole \/ (TRUE /\ x = 1)
  BY Zenon
<1> QED
  BY <1>1, <1>2, <1>3, MiddleWrites

LEMMA WholeGrows ==
  ASSUME NEW d, NEW f, NEW x
  PROVE  Write(d, f, x, TRUE).whole = d.whole \cup {f}
BY DEF Write

LEMMA LastStep ==
  ASSUME NEW b \in Benchmarks, NEW d, NEW t, NEW i, NEW s, NEW m, NEW H, Busy(b, d, t, i, s, m, H),
         s = Len(Makefile(b)[i].recipe)
  PROVE  ~ (s < Len(Makefile(b)[i].recipe))
<1>1. s \in Nat
  BY BusyFacts
<1>2. ~ (s < s)
  BY ONLY <1>1
<1> QED
  BY <1>2, Zenon

LEMMA RunUnpack ==
  ASSUME NEW b \in Benchmarks, NEW d, NEW t, NEW i, NEW s, NEW m, NEW H, Busy(b, d, t, i, s, m, H),
         ~ Firm(Makefile(b)[i]), s = Len(Makefile(b)[i].recipe), Makefile(b)[i].target = "src"
  PROVE  Follows(b, Write(d, "src", Archived, TRUE), t + 1, i, s, m, H)
<1> DEFINE e == Write(d, "src", Archived, TRUE)
<1>1. /\ i \in 1 .. Len(Makefile(b)) /\ s \in 1 .. Len(Makefile(b)[i].recipe)
      /\ RuleFacts(b, i, Len(Makefile(b)), Makefile(b)[i]) /\ t \in Nat
  BY BusyFacts
<1>2. \A j \in 1 .. Len(Makefile(b)) : j # i => Makefile(b)[j].target # "src"
  BY <1>1, TargetsDiffer
<1>3. Archived \in 1 .. t + 1 /\ Archived = 1 /\ "src" \in Made
  BY <1>1 DEF Archived, Made
<1>a. Archived = 1 \/ \A j \in 1 .. Len(Makefile(b)) : "src" \notin Makefile(b)[j].needs
  BY <1>3
<1>b. "src" \in e.whole
  BY WholeGrows
<1>c. Middle(b, e, t + 1, i, m, H)
  BY ONLY <1>2, <1>3, <1>a, MiddleGrows, b \in Benchmarks, Busy(b, d, t, i, s, m, H)
<1>4. Middle(b, e, t + 1, i, m, H) /\ "src" \in e.whole
  BY <1>b, <1>c, Zenon
<1> HIDE DEF e
<1>5. There(b, e, "src")
  BY <1>4 DEF There
<1>6. Done(b, e, i, m, H)
  <2>1. i # Len(Makefile(b))
    BY <1>1 DEF RuleFacts
  <2> QED
    BY <1>5, <2>1 DEF Done, KeptAt, PassedAt, Good
<1>7. ~ (s < Len(Makefile(b)[i].recipe))
  BY LastStep
<1>8. Follows(b, e, t + 1, i, s, m, H)
  BY <1>1, <1>4, <1>6, <1>7, StepEnds
<1> QED
  BY <1>8 DEF e

LEMMA RunMakePhony ==
  ASSUME NEW b \in Benchmarks, NEW d, NEW t, NEW i, NEW s, NEW m, NEW H, Busy(b, d, t, i, s, m, H),
         Makefile(b)[i].recipe[s] = "make -C", s = Len(Makefile(b)[i].recipe),
         Makefile(b)[i].target = "phony"
  PROVE  Follows(b, IF "lib" \in d.whole THEN d ELSE Write(d, "lib", t + 1, TRUE), t + 1, i, s, m, H)
<1> DEFINE e == Write(d, "lib", t + 1, TRUE)
<1>1. /\ i \in 1 .. Len(Makefile(b)) /\ s \in 1 .. Len(Makefile(b)[i].recipe) /\ i # 0 /\ s # 0
      /\ RuleFacts(b, i, Len(Makefile(b)), Makefile(b)[i]) /\ t \in Nat /\ SoFar(b, d, i, s, m, H)
  BY BusyFacts
<1>2. b \in {"make", "bash", "coreutils"}
  BY <1>1 DEF RuleFacts
<1>3. b = "coreutils" /\ H = {} /\ m >= 1 => "bc" \in d.whole
  BY <1>1 DEF SoFar
<1>4. ASSUME NEW c, "lib" \in c.whole, \A g : g \in d.whole => g \in c.whole PROVE Done(b, c, i, m, H)
  BY <1>3, <1>4 DEF Done, KeptAt, PassedAt
<1>5. CASE "lib" \in d.whole
  <2>1. Done(b, d, i, m, H)
    BY <1>4, <1>5
  <2>2. ~ (s < Len(Makefile(b)[i].recipe))
    BY LastStep
  <2> QED
    BY <1>5, <2>1, <2>2, RunIdle
<1>6. CASE "lib" \notin d.whole
  <2>1. \A j \in 1 .. Len(Makefile(b)) : Makefile(b)[j].target # "lib" /\ "lib" \notin Makefile(b)[j].needs
    BY <1>2, NoSuchRule
  <2>2. t + 1 \in 1 .. t + 1 /\ "lib" \in Made
    <3>1. t \in Nat
      BY <1>1
    <3>2. t + 1 \in 1 .. t + 1
      BY ONLY <3>1
    <3> QED
      BY <3>2 DEF Made
  <2>a. /\ \A j \in 1 .. Len(Makefile(b)) : j # i => Makefile(b)[j].target # "lib"
        /\ t + 1 = 1 \/ \A j \in 1 .. Len(Makefile(b)) : "lib" \notin Makefile(b)[j].needs
    BY <2>1
  <2>b. e.whole = d.whole \cup {"lib"}
    BY WholeGrows
  <2>3. Middle(b, e, t + 1, i, m, H)
    BY ONLY <2>a, <2>2, MiddleGrows, b \in Benchmarks, Busy(b, d, t, i, s, m, H)
  <2> HIDE DEF e
  <2>4. Done(b, e, i, m, H)
    BY <1>4, <2>b
  <2>5. ~ (s < Len(Makefile(b)[i].recipe))
    BY LastStep
  <2>6. Follows(b, e, t + 1, i, s, m, H)
    BY <1>1, <2>3, <2>4, <2>5, StepEnds
  <2> QED
    BY <1>6, <2>6 DEF e
<1> QED
  BY <1>5, <1>6

LEMMA RunMakeLib ==
  ASSUME NEW b \in Benchmarks, NEW d, NEW t, NEW i, NEW s, NEW m, NEW H, Busy(b, d, t, i, s, m, H),
         Makefile(b)[i].recipe[s] = "make -C", s = Len(Makefile(b)[i].recipe),
         Makefile(b)[i].target = "lib", Firm(Makefile(b)[i])
  PROVE  Follows(b, IF "lib" \in d.whole THEN d ELSE Write(d, "lib", t + 1, TRUE), t + 1, i, s, m, H)
<1>1. /\ i \in 1 .. Len(Makefile(b)) /\ s \in 1 .. Len(Makefile(b)[i].recipe)
      /\ RuleFacts(b, i, Len(Makefile(b)), Makefile(b)[i])
  BY BusyFacts
<1>2. CASE "lib" \in d.whole
  <2>1. Affected(H, "lib")
    BY <1>2, FirmFacts
  <2>2. i # Len(Makefile(b))
    BY <1>1 DEF RuleFacts
  <2>3. Done(b, d, i, m, H)
    BY <2>1, <2>2 DEF Done, KeptAt, PassedAt
  <2>4. ~ (s < Len(Makefile(b)[i].recipe))
    BY LastStep
  <2> QED
    BY <1>2, <2>3, <2>4, RunIdle
<1>3. CASE "lib" \notin d.whole
  <2>1. Makefile(b)[i].recipe[s] # "llvm-dis"
    OBVIOUS
  <2>2. Follows(b, Write(d, Makefile(b)[i].target, t + 1, TRUE), t + 1, i, s, m, H)
    BY <2>1, RunFinal
  <2> QED
    BY <1>3, <2>2
<1> QED
  BY <1>2, <1>3

LEMMA NextStepIs ==
  ASSUME NEW b \in Benchmarks, NEW d, NEW t, NEW i, NEW s, NEW m, NEW H, Busy(b, d, t, i, s, m, H),
         s < Len(Makefile(b)[i].recipe)
  PROVE  /\ ~ (s = Len(Makefile(b)[i].recipe))
         /\ t + 1 \in 1 .. t + 1 /\ ~ (t + 1 = 1)
<1>1. Len(Makefile(b)[i].recipe) \in Nat
  BY Lengths, BusyFacts
<1>2. t \in Nat /\ t >= 2
  BY BusyFacts
<1>3. t + 1 \in 1 .. t + 1 /\ ~ (t + 1 = 1)
  BY ONLY <1>2
<1>4. ~ (s = Len(Makefile(b)[i].recipe))
  BY ONLY <1>1, s < Len(Makefile(b)[i].recipe)
<1> QED
  BY <1>3, <1>4

LEMMA RunMakeM4 ==
  ASSUME NEW b \in Benchmarks, NEW d, NEW t, NEW i, NEW s, NEW m, NEW H, Busy(b, d, t, i, s, m, H),
         Makefile(b)[i].recipe[s] = "make -C", s < Len(Makefile(b)[i].recipe),
         Makefile(b)[i].target = "bc", Firm(Makefile(b)[i]), b = "m4",
         Makefile(b)[i].recipe[s + 1] = "extract-bc lib"
  PROVE  Follows(b, IF "lib" \in d.whole THEN d ELSE Write(d, "lib", t + 1, TRUE), t + 1, i, s, m, H)
<1> DEFINE e == Write(d, "lib", t + 1, TRUE)
<1>1. /\ i \in 1 .. Len(Makefile(b)) /\ s \in 1 .. Len(Makefile(b)[i].recipe)
  BY BusyFacts
<1>b. /\ H = {} => m = 0
      /\ Makefile(b)[i].recipe[s] # "llvm-dis" =>
           Affected(H, Makefile(b)[i].target) \/ Makefile(b)[i].target \notin d.whole
  BY ONLY FirmFacts, b \in Benchmarks, Busy(b, d, t, i, s, m, H), Firm(Makefile(b)[i])
<1>2. /\ H = {} => m = 0
      /\ Affected(H, "bc") \/ "bc" \notin d.whole
  BY <1>b
<1>3. t + 1 \in 1 .. t + 1 /\ ~ (s = Len(Makefile(b)[i].recipe)) /\ "lib" \in Made
  BY NextStepIs DEF Made
<1>4. ASSUME NEW c, "lib" \in c.whole, "bc" \in c.whole => "bc" \in d.whole PROVE SoFar(b, c, i, s + 1, m, H)
  BY <1>2, <1>4 DEF SoFar
<1>5. CASE "lib" \in d.whole
  <2>1. SoFar(b, d, i, s + 1, m, H)
    BY <1>4, <1>5
  <2> QED
    BY <1>3, <1>5, <2>1, RunIdle
<1>6. CASE "lib" \notin d.whole
  <2>1. /\ \A j \in 1 .. Len(Makefile(b)) : j # i => Makefile(b)[j].target # "lib"
        /\ t + 1 = 1 \/ \A j \in 1 .. Len(Makefile(b)) : "lib" \notin Makefile(b)[j].needs
    BY NoSuchRule
  <2>2. Middle(b, e, t + 1, i, m, H)
    BY ONLY <1>3, <2>1, MiddleGrows, b \in Benchmarks, Busy(b, d, t, i, s, m, H)
  <2>3. e.whole = d.whole \cup {"lib"}
    BY WholeGrows
  <2> HIDE DEF e
  <2>4. SoFar(b, e, i, s + 1, m, H)
    BY <1>4, <2>3
  <2>5. Follows(b, e, t + 1, i, s, m, H)
    BY <1>1, <1>3, <2>2, <2>4, StepEnds
  <2> QED
    BY <1>6, <2>5 DEF e
<1> QED
  BY <1>5, <1>6

LEMMA RunExtractLib ==
  ASSUME NEW b \in Benchmarks, NEW d, NEW t, NEW i, NEW s, NEW m, NEW H, Busy(b, d, t, i, s, m, H),
         s = Len(Makefile(b)[i].recipe), Makefile(b)[i].target = "bc"
  PROVE  Follows(b, Write(d, "bc", t + 1, TRUE), t + 1, i, s, m, H)
<1> DEFINE e == Write(d, "bc", t + 1, TRUE)
<1>1. /\ i \in 1 .. Len(Makefile(b)) /\ s \in 1 .. Len(Makefile(b)[i].recipe) /\ "bc" \in Made
  BY BusyFacts DEF Made
<1>2. t + 1 \in 1 .. t + 1
  <2>1. t \in Nat
    BY BusyFacts
  <2> QED
    BY ONLY <2>1
<1>3. /\ \A j \in 1 .. Len(Makefile(b)) : j # i => Makefile(b)[j].target # "bc"
      /\ t + 1 = 1 \/ \A j \in 1 .. Len(Makefile(b)) : "bc" \notin Makefile(b)[j].needs
  BY <1>1, NoSuchRule, TargetsDiffer
<1>4. Middle(b, e, t + 1, i, m, H)
  BY ONLY <1>1, <1>2, <1>3, MiddleGrows, b \in Benchmarks, Busy(b, d, t, i, s, m, H)
<1>5. Done(b, e, i, m, H)
  BY TargetIsGood
<1>6. ~ (s < Len(Makefile(b)[i].recipe))
  BY LastStep
<1> HIDE DEF e
<1>7. Follows(b, e, t + 1, i, s, m, H)
  BY <1>1, <1>4, <1>5, <1>6, StepEnds
<1> QED
  BY <1>7 DEF e

LEMMA RunExtractSh ==
  ASSUME NEW b \in Benchmarks, NEW d, NEW t, NEW i, NEW s, NEW m, NEW H, Busy(b, d, t, i, s, m, H),
         s < Len(Makefile(b)[i].recipe), ~ Firm(Makefile(b)[i]), b = "coreutils"
  PROVE  Follows(b, Write(d, "bc", t + 1, TRUE), t + 1, i, s, m, H)
<1> DEFINE e == Write(d, "bc", t + 1, TRUE)
<1>1. /\ i \in 1 .. Len(Makefile(b)) /\ s \in 1 .. Len(Makefile(b)[i].recipe) /\ "bc" \in Made
  BY BusyFacts DEF Made
<1>2. t + 1 \in 1 .. t + 1 /\ ~ (s = Len(Makefile(b)[i].recipe))
  BY NextStepIs
<1>3. /\ \A j \in 1 .. Len(Makefile(b)) : j # i => Makefile(b)[j].target # "bc"
      /\ t + 1 = 1 \/ \A j \in 1 .. Len(Makefile(b)) : "bc" \notin Makefile(b)[j].needs
  BY <1>1, NoSuchRule
<1>4. Middle(b, e, t + 1, i, m, H)
  BY ONLY <1>1, <1>2, <1>3, MiddleGrows, b \in Benchmarks, Busy(b, d, t, i, s, m, H)
<1>5. "bc" \in e.whole
  BY WholeGrows
<1> HIDE DEF e
<1>6. SoFar(b, e, i, s + 1, m, H)
  BY <1>5 DEF SoFar
<1>7. Follows(b, e, t + 1, i, s, m, H)
  BY <1>1, <1>2, <1>4, <1>6, StepEnds
<1> QED
  BY <1>7 DEF e

LEMMA RunOpt ==
  ASSUME NEW b \in Benchmarks, NEW d, NEW t, NEW i, NEW s, NEW m, NEW H, Busy(b, d, t, i, s, m, H),
         s < Len(Makefile(b)[i].recipe), Firm(Makefile(b)[i]), Makefile(b)[i].target = "bc",
         Makefile(b)[i].recipe[s] = "opt", Makefile(b)[i].recipe[s + 1] = "llvm-dis"
  PROVE  Follows(b, Write(d, "bc", t + 1, TRUE), t + 1, i, s, m, H)
<1> DEFINE e == Write(d, "bc", t + 1, TRUE)
<1>1. /\ i \in 1 .. Len(Makefile(b)) /\ s \in 1 .. Len(Makefile(b)[i].recipe)
  BY BusyFacts
<1>2. t + 1 \in 1 .. t + 1 /\ ~ (s = Len(Makefile(b)[i].recipe))
  BY NextStepIs
<1>3. H = {} => m = 0
  BY FirmFacts
<1>4. Middle(b, e, t + 1, i, m, H)
  BY <1>2, MiddleFirm
<1>5. ~ Affected(H, "bc") => Good(b, e, Makefile(b)[i])
  BY TargetIsGood
<1> HIDE DEF e
<1>6. SoFar(b, e, i, s + 1, m, H)
  BY <1>3, <1>5 DEF SoFar
<1>7. Follows(b, e, t + 1, i, s, m, H)
  BY <1>1, <1>2, <1>4, <1>6, StepEnds
<1> QED
  BY <1>7 DEF e

LEMMA RunDis ==
  ASSUME NEW b \in Benchmarks, NEW d, NEW t, NEW i, NEW s, NEW m, NEW H, Busy(b, d, t, i, s, m, H),
         s = Len(Makefile(b)[i].recipe), Firm(Makefile(b)[i]), Makefile(b)[i].target = "bc",
         Makefile(b)[i].recipe[s] = "llvm-dis"
  PROVE  Follows(b, d, t + 1, i, s, m, H)
<1>1. /\ SoFar(b, d, i, s, m, H) /\ i # 0 /\ s # 0
      /\ RuleFacts(b, i, Len(Makefile(b)), Makefile(b)[i])
  BY BusyFacts
<1>2. ~ Affected(H, "bc") => Good(b, d, Makefile(b)[i])
  BY <1>1 DEF SoFar
<1>3. b = "coreutils" => i # Len(Makefile(b))
  BY <1>1 DEF RuleFacts
<1>4. Done(b, d, i, m, H)
  BY <1>2, <1>3 DEF Done, KeptAt, PassedAt, Good
<1>5. ~ (s < Len(Makefile(b)[i].recipe))
  BY LastStep
<1> QED
  BY <1>4, <1>5, RunIdle

LEMMA NoMake ==
  ASSUME NEW H, NEW m, H = {} => m = 0
  PROVE  H = {} => ~ (m >= 1)
<1>1. ~ (0 >= 1)
  BY ONLY TRUE
<1> QED
  BY <1>1, Zenon

LEMMA SecondRule ==
  ASSUME NEW b \in Benchmarks, NEW d, NEW H, PassedAt(b, d, H, 1)
  PROVE  Passed(b, d, 2, H)
<1>1. \A j \in 1 .. 2 - 1 : j = 1
  OBVIOUS
<1> QED
  BY <1>1 DEF Passed

LEMMA FirstRule ==
  ASSUME NEW b \in Benchmarks, NEW d, NEW H, Passed(b, d, 2, H)
  PROVE  1 \in 1 .. Len(Makefile(b)) /\ PassedAt(b, d, H, 1)
<1>1. 1 \in 1 .. 2 - 1
  OBVIOUS
<1>2. Len(Makefile(b)) \in Nat /\ Len(Makefile(b)) >= 1
  BY Lengths
<1>3. 1 \in 1 .. Len(Makefile(b))
  BY ONLY <1>2
<1> QED
  BY <1>1, <1>3 DEF Passed

LEMMA RunRmBuild ==
  ASSUME NEW b \in Benchmarks, NEW d, NEW t, NEW i, NEW s, NEW m, NEW H, Busy(b, d, t, i, s, m, H),
         s < Len(Makefile(b)[i].recipe), Firm(Makefile(b)[i]), Makefile(b)[i].target = "build",
         Makefile(b)[i].recipe[s] = "rm build", Makefile(b)[i].recipe[s + 1] = "mkdir",
         b \in {"m4", "coreutils"}
  PROVE  Follows(b, Remove(d, InBuild(b)), t + 1, i, s, m, H)
<1> DEFINE e == Remove(d, InBuild(b))
           n == Len(Makefile(b))
<1>1. /\ i \in 1 .. n /\ s \in 1 .. Len(Makefile(b)[i].recipe) /\ d \in Disks
      /\ Sane(d, t, m, H) /\ Passed(b, d, i, H) /\ Kept(b, d, i, s, H)
  BY BusyFacts
<1>2. InBuild(b) = {"build", "lib", "bc"} /\ InBuild(b) \in SUBSET Made
  BY DEF InBuild, Made
<1>3. H = {} => m = 0
  BY ONLY FirmFacts, b \in Benchmarks, Busy(b, d, t, i, s, m, H), Firm(Makefile(b)[i])
<1>4. Sane(e, t + 1, m, H)
  BY <1>1, <1>2, SaneLater, SaneRemove
<1>a. /\ \A g \in Files : e.at[g] = IF g \in InBuild(b) THEN 0 ELSE d.at[g]
      /\ \A g : g \in e.whole <=> g \in d.whole /\ g \notin InBuild(b)
  <2>1. d \in Disks
    BY <1>1
  <2> QED
    BY ONLY <2>1, RemoveIs
<1> HIDE DEF e
<1>5. /\ \A g \in Files : e.at[g] = IF g \in {"build", "lib", "bc"} THEN 0 ELSE d.at[g]
      /\ \A g : g \in e.whole <=> g \in d.whole /\ g \notin {"build", "lib", "bc"}
  BY ONLY <1>a, <1>2
<1>6. e.at["build"] = 0 /\ e.at["bc"] = 0 /\ "build" \notin e.whole /\ Same(d, e, "src")
  BY <1>5 DEF Files, Made, Same
<1>7. ASSUME NEW j \in 1 .. n
      PROVE  \/ j = 1 /\ Makefile(b)[j].target = "src" /\ Makefile(b)[j].needs = {}
             \/ j = 2 /\ Makefile(b)[j].target = "build"
             \/ j = 3 /\ Makefile(b)[j].target \in {"bc", "phony"}
  BY NoSuchRule
<1>8. i = 2
  BY <1>1, <1>7
<1>9. \A j \in 1 .. n : j = i \/ KeptAt(b, e, H, j)
  <2> TAKE j \in 1 .. n
  <2>1. CASE Makefile(b)[j].target = "src" /\ Makefile(b)[j].needs = {}
    <3>1. j = i \/ KeptAt(b, d, H, j)
      BY <1>1 DEF Kept
    <3> QED
      BY <1>6, <2>1, <3>1, KeptIfSame
  <2>2. CASE Makefile(b)[j].target \in {"bc", "phony"}
    BY <1>6, <2>2 DEF KeptAt
  <2> QED
    BY <1>7, <1>8, <2>1, <2>2
<1>10. Passed(b, e, i, H)
  <2>1. 1 \in 1 .. n /\ PassedAt(b, d, H, 1)
    BY <1>1, <1>8, FirstRule
  <2>2. \/ 1 = 1 /\ Makefile(b)[1].target = "src" /\ Makefile(b)[1].needs = {}
        \/ 1 = 2 /\ Makefile(b)[1].target = "build"
        \/ 1 = 3 /\ Makefile(b)[1].target \in {"bc", "phony"}
    BY <1>7, <2>1
  <2>3. Makefile(b)[1].target = "src"
    BY ONLY <2>2
  <2>4. PassedAt(b, e, H, 1)
    BY <1>6, <2>1, <2>3, StillPassed
  <2> QED
    BY <1>8, <2>4, SecondRule
<1>11. Complete(b, e, m, H)
  <2>1. H = {} => ~ (m >= 1)
    BY ONLY <1>3, NoMake
  <2> QED
    BY <2>1 DEF Complete
<1>12. Middle(b, e, t + 1, i, m, H)
  BY <1>4, <1>9, <1>10, <1>11 DEF Middle
<1>13. SoFar(b, e, i, s + 1, m, H)
  BY <1>3, <1>6 DEF SoFar
<1>14. ~ (s = Len(Makefile(b)[i].recipe))
  BY NextStepIs
<1>15. Follows(b, e, t + 1, i, s, m, H)
  BY <1>1, <1>12, <1>13, <1>14, StepEnds
<1> QED
  BY <1>15 DEF e

LEMMA RunAutogen ==
  ASSUME NEW b \in Benchmarks, NEW d, NEW t, NEW i, NEW s, NEW m, NEW H, Busy(b, d, t, i, s, m, H),
         s < Len(Makefile(b)[i].recipe), Firm(Makefile(b)[i]), Makefile(b)[i].target = "build",
         Makefile(b)[i].recipe[s] = "autogen; cd -", Makefile(b)[i].recipe[s + 1] = "configure; cd -",
         b = "json"
  PROVE  Follows(b, Write(Write(d, "script", t + 1, TRUE), "src", t + 1, "src" \in d.whole),
                 t + 1, i, s, m, H)
<1> DEFINE c == Write(d, "script", t + 1, TRUE)
           w == "src" \in d.whole
           e == Write(c, "src", t + 1, w)
           n == Len(Makefile(b))
<1>1. /\ i \in 1 .. n /\ s \in 1 .. Len(Makefile(b)[i].recipe) /\ d \in Disks
      /\ Sane(d, t, m, H) /\ Passed(b, d, i, H) /\ Kept(b, d, i, s, H)
  BY BusyFacts
<1>2. t \in Nat /\ t >= 2
  BY BusyFacts
<1>a. t + 1 \in Nat /\ t + 1 \in 0 .. t + 1 /\ t + 1 # 0 /\ ~ (2 > t + 1) /\ w \in BOOLEAN
  BY ONLY <1>2
<1>b. "script" \in Made /\ "src" \in Made /\ "script" \in Files /\ "src" \in Files /\ "input" \in Files
  BY DEF Made, Files
<1>3. H = {} => m = 0
  BY ONLY FirmFacts, b \in Benchmarks, Busy(b, d, t, i, s, m, H), Firm(Makefile(b)[i])
<1>4. Sane(c, t + 1, m, H)
  BY <1>1, <1>a, <1>b, SaneWrite
<1>5. Sane(e, t + 1, m, H)
  BY <1>4, <1>a, <1>b, SaneWriteNow
<1>6. /\ c \in Disks
      /\ \A g \in Files : c.at[g] = IF g = "script" THEN t + 1 ELSE d.at[g]
      /\ \A g : g \in c.whole <=> IF g = "script" THEN TRUE ELSE g \in d.whole
  BY ONLY <1>1, <1>a, <1>b, TRUE \in BOOLEAN, WriteIs
<1>7. /\ e \in Disks
      /\ \A g \in Files : e.at[g] = IF g = "src" THEN t + 1 ELSE c.at[g]
      /\ \A g : g \in e.whole <=> IF g = "src" THEN w ELSE g \in c.whole
  <2> HIDE DEF c, w
  <2> QED
    BY ONLY <1>6, <1>a, <1>b, WriteIs
<1> HIDE DEF c, e
<1>8. /\ \A g \in Files : g \notin {"src", "script"} => Same(d, e, g)
      /\ "src" \in e.whole <=> "src" \in d.whole
      /\ "script" \in e.whole /\ e.at["src"] = t + 1
      /\ "build" \in e.whole <=> "build" \in d.whole
  BY <1>6, <1>7, <1>b DEF Same
<1>9. ASSUME NEW j \in 1 .. n
      PROVE  \/ j = 1 /\ Makefile(b)[j].target = "src" /\ Makefile(b)[j].needs = {"input"}
             \/ j = 2 /\ Makefile(b)[j].target = "build"
             \/ Makefile(b)[j].target # "src" /\ "src" \notin Makefile(b)[j].needs
  BY NoSuchRule
<1>10. i = 2
  <2>1. RuleFacts(b, i, n, Makefile(b)[i])
    BY BusyFacts
  <2> QED
    BY <2>1 DEF RuleFacts, Turn
<1>11. 1 \in 1 .. n /\ PassedAt(b, d, H, 1)
  BY <1>1, <1>10, FirstRule
<1>12. Makefile(b)[1].target = "src" /\ Makefile(b)[1].needs = {"input"}
  <2>1. BriefRule(b, 1, n, Makefile(b)[1])
    BY <1>11, Briefly
  <2> QED
    BY ONLY <2>1, b = "json" DEF BriefRule, JsonMakes, Makes
<1>13. Affected(H, "src") \/ "src" \in d.whole
  BY <1>11, <1>12 DEF PassedAt, There
<1>14. PassedAt(b, e, H, 1)
  BY <1>8, <1>12, <1>13 DEF PassedAt, There
<1>15. KeptAt(b, e, H, 1)
  <2>1. e.at["input"] = 2
    BY <1>5 DEF Sane, CheckedOut
  <2>a. e.at["input"] # 0 /\ ~ (e.at["input"] > e.at["src"]) /\ e.at["src"] # 0
    BY ONLY <1>8, <1>a, <2>1
  <2>2. ~ Stale(e, Makefile(b)[1])
    BY <1>12, <2>a DEF Stale
  <2>3. ~ Affected(H, "src") => Good(b, e, Makefile(b)[1])
    BY <1>8, <1>12, <1>13, <2>2 DEF Good, There
  <2> QED
    BY <1>12, <2>3 DEF KeptAt
<1>16. \A j \in 1 .. n : j = i \/ KeptAt(b, e, H, j)
  <2> TAKE j \in 1 .. n
  <2>1. CASE Makefile(b)[j].target # "src" /\ "src" \notin Makefile(b)[j].needs
    <3>1. j = i \/ KeptAt(b, d, H, j)
      BY <1>1 DEF Kept
    <3>2. "script" \notin Makefile(b)[j].needs /\ Makefile(b)[j].target # "script"
      BY NoSuchRule
    <3>3. Makefile(b)[j].target \in Files /\ Makefile(b)[j].needs \subseteq Files
      <4>1. RuleFacts(b, j, n, Makefile(b)[j])
        BY Briefly
      <4> QED
        BY ONLY <4>1 DEF RuleFacts, Files, Made
    <3>4. Same(d, e, Makefile(b)[j].target)
      BY <1>8, <2>1, <3>2, <3>3
    <3>5. \A g \in Makefile(b)[j].needs : Same(d, e, g)
      BY <1>8, <2>1, <3>2, <3>3
    <3> QED
      BY <3>1, <3>4, <3>5, KeptIfSame
  <2> QED
    BY <1>9, <1>10, <1>15, <2>1
<1>17. Passed(b, e, i, H)
  BY <1>10, <1>14, SecondRule
<1>18. Complete(b, e, m, H)
  <2>1. H = {} => ~ (m >= 1)
    BY ONLY <1>3, NoMake
  <2> QED
    BY <2>1 DEF Complete
<1>19. Middle(b, e, t + 1, i, m, H)
  BY <1>5, <1>16, <1>17, <1>18 DEF Middle
<1>20. SoFar(b, e, i, s + 1, m, H)
  <2>1. Affected(H, "build") \/ "build" \notin d.whole
    BY FirmFacts
  <2> QED
    BY <1>3, <1>8, <2>1, SoFarNext
<1>21. ~ (s = Len(Makefile(b)[i].recipe))
  BY NextStepIs
<1>22. Follows(b, e, t + 1, i, s, m, H)
  BY <1>1, <1>19, <1>20, <1>21, StepEnds
<1> QED
  BY <1>22 DEF e, c

(* What the steps leave.                                                   *)
AllDo(b, d, t) ==
  /\ Does(b, d, "unpack", t) = Write(d, "src", Archived, TRUE)
  /\ Does(b, d, "unpack to patch", t) = Write(d, "src", Archived, FALSE)
  /\ Does(b, d, "patch", t) = Write(d, "src", t, TRUE)
  /\ Does(b, d, "rm build", t) = Remove(d, InBuild(b))
  /\ Does(b, d, "mkdir", t) = Write(d, "build", t, FALSE)
  /\ Does(b, d, "mkdir -p", t) = IF d.at["build"] # 0 THEN d ELSE Write(d, "build", t, FALSE)
  /\ Does(b, d, "autogen; cd -", t) = Write(Write(d, "script", t, TRUE), "src", t, "src" \in d.whole)
  /\ Does(b, d, "configure", t) = Write(d, "build", t, TRUE)
  /\ Does(b, d, "configure; cd -", t) = Write(d, "build", t, TRUE)
  /\ Does(b, d, "make -C", t) = IF "lib" \in d.whole THEN d ELSE Write(d, "lib", t, TRUE)
  /\ Does(b, d, "cc", t) = Write(d, "obj", t, TRUE)
  /\ Does(b, d, "cc lib", t) = Write(d, "lib", t, TRUE)
  /\ Does(b, d, "link", t) = Write(d, "prog", t, TRUE)
  /\ Does(b, d, "extract-bc", t) = Write(d, "bc", t, TRUE)
  /\ Does(b, d, "extract-bc lib", t) = Write(d, "bc", t, TRUE)
  /\ Does(b, d, "extract-bc to opt", t) = Write(d, "bc", t, FALSE)
  /\ Does(b, d, "opt", t) = Write(d, "bc", t, TRUE)
  /\ Does(b, d, "llvm-dis", t) = d
  /\ Does(b, d, "llvm-link", t) = Write(d, "bc", t, TRUE)
  /\ Does(b, d, "extract_bc.sh", t) = Write(d, "bc", t, TRUE)

LEMMA DoesIs == ASSUME NEW b, NEW d, NEW t PROVE AllDo(b, d, t)
<1>1. Does(b, d, "unpack", t) = Write(d, "src", Archived, TRUE)
  BY DEF Does, Writes
<1>2. Does(b, d, "unpack to patch", t) = Write(d, "src", Archived, FALSE)
  BY DEF Does, Writes
<1>3. Does(b, d, "patch", t) = Write(d, "src", t, TRUE)
  BY DEF Does, Writes
<1>4. Does(b, d, "rm build", t) = Remove(d, InBuild(b))
  BY DEF Does, Writes
<1>5. Does(b, d, "mkdir", t) = Write(d, "build", t, FALSE)
  BY DEF Does, Writes
<1>6. Does(b, d, "mkdir -p", t) = IF d.at["build"] # 0 THEN d ELSE Write(d, "build", t, FALSE)
  BY DEF Does, Writes
<1>7. Does(b, d, "autogen; cd -", t) = Write(Write(d, "script", t, TRUE), "src", t, "src" \in d.whole)
  BY DEF Does, Writes
<1>8. Does(b, d, "configure", t) = Write(d, "build", t, TRUE)
  BY DEF Does, Writes
<1>9. Does(b, d, "configure; cd -", t) = Write(d, "build", t, TRUE)
  BY DEF Does, Writes
<1>10. Does(b, d, "make -C", t) = IF "lib" \in d.whole THEN d ELSE Write(d, "lib", t, TRUE)
  BY DEF Does, Writes
<1>11. Does(b, d, "cc", t) = Write(d, "obj", t, TRUE)
  BY DEF Does, Writes
<1>12. Does(b, d, "cc lib", t) = Write(d, "lib", t, TRUE)
  BY DEF Does, Writes
<1>13. Does(b, d, "link", t) = Write(d, "prog", t, TRUE)
  BY DEF Does, Writes
<1>14. Does(b, d, "extract-bc", t) = Write(d, "bc", t, TRUE)
  BY DEF Does, Writes
<1>15. Does(b, d, "extract-bc lib", t) = Write(d, "bc", t, TRUE)
  BY DEF Does, Writes
<1>16. Does(b, d, "extract-bc to opt", t) = Write(d, "bc", t, FALSE)
  BY DEF Does, Writes
<1>17. Does(b, d, "opt", t) = Write(d, "bc", t, TRUE)
  BY DEF Does, Writes
<1>18. Does(b, d, "llvm-dis", t) = d
  BY DEF Does, Writes
<1>19. Does(b, d, "llvm-link", t) = Write(d, "bc", t, TRUE)
  BY DEF Does, Writes
<1>20. Does(b, d, "extract_bc.sh", t) = Write(d, "bc", t, TRUE)
  BY DEF Does, Writes
<1> QED
  BY <1>1, <1>2, <1>3, <1>4, <1>5, <1>6, <1>7, <1>8, <1>9, <1>10, <1>11, <1>12, <1>13, <1>14, <1>15, <1>16, <1>17, <1>18, <1>19, <1>20, Zenon DEF AllDo

LEMMA RunStepKeeps ==
  ASSUME NEW b \in Benchmarks, NEW d, NEW t, NEW i, NEW s, NEW m, NEW H, Busy(b, d, t, i, s, m, H)
  PROVE  Follows(b, Does(b, d, Makefile(b)[i].recipe[s], t + 1), t + 1, i, s, m, H)
<1> DEFINE r == Makefile(b)[i]
           st == r.recipe[s]
           f == r.target
           n == Len(r.recipe)
           e == Does(b, d, st, t + 1)
<1>0. StepKnown(b, i, s, r)
  BY BusyFacts
<1>a. Busy(b, d, t, i, s, m, H) /\ b \in Benchmarks
  OBVIOUS
<1>b. t + 1 \in 1 .. t + 1 /\ Archived \in 1 .. t + 1
  <2>1. t \in Nat
    BY BusyFacts
  <2> QED
    BY ONLY <2>1 DEF Archived
<1>c. /\ Does(b, d, "unpack", t + 1) = Write(d, "src", Archived, TRUE)
      /\ Does(b, d, "unpack to patch", t + 1) = Write(d, "src", Archived, FALSE)
      /\ Does(b, d, "patch", t + 1) = Write(d, "src", t + 1, TRUE)
      /\ Does(b, d, "rm build", t + 1) = Remove(d, InBuild(b))
      /\ Does(b, d, "mkdir", t + 1) = Write(d, "build", t + 1, FALSE)
      /\ Does(b, d, "mkdir -p", t + 1) = IF d.at["build"] # 0 THEN d ELSE Write(d, "build", t + 1, FALSE)
      /\ Does(b, d, "autogen; cd -", t + 1) = Write(Write(d, "script", t + 1, TRUE), "src", t + 1, "src" \in d.whole)
      /\ Does(b, d, "configure", t + 1) = Write(d, "build", t + 1, TRUE)
      /\ Does(b, d, "configure; cd -", t + 1) = Write(d, "build", t + 1, TRUE)
      /\ Does(b, d, "make -C", t + 1) = IF "lib" \in d.whole THEN d ELSE Write(d, "lib", t + 1, TRUE)
      /\ Does(b, d, "cc", t + 1) = Write(d, "obj", t + 1, TRUE)
      /\ Does(b, d, "cc lib", t + 1) = Write(d, "lib", t + 1, TRUE)
      /\ Does(b, d, "link", t + 1) = Write(d, "prog", t + 1, TRUE)
      /\ Does(b, d, "extract-bc", t + 1) = Write(d, "bc", t + 1, TRUE)
      /\ Does(b, d, "extract-bc lib", t + 1) = Write(d, "bc", t + 1, TRUE)
      /\ Does(b, d, "extract-bc to opt", t + 1) = Write(d, "bc", t + 1, FALSE)
      /\ Does(b, d, "opt", t + 1) = Write(d, "bc", t + 1, TRUE)
      /\ Does(b, d, "llvm-dis", t + 1) = d
      /\ Does(b, d, "llvm-link", t + 1) = Write(d, "bc", t + 1, TRUE)
      /\ Does(b, d, "extract_bc.sh", t + 1) = Write(d, "bc", t + 1, TRUE)
  <2>1. AllDo(b, d, t + 1)
    BY DoesIs, Zenon
  <2> QED
    BY <2>1, Zenon DEF AllDo
<1> SUFFICES Follows(b, e, t + 1, i, s, m, H)
  OBVIOUS
<1>1. CASE st = "unpack" /\ f = "src" /\ s = 1 /\ n = 1 /\ ~ Firm(r)
  <2>1. s = Len(r.recipe)
    BY ONLY <1>1
  <2>2. e = Write(d, "src", Archived, TRUE)
    BY ONLY <1>1, <1>c
  <2>3. Follows(b, Write(d, "src", Archived, TRUE), t + 1, i, s, m, H)
    BY ONLY <1>a, <1>b, <1>1, <2>1, RunUnpack
  <2> QED
    BY <2>2, <2>3, Zenon
<1>2. CASE st = "unpack to patch" /\ f = "src" /\ s = 1 /\ n = 2 /\ Firm(r) /\ r.recipe[2] = "patch"
  <2>1. s < Len(r.recipe) /\ r.recipe[s + 1] = "patch"
    <3>1. 1 + 1 = 2 /\ 1 < 2
      BY ONLY TRUE
    <3> QED
      BY ONLY <1>2, <3>1, Zenon
  <2>2. e = Write(d, "src", Archived, FALSE)
    BY ONLY <1>2, <1>c
  <2>3. e = Write(d, f, Archived, FALSE)
    BY <1>2, <2>2, Zenon
  <2>4. Follows(b, Write(d, f, Archived, FALSE), t + 1, i, s, m, H)
    BY ONLY <1>a, <1>b, <1>2, <2>1, RunBegins
  <2> QED
    BY <2>3, <2>4, Zenon
<1>3. CASE st = "patch" /\ f = "src" /\ s = 2 /\ n = 2 /\ Firm(r)
  <2>1. s = Len(r.recipe)
    BY ONLY <1>3
  <2>2. e = Write(d, "src", t + 1, TRUE)
    BY ONLY <1>3, <1>c
  <2>3. e = Write(d, f, t + 1, TRUE)
    BY <1>3, <2>2, Zenon
  <2>4. Follows(b, Write(d, f, t + 1, TRUE), t + 1, i, s, m, H)
    BY ONLY <1>a, <1>b, <1>3, <2>1, RunFinal
  <2> QED
    BY <2>3, <2>4, Zenon
<1>4. CASE /\ st = "rm build"
           /\ f = "build"
           /\ s = 1
           /\ n = 3
           /\ Firm(r)
           /\ r.recipe[2] = "mkdir"
           /\ b \in {"m4", "coreutils"}
  <2>1. s < Len(r.recipe) /\ r.recipe[s + 1] = "mkdir"
    <3>1. 1 + 1 = 2 /\ 1 < 3
      BY ONLY TRUE
    <3> QED
      BY ONLY <1>4, <3>1, Zenon
  <2>2. e = Remove(d, InBuild(b))
    BY ONLY <1>4, <1>c
  <2>3. Follows(b, Remove(d, InBuild(b)), t + 1, i, s, m, H)
    BY ONLY <1>a, <1>b, <1>4, <2>1, RunRmBuild
  <2> QED
    BY <2>2, <2>3, Zenon
<1>5. CASE /\ st = "mkdir"
           /\ f = "build"
           /\ s = 2
           /\ n = 3
           /\ Firm(r)
           /\ r.recipe[3] = "configure; cd -"
           /\ b \in {"m4", "coreutils"}
  <2>1. s < Len(r.recipe) /\ r.recipe[s + 1] = "configure; cd -"
    <3>1. 2 + 1 = 3 /\ 2 < 3
      BY ONLY TRUE
    <3> QED
      BY ONLY <1>5, <3>1, Zenon
  <2>2. e = Write(d, "build", t + 1, FALSE)
    BY ONLY <1>5, <1>c
  <2>3. e = Write(d, f, t + 1, FALSE)
    BY <1>5, <2>2, Zenon
  <2>4. Follows(b, Write(d, f, t + 1, FALSE), t + 1, i, s, m, H)
    BY ONLY <1>a, <1>b, <1>5, <2>1, RunBegins
  <2> QED
    BY <2>3, <2>4, Zenon
<1>6. CASE /\ st = "mkdir"
           /\ f = "build"
           /\ s = 1
           /\ n = 2
           /\ Firm(r)
           /\ r.recipe[2] = "configure; cd -"
           /\ b \in {"make", "bash"}
  <2>1. s < Len(r.recipe) /\ r.recipe[s + 1] = "configure; cd -"
    <3>1. 1 + 1 = 2 /\ 1 < 2
      BY ONLY TRUE
    <3> QED
      BY ONLY <1>6, <3>1, Zenon
  <2>2. e = Write(d, "build", t + 1, FALSE)
    BY ONLY <1>6, <1>c
  <2>3. e = Write(d, f, t + 1, FALSE)
    BY <1>6, <2>2, Zenon
  <2>4. Follows(b, Write(d, f, t + 1, FALSE), t + 1, i, s, m, H)
    BY ONLY <1>a, <1>b, <1>6, <2>1, RunBegins
  <2> QED
    BY <2>3, <2>4, Zenon
<1>7. CASE st = "mkdir -p" /\ f = "build" /\ s = 1 /\ n = 1 /\ Firm(r) /\ b = "sqlite"
  <2>1. s = Len(r.recipe)
    BY ONLY <1>7
  <2>2. e = IF d.at["build"] # 0 THEN d ELSE Write(d, "build", t + 1, FALSE)
    BY ONLY <1>7, <1>c
  <2>3. Follows(b, IF d.at["build"] # 0 THEN d ELSE Write(d, "build", t + 1, FALSE), t + 1, i, s, m, H)
    BY ONLY <1>a, <1>b, <1>7, <2>1, RunMkdirP
  <2> QED
    BY <2>2, <2>3, Zenon
<1>8. CASE /\ st = "mkdir -p"
           /\ f = "build"
           /\ s = 1
           /\ n = 2
           /\ Firm(r)
           /\ b \notin {"sqlite", "m4", "coreutils", "make", "bash", "json"}
           /\ r.recipe[2] \in {"configure", "configure; cd -"}
  <2>1. s < Len(r.recipe) /\ r.recipe[s + 1] \in {"configure", "configure; cd -"}
    <3>1. 1 + 1 = 2 /\ 1 < 2
      BY ONLY TRUE
    <3> QED
      BY ONLY <1>8, <3>1, Zenon
  <2>2. e = IF d.at["build"] # 0 THEN d ELSE Write(d, "build", t + 1, FALSE)
    BY ONLY <1>8, <1>c
  <2>3. Follows(b, IF d.at["build"] # 0 THEN d ELSE Write(d, "build", t + 1, FALSE), t + 1, i, s, m, H)
    BY ONLY <1>a, <1>b, <1>8, <2>1, RunMkdirP
  <2> QED
    BY <2>2, <2>3, Zenon
<1>9. CASE /\ st = "mkdir -p"
           /\ f = "build"
           /\ s = 1
           /\ n = 3
           /\ Firm(r)
           /\ b = "json"
           /\ r.recipe[2] = "autogen; cd -"
  <2>1. s < Len(r.recipe) /\ r.recipe[s + 1] = "autogen; cd -"
    <3>1. 1 + 1 = 2 /\ 1 < 3
      BY ONLY TRUE
    <3> QED
      BY ONLY <1>9, <3>1, Zenon
  <2>2. e = IF d.at["build"] # 0 THEN d ELSE Write(d, "build", t + 1, FALSE)
    BY ONLY <1>9, <1>c
  <2>3. Follows(b, IF d.at["build"] # 0 THEN d ELSE Write(d, "build", t + 1, FALSE), t + 1, i, s, m, H)
    BY ONLY <1>a, <1>b, <1>9, <2>1, RunMkdirP
  <2> QED
    BY <2>2, <2>3, Zenon
<1>10. CASE /\ st = "autogen; cd -"
            /\ f = "build"
            /\ s = 2
            /\ n = 3
            /\ Firm(r)
            /\ b = "json"
            /\ r.recipe[3] = "configure; cd -"
  <2>1. s < Len(r.recipe) /\ r.recipe[s + 1] = "configure; cd -"
    <3>1. 2 + 1 = 3 /\ 2 < 3
      BY ONLY TRUE
    <3> QED
      BY ONLY <1>10, <3>1, Zenon
  <2>2. e = Write(Write(d, "script", t + 1, TRUE), "src", t + 1, "src" \in d.whole)
    BY ONLY <1>10, <1>c
  <2>3. Follows(b, Write(Write(d, "script", t + 1, TRUE), "src", t + 1, "src" \in d.whole), t + 1, i, s, m, H)
    BY ONLY <1>a, <1>b, <1>10, <2>1, RunAutogen
  <2> QED
    BY <2>2, <2>3, Zenon
<1>11. CASE st = "configure" /\ f = "build" /\ s = n /\ n \in {2, 3} /\ Firm(r)
  <2>1. s = Len(r.recipe)
    BY ONLY <1>11
  <2>2. e = Write(d, "build", t + 1, TRUE)
    BY ONLY <1>11, <1>c
  <2>3. e = Write(d, f, t + 1, TRUE)
    BY <1>11, <2>2, Zenon
  <2>4. Follows(b, Write(d, f, t + 1, TRUE), t + 1, i, s, m, H)
    BY ONLY <1>a, <1>b, <1>11, <2>1, RunFinal
  <2> QED
    BY <2>3, <2>4, Zenon
<1>12. CASE st = "configure; cd -" /\ f = "build" /\ s = n /\ n \in {2, 3} /\ Firm(r)
  <2>1. s = Len(r.recipe)
    BY ONLY <1>12
  <2>2. e = Write(d, "build", t + 1, TRUE)
    BY ONLY <1>12, <1>c
  <2>3. e = Write(d, f, t + 1, TRUE)
    BY <1>12, <2>2, Zenon
  <2>4. Follows(b, Write(d, f, t + 1, TRUE), t + 1, i, s, m, H)
    BY ONLY <1>a, <1>b, <1>12, <2>1, RunFinal
  <2> QED
    BY <2>3, <2>4, Zenon
<1>13. CASE st = "make -C" /\ f = "lib" /\ s = 1 /\ n = 1 /\ Firm(r)
  <2>1. s = Len(r.recipe)
    BY ONLY <1>13
  <2>2. e = IF "lib" \in d.whole THEN d ELSE Write(d, "lib", t + 1, TRUE)
    BY ONLY <1>13, <1>c
  <2>3. Follows(b, IF "lib" \in d.whole THEN d ELSE Write(d, "lib", t + 1, TRUE), t + 1, i, s, m, H)
    BY ONLY <1>a, <1>b, <1>13, <2>1, RunMakeLib
  <2> QED
    BY <2>2, <2>3, Zenon
<1>14. CASE /\ st = "make -C"
            /\ f = "bc"
            /\ s = 1
            /\ n = 2
            /\ Firm(r)
            /\ b = "m4"
            /\ r.recipe[2] = "extract-bc lib"
  <2>1. s < Len(r.recipe) /\ r.recipe[s + 1] = "extract-bc lib"
    <3>1. 1 + 1 = 2 /\ 1 < 2
      BY ONLY TRUE
    <3> QED
      BY ONLY <1>14, <3>1, Zenon
  <2>2. e = IF "lib" \in d.whole THEN d ELSE Write(d, "lib", t + 1, TRUE)
    BY ONLY <1>14, <1>c
  <2>3. Follows(b, IF "lib" \in d.whole THEN d ELSE Write(d, "lib", t + 1, TRUE), t + 1, i, s, m, H)
    BY ONLY <1>a, <1>b, <1>14, <2>1, RunMakeM4
  <2> QED
    BY <2>2, <2>3, Zenon
<1>15. CASE st = "make -C" /\ f = "phony" /\ s = 1 /\ n = 1
  <2>1. s = Len(r.recipe)
    BY ONLY <1>15
  <2>2. e = IF "lib" \in d.whole THEN d ELSE Write(d, "lib", t + 1, TRUE)
    BY ONLY <1>15, <1>c
  <2>3. Follows(b, IF "lib" \in d.whole THEN d ELSE Write(d, "lib", t + 1, TRUE), t + 1, i, s, m, H)
    BY ONLY <1>a, <1>b, <1>15, <2>1, RunMakePhony
  <2> QED
    BY <2>2, <2>3, Zenon
<1>16. CASE st = "make -C" /\ f = "phony" /\ s = 2 /\ n = 2
  <2>1. s = Len(r.recipe)
    BY ONLY <1>16
  <2>2. e = IF "lib" \in d.whole THEN d ELSE Write(d, "lib", t + 1, TRUE)
    BY ONLY <1>16, <1>c
  <2>3. Follows(b, IF "lib" \in d.whole THEN d ELSE Write(d, "lib", t + 1, TRUE), t + 1, i, s, m, H)
    BY ONLY <1>a, <1>b, <1>16, <2>1, RunMakePhony
  <2> QED
    BY <2>2, <2>3, Zenon
<1>17. CASE st = "cc" /\ f = "obj" /\ s = 1 /\ n = 1 /\ Firm(r)
  <2>1. s = Len(r.recipe)
    BY ONLY <1>17
  <2>2. e = Write(d, "obj", t + 1, TRUE)
    BY ONLY <1>17, <1>c
  <2>3. e = Write(d, f, t + 1, TRUE)
    BY <1>17, <2>2, Zenon
  <2>4. Follows(b, Write(d, f, t + 1, TRUE), t + 1, i, s, m, H)
    BY ONLY <1>a, <1>b, <1>17, <2>1, RunFinal
  <2> QED
    BY <2>3, <2>4, Zenon
<1>18. CASE st = "cc lib" /\ f = "lib" /\ s = 1 /\ n = 1 /\ Firm(r)
  <2>1. s = Len(r.recipe)
    BY ONLY <1>18
  <2>2. e = Write(d, "lib", t + 1, TRUE)
    BY ONLY <1>18, <1>c
  <2>3. e = Write(d, f, t + 1, TRUE)
    BY <1>18, <2>2, Zenon
  <2>4. Follows(b, Write(d, f, t + 1, TRUE), t + 1, i, s, m, H)
    BY ONLY <1>a, <1>b, <1>18, <2>1, RunFinal
  <2> QED
    BY <2>3, <2>4, Zenon
<1>19. CASE st = "link" /\ f = "prog" /\ s = 1 /\ n = 1 /\ Firm(r)
  <2>1. s = Len(r.recipe)
    BY ONLY <1>19
  <2>2. e = Write(d, "prog", t + 1, TRUE)
    BY ONLY <1>19, <1>c
  <2>3. e = Write(d, f, t + 1, TRUE)
    BY <1>19, <2>2, Zenon
  <2>4. Follows(b, Write(d, f, t + 1, TRUE), t + 1, i, s, m, H)
    BY ONLY <1>a, <1>b, <1>19, <2>1, RunFinal
  <2> QED
    BY <2>3, <2>4, Zenon
<1>20. CASE st = "extract-bc" /\ f = "bc" /\ s = 1 /\ n = 1 /\ Firm(r)
  <2>1. s = Len(r.recipe)
    BY ONLY <1>20
  <2>2. e = Write(d, "bc", t + 1, TRUE)
    BY ONLY <1>20, <1>c
  <2>3. e = Write(d, f, t + 1, TRUE)
    BY <1>20, <2>2, Zenon
  <2>4. Follows(b, Write(d, f, t + 1, TRUE), t + 1, i, s, m, H)
    BY ONLY <1>a, <1>b, <1>20, <2>1, RunFinal
  <2> QED
    BY <2>3, <2>4, Zenon
<1>21. CASE st = "extract-bc lib" /\ f = "bc" /\ s = 2 /\ n = 2 /\ Firm(r)
  <2>1. s = Len(r.recipe)
    BY ONLY <1>21
  <2>2. e = Write(d, "bc", t + 1, TRUE)
    BY ONLY <1>21, <1>c
  <2>3. e = Write(d, f, t + 1, TRUE)
    BY <1>21, <2>2, Zenon
  <2>4. Follows(b, Write(d, f, t + 1, TRUE), t + 1, i, s, m, H)
    BY ONLY <1>a, <1>b, <1>21, <2>1, RunFinal
  <2> QED
    BY <2>3, <2>4, Zenon
<1>22. CASE st = "extract-bc lib" /\ f = "bc" /\ s = 1 /\ n = 1 /\ ~ Firm(r)
  <2>1. s = Len(r.recipe)
    BY ONLY <1>22
  <2>2. e = Write(d, "bc", t + 1, TRUE)
    BY ONLY <1>22, <1>c
  <2>3. Follows(b, Write(d, "bc", t + 1, TRUE), t + 1, i, s, m, H)
    BY ONLY <1>a, <1>b, <1>22, <2>1, RunExtractLib
  <2> QED
    BY <2>2, <2>3, Zenon
<1>23. CASE st = "extract-bc to opt" /\ f = "bc" /\ s = 1 /\ n = 3 /\ Firm(r) /\ r.recipe[2] = "opt"
  <2>1. s < Len(r.recipe) /\ r.recipe[s + 1] = "opt"
    <3>1. 1 + 1 = 2 /\ 1 < 3
      BY ONLY TRUE
    <3> QED
      BY ONLY <1>23, <3>1, Zenon
  <2>2. e = Write(d, "bc", t + 1, FALSE)
    BY ONLY <1>23, <1>c
  <2>3. e = Write(d, f, t + 1, FALSE)
    BY <1>23, <2>2, Zenon
  <2>4. Follows(b, Write(d, f, t + 1, FALSE), t + 1, i, s, m, H)
    BY ONLY <1>a, <1>b, <1>23, <2>1, RunBegins
  <2> QED
    BY <2>3, <2>4, Zenon
<1>24. CASE st = "opt" /\ f = "bc" /\ s = 2 /\ n = 3 /\ Firm(r) /\ r.recipe[3] = "llvm-dis"
  <2>1. s < Len(r.recipe) /\ r.recipe[s + 1] = "llvm-dis"
    <3>1. 2 + 1 = 3 /\ 2 < 3
      BY ONLY TRUE
    <3> QED
      BY ONLY <1>24, <3>1, Zenon
  <2>2. e = Write(d, "bc", t + 1, TRUE)
    BY ONLY <1>24, <1>c
  <2>3. Follows(b, Write(d, "bc", t + 1, TRUE), t + 1, i, s, m, H)
    BY ONLY <1>a, <1>b, <1>24, <2>1, RunOpt
  <2> QED
    BY <2>2, <2>3, Zenon
<1>25. CASE st = "llvm-dis" /\ f = "bc" /\ s = 3 /\ n = 3 /\ Firm(r)
  <2>1. s = Len(r.recipe)
    BY ONLY <1>25
  <2>2. e = d
    BY ONLY <1>25, <1>c
  <2>3. Follows(b, d, t + 1, i, s, m, H)
    BY ONLY <1>a, <1>b, <1>25, <2>1, RunDis
  <2> QED
    BY <2>2, <2>3, Zenon
<1>26. CASE st = "llvm-link" /\ f = "bc" /\ s = 1 /\ n = 1 /\ Firm(r)
  <2>1. s = Len(r.recipe)
    BY ONLY <1>26
  <2>2. e = Write(d, "bc", t + 1, TRUE)
    BY ONLY <1>26, <1>c
  <2>3. e = Write(d, f, t + 1, TRUE)
    BY <1>26, <2>2, Zenon
  <2>4. Follows(b, Write(d, f, t + 1, TRUE), t + 1, i, s, m, H)
    BY ONLY <1>a, <1>b, <1>26, <2>1, RunFinal
  <2> QED
    BY <2>3, <2>4, Zenon
<1>27. CASE /\ st = "extract_bc.sh"
            /\ f = "phony"
            /\ s = 1
            /\ n = 2
            /\ ~ Firm(r)
            /\ b = "coreutils"
            /\ r.recipe[2] = "make -C"
  <2>1. s < Len(r.recipe) /\ r.recipe[s + 1] = "make -C"
    <3>1. 1 + 1 = 2 /\ 1 < 2
      BY ONLY TRUE
    <3> QED
      BY ONLY <1>27, <3>1, Zenon
  <2>2. e = Write(d, "bc", t + 1, TRUE)
    BY ONLY <1>27, <1>c
  <2>3. Follows(b, Write(d, "bc", t + 1, TRUE), t + 1, i, s, m, H)
    BY ONLY <1>a, <1>b, <1>27, <2>1, RunExtractSh
  <2> QED
    BY <2>2, <2>3, Zenon
<1> QED
  BY <1>0, <1>1, <1>2, <1>3, <1>4, <1>5, <1>6, <1>7, <1>8, <1>9, <1>10, <1>11, <1>12, <1>13, <1>14, <1>15, <1>16, <1>17, <1>18, <1>19, <1>20, <1>21, <1>22, <1>23, <1>24, <1>25, <1>26, <1>27, Zenon DEF StepKnown

-----------------------------------------------------------------------------
(* A step that cannot work.                                                *)
Linked == {"apr", "libxml2", "expat", "json", "libosip", "libyaml"}

(* The order in which the rules of a benchmark make files.                 *)
LEMMA MadeBefore ==
  ASSUME NEW b \in Benchmarks
  PROVE  /\ b # "sqlite" => Turn(b, "src") < Turn(b, "build")
         /\ b \in Linked =>
              /\ Turn(b, "src") < Turn(b, "lib") /\ Turn(b, "build") < Turn(b, "lib")
              /\ Turn(b, "src") < Turn(b, "obj")
              /\ Turn(b, "obj") < Turn(b, "prog") /\ Turn(b, "lib") < Turn(b, "prog")
              /\ Turn(b, "prog") < Turn(b, "bc")
         /\ b = "sqlite" => Turn(b, "obj") < Turn(b, "bc") /\ Turn(b, "lib") < Turn(b, "bc")
         /\ b = "m4" => Turn(b, "src") < Turn(b, "bc") /\ Turn(b, "build") < Turn(b, "bc")
         /\ b \in {"make", "bash", "coreutils"} =>
              Turn(b, "src") < Turn(b, "phony") /\ Turn(b, "build") < Turn(b, "phony")
<1>1. b # "sqlite" => Turn(b, "src") < Turn(b, "build")
  BY DEF Turn
<1>2. b \in Linked => /\ Turn(b, "src") < Turn(b, "lib") /\ Turn(b, "build") < Turn(b, "lib")
                      /\ Turn(b, "src") < Turn(b, "obj")
  BY DEF Turn, Linked
<1>3. b \in Linked => /\ Turn(b, "obj") < Turn(b, "prog") /\ Turn(b, "lib") < Turn(b, "prog")
                      /\ Turn(b, "prog") < Turn(b, "bc")
  BY DEF Turn, Linked
<1>4. b = "sqlite" => Turn(b, "obj") < Turn(b, "bc") /\ Turn(b, "lib") < Turn(b, "bc")
  BY DEF Turn
<1>5. b = "m4" => Turn(b, "src") < Turn(b, "bc") /\ Turn(b, "build") < Turn(b, "bc")
  BY DEF Turn
<1>6. b \in {"make", "bash", "coreutils"} =>
        Turn(b, "src") < Turn(b, "phony") /\ Turn(b, "build") < Turn(b, "phony")
  BY DEF Turn
<1> QED
  BY <1>1, <1>2, <1>3, <1>4, <1>5, <1>6, Zenon

LEMMA TurnIsTarget ==
  ASSUME NEW b \in Benchmarks, NEW g \in {"src", "build", "obj", "lib", "prog"},
         b = "sqlite" => g \in {"obj", "lib"},
         b \in {"m4", "coreutils", "make", "bash"} => g \in {"src", "build"},
         NEW n, NEW r, BriefRule(b, Turn(b, g), n, r)
  PROVE  r.target = g
<1> DEFINE j == Turn(b, g)
<1>1. CASE b = "m4" /\ n = 3 /\ M4Makes(j, r)
  BY <1>1 DEF M4Makes, Makes, Turn
<1>2. CASE b \in {"make", "bash"} /\ n = 4 /\ MakeMakes(j, r)
  BY <1>2 DEF MakeMakes, Makes, Turn
<1>3. CASE b = "sqlite" /\ n = 4 /\ SqliteMakes(j, r)
  BY <1>3 DEF SqliteMakes, Makes, Turn
<1>4. CASE b = "apr" /\ n = 6 /\ AprMakes(j, r)
  BY <1>4 DEF AprMakes, Makes, Turn
<1>5. CASE b \in {"libxml2", "expat", "libosip", "libyaml"} /\ n = 6 /\ LibraryMakes(j, r)
  BY <1>5 DEF LibraryMakes, Makes, Turn
<1>6. CASE b = "json" /\ n = 6 /\ JsonMakes(j, r)
  BY <1>6 DEF JsonMakes, Makes, Turn
<1>7. CASE b = "coreutils" /\ n = 3 /\ CoreutilsMakes(j, r)
  BY <1>7 DEF CoreutilsMakes, Makes, Turn
<1> QED
  BY <1>1, <1>2, <1>3, <1>4, <1>5, <1>6, <1>7 DEF BriefRule

(* A file that an earlier rule makes is whole, or affected.                *)
LEMMA EarlierFile ==
  ASSUME NEW b \in Benchmarks, NEW d, NEW t, NEW i, NEW s, NEW m, NEW H, Busy(b, d, t, i, s, m, H),
         NEW g \in {"src", "build", "obj", "lib", "prog"},
         b = "sqlite" => g \in {"obj", "lib"},
         b \in {"m4", "coreutils", "make", "bash"} => g \in {"src", "build"},
         Turn(b, g) < Turn(b, Makefile(b)[i].target)
  PROVE  g \in d.whole \/ Affected(H, g)
<1> DEFINE j == Turn(b, g)
           n == Len(Makefile(b))
<1>1. i \in 1 .. n /\ Passed(b, d, i, H) /\ RuleFacts(b, i, n, Makefile(b)[i])
  BY BusyFacts
<1>2. i = Turn(b, Makefile(b)[i].target)
  BY <1>1 DEF RuleFacts
<1>3. j \in {1, 2, 3, 4, 5, 6}
  BY DEF Turn
<1>4. j < i
  BY <1>2
<1>5. n \in Nat
  BY Lengths
<1> HIDE DEF j, n
<1>6. j \in 1 .. n /\ j \in 1 .. i - 1
  BY ONLY <1>1, <1>3, <1>4, <1>5
<1>7. BriefRule(b, j, n, Makefile(b)[j])
  BY <1>6, Briefly DEF n
<1>8. Makefile(b)[j].target = g
  BY <1>7, TurnIsTarget DEF j
<1>9. g # "phony" /\ (b = "sqlite" => g # "build")
  OBVIOUS
<1>10. PassedAt(b, d, H, j)
  BY <1>1, <1>6 DEF Passed
<1> QED
  BY <1>8, <1>9, <1>10 DEF PassedAt, There

LEMMA AffectedBehind ==
  ASSUME NEW H, NEW g, NEW f, Affected(H, g)
  PROVE  H # {} /\ (Behind(g) \subseteq Behind(f) => Affected(H, f))
BY DEF Affected

(* What the files of a benchmark are made from.                            *)
LEMMA BehindIs ==
  /\ Behind("src") \subseteq Behind("build") /\ Behind("src") \subseteq Behind("lib")
  /\ Behind("src") \subseteq Behind("obj") /\ Behind("src") \subseteq Behind("bc")
  /\ Behind("build") \subseteq Behind("lib") /\ Behind("build") \subseteq Behind("bc")
  /\ Behind("obj") \subseteq Behind("prog") /\ Behind("obj") \subseteq Behind("bc")
  /\ Behind("lib") \subseteq Behind("prog") /\ Behind("lib") \subseteq Behind("bc")
  /\ Behind("prog") \subseteq Behind("bc")
<1>1. /\ Behind("src") = {"src"} /\ Behind("build") = {"src", "script", "build"}
      /\ Behind("lib") = {"src", "script", "build", "lib"} /\ Behind("obj") = {"src", "obj"}
      /\ Behind("prog") = Made \ {"bc"} /\ Behind("bc") = Made
  BY DEF Behind
<1> QED
  BY <1>1 DEF Made

LEMMA BehindItself == \A f \in Made : f \in Behind(f)
BY DEF Behind, Made

UsesAll(b) ==
  /\ \A st \in {"unpack", "unpack to patch", "patch", "rm build", "mkdir -p", "autogen; cd -",
                "cc lib", "opt", "llvm-dis"} : Uses(b, st) = {} /\ st # "mkdir"
  /\ Uses(b, "mkdir") = {}
  /\ \A st \in {"configure", "configure; cd -"} :
       Uses(b, st) = {"src"} \cup (IF b = "json" THEN {"script"} ELSE {}) /\ st # "mkdir"
  /\ Uses(b, "make -C") = {"src", "build"}
  /\ Uses(b, "cc") = IF b = "sqlite" THEN {} ELSE {"src"}
  /\ \A st \in {"link", "llvm-link"} : Uses(b, st) = {"obj", "lib"} /\ st # "mkdir"
  /\ \A st \in {"extract-bc", "extract-bc to opt"} : Uses(b, st) = {"prog"} /\ st # "mkdir"
  /\ \A st \in {"extract-bc lib", "extract_bc.sh"} : Uses(b, st) = {"lib"} /\ st # "mkdir"

LEMMA UsesIs == ASSUME NEW b PROVE UsesAll(b)
BY DEF UsesAll, Uses

-----------------------------------------------------------------------------
(* A recipe fails only where something that it needs was spoilt.           *)
LEMMA FailsWhenSpoilt ==
  ASSUME NEW b \in Benchmarks, NEW d, NEW t, NEW i, NEW s, NEW m, NEW H, Busy(b, d, t, i, s, m, H),
         ~ Works(b, d, Makefile(b)[i].recipe[s])
  PROVE  \/ /\ Makefile(b)[i].recipe[s] = "extract_bc.sh" /\ Makefile(b)[i].target = "phony"
            /\ s < Len(Makefile(b)[i].recipe)
            /\ H = {} => ~ (m >= 1)
         \/ H # {} /\ (Makefile(b)[i].target # "phony" => Affected(H, Makefile(b)[i].target))
<1> DEFINE r == Makefile(b)[i]
           st == r.recipe[s]
           f == r.target
           n == Len(r.recipe)
<1>0. /\ StepKnown(b, i, s, r) /\ SoFar(b, d, i, s, m, H) /\ i # 0 /\ s # 0
      /\ Passed(b, d, i, H) /\ Complete(b, d, m, H) /\ i \in 1 .. Len(Makefile(b))
      /\ RuleFacts(b, i, Len(Makefile(b)), r)
  BY BusyFacts
<1>a. ~ Affected(H, f) /\ Firm(r) =>
        /\ st = "mkdir" => d.at["build"] = 0
        /\ st \in {"configure", "configure; cd -"} /\ b = "json" => "script" \in d.whole
        /\ st = "extract-bc lib" => "lib" \in d.whole
  BY <1>0 DEF SoFar
<1>b. ~ (Uses(b, st) \subseteq d.whole) \/ (st = "mkdir" /\ d.at["build"] # 0)
  BY DEF Works
<1>c. UsesAll(b)
  BY UsesIs
<1>d. ASSUME NEW g \in {"src", "build", "obj", "lib", "prog"},
             b = "sqlite" => g \in {"obj", "lib"},
             b \in {"m4", "coreutils", "make", "bash"} => g \in {"src", "build"},
             Turn(b, g) < Turn(b, f), f = "phony" \/ Behind(g) \subseteq Behind(f), g \notin d.whole
      PROVE  H # {} /\ (f # "phony" => Affected(H, f))
  <2>1. Affected(H, g)
    BY <1>d, EarlierFile
  <2> QED
    BY <1>d, <2>1, AffectedBehind
<1>e. Affected(H, f) => H # {} /\ (f # "phony" => Affected(H, f))
  BY AffectedBehind
<1>f. b \in Linked \/ b \in {"sqlite", "m4", "coreutils", "make", "bash"}
  BY DEF Linked, Benchmarks
<1> DEFINE Spoilt0 == H # {} /\ (f # "phony" => Affected(H, f))
<1> HIDE DEF st, f, r, n
<1>1. CASE st \in {"unpack", "unpack to patch", "patch", "rm build", "mkdir -p", "autogen; cd -",
                   "cc lib", "opt", "llvm-dis"}
  BY <1>1, <1>b, <1>c DEF UsesAll
<1>2. CASE st = "mkdir" /\ Firm(r)
  <2>1. Affected(H, f)
    BY <1>2, <1>a, <1>b, <1>c DEF UsesAll
  <2> QED
    BY <1>e, <2>1 DEF f, r
<1>3. CASE st \in {"configure", "configure; cd -"} /\ f = "build" /\ Firm(r) /\ b # "sqlite"
  <2>1. "src" \notin d.whole \/ (b = "json" /\ "script" \notin d.whole)
    BY <1>3, <1>b, <1>c DEF UsesAll
  <2>2. CASE "src" \notin d.whole
    <3>1. Turn(b, "src") < Turn(b, f) /\ Behind("src") \subseteq Behind(f)
      BY <1>3, MadeBefore, BehindIs
    <3>2. Spoilt0
      BY <1>3, <1>d, <2>2, <3>1
    <3> QED
      BY <3>2 DEF Spoilt0, f, r
  <2>3. CASE b = "json" /\ "script" \notin d.whole
    <3>1. Affected(H, f)
      BY <1>3, <1>a, <2>3
    <3> QED
      BY <1>e, <3>1 DEF f, r
  <2> QED
    BY <2>1, <2>2, <2>3
<1>4. CASE /\ st = "make -C"
           /\ \/ f = "lib" /\ b \in Linked
              \/ f = "bc" /\ b = "m4"
              \/ f = "phony" /\ b \in {"make", "bash", "coreutils"}
  <2>1. "src" \notin d.whole \/ "build" \notin d.whole
    BY <1>4, <1>b, <1>c DEF UsesAll
  <2>2. /\ Turn(b, "src") < Turn(b, f) /\ Turn(b, "build") < Turn(b, f)
        /\ f = "phony" \/ Behind("src") \subseteq Behind(f)
        /\ f = "phony" \/ Behind("build") \subseteq Behind(f)
    BY <1>4, MadeBefore, BehindIs
  <2>3. b # "sqlite"
    BY <1>4 DEF Linked
  <2>4. Spoilt0
    BY <1>d, <2>1, <2>2, <2>3
  <2> QED
    BY <2>4 DEF Spoilt0, f, r
<1>5. CASE st = "cc" /\ f = "obj" /\ b \notin {"m4", "coreutils", "make", "bash"}
  <2>1. b \in Linked /\ b # "sqlite" /\ "src" \notin d.whole
    BY <1>5, <1>b, <1>c, <1>f DEF UsesAll
  <2>2. Turn(b, "src") < Turn(b, f) /\ Behind("src") \subseteq Behind(f)
    BY <1>5, <2>1, MadeBefore, BehindIs
  <2>3. Spoilt0
    BY <1>5, <1>d, <2>1, <2>2
  <2> QED
    BY <2>3 DEF Spoilt0, f, r
<1>6. CASE st = "link" /\ f = "prog" /\ b \notin {"sqlite", "m4", "coreutils", "make", "bash"}
  <2>1. b \in Linked /\ ("obj" \notin d.whole \/ "lib" \notin d.whole)
    BY <1>6, <1>b, <1>c, <1>f DEF UsesAll
  <2>2. /\ Turn(b, "obj") < Turn(b, f) /\ Turn(b, "lib") < Turn(b, f)
        /\ Behind("obj") \subseteq Behind(f) /\ Behind("lib") \subseteq Behind(f)
    BY <1>6, <2>1, MadeBefore, BehindIs
  <2>3. Spoilt0
    BY <1>6, <1>d, <2>1, <2>2
  <2> QED
    BY <2>3 DEF Spoilt0, f, r
<1>7. CASE st = "llvm-link" /\ f = "bc" /\ b = "sqlite"
  <2>1. "obj" \notin d.whole \/ "lib" \notin d.whole
    BY <1>7, <1>b, <1>c DEF UsesAll
  <2>2. /\ Turn(b, "obj") < Turn(b, f) /\ Turn(b, "lib") < Turn(b, f)
        /\ Behind("obj") \subseteq Behind(f) /\ Behind("lib") \subseteq Behind(f)
    BY <1>7, MadeBefore, BehindIs
  <2>3. Spoilt0
    BY <1>7, <1>d, <2>1, <2>2
  <2> QED
    BY <2>3 DEF Spoilt0, f, r
<1>8. CASE st \in {"extract-bc", "extract-bc to opt"} /\ f = "bc" /\ b \in Linked
  <2>1. "prog" \notin d.whole /\ b \notin {"sqlite", "m4", "coreutils", "make", "bash"}
    BY <1>8, <1>b, <1>c DEF UsesAll, Linked
  <2>2. Turn(b, "prog") < Turn(b, f) /\ Behind("prog") \subseteq Behind(f)
    BY <1>8, MadeBefore, BehindIs
  <2>3. Spoilt0
    BY <1>d, <2>1, <2>2
  <2> QED
    BY <2>3 DEF Spoilt0, f, r
<1>9. CASE st = "extract-bc lib" /\ Firm(r)
  <2>1. "lib" \notin d.whole
    BY <1>9, <1>b, <1>c DEF UsesAll
  <2>2. Affected(H, f)
    BY <1>9, <1>a, <2>1
  <2> QED
    BY <1>e, <2>2 DEF f, r
<1>10. CASE st = "extract-bc lib" /\ i = 4 /\ b \in {"make", "bash"}
  <2>1. "lib" \notin d.whole
    BY <1>10, <1>b, <1>c DEF UsesAll
  <2>2. 3 \in 1 .. 4 - 1 /\ 3 \in 1 .. 4
    OBVIOUS
  <2>3. PassedAt(b, d, H, 3)
    BY <1>0, <1>10, <2>2 DEF Passed
  <2>4. 3 \in 1 .. Len(Makefile(b)) /\ BriefRule(b, 3, Len(Makefile(b)), Makefile(b)[3])
    <3>1. BriefRule(b, i, Len(Makefile(b)), Makefile(b)[i])
      BY <1>0, Briefly
    <3>2. Len(Makefile(b)) = 4
      BY <1>10, <3>1 DEF BriefRule
    <3>3. 3 \in 1 .. Len(Makefile(b))
      BY ONLY <2>2, <3>2
    <3> QED
      BY <3>3, Briefly
  <2>5. Makefile(b)[3].target = "phony"
    <3>1. MakeMakes(3, Makefile(b)[3])
      BY <1>10, <2>4 DEF BriefRule
    <3> QED
      BY <3>1 DEF MakeMakes, Makes
  <2> QED
    BY <2>1, <2>3, <2>5 DEF PassedAt
<1>11. CASE st = "extract_bc.sh" /\ f = "phony" /\ s = 1 /\ n = 2
  <2>1. "lib" \notin d.whole
    BY <1>11, <1>b, <1>c DEF UsesAll
  <2>2. ASSUME H = {}, m >= 1 PROVE FALSE
    <3>1. PassedAt(b, d, H, i)
      BY <1>0, <2>2 DEF Complete
    <3> QED
      BY <1>11, <2>1, <3>1 DEF PassedAt, f, r
  <2>3. 1 < 2
    BY ONLY TRUE
  <2>4. s < n
    BY <1>11, <2>3, Zenon
  <2> QED
    BY <1>11, <2>2, <2>4 DEF n, f, st, r
<1> HIDE DEF Spoilt0
<1> DEFINE Ok == \/ /\ Makefile(b)[i].recipe[s] = "extract_bc.sh" /\ Makefile(b)[i].target = "phony"
                    /\ s < Len(Makefile(b)[i].recipe)
                    /\ H = {} => ~ (m >= 1)
                 \/ H # {} /\ (Makefile(b)[i].target # "phony" => Affected(H, Makefile(b)[i].target))
<1>12. /\ st = "make -C" /\ f = "lib" /\ b \in Linked => Ok
       /\ st = "make -C" /\ f = "bc" /\ b = "m4" => Ok
       /\ st = "make -C" /\ f = "phony" /\ b \in {"make", "bash", "coreutils"} => Ok
       /\ st \in {"extract-bc", "extract-bc to opt"} /\ f = "bc" /\ b \in Linked => Ok
  BY <1>4, <1>8, Zenon
<1>13. b \notin {"sqlite", "m4", "coreutils", "make", "bash"} => b \in Linked
  BY <1>f
<1>14. b = "apr" \/ b \in {"json", "libxml2", "expat", "libosip", "libyaml"} => b \in Linked
  BY DEF Linked
<1>15. /\ Ok => Ok
       /\ \A x \in {"unpack", "unpack to patch", "patch", "rm build", "mkdir -p", "autogen; cd -",
                    "cc lib", "opt", "llvm-dis"} : st = x => Ok
  BY <1>1
<1> SUFFICES Ok
  OBVIOUS
<1>20. ASSUME st = "unpack" PROVE Ok
  BY <1>20, <1>15
<1>21. ASSUME st = "unpack to patch" PROVE Ok
  BY <1>21, <1>15
<1>22. ASSUME st = "patch" PROVE Ok
  BY <1>22, <1>15
<1>23. ASSUME st = "rm build" PROVE Ok
  BY <1>23, <1>15
<1>24. ASSUME st = "mkdir -p" PROVE Ok
  BY <1>24, <1>15
<1>25. ASSUME st = "autogen; cd -" PROVE Ok
  BY <1>25, <1>15
<1>26. ASSUME st = "cc lib" PROVE Ok
  BY <1>26, <1>15
<1>27. ASSUME st = "opt" PROVE Ok
  BY <1>27, <1>15
<1>28. ASSUME st = "llvm-dis" PROVE Ok
  BY <1>28, <1>15
<1>29. ASSUME st = "mkdir" /\ Firm(r) PROVE Ok
  BY <1>29, <1>2
<1>30. ASSUME st \in {"configure", "configure; cd -"} /\ f = "build" /\ Firm(r) /\ b # "sqlite" PROVE Ok
  BY <1>30, <1>3
<1>31. ASSUME st = "make -C" /\ f = "lib" /\ b \notin {"sqlite", "m4", "coreutils", "make", "bash"} PROVE Ok
  BY <1>31, <1>12, <1>13
<1>32. ASSUME st = "make -C" /\ f = "bc" /\ b = "m4" PROVE Ok
  BY <1>32, <1>12
<1>33. ASSUME st = "make -C" /\ f = "phony" /\ b \in {"make", "bash"} PROVE Ok
  BY <1>33, <1>12
<1>34. ASSUME st = "make -C" /\ f = "phony" /\ b = "coreutils" PROVE Ok
  BY <1>34, <1>12
<1>35. ASSUME st = "cc" /\ f = "obj" /\ b \notin {"m4", "coreutils", "make", "bash"} PROVE Ok
  BY <1>35, <1>5
<1>36. ASSUME st = "link" /\ f = "prog" /\ b \notin {"sqlite", "m4", "coreutils", "make", "bash"} PROVE Ok
  BY <1>36, <1>6
<1>37. ASSUME st = "llvm-link" /\ f = "bc" /\ b = "sqlite" PROVE Ok
  BY <1>37, <1>7
<1>38. ASSUME st = "extract-bc" /\ f = "bc" /\ b = "apr" PROVE Ok
  BY <1>38, <1>12, <1>14
<1>39. ASSUME st = "extract-bc to opt" /\ f = "bc" /\ b \in {"json", "libxml2", "expat", "libosip", "libyaml"} PROVE Ok
  BY <1>39, <1>12, <1>14
<1>40. ASSUME st = "extract-bc lib" /\ Firm(r) PROVE Ok
  BY <1>40, <1>9
<1>41. ASSUME st = "extract-bc lib" /\ i = 4 /\ b \in {"make", "bash"} PROVE Ok
  BY <1>41, <1>10
<1>42. ASSUME st = "extract_bc.sh" /\ f = "phony" /\ s = 1 /\ n = 2 PROVE Ok
  BY <1>42, <1>11
<1> HIDE DEF Ok
<1> QED
  BY <1>0, <1>20, <1>21, <1>22, <1>23, <1>24, <1>25, <1>26, <1>27, <1>28, <1>29, <1>30, <1>31, <1>32, <1>33, <1>34, <1>35, <1>36, <1>37, <1>38, <1>39, <1>40, <1>41, <1>42, Zenon DEF StepKnown, st, f, n

-----------------------------------------------------------------------------
(* A step whose target is affected can only go on, or make gives up.       *)
LEMMA SpoiltFollows ==
  ASSUME NEW b \in Benchmarks, NEW d, NEW t, NEW i \in 1 .. Len(Makefile(b)), NEW m, NEW H,
         NEW s \in 1 .. Len(Makefile(b)[i].recipe), Middle(b, d, t, i, m, H), H # {},
         Makefile(b)[i].target # "phony" => Affected(H, Makefile(b)[i].target),
         Makefile(b)[i].target = "phony" => s < Len(Makefile(b)[i].recipe)
  PROVE  Follows(b, d, t, i, s, m, H)
<1>1. KeptAt(b, d, H, i)
  BY DEF KeptAt
<1>2. SoFar(b, d, i, s + 1, m, H)
  BY DEF SoFar, Firm
<1>3. ASSUME s = Len(Makefile(b)[i].recipe) PROVE Done(b, d, i, m, H)
  <2>1. Len(Makefile(b)[i].recipe) \in Nat
    BY Lengths
  <2>2. ~ (s < Len(Makefile(b)[i].recipe))
    BY ONLY <2>1, <1>3
  <2> QED
    BY <1>1, <2>2 DEF Done, PassedAt
<1> QED
  BY <1>2, <1>3, StepEnds

LEMMA AprMakesLib ==
  ASSUME NEW b, NEW i, NEW s, StepKnown(b, i, s, Makefile(b)[i]), b = "apr",
         Makefile(b)[i].recipe[s] = "make -C"
  PROVE  Makefile(b)[i].target # "phony"
<1>1. b \notin {"make", "bash"} /\ b # "coreutils"
  OBVIOUS
<1> QED
  BY <1>1, Zenon DEF StepKnown

LEMMA FailKeeps ==
  ASSUME NEW b \in Benchmarks, NEW d, NEW t, NEW i, NEW s, NEW m, NEW H, Busy(b, d, t, i, s, m, H),
         ~ Works(b, d, Makefile(b)[i].recipe[s])
  PROVE  /\ Masked(b, Makefile(b)[i].recipe[s]) => Follows(b, d, t, i, s, m, H)
         /\ ~ Masked(b, Makefile(b)[i].recipe[s]) => Sound(b, d, t, 0, 0, m + 1, H)
<1> DEFINE st == Makefile(b)[i].recipe[s]
           f == Makefile(b)[i].target
<1>0. /\ i \in 1 .. Len(Makefile(b)) /\ s \in 1 .. Len(Makefile(b)[i].recipe)
      /\ Middle(b, d, t, i, m, H) /\ StepKnown(b, i, s, Makefile(b)[i])
      /\ \A j \in 1 .. Len(Makefile(b)) : j = i \/ KeptAt(b, d, H, j)
      /\ Sane(d, t, m, H)
  BY BusyFacts, MiddleOf DEF Busy, Middle
<1>1. \/ st = "extract_bc.sh" /\ f = "phony" /\ s < Len(Makefile(b)[i].recipe) /\ (H = {} => ~ (m >= 1))
      \/ H # {} /\ (f # "phony" => Affected(H, f))
  BY FailsWhenSpoilt, Zenon
<1>2. CASE st = "extract_bc.sh" /\ f = "phony" /\ s < Len(Makefile(b)[i].recipe) /\ (H = {} => ~ (m >= 1))
  <2>1. Masked(b, st)
    BY <1>2 DEF Masked
  <2>2. SoFar(b, d, i, s + 1, m, H)
    BY <1>2 DEF SoFar, Firm
  <2>3. Len(Makefile(b)[i].recipe) \in Nat
    BY <1>0, Lengths
  <2>4. ~ (s = Len(Makefile(b)[i].recipe))
    BY ONLY <1>2, <2>3
  <2>5. Follows(b, d, t, i, s, m, H)
    BY <1>0, <2>2, <2>4, StepEnds
  <2> QED
    BY <2>1, <2>5
<1>3. CASE st # "extract_bc.sh" /\ H # {} /\ (f # "phony" => Affected(H, f))
  <2>1. Sound(b, d, t, 0, 0, m + 1, H)
    <3>1. KeptAt(b, d, H, i)
      BY <1>3 DEF KeptAt
    <3> QED
      BY <1>0, <1>3, <3>1, MakeStops
  <2>2. ASSUME Masked(b, st) PROVE f # "phony"
    <3>1. st = "configure; cd -" \/ st = "autogen; cd -" \/ (b = "apr" /\ st = "make -C")
      BY <1>3, <2>2 DEF Masked
    <3>2. /\ st = "configure; cd -" => f = "build"
          /\ st = "autogen; cd -" => f = "build"
      BY <1>0, Zenon DEF StepKnown
    <3>3. b = "apr" /\ st = "make -C" => f # "phony"
      BY <1>0, AprMakesLib
    <3> QED
      BY ONLY <3>1, <3>2, <3>3
  <2>3. Masked(b, st) => Follows(b, d, t, i, s, m, H)
    BY <1>0, <1>3, <2>2, SpoiltFollows
  <2> QED
    BY <2>1, <2>3
<1>4. CASE st = "extract_bc.sh" /\ H # {} /\ (f # "phony" => Affected(H, f))
  <2>1. Masked(b, st)
    BY <1>4 DEF Masked
  <2>2. st = "extract_bc.sh" => s = 1 /\ Len(Makefile(b)[i].recipe) = 2
    BY <1>0, Zenon DEF StepKnown
  <2>3. 1 < 2
    BY ONLY TRUE
  <2>4. s < Len(Makefile(b)[i].recipe)
    BY <1>4, <2>2, <2>3, Zenon
  <2>5. Follows(b, d, t, i, s, m, H)
    BY <1>0, <1>4, <2>4, SpoiltFollows
  <2> QED
    BY <2>1, <2>5
<1> QED
  BY <1>1, <1>2, <1>3, <1>4

-----------------------------------------------------------------------------
(* A tool fails, or build.sh is killed.                                    *)
WritesAll ==
  /\ \A st \in {"unpack", "unpack to patch", "patch"} : Writes(st) = "src"
  /\ Writes("autogen; cd -") = "script"
  /\ \A st \in {"rm build", "mkdir", "mkdir -p", "configure", "configure; cd -"} : Writes(st) = "build"
  /\ \A st \in {"make -C", "cc lib"} : Writes(st) = "lib"
  /\ Writes("cc") = "obj"
  /\ Writes("link") = "prog"
  /\ \A st \in {"extract-bc", "extract-bc lib", "extract-bc to opt", "opt", "llvm-dis", "llvm-link",
                "extract_bc.sh"} : Writes(st) = "bc"

LEMMA WritesIs == WritesAll
BY DEF WritesAll, Writes

(* What a step writes is behind its target.                                *)
LEMMA WritesBehind ==
  ASSUME NEW b \in Benchmarks, NEW i, NEW s, NEW r, StepKnown(b, i, s, r)
  PROVE  /\ Writes(r.recipe[s]) \in Made
         /\ r.target # "phony" => Writes(r.recipe[s]) \in Behind(r.target)
         /\ r.target = "bc" /\ b # "m4" => Writes(r.recipe[s]) = "bc"
<1> DEFINE st == r.recipe[s]
           f == r.target
<1>0. WritesAll
  BY WritesIs
<1> DEFINE Ok == /\ Writes(st) \in Made
                 /\ f # "phony" => Writes(st) \in Behind(f)
                 /\ f = "bc" /\ b # "m4" => Writes(st) = "bc"
<1> SUFFICES Ok
  OBVIOUS
<1>a. /\ {"src", "script", "build", "lib", "obj", "prog", "bc"} = Made
      /\ Behind("src") = {"src"} /\ Behind("build") = {"src", "script", "build"}
      /\ Behind("lib") = {"src", "script", "build", "lib"} /\ Behind("obj") = {"src", "obj"}
      /\ Behind("prog") = Made \ {"bc"} /\ Behind("bc") = Made
  BY DEF Behind, Made
<1> HIDE DEF st, f
<1>1. ASSUME st \in {"unpack", "unpack to patch", "patch"}, f = "src" PROVE Ok
  BY <1>1, <1>0, <1>a DEF WritesAll
<1>2. ASSUME st = "autogen; cd -", f = "build" PROVE Ok
  BY <1>2, <1>0, <1>a DEF WritesAll
<1>3. ASSUME st \in {"rm build", "mkdir", "mkdir -p", "configure", "configure; cd -"}, f = "build" PROVE Ok
  BY <1>3, <1>0, <1>a DEF WritesAll
<1>4. ASSUME st \in {"make -C", "cc lib"}, f \in {"lib", "phony"} PROVE Ok
  BY <1>4, <1>0, <1>a DEF WritesAll
<1>5. ASSUME st = "make -C", f = "bc", b = "m4" PROVE Ok
  BY <1>5, <1>0, <1>a DEF WritesAll
<1>6. ASSUME st = "cc", f = "obj" PROVE Ok
  BY <1>6, <1>0, <1>a DEF WritesAll
<1>7. ASSUME st = "link", f = "prog" PROVE Ok
  BY <1>7, <1>0, <1>a DEF WritesAll
<1>8. ASSUME st \in {"extract-bc", "extract-bc lib", "extract-bc to opt", "opt", "llvm-dis", "llvm-link",
                     "extract_bc.sh"}, f \in {"bc", "phony"} PROVE Ok
  BY <1>8, <1>0, <1>a DEF WritesAll
<1>9. /\ st = "unpack" /\ f = "src" => Ok
      /\ st = "unpack to patch" /\ f = "src" => Ok
      /\ st = "patch" /\ f = "src" => Ok
  BY <1>1
<1>10. /\ st = "rm build" /\ f = "build" => Ok
       /\ st = "mkdir" /\ f = "build" => Ok
       /\ st = "mkdir -p" /\ f = "build" => Ok
       /\ st \in {"configure", "configure; cd -"} /\ f = "build" => Ok
  BY <1>3
<1>11. /\ st = "make -C" /\ f = "lib" => Ok
       /\ st = "make -C" /\ f = "phony" => Ok
       /\ st = "cc lib" /\ f = "lib" => Ok
  BY <1>4
<1>12. /\ st = "extract-bc" /\ f = "bc" => Ok
       /\ st = "extract-bc lib" /\ f = "bc" => Ok
       /\ st = "extract-bc to opt" /\ f = "bc" => Ok
       /\ st = "opt" /\ f = "bc" => Ok
       /\ st = "llvm-dis" /\ f = "bc" => Ok
       /\ st = "llvm-link" /\ f = "bc" => Ok
       /\ st = "extract_bc.sh" /\ f = "phony" => Ok
  BY <1>8
<1> HIDE DEF Ok
<1> QED
  BY <1>2, <1>5, <1>6, <1>7, <1>9, <1>10, <1>11, <1>12, Zenon DEF StepKnown, st, f

LEMMA HurtKeeps ==
  ASSUME NEW b \in Benchmarks, NEW d, NEW t, NEW i, NEW s, NEW m, NEW H, Busy(b, d, t, i, s, m, H),
         NEW e \in Breaks(d, Makefile(b)[i].recipe[s], t + 1),
         NEW G, G = H \cup {Writes(Makefile(b)[i].recipe[s])}
  PROVE  /\ Masked(b, Makefile(b)[i].recipe[s]) => Follows(b, e, t + 1, i, s, m, G)
         /\ Sound(b, e, t + 1, 0, 0, m, G) /\ Sound(b, e, t + 1, 0, 0, m + 1, G)
<1> DEFINE st == Makefile(b)[i].recipe[s]
           f == Writes(st)
           n == Len(Makefile(b))
<1>0. /\ i \in 1 .. n /\ s \in 1 .. Len(Makefile(b)[i].recipe)
      /\ StepKnown(b, i, s, Makefile(b)[i]) /\ RuleFacts(b, i, n, Makefile(b)[i])
      /\ d \in Disks /\ t \in Nat
      /\ Sane(d, t, m, H) /\ Kept(b, d, i, s, H) /\ Passed(b, d, i, H)
  BY BusyFacts
<1>1. /\ f \in Made
      /\ Makefile(b)[i].target # "phony" => f \in Behind(Makefile(b)[i].target)
      /\ Makefile(b)[i].target = "bc" /\ b # "m4" => f = "bc"
  BY <1>0, WritesBehind
<1>2. e = d \/ e = Write(d, f, t + 1, FALSE) \/ e = Write(d, f, 0, FALSE)
  BY DEF Breaks
<1>3. f \in G /\ H \subseteq G /\ G # {} /\ G = H \cup {f}
  OBVIOUS
<1>4. Sane(e, t + 1, m, G)
  <2>1. t + 1 \in 0 .. t + 1 /\ 0 \in 0 .. t + 1 /\ FALSE \in BOOLEAN
    <3>1. t \in Nat
      BY <1>0
    <3> QED
      BY ONLY <3>1
  <2>2. Sane(d, t + 1, m, H)
    BY <1>0, SaneLater
  <2>3. Sane(Write(d, f, t + 1, FALSE), t + 1, m, H) /\ Sane(Write(d, f, 0, FALSE), t + 1, m, H)
    BY ONLY <1>1, <2>1, <2>2, SaneWriteNow
  <2>4. Sane(e, t + 1, m, H)
    BY ONLY <1>2, <2>2, <2>3
  <2> QED
    BY <1>1, <1>3, <2>4 DEF Sane
<1>5. \A g \in Files : g # f => Same(d, e, g)
  <2> HIDE DEF f
  <2>1. d.at \in [Files -> Nat]
    BY <1>0 DEF Disks
  <2> QED
    BY <1>2, <2>1 DEF Write, Same
<1> HIDE DEF f, n
<1>6. \A j \in 1 .. n : KeptAt(b, e, G, j)
  <2> TAKE j \in 1 .. n
  <2>0. j \in 1 .. Len(Makefile(b))
    BY DEF n
  <2>1. SUFFICES ASSUME Makefile(b)[j].target # "phony", ~ Affected(G, Makefile(b)[j].target)
                 PROVE  KeptAt(b, e, G, j)
    BY DEF KeptAt
  <2>2. f \notin Behind(Makefile(b)[j].target)
    BY <1>3, <2>1 DEF Affected
  <2>3. j # i
    BY <1>1, <2>1, <2>2
  <2>4. KeptAt(b, d, H, j)
    BY <1>0, <2>0, <2>3 DEF Kept
  <2>5. RuleFacts(b, j, n, Makefile(b)[j])
    BY <2>0, Briefly DEF n
  <2>6. /\ Makefile(b)[j].target \in Made
        /\ Makefile(b)[j].target \in Files /\ Makefile(b)[j].needs \subseteq Files
    BY ONLY <2>1, <2>5 DEF RuleFacts, Files, Made
  <2>7. f # Makefile(b)[j].target
    BY <2>2, <2>6, BehindItself
  <2>8. f \notin Makefile(b)[j].needs
    <3>1. ASSUME f \in Makefile(b)[j].needs PROVE FALSE
      <4>1. f \in Makefile(b)[j].needs \ {"input", "phony"}
        BY <1>1, <3>1 DEF Made
      <4>2. f \in Behind(f) /\ Behind(f) \subseteq Behind(Makefile(b)[j].target)
        BY <2>0, <2>1, <4>1, Needed
      <4> QED
        BY <2>2, <4>2
    <3> QED
      BY <3>1
  <2>9. Same(d, e, Makefile(b)[j].target) /\ \A g \in Makefile(b)[j].needs : Same(d, e, g)
    BY <1>5, <2>6, <2>7, <2>8
  <2> QED
    BY <1>3, <2>4, <2>9, KeptIfSame
<1>7. Passed(b, e, i, G)
  <2> SUFFICES ASSUME NEW j \in 1 .. i - 1 PROVE PassedAt(b, e, G, j)
    BY DEF Passed
  <2>1. j \in 1 .. n /\ j < i
    <3>1. i \in 1 .. n /\ n \in Nat
      BY <1>0, Lengths DEF n
    <3> QED
      BY ONLY <3>1, j \in 1 .. i - 1
  <2>2. PassedAt(b, d, H, j)
    BY <1>0 DEF Passed
  <2>3. RuleFacts(b, j, n, Makefile(b)[j])
    BY <2>1, Briefly DEF n
  <2>4. CASE Makefile(b)[j].target = "phony"
    <3>1. j = 3 /\ b \in {"make", "bash", "coreutils"}
      BY <2>3, <2>4 DEF RuleFacts
    <3>2. i > 3
      BY <2>1, <3>1
    <3>3. Makefile(b)[i].target = "bc"
      BY <1>0, <3>1, <3>2 DEF RuleFacts
    <3>4. f = "bc"
      BY <1>1, <3>1, <3>3
    <3>5. Same(d, e, "lib")
      BY <1>5, <3>4 DEF Files, Made
    <3> QED
      BY <1>3, <2>2, <2>4, <3>5, StillPassed
  <2>5. CASE Makefile(b)[j].target # "phony"
    <3> DEFINE g == Makefile(b)[j].target
    <3>1. g \in Made /\ g \in Files
      BY ONLY <2>3, <2>5 DEF RuleFacts, Made, Files
    <3>2. Same(d, e, g) \/ (Makefile(b)[j].target # "phony" /\ Affected(G, g))
      <4>1. CASE g = f
        BY <1>3, <2>5, <3>1, <4>1, BehindItself DEF Affected
      <4>2. CASE g # f
        BY <1>5, <3>1, <4>2
      <4> QED
        BY <4>1, <4>2
    <3> QED
      BY <1>3, <2>2, <2>5, <3>2, StillPassed
  <2> QED
    BY <2>4, <2>5
<1>8. Sound(b, e, t + 1, 0, 0, m, G) /\ Sound(b, e, t + 1, 0, 0, m + 1, G)
  BY <1>3, <1>4, <1>6, MakeStops DEF n
<1>9. ASSUME Masked(b, st) PROVE Follows(b, e, t + 1, i, s, m, G)
  <2>1. Complete(b, e, m, G)
    BY <1>3 DEF Complete
  <2>2. Middle(b, e, t + 1, i, m, G)
    BY <1>4, <1>6, <1>7, <2>1 DEF Middle, n
  <2>3. Makefile(b)[i].target # "phony" => Affected(G, Makefile(b)[i].target)
    BY <1>1, <1>3 DEF Affected
  <2>4. Makefile(b)[i].target = "phony" => s < Len(Makefile(b)[i].recipe)
    <3>1. st = "configure; cd -" \/ st = "autogen; cd -" \/ st = "extract_bc.sh" \/ (b = "apr" /\ st = "make -C")
      BY <1>9 DEF Masked
    <3>2. /\ st = "configure; cd -" => Makefile(b)[i].target = "build"
          /\ st = "autogen; cd -" => Makefile(b)[i].target = "build"
          /\ st = "extract_bc.sh" => s = 1 /\ Len(Makefile(b)[i].recipe) = 2
      BY <1>0, Zenon DEF StepKnown
    <3>3. 1 < 2 /\ "build" # "phony"
      BY ONLY TRUE
    <3>4. b = "apr" /\ st = "make -C" => Makefile(b)[i].target # "phony"
      BY <1>0, AprMakesLib
    <3> QED
      BY ONLY <3>1, <3>2, <3>3, <3>4, Zenon
  <2> QED
    BY <1>0, <1>3, <2>2, <2>3, <2>4, SpoiltFollows DEF n
<1> QED
  BY <1>8, <1>9

-----------------------------------------------------------------------------
(* make clean, and the beginning.                                          *)
LEMMA CleanKeeps ==
  ASSUME NEW b \in Benchmarks, NEW d, NEW t, NEW m, NEW H, Sound(b, d, t, 0, 0, m, H),
         NEW G, G = H \ clean(b)
  PROVE  Sound(b, Remove(d, clean(b)), t, 0, 0, 0, G)
<1> DEFINE e == Remove(d, clean(b))
           n == Len(Makefile(b))
<1>0. Sane(d, t, m, H) /\ d \in Disks /\ \A j \in 1 .. n : j = 0 \/ KeptAt(b, d, H, j)
  BY DEF Sound, Sane, Kept
<1>1. clean(b) \in SUBSET Made
  BY DEF clean, InBuild, Made
<1>2. Sane(e, t, m, H)
  BY <1>0, <1>1, SaneRemove
<1>3. Sane(e, t, 0, G)
  BY <1>2 DEF Sane
<1>4. /\ \A g \in Files : e.at[g] = IF g \in clean(b) THEN 0 ELSE d.at[g]
      /\ \A g : g \in e.whole <=> g \in d.whole /\ g \notin clean(b)
  BY ONLY <1>0, RemoveIs
<1> HIDE DEF e, n
<1>5. \A j \in 1 .. n : KeptAt(b, e, G, j)
  <2> TAKE j \in 1 .. n
  <2> DEFINE r == Makefile(b)[j]
  <2>1. /\ j \in 1 .. Len(Makefile(b)) /\ j # 0
        /\ BriefRule(b, j, n, r) /\ RuleFacts(b, j, n, r)
    BY Briefly DEF n
  <2>2. r.target \in Files /\ r.needs \subseteq Files
    BY ONLY <2>1 DEF RuleFacts, Files, Made
  <2>3. CASE r.target \in clean(b)
    BY <1>4, <2>2, <2>3 DEF KeptAt
  <2>4. CASE r.target = "phony"
    BY <2>4 DEF KeptAt
  <2>5. CASE r.target \notin clean(b) \cup {"phony"}
    <3>1. Behind(r.target) \cap clean(b) = {} /\ r.needs \cap clean(b) = {}
      BY <2>1, <2>5, CleanLeaves
    <3>2. Affected(G, r.target) <=> Affected(H, r.target)
      BY <3>1 DEF Affected
    <3>3. Same(d, e, r.target) /\ \A g \in r.needs : Same(d, e, g)
      BY <1>4, <2>2, <2>5, <3>1 DEF Same
    <3>4. KeptAt(b, d, H, j)
      BY <1>0, <2>1
    <3>5. KeptAt(b, e, H, j)
      BY <3>3, <3>4, KeptIfSame
    <3> QED
      BY <3>2, <3>5 DEF KeptAt
  <2> QED
    BY <2>3, <2>4, <2>5
<1>6. Place(b, 0, 0) /\ Kept(b, e, 0, 0, G) /\ Passed(b, e, 0, G)
  <2>1. Kept(b, e, 0, 0, G)
    BY <1>5, Zenon DEF Kept, n
  <2>2. Place(b, 0, 0) /\ Passed(b, e, 0, G)
    BY DEF Place, Passed
  <2> QED
    BY <2>1, <2>2
<1>7. Complete(b, e, 0, G) /\ SoFar(b, e, 0, 0, 0, G)
  BY DEF Complete, SoFar
<1> QED
  BY <1>3, <1>6, <1>7 DEF Sound, e

LEMMA FreshIsSound ==
  ASSUME NEW b \in Benchmarks
  PROVE  Sound(b, Fresh(b), CheckedOut, 0, 0, 0, {})
<1> DEFINE e == Fresh(b)
<1>1. /\ e \in Disks /\ e.whole = {} /\ e.at["input"] = 2
      /\ \A g \in Files : g # "input" => e.at[g] = 0
      /\ \A g \in Files : e.at[g] <= 2
  BY DEF Fresh, Disks, CheckedOut, Files
<1>2. "phony" \in Files /\ "phony" # "input"
  BY DEF Files
<1> HIDE DEF e
<1>3. Sane(e, CheckedOut, 0, {})
  BY <1>1, <1>2 DEF Sane, CheckedOut
<1>4. \A j \in 1 .. Len(Makefile(b)) : KeptAt(b, e, {}, j)
  <2> TAKE j \in 1 .. Len(Makefile(b))
  <2>1. RuleFacts(b, j, Len(Makefile(b)), Makefile(b)[j])
    BY Briefly
  <2>2. Makefile(b)[j].target \in Files /\ Makefile(b)[j].target # "input"
    BY ONLY <2>1 DEF RuleFacts, Files, Made
  <2> QED
    BY <1>1, <2>2 DEF KeptAt
<1>5. Place(b, 0, 0) /\ Kept(b, e, 0, 0, {}) /\ Passed(b, e, 0, {})
  BY <1>4 DEF Place, Kept, Passed
<1>6. Complete(b, e, 0, {}) /\ SoFar(b, e, 0, 0, 0, {})
  BY DEF Complete, SoFar
<1> QED
  BY <1>3, <1>5, <1>6 DEF Sound, e

-----------------------------------------------------------------------------
(* build.sh.                                                               *)
LEMMA ListedIs ==
  /\ Listed \subseteq Benchmarks
  /\ Len(Order) \in Nat /\ Len(Order) > 0
  /\ \A k \in 1 .. Len(Order) : Order[k] \in Listed
  /\ \A j, k \in 1 .. Len(Order) : Order[j] = Order[k] => j = k
<1>1. Order \in Seq(Benchmarks) /\ Len(Order) > 0
  BY OrderAssumption
<1>2. Len(Order) \in Nat /\ DOMAIN Order = 1 .. Len(Order)
  BY <1>1
<1>3. \A k \in 1 .. Len(Order) : Order[k] \in Benchmarks
  BY <1>1
<1>4. \A j, k \in 1 .. Len(Order) : Order[j] = Order[k] => j = k
  BY <1>2, OrderAssumption
<1> QED
  BY <1>1, <1>2, <1>3, <1>4 DEF Listed

(* The benchmark at hand, and the others.                                  *)
LEMMA AtBench ==
  ASSUME IInv, at.bench # 0
  PROVE  /\ Bench \in Listed /\ Bench \in Benchmarks /\ at.bench \in 1 .. Len(Order)
         /\ at.rule \in Nat /\ at.step \in Nat
         /\ Sound(Bench, disk[Bench], clock, at.rule, at.step, made[Bench], Spoilt(Bench))
         /\ at.rule \in 1 .. Len(Makefile(Bench))
         /\ at.step \in 0 .. Len(Makefile(Bench)[at.rule].recipe)
         /\ made[Bench] \in Nat
         /\ \A b \in Listed : b # Bench => RuleAt(b) = 0 /\ StepAt(b) = 0
<1>1. at \in [bench : 0 .. Len(Order), rule : Nat, step : Nat] /\ at.rule # 0
  BY DEF IInv
<1>2. at.bench \in 1 .. Len(Order) /\ at.rule \in Nat /\ at.step \in Nat
  <2>1. at.bench \in 0 .. Len(Order) /\ Len(Order) \in Nat /\ at.rule \in Nat /\ at.step \in Nat
    BY <1>1, ListedIs
  <2> QED
    BY ONLY <2>1, at.bench # 0
<1>3. Bench \in Listed /\ Bench \in Benchmarks
  BY <1>2, ListedIs DEF Bench
<1>4. RuleAt(Bench) = at.rule /\ StepAt(Bench) = at.step
  BY DEF RuleAt, StepAt, AtHand, Bench
<1>5. Sound(Bench, disk[Bench], clock, at.rule, at.step, made[Bench], Spoilt(Bench))
  BY <1>3, <1>4 DEF IInv
<1>6. Place(Bench, at.rule, at.step) /\ made[Bench] \in Nat
  BY <1>5 DEF Sound, Sane
<1>7. \A b \in Listed : b # Bench => RuleAt(b) = 0 /\ StepAt(b) = 0
  BY DEF RuleAt, StepAt, AtHand, Bench
<1> QED
  BY <1>1, <1>2, <1>3, <1>5, <1>6, <1>7 DEF Place

(* Nothing happens to the other benchmarks.                                *)
LEMMA OtherSound ==
  ASSUME IInv, NEW b \in Listed, RuleAt(b) = 0, StepAt(b) = 0,
         disk'[b] = disk[b], made'[b] = made[b], Spoilt(b)' = Spoilt(b),
         clock' = clock \/ clock' = clock + 1,
         RuleAt(b)' = 0 \/ RuleAt(b)' = 1, StepAt(b)' = 0
  PROVE  Sound(b, disk'[b], clock', RuleAt(b)', StepAt(b)', made'[b], Spoilt(b)')
<1>1. Sound(b, disk[b], clock, 0, 0, made[b], Spoilt(b)) /\ b \in Benchmarks
  BY ListedIs DEF IInv
<1>2. Sound(b, disk[b], clock', 0, 0, made[b], Spoilt(b))
  BY <1>1, SoundLater
<1>3. Sound(b, disk[b], clock', 1, 0, made[b], Spoilt(b))
  BY <1>1, <1>2, MakeBegins
<1> QED
  BY <1>2, <1>3

(* Where a step of build.sh may leave it, and the benchmark at hand with   *)
(* files d and its files of H spoilt.                                      *)
Goes(d, H) ==
  \/ /\ at' \in [bench : {at.bench}, rule : Nat, step : Nat] /\ at'.rule # 0
     /\ made' = made
     /\ Sound(Bench, d, clock', at'.rule, at'.step, made[Bench], H)
  \/ /\ MakeEnds
     /\ Sound(Bench, d, clock', 0, 0, made[Bench] + 1, H)
  \/ /\ at' = Idle /\ made' = made
     /\ Sound(Bench, d, clock', 0, 0, made[Bench], H)

(* Only the files of the benchmark at hand may change, to d.               *)
DiskAt(d) ==
  /\ DOMAIN disk' = Listed /\ disk'[Bench] = d
  /\ \A b \in Listed : b # Bench => disk'[b] = disk[b]

LEMMA BenchGoes ==
  ASSUME IInv, at.bench # 0, NEW d, NEW H, NEW c \in Listed, c = Bench, Goes(d, H),
         DiskAt(d), clock' = clock \/ clock' = clock + 1,
         hurt' \subseteq Listed \X Made, Spoilt(c)' = H,
         \A b \in Listed : b # c => Spoilt(b)' = Spoilt(b)
  PROVE  IInv'
<1>0. /\ Bench \in Listed /\ Bench \in Benchmarks /\ at.bench \in 1 .. Len(Order)
      /\ \A b \in Listed : b # c => RuleAt(b) = 0 /\ StepAt(b) = 0
      /\ Len(Order) \in Nat
  BY AtBench, ListedIs
<1>a. DOMAIN disk = Listed /\ DOMAIN made = Listed /\ clock \in Nat /\ clock >= CheckedOut
  BY DEF IInv
<1>1. /\ DOMAIN disk' = Listed /\ disk'[Bench] = d
      /\ \A b \in Listed : b # c => disk'[b] = disk[b]
  BY DEF DiskAt
<1>2. clock' \in Nat /\ clock' >= CheckedOut
  BY <1>a DEF CheckedOut
<1>3. /\ at' \in [bench : 0 .. Len(Order), rule : Nat, step : Nat]
      /\ at'.bench = 0 => at' = Idle
      /\ at'.bench # 0 => at'.rule # 0
      /\ DOMAIN made' = Listed
      /\ \A b \in Listed : b # c => made'[b] = made[b]
      /\ \A b \in Listed : b # c => (RuleAt(b)' = 0 \/ RuleAt(b)' = 1) /\ StepAt(b)' = 0
      /\ Sound(Bench, d, clock', RuleAt(c)', StepAt(c)', made'[Bench], H)
  <2>1. CASE /\ at' \in [bench : {at.bench}, rule : Nat, step : Nat] /\ at'.rule # 0
             /\ made' = made
             /\ Sound(Bench, d, clock', at'.rule, at'.step, made[Bench], H)
    <3>1. at'.bench = at.bench
      BY <2>1
    <3>2. at' \in [bench : 0 .. Len(Order), rule : Nat, step : Nat]
      BY <1>0, <2>1
    <3>3. /\ RuleAt(c)' = at'.rule /\ StepAt(c)' = at'.step
          /\ \A b \in Listed : b # c => RuleAt(b)' = 0 /\ StepAt(b)' = 0
      BY <3>1 DEF RuleAt, StepAt, AtHand, Bench
    <3> QED
      BY <1>a, <2>1, <3>1, <3>2, <3>3
  <2>2. CASE MakeEnds /\ Sound(Bench, d, clock', 0, 0, made[Bench] + 1, H)
    <3>1. /\ made' = [made EXCEPT ![Bench] = @ + 1]
          /\ at' = IF at.bench < Len(Order) THEN [Idle EXCEPT !.bench = at.bench + 1] ELSE Idle
      BY <2>2 DEF MakeEnds
    <3>2. /\ DOMAIN made' = Listed /\ made'[Bench] = made[Bench] + 1
          /\ \A b \in Listed : b # c => made'[b] = made[b]
      BY <1>0, <1>a, <3>1
    <3>3. CASE at.bench < Len(Order)
      <4>1. at' = [bench |-> at.bench + 1, rule |-> 1, step |-> 0]
        BY <3>1, <3>3 DEF Idle
      <4>2. at.bench + 1 \in 1 .. Len(Order) /\ at.bench + 1 # 0 /\ at.bench + 1 # at.bench
            /\ at.bench + 1 \in 0 .. Len(Order)
        BY ONLY <1>0, <3>3
      <4>3. Order[at.bench + 1] # Bench
        BY <1>0, <4>2, ListedIs DEF Bench
      <4>4. at'.bench = at.bench + 1 /\ at'.rule = 1 /\ at'.step = 0
        BY <4>1
      <4>5. /\ \A b \in Listed : (RuleAt(b)' = 0 \/ RuleAt(b)' = 1) /\ StepAt(b)' = 0
            /\ RuleAt(c)' = 0
        BY <4>3, <4>4 DEF RuleAt, StepAt, AtHand
      <4>6. at' \in [bench : 0 .. Len(Order), rule : Nat, step : Nat]
        BY <4>1, <4>2
      <4>7. Sound(c, d, clock', RuleAt(c)', StepAt(c)', made'[c], H)
        BY <2>2, <3>2, <4>5
      <4> QED
        BY <3>2, <4>2, <4>4, <4>5, <4>6, <4>7
    <3>4. CASE ~ (at.bench < Len(Order))
      <4>1. at' = Idle
        BY <3>1, <3>4
      <4>2. \A b \in Listed : RuleAt(b)' = 0 /\ StepAt(b)' = 0
        BY <4>1 DEF RuleAt, StepAt, AtHand, Idle
      <4> QED
        BY <1>0, <2>2, <3>2, <4>1, <4>2 DEF Idle
    <3> QED
      BY <3>3, <3>4
  <2>3. CASE at' = Idle /\ made' = made /\ Sound(Bench, d, clock', 0, 0, made[Bench], H)
    <3>1. \A b \in Listed : RuleAt(b)' = 0 /\ StepAt(b)' = 0
      BY <2>3 DEF RuleAt, StepAt, AtHand, Idle
    <3> QED
      BY <1>0, <1>a, <2>3, <3>1 DEF Idle
  <2> QED
    BY <2>1, <2>2, <2>3, Zenon DEF Goes
<1>4. \A b \in Listed : Sound(b, disk'[b], clock', RuleAt(b)', StepAt(b)', made'[b], Spoilt(b)')
  <2> TAKE b \in Listed
  <2>1. CASE b = c
    BY <1>1, <1>3, <2>1
  <2>2. CASE b # c
    BY <1>0, <1>1, <1>3, <2>2, OtherSound
  <2> QED
    BY <2>1, <2>2
<1> QED
  BY <1>1, <1>2, <1>3, <1>4 DEF IInv

(* What follows a rule or a step that is done.                             *)
LEMMA RuleDoneGoes ==
  ASSUME IInv, at.bench # 0, NEW d, NEW H, RuleDone,
         at.rule < Len(Makefile(Bench)) => Sound(Bench, d, clock', at.rule + 1, 0, made[Bench], H),
         at.rule = Len(Makefile(Bench)) => Sound(Bench, d, clock', 0, 0, made[Bench] + 1, H)
  PROVE  Goes(d, H)
<1>0. at.rule \in 1 .. Len(Makefile(Bench)) /\ at.rule \in Nat /\ at \in [bench : 0 .. Len(Order), rule : Nat, step : Nat]
  BY AtBench DEF IInv
<1>a. Len(Makefile(Bench)) \in Nat
  BY AtBench, Lengths
<1>1. CASE at.rule < Len(Makefile(Bench))
  <2>1. at' = [at EXCEPT !.rule = @ + 1, !.step = 0] /\ made' = made
    BY <1>1 DEF RuleDone
  <2>2. at.rule + 1 \in Nat /\ at.rule + 1 # 0
    BY ONLY <1>0
  <2>3. /\ at' \in [bench : {at.bench}, rule : Nat, step : Nat]
        /\ at'.rule = at.rule + 1 /\ at'.step = 0
    BY <1>0, <2>1, <2>2
  <2> QED
    BY <1>1, <2>1, <2>2, <2>3 DEF Goes
<1>2. CASE ~ (at.rule < Len(Makefile(Bench)))
  <2>1. at.rule = Len(Makefile(Bench))
    BY ONLY <1>0, <1>2, <1>a
  <2>2. MakeEnds
    BY <1>2 DEF RuleDone
  <2> QED
    BY <2>1, <2>2 DEF Goes
<1> QED
  BY <1>1, <1>2

LEMMA StepDoneGoes ==
  ASSUME IInv, Running, NEW d, NEW H, StepDone,
         Follows(Bench, d, clock', at.rule, at.step, made[Bench], H)
  PROVE  Goes(d, H)
<1>0. /\ at.bench # 0 /\ at.step # 0
      /\ at.rule \in 1 .. Len(Makefile(Bench)) /\ at.rule \in Nat /\ at.rule # 0 /\ at.step \in Nat
      /\ at.step \in 0 .. Len(Makefile(Bench)[at.rule].recipe)
      /\ at \in [bench : 0 .. Len(Order), rule : Nat, step : Nat]
  BY AtBench DEF IInv, Running
<1>a. Len(Makefile(Bench)[at.rule].recipe) \in Nat /\ Here = Makefile(Bench)[at.rule]
  BY <1>0, AtBench, Lengths DEF Here
<1>1. CASE at.step < Len(Here.recipe)
  <2>1. at' = [at EXCEPT !.step = @ + 1] /\ made' = made
    BY <1>1 DEF StepDone
  <2>2. at.step + 1 \in Nat
    BY ONLY <1>0
  <2>3. /\ at' \in [bench : {at.bench}, rule : Nat, step : Nat]
        /\ at'.rule = at.rule /\ at'.step = at.step + 1
    BY <1>0, <2>1, <2>2
  <2>4. Sound(Bench, d, clock', at.rule, at.step + 1, made[Bench], H)
    BY <1>1, <1>a DEF Follows
  <2> QED
    BY <1>0, <2>1, <2>3, <2>4 DEF Goes
<1>2. CASE ~ (at.step < Len(Here.recipe))
  <2>1. at.step = Len(Makefile(Bench)[at.rule].recipe)
    BY ONLY <1>0, <1>2, <1>a
  <2>2. RuleDone
    BY <1>2 DEF StepDone
  <2> QED
    BY <1>0, <2>1, <2>2, RuleDoneGoes DEF Follows
<1> QED
  BY <1>1, <1>2

-----------------------------------------------------------------------------
(* The steps of build.sh.                                                  *)
LEMMA BusyBench ==
  ASSUME IInv, Running
  PROVE  /\ Busy(Bench, disk[Bench], clock, at.rule, at.step, made[Bench], Spoilt(Bench))
         /\ Bench \in Benchmarks /\ at.bench # 0 /\ Step = Makefile(Bench)[at.rule].recipe[at.step]
<1>1. at.bench # 0 /\ at.step # 0
  BY DEF Running
<1>2. /\ Sound(Bench, disk[Bench], clock, at.rule, at.step, made[Bench], Spoilt(Bench))
      /\ at.rule \in 1 .. Len(Makefile(Bench)) /\ at.step \in Nat /\ Bench \in Benchmarks
      /\ at.step \in 0 .. Len(Makefile(Bench)[at.rule].recipe)
  BY <1>1, AtBench
<1>3. Len(Makefile(Bench)[at.rule].recipe) \in Nat
  BY <1>2, Lengths
<1>4. at.step \in 1 .. Len(Makefile(Bench)[at.rule].recipe)
  BY ONLY <1>1, <1>2, <1>3
<1> QED
  BY <1>1, <1>2, <1>4 DEF Busy, Step, Here

LEMMA DiskExcept ==
  ASSUME IInv, at.bench # 0, NEW d
  PROVE  /\ disk' = [disk EXCEPT ![Bench] = d] => DiskAt(d)
         /\ disk' = disk => DiskAt(disk[Bench])
<1>1. DOMAIN disk = Listed /\ Bench \in Listed
  BY AtBench DEF IInv
<1> QED
  BY <1>1 DEF DiskAt

(* A step of make that spoils nothing.                                     *)
LEMMA BenchGoesOn ==
  ASSUME IInv, at.bench # 0, NEW d, Goes(d, Spoilt(Bench)),
         DiskAt(d), clock' = clock \/ clock' = clock + 1,
         hurt' = hurt
  PROVE  IInv'
<1>1. Bench \in Listed /\ hurt' \subseteq Listed \X Made
  BY AtBench DEF IInv
<1>2. PICK c \in Listed : c = Bench
  BY <1>1
<1>3. \A b \in Listed : Spoilt(b)' = Spoilt(b)
  BY DEF Spoilt
<1>4. Spoilt(c)' = Spoilt(Bench)
  BY <1>2, <1>3
<1> QED
  BY <1>1, <1>2, <1>3, <1>4, BenchGoes

LEMMA DecideKeeps == ASSUME IInv, Decide PROVE IInv'
<1>1. at.bench # 0 /\ at.step = 0 /\ clock' = clock /\ disk' = disk /\ hurt' = hurt
  BY DEF Decide
<1>2. /\ Sound(Bench, disk[Bench], clock, at.rule, 0, made[Bench], Spoilt(Bench))
      /\ at.rule \in 1 .. Len(Makefile(Bench)) /\ at.rule \in Nat /\ Bench \in Benchmarks
      /\ Bench \in Listed
  BY <1>1, AtBench
<1>3. DiskAt(disk[Bench])
  BY <1>1, DiskExcept
<1>4. Goes(disk[Bench], Spoilt(Bench))
  <2>1. CASE Stale(disk[Bench], Here)
    <3>1. at' = [at EXCEPT !.step = 1] /\ made' = made
      BY <2>1 DEF Decide
    <3>2. at \in [bench : 0 .. Len(Order), rule : Nat, step : Nat] /\ at.rule # 0
      BY <1>1 DEF IInv
    <3>3. at' \in [bench : {at.bench}, rule : Nat, step : Nat] /\ at'.rule = at.rule /\ at'.step = 1
      BY <3>1, <3>2
    <3>4. Sound(Bench, disk[Bench], clock, at.rule, 1, made[Bench], Spoilt(Bench))
      BY <1>2, <2>1, WhenStale DEF Here
    <3> QED
      BY <1>1, <3>1, <3>2, <3>3, <3>4 DEF Goes
  <2>2. CASE ~ Stale(disk[Bench], Here)
    <3>1. RuleDone
      BY <2>2 DEF Decide
    <3>2. /\ at.rule < Len(Makefile(Bench)) =>
               Sound(Bench, disk[Bench], clock, at.rule + 1, 0, made[Bench], Spoilt(Bench))
          /\ at.rule = Len(Makefile(Bench)) =>
               Sound(Bench, disk[Bench], clock, 0, 0, made[Bench] + 1, Spoilt(Bench))
      BY <1>2, <2>2, WhenFresh DEF Here
    <3> QED
      BY <1>1, <3>1, <3>2, RuleDoneGoes
  <2> QED
    BY <2>1, <2>2
<1> QED
  BY <1>1, <1>3, <1>4, BenchGoesOn

LEMMA RunStepGoes == ASSUME IInv, RunStep PROVE IInv'
<1>1. Running /\ StepDone /\ clock' = clock + 1 /\ hurt' = hurt
  BY DEF RunStep
<1>2. disk' = [disk EXCEPT ![Bench] = Does(Bench, disk[Bench], Step, clock + 1)]
  BY <1>1 DEF RunStep
<1>3. Follows(Bench, Does(Bench, disk[Bench], Step, clock + 1), clock',
              at.rule, at.step, made[Bench], Spoilt(Bench))
  BY <1>1, BusyBench, RunStepKeeps
<1>4. Goes(Does(Bench, disk[Bench], Step, clock + 1), Spoilt(Bench))
  BY <1>1, <1>3, StepDoneGoes
<1> QED
  BY <1>1, <1>2, <1>4, BusyBench, DiskExcept, BenchGoesOn

LEMMA FailStepGoes == ASSUME IInv, FailStep PROVE IInv'
<1>1. /\ Running /\ clock' = clock /\ hurt' = hurt /\ disk' = disk
      /\ ~ Works(Bench, disk[Bench], Step)
      /\ IF Masked(Bench, Step) THEN StepDone ELSE MakeEnds
  BY DEF FailStep
<1>2. /\ Masked(Bench, Step) =>
           Follows(Bench, disk[Bench], clock, at.rule, at.step, made[Bench], Spoilt(Bench))
      /\ ~ Masked(Bench, Step) => Sound(Bench, disk[Bench], clock, 0, 0, made[Bench] + 1, Spoilt(Bench))
  BY <1>1, BusyBench, FailKeeps
<1>3. Goes(disk[Bench], Spoilt(Bench))
  <2>1. CASE Masked(Bench, Step)
    BY <1>1, <1>2, <2>1, StepDoneGoes
  <2>2. CASE ~ Masked(Bench, Step)
    BY <1>1, <1>2, <2>2 DEF Goes
  <2> QED
    BY <2>1, <2>2
<1>4. at.bench # 0 /\ Bench \in Listed
  BY <1>1, BusyBench, AtBench
<1>5. DiskAt(disk[Bench])
  BY <1>1, <1>4, DiskExcept
<1> QED
  BY <1>1, <1>3, <1>4, <1>5, BenchGoesOn

(* A failing tool or a kill spoils the file of the step.                   *)
LEMMA HurtGoes ==
  ASSUME IInv, Hurts,
         \/ IF Masked(Bench, Step) THEN StepDone ELSE MakeEnds
         \/ at' = Idle /\ made' = made
  PROVE  IInv'
<1>1. /\ Running /\ clock' = clock + 1 /\ hurt' = hurt \cup {<<Bench, Writes(Step)>>}
      /\ disk' \in {[disk EXCEPT ![Bench] = d] : d \in Breaks(disk[Bench], Step, clock')}
  BY DEF Hurts
<1>2. PICK e \in Breaks(disk[Bench], Step, clock + 1) : disk' = [disk EXCEPT ![Bench] = e]
  BY <1>1
<1>3. PICK G : G = Spoilt(Bench) \cup {Writes(Step)}
  OBVIOUS
<1>4. /\ Masked(Bench, Step) => Follows(Bench, e, clock + 1, at.rule, at.step, made[Bench], G)
      /\ Sound(Bench, e, clock + 1, 0, 0, made[Bench], G)
      /\ Sound(Bench, e, clock + 1, 0, 0, made[Bench] + 1, G)
  BY <1>1, <1>2, <1>3, BusyBench, HurtKeeps
<1>5. Goes(e, G)
  <2>1. CASE at' = Idle /\ made' = made
    BY <1>1, <1>4, <2>1 DEF Goes
  <2>2. CASE Masked(Bench, Step) /\ StepDone
    BY <1>1, <1>4, <2>2, StepDoneGoes
  <2>3. CASE ~ Masked(Bench, Step) /\ MakeEnds
    BY <1>1, <1>4, <2>3 DEF Goes
  <2> QED
    BY <2>1, <2>2, <2>3
<1>6. at.bench # 0 /\ Bench \in Listed
  BY <1>1, BusyBench, AtBench
<1>7. Writes(Step) \in Made
  BY <1>1, BusyBench, BusyFacts, WritesBehind
<1>8. PICK c \in Listed : c = Bench
  BY <1>6
<1>9. Spoilt(c)' = G /\ \A b \in Listed : b # c => Spoilt(b)' = Spoilt(b)
  BY <1>1, <1>3, <1>7, <1>8 DEF Spoilt
<1>10. hurt' \subseteq Listed \X Made
  BY <1>1, <1>6, <1>7 DEF IInv
<1> QED
  BY <1>1, <1>2, <1>5, <1>6, <1>8, <1>9, <1>10, DiskExcept, BenchGoes

(* Between two runs of build.sh.                                           *)
LEMMA WhenIdle ==
  ASSUME IInv, at = Idle
  PROVE  \A b \in Listed : RuleAt(b) = 0 /\ StepAt(b) = 0
BY DEF RuleAt, StepAt, AtHand, Idle

LEMMA LaunchKeeps == ASSUME IInv, Launch PROVE IInv'
<1>1. /\ at = Idle /\ at' = [Idle EXCEPT !.bench = 1]
      /\ disk' = disk /\ clock' = clock /\ made' = made /\ hurt' = hurt
  BY DEF Launch
<1>2. at'.bench = 1 /\ at'.rule = 1 /\ at'.step = 0
      /\ at' = [bench |-> 1, rule |-> 1, step |-> 0]
  BY <1>1 DEF Idle
<1>3. at' \in [bench : 0 .. Len(Order), rule : Nat, step : Nat]
  BY <1>2, ListedIs
<1>4. \A b \in Listed : (RuleAt(b)' = 0 \/ RuleAt(b)' = 1) /\ StepAt(b)' = 0
  BY <1>2 DEF RuleAt, StepAt, AtHand
<1>5. \A b \in Listed : Spoilt(b)' = Spoilt(b)
  BY <1>1 DEF Spoilt
<1>6. \A b \in Listed : Sound(b, disk'[b], clock', RuleAt(b)', StepAt(b)', made'[b], Spoilt(b)')
  BY <1>1, <1>4, <1>5, WhenIdle, OtherSound
<1> QED
  BY <1>1, <1>2, <1>3, <1>6 DEF IInv

LEMMA CleanGoes == ASSUME IInv, NEW c \in Listed, Clean(c) PROVE IInv'
<1>1. /\ at = Idle /\ at' = at /\ clock' = clock
      /\ disk' = [disk EXCEPT ![c] = Remove(@, clean(c))] /\ made' = [made EXCEPT ![c] = 0]
      /\ hurt' = {h \in hurt : ~(h[1] = c /\ h[2] \in clean(c))}
  BY DEF Clean
<1>2. hurt \subseteq Listed \X Made /\ DOMAIN disk = Listed /\ DOMAIN made = Listed
  BY DEF IInv
<1>3. /\ DOMAIN disk' = Listed /\ DOMAIN made' = Listed
      /\ disk'[c] = Remove(disk[c], clean(c)) /\ made'[c] = 0
      /\ \A b \in Listed : b # c => disk'[b] = disk[b] /\ made'[b] = made[b]
  BY <1>1, <1>2
<1>4. Spoilt(c)' = Spoilt(c) \ clean(c) /\ \A b \in Listed : b # c => Spoilt(b)' = Spoilt(b)
  BY <1>1 DEF Spoilt
<1>5. \A b \in Listed : RuleAt(b)' = 0 /\ StepAt(b)' = 0 /\ RuleAt(b) = 0 /\ StepAt(b) = 0
  BY <1>1 DEF RuleAt, StepAt, AtHand, Idle
<1>6. \A b \in Listed : Sound(b, disk'[b], clock', RuleAt(b)', StepAt(b)', made'[b], Spoilt(b)')
  <2> TAKE b \in Listed
  <2>1. CASE b = c
    <3>1. Sound(c, disk[c], clock, 0, 0, made[c], Spoilt(c))
      BY <1>5 DEF IInv
    <3>2. Sound(c, Remove(disk[c], clean(c)), clock, 0, 0, 0, Spoilt(c) \ clean(c))
      BY <3>1, ListedIs, CleanKeeps
    <3> QED
      BY <1>1, <1>3, <1>4, <1>5, <2>1, <3>2
  <2>2. CASE b # c
    BY <1>1, <1>3, <1>4, <1>5, <2>2, OtherSound
  <2> QED
    BY <2>1, <2>2
<1>7. hurt' \subseteq Listed \X Made
  BY <1>1, <1>2
<1> QED
  BY <1>1, <1>3, <1>6, <1>7 DEF IInv

LEMMA StillKeeps == ASSUME IInv, UNCHANGED vars PROVE IInv'
<1>1. /\ at' = at /\ disk' = disk /\ clock' = clock /\ made' = made /\ hurt' = hurt
  BY DEF vars
<1> QED
  BY <1>1 DEF IInv, RuleAt, StepAt, AtHand, Spoilt

LEMMA StartsInvariant == Init => IInv
<1> SUFFICES ASSUME Init PROVE IInv
  OBVIOUS
<1>1. /\ disk = [b \in Listed |-> Fresh(b)] /\ clock = CheckedOut /\ at = Idle
      /\ made = [b \in Listed |-> 0] /\ hurt = {}
  BY DEF Init
<1>2. \A b \in Listed : RuleAt(b) = 0 /\ StepAt(b) = 0 /\ Spoilt(b) = {}
  BY <1>1 DEF RuleAt, StepAt, AtHand, Idle, Spoilt
<1>3. \A b \in Listed : Sound(b, disk[b], clock, RuleAt(b), StepAt(b), made[b], Spoilt(b))
  BY <1>1, <1>2, FreshIsSound, ListedIs
<1>4. at \in [bench : 0 .. Len(Order), rule : Nat, step : Nat] /\ at.bench = 0
  BY <1>1, ListedIs DEF Idle
<1>5. clock \in Nat /\ clock >= CheckedOut
  BY <1>1 DEF CheckedOut
<1> QED
  BY <1>1, <1>3, <1>4, <1>5 DEF IInv

LEMMA StepsInvariant == IInv /\ [Next]_vars => IInv'
<1> SUFFICES ASSUME IInv, [Next]_vars PROVE IInv'
  OBVIOUS
<1>1. CASE Launch
  BY <1>1, LaunchKeeps
<1>2. CASE Decide
  BY <1>2, DecideKeeps
<1>3. CASE RunStep
  BY <1>3, RunStepGoes
<1>4. CASE FailStep
  BY <1>4, FailStepGoes
<1>5. CASE ToolFails
  BY <1>5, HurtGoes DEF ToolFails
<1>6. CASE Kill
  BY <1>6, HurtGoes DEF Kill
<1>7. ASSUME NEW b \in Listed, Clean(b) PROVE IInv'
  BY <1>7, CleanGoes
<1>8. CASE UNCHANGED vars
  BY <1>8, StillKeeps
<1> QED
  BY <1>1, <1>2, <1>3, <1>4, <1>5, <1>6, <1>7, <1>8 DEF Next

-----------------------------------------------------------------------------
(* What the invariant says of a benchmark that nothing spoilt.             *)
LEMMA UnhurtIs ==
  ASSUME NEW b \in Listed, Unhurt(b)
  PROVE  Spoilt(b) = {}
BY DEF Unhurt, Spoilt

LEMMA MakesForIs == \A b : MakesFor(b) \in Nat /\ MakesFor(b) >= 1
BY DEF MakesFor

LEMMA InvariantMeansBuilt == IInv => BuiltUnlessHurt
<1> SUFFICES ASSUME IInv, NEW b \in Listed, Unhurt(b), made[b] >= MakesFor(b)
             PROVE  "bc" \in disk[b].whole
  BY DEF BuiltUnlessHurt
<1>1. Complete(b, disk[b], made[b], {}) /\ made[b] \in Nat
  BY UnhurtIs DEF IInv, Sound, Sane
<1>2. made[b] >= 1
  BY ONLY <1>1, MakesForIs, made[b] >= MakesFor(b)
<1> QED
  BY <1>1, <1>2 DEF Complete

LEMMA RepeatedSteps ==
  ASSUME NEW b, NEW i, NEW s, NEW r, StepKnown(b, i, s, r), ~ Firm(r)
  PROVE  r.recipe[s] \in {"unpack", "make -C", "extract-bc lib", "extract_bc.sh"}
BY DEF StepKnown

LEMMA InvariantMeansCheap == IInv => RebuildIsCheap
<1> SUFFICES ASSUME IInv, Running, Unhurt(Bench), made[Bench] >= MakesFor(Bench)
             PROVE  Step \in {"unpack", "make -C", "extract-bc lib", "extract_bc.sh"}
  BY DEF RebuildIsCheap
<1>1. /\ Busy(Bench, disk[Bench], clock, at.rule, at.step, made[Bench], Spoilt(Bench))
      /\ Bench \in Benchmarks /\ Step = Makefile(Bench)[at.rule].recipe[at.step]
      /\ Bench \in Listed
  BY BusyBench, AtBench
<1>2. Spoilt(Bench) = {} /\ made[Bench] \in Nat
  BY <1>1, UnhurtIs, BusyFacts
<1>3. made[Bench] # 0
  BY ONLY <1>2, MakesForIs, made[Bench] >= MakesFor(Bench)
<1>4. ~ Firm(Makefile(Bench)[at.rule])
  BY <1>1, <1>2, <1>3, FirmFacts
<1>5. StepKnown(Bench, at.rule, at.step, Makefile(Bench)[at.rule])
  BY <1>1, BusyFacts
<1> QED
  BY <1>1, <1>4, <1>5, RepeatedSteps

(* Whatever the benchmarks, the number of builds, failures, kills and      *)
(* cleans, and whatever one benchmark suffers: a benchmark of which        *)
(* nothing is spoilt has its bitcode once its make has ended, twice for    *)
(* coreutils.                                                              *)
THEOREM BuiltWhereUnhurt == Spec => []BuiltUnlessHurt
<1>1. Spec => []IInv
  BY StartsInvariant, StepsInvariant, PTL DEF Spec
<1> QED
  BY <1>1, InvariantMeansBuilt, PTL

(* For as many builds and benchmarks: make, where the bitcode has been     *)
(* made and nothing is spoilt, only unpacks, descends into the build       *)
(* directory and extracts again; no recipe that configures, compiles or    *)
(* links runs.                                                             *)
THEOREM RebuildRepeatsLittle == Spec => []RebuildIsCheap
<1>1. Spec => []IInv
  BY StartsInvariant, StepsInvariant, PTL DEF Spec
<1> QED
  BY <1>1, InvariantMeansCheap, PTL

=============================================================================
