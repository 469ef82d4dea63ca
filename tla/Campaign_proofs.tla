-------------------------- MODULE Campaign_proofs --------------------------
(***************************************************************************)
(* What holds of every campaign, whatever the benchmarks, the utilities,   *)
(* the shells, the scripts they launch and the number of kills.            *)
(***************************************************************************)
EXTENDS Campaign, SequenceTheorems, TLAPS

LegRecords == [suite : Suites, prog : Programs, bash : {"new", "same"}]

LegOK(l) ==
  /\ l.suite \in Suites /\ l.prog \in Programs /\ l.bash \in {"new", "same"}
  /\ \/ /\ l.suite \in {"qc_fmm", "qc_dsmm", "validation"}
        /\ l.prog \in SeqOf(Benchmarks)
     \/ /\ l.suite \in {"overhead_fmm", "overhead_dsmm"}
        /\ l.prog \in SeqOf(Overheads)
     \/ l.suite = "coreutils_validation" /\ l.prog = "coreutils"

LibOf(p) ==
  IF p \in {"sqlite", "libosip", "libyaml", "coreutils"} THEN p ELSE "common"

\* The directory a job writes into, told from its leg alone.
Output(l, j) ==
  Slot(l.suite, IF j.name = None THEN l.prog ELSE j.name, j.role)

\* The variables a second run.sh in the same shell does not set again.
Mine(e, p) ==
  /\ e.args = (IF p = "json" THEN None ELSE p)
  /\ e.template = (IF p \in Templated THEN p ELSE None)

Sourced(e, p) ==
  /\ Mine(e, p)
  /\ e.flags = <<p>>
  /\ e.lib = LibOf(p)
  /\ p # "coreutils" => e.bc = p

Working(s) ==
  /\ pc[s] = "leg" /\ Leg(s).bash = "same" => Mine(env[s], Leg(s).prog)
  /\ pc[s] \notin {"idle", "leg"} => Sourced(env[s], Leg(s).prog)
  /\ pc[s] \notin {"idle", "leg", "prepare"} /\ ~Logged(Leg(s))
     => env[s].pdir = ProgramDir(Leg(s))
  /\ pc[s] \in {"untar", "log"} => Logged(Leg(s))

(* The inductive invariant: where a shell is in its script determines the   *)
(* variables its KLEE command is built from.                                *)
IInv == TypeOK /\ (\A s \in Shells : Working(s)) /\ OneWriter
-----------------------------------------------------------------------------
(* Facts about the constants. *)

LEMMA SeqOfElements ==
  ASSUME NEW S, NEW q \in Seq(S), NEW i \in DOMAIN q
  PROVE  q[i] \in S /\ q[i] \in SeqOf(q)
  BY DEF SeqOf

LEMMA NamesFacts ==
  /\ SeqOf(Benchmarks) \subseteq Programs \ {"libosip", "libyaml", "coreutils"}
  /\ SeqOf(Overheads) \subseteq {"libosip", "libyaml", "coreutils"}
  /\ SeqOf(Utils) \subseteq Utilities /\ SeqOf(AllUtils) \subseteq Utilities
  BY ProgramsAssumption DEF SeqOf, Utilities

\* The parts of a leg.
LEMMA LegFields ==
  \A x, p, b : /\ LegOf(x, p, b).suite = x /\ LegOf(x, p, b).prog = p
               /\ LegOf(x, p, b).bash = b
BY DEF LegOf

(* run_overhead_all.sh runs every overhead benchmark with the one memory    *)
(* model, then every one with the other.                                    *)
LEMMA OverheadAll ==
  LET n == Len(Overheads)
      q == run_overhead_all
  IN /\ n \in Nat /\ DOMAIN q = 1 .. n + n /\ Len(q) = n + n
     /\ \A k \in 1 .. n : /\ q[k] = LegOf("overhead_fmm", Overheads[k], "new")
                          /\ q[n + k] = LegOf("overhead_dsmm", Overheads[k], "new")
<1> DEFINE a == run_overhead_fmm
           b == run_overhead_dsmm
           n == Len(Overheads)
           q == run_overhead_all
<1>1. DOMAIN Overheads = 1 .. n /\ n \in Nat
  BY ProgramsAssumption
<1>2. a \in Seq(LegRecords) /\ b \in Seq(LegRecords)
  <2>1. ASSUME NEW x \in Suites
        PROVE  Each(x, Overheads) \in Seq(LegRecords)
    BY <1>1, ProgramsAssumption DEF Each, LegOf, LegRecords, Programs
  <2> QED
    BY <2>1 DEF run_overhead_fmm, run_overhead_dsmm, Suites, FmmSuites, DsmmSuites
<1>3. /\ Len(a) = n /\ Len(b) = n
      /\ \A k \in 1 .. n : /\ a[k] = LegOf("overhead_fmm", Overheads[k], "new")
                           /\ b[k] = LegOf("overhead_dsmm", Overheads[k], "new")
  BY <1>1 DEF Each, run_overhead_fmm, run_overhead_dsmm
<1>4. q = a \o b
  BY DEF run_overhead_all
<1> HIDE DEF a, b, q, n
<1>5. /\ a \o b \in Seq(LegRecords) /\ Len(a \o b) = n + n
      /\ \A k \in 1 .. n + n : (a \o b)[k] = IF k <= n THEN a[k] ELSE b[k - n]
  <2>1. /\ a \o b \in Seq(LegRecords) /\ Len(a \o b) = Len(a) + Len(b)
        /\ \A k \in 1 .. Len(a) + Len(b) :
             (a \o b)[k] = IF k <= Len(a) THEN a[k] ELSE b[k - Len(a)]
    BY ONLY <1>2, ConcatProperties
  <2>2. Len(a) = n /\ Len(b) = n
    BY <1>3
  <2> QED
    BY ONLY <2>1, <2>2
<1>6. DOMAIN q = 1 .. n + n /\ Len(q) = n + n
  BY <1>1, <1>4, <1>5
<1>7. ASSUME NEW k \in 1 .. n
      PROVE  q[k] = a[k] /\ q[n + k] = b[k]
  <2>1. k \in 1 .. n + n /\ n + k \in 1 .. n + n /\ ~ (n + k <= n) /\ (n + k) - n = k
    BY <1>1
  <2> QED
    BY <1>4, <1>5, <2>1
<1> QED
  BY <1>1, <1>3, <1>6, <1>7 DEF q, n

(* A leg of a script names a benchmark of its suite, and a leg that does    *)
(* not open a new shell follows a leg of the same benchmark.                *)
LEMMA ScriptLegs ==
  ASSUME NEW top \in DOMAIN Script, NEW i \in DOMAIN Script[top]
  PROVE  /\ LegOK(Script[top][i])
         /\ i \in Nat
         /\ DOMAIN Script[top] = 1 .. Len(Script[top]) /\ Len(Script[top]) \in Nat
         /\ Script[top][i].bash = "same" =>
              i - 1 \in DOMAIN Script[top]
              /\ Script[top][i - 1].prog = Script[top][i].prog
         /\ i = 1 => Script[top][i].bash = "new"
<1> DEFINE Good(q) ==
       /\ DOMAIN q = 1 .. Len(q) /\ Len(q) \in Nat
       /\ \A k \in DOMAIN q :
            /\ LegOK(q[k])
            /\ q[k].bash = "same" => k - 1 \in DOMAIN q /\ q[k - 1].prog = q[k].prog
            /\ k = 1 => q[k].bash = "new"
<1>1. Good(run_qc_all)
  <2> DEFINE n == 2 * Len(Benchmarks)
  <2>1. Len(Benchmarks) \in Nat /\ DOMAIN Benchmarks = 1 .. Len(Benchmarks)
    BY ProgramsAssumption
  <2>2. DOMAIN run_qc_all = 1 .. n /\ n \in Nat
    BY <2>1 DEF run_qc_all
  <2>3. Len(run_qc_all) = n
    BY <2>2, <2>1 DEF run_qc_all
  <2>4. ASSUME NEW k \in 1 .. n
        PROVE  /\ (k + 1) \div 2 \in DOMAIN Benchmarks
               /\ k % 2 # 1 => k - 1 \in 1 .. n /\ (k - 1 + 1) \div 2 = (k + 1) \div 2
    BY <2>1
  <2>5. ASSUME NEW k \in 1 .. n
        PROVE  /\ LegOK(run_qc_all[k])
               /\ run_qc_all[k].prog = Benchmarks[(k + 1) \div 2]
               /\ k % 2 = 1 => run_qc_all[k].bash = "new"
    <3>1. Benchmarks[(k + 1) \div 2] \in SeqOf(Benchmarks)
      BY <2>4 DEF SeqOf
    <3>2. CASE k % 2 = 1
      <4>1. run_qc_all[k] = LegOf("qc_fmm", Benchmarks[(k + 1) \div 2], "new")
        BY <3>2, <2>2 DEF run_qc_all
      <4> QED
        BY <3>1, <4>1, NamesFacts DEF LegOf, LegOK, Suites, FmmSuites, DsmmSuites
    <3>3. CASE k % 2 # 1
      <4>1. run_qc_all[k] = LegOf("qc_dsmm", Benchmarks[k \div 2], "same")
        BY <3>3, <2>2 DEF run_qc_all
      <4>2. k \div 2 = (k + 1) \div 2
        BY <3>3
      <4> QED
        BY <3>1, <3>3, <4>1, <4>2, NamesFacts
        DEF LegOf, LegOK, Suites, FmmSuites, DsmmSuites
    <3> QED
      BY <3>2, <3>3
  <2>6. ASSUME NEW k \in 1 .. n, run_qc_all[k].bash = "same"
        PROVE  k - 1 \in 1 .. n /\ run_qc_all[k - 1].prog = run_qc_all[k].prog
    <3>1. k % 2 # 1
      BY <2>5, <2>6
    <3>2. k - 1 \in 1 .. n /\ (k - 1 + 1) \div 2 = (k + 1) \div 2
      BY <3>1, <2>4
    <3> QED
      BY <3>2, <2>5
  <2> QED
    BY <2>2, <2>3, <2>5, <2>6
<1>2. ASSUME NEW x \in Suites, NEW ps, DOMAIN ps = 1 .. Len(ps), Len(ps) \in Nat,
             \/ x \in {"qc_fmm", "qc_dsmm", "validation"} /\ ps = Benchmarks
             \/ x \in {"overhead_fmm", "overhead_dsmm"} /\ ps = Overheads
      PROVE  Good(Each(x, ps)) /\ Len(Each(x, ps)) = Len(ps)
  <2>1. DOMAIN Each(x, ps) = 1 .. Len(ps) /\ Len(Each(x, ps)) = Len(ps)
    BY <1>2 DEF Each
  <2>2. ASSUME NEW k \in 1 .. Len(ps)
        PROVE  LegOK(Each(x, ps)[k]) /\ Each(x, ps)[k].bash = "new"
    <3>1. Each(x, ps)[k] = LegOf(x, ps[k], "new")
      BY <1>2 DEF Each
    <3>2. ps[k] \in SeqOf(ps)
      BY <1>2 DEF SeqOf
    <3> QED
      BY <3>1, <3>2, <1>2, NamesFacts DEF LegOf, LegOK, Programs
  <2> QED
    BY <2>1, <2>2, <1>2
<1>3. /\ DOMAIN Benchmarks = 1 .. Len(Benchmarks) /\ Len(Benchmarks) \in Nat
      /\ DOMAIN Overheads = 1 .. Len(Overheads) /\ Len(Overheads) \in Nat
  BY ProgramsAssumption
<1>4. /\ Good(run_qc_fmm_all) /\ Good(run_qc_dsmm_all) /\ Good(run_validation_all)
      /\ Good(run_overhead_fmm) /\ Good(run_overhead_dsmm)
  BY <1>2, <1>3 DEF run_qc_fmm_all, run_qc_dsmm_all, run_validation_all,
     run_overhead_fmm, run_overhead_dsmm, Suites, FmmSuites, DsmmSuites
<1>5. Good(run_overhead_all)
  <2> DEFINE n == Len(Overheads)
             q == run_overhead_all
  <2>1. /\ n \in Nat /\ DOMAIN q = 1 .. n + n /\ Len(q) = n + n
        /\ \A k \in 1 .. n : /\ q[k] = LegOf("overhead_fmm", Overheads[k], "new")
                             /\ q[n + k] = LegOf("overhead_dsmm", Overheads[k], "new")
    BY OverheadAll
  <2>2. ASSUME NEW k \in 1 .. n
        PROVE  /\ LegOK(q[k]) /\ q[k].bash = "new"
               /\ LegOK(q[n + k]) /\ q[n + k].bash = "new"
    <3>1. Overheads[k] \in SeqOf(Overheads) /\ Overheads[k] \in Programs
      BY <1>3, NamesFacts DEF SeqOf, Programs
    <3>2. /\ q[k] = LegOf("overhead_fmm", Overheads[k], "new")
          /\ q[n + k] = LegOf("overhead_dsmm", Overheads[k], "new")
      BY <2>1
    <3>3. ASSUME NEW x \in {"overhead_fmm", "overhead_dsmm"}
          PROVE  /\ LegOK(LegOf(x, Overheads[k], "new"))
                 /\ LegOf(x, Overheads[k], "new").bash = "new"
      BY <3>1, LegFields DEF LegOK, Suites, FmmSuites, DsmmSuites
    <3> QED
      BY <3>2, <3>3
  <2>3. ASSUME NEW k \in 1 .. n + n
        PROVE  LegOK(q[k]) /\ q[k].bash = "new"
    <3>1. k \in 1 .. n \/ (k - n \in 1 .. n /\ n + (k - n) = k)
      BY <2>1
    <3> QED
      BY <2>2, <3>1
  <2> QED
    BY <2>1, <2>3
<1>6. Good(coreutils_run_validation)
  <2>1. /\ DOMAIN coreutils_run_validation = 1 .. 1
        /\ Len(coreutils_run_validation) = 1
        /\ coreutils_run_validation[1] = LegOf("coreutils_validation", "coreutils", "new")
    BY DEF coreutils_run_validation
  <2>2. LegOK(coreutils_run_validation[1]) /\ coreutils_run_validation[1].bash = "new"
    BY <2>1 DEF LegOf, LegOK, Suites, FmmSuites, DsmmSuites, Programs
  <2> QED
    BY <2>1, <2>2 DEF LegOf
<1>7. \/ top = "run_qc_all" /\ Script[top] = run_qc_all
      \/ top = "run_qc_fmm_all" /\ Script[top] = run_qc_fmm_all
      \/ top = "run_qc_dsmm_all" /\ Script[top] = run_qc_dsmm_all
      \/ top = "run_validation_all" /\ Script[top] = run_validation_all
      \/ top = "run_overhead_fmm" /\ Script[top] = run_overhead_fmm
      \/ top = "run_overhead_dsmm" /\ Script[top] = run_overhead_dsmm
      \/ top = "run_overhead_all" /\ Script[top] = run_overhead_all
      \/ top = "coreutils_run_validation" /\ Script[top] = coreutils_run_validation
  BY DEF Script
<1> HIDE DEF Good
<1>8. Good(Script[top])
  BY <1>1, <1>4, <1>5, <1>6, <1>7
<1> QED
  BY <1>8 DEF Good

(* The jobs of a leg: two per benchmark, two per utility in the loops.      *)
LEMMA JobCases ==
  ASSUME NEW l, LegOK(l), NEW k \in DOMAIN Jobs(l)
  PROVE  \/ l.suite = "qc_fmm" /\ Jobs(l)[k] \in
              {Job("out-klee", "run_klee", None), Job("out-cache", "run_cache", None)}
         \/ l.suite = "qc_dsmm" /\ Jobs(l)[k] \in
              {Job("out-klee", "run_merge", None),
               Job("out-cache", "run_merge_cache", None)}
         \/ l.suite = "validation" /\ Jobs(l)[k] \in
              {Job("out-fmm", "run_validation", None),
               Job("out-dsmm", "run_merge_validation", None)}
         \/ /\ l.suite = "overhead_fmm"
            /\ \E u \in IF Logged(l) THEN SeqOf(Utils) ELSE {l.prog} :
                 Jobs(l)[k] \in
                   {Job("out-klee", "run_klee", u), Job("out-cache", "run_cache", u)}
         \/ /\ l.suite = "overhead_dsmm"
            /\ \E u \in IF Logged(l) THEN SeqOf(Utils) ELSE {l.prog} :
                 Jobs(l)[k] \in
                   {Job("out-klee", "run_dsmm", u), Job("out-cache", "run_dsmm_cache", u)}
         \/ /\ l.suite = "coreutils_validation"
            /\ \E u \in SeqOf(AllUtils) : Jobs(l)[k] = Job("out-cache", "run_validation", u)
<1>1. ASSUME NEW a, NEW b, NEW u, NEW i \in DOMAIN Pair(a, b, u)
      PROVE  Pair(a, b, u)[i] \in {Job("out-klee", a, u), Job("out-cache", b, u)}
  BY DEF Pair
<1>2. ASSUME NEW a, NEW b, NEW i \in DOMAIN Loop(a, b)
      PROVE  \E u \in SeqOf(Utils) :
               Loop(a, b)[i] \in {Job("out-klee", a, u), Job("out-cache", b, u)}
  <2>1. i \in 1 .. 2 * Len(Utils) /\ Len(Utils) \in Nat
        /\ DOMAIN Utils = 1 .. Len(Utils)
    BY <1>2, ProgramsAssumption DEF Loop
  <2>2. (i + 1) \div 2 \in DOMAIN Utils /\ 2 - (i % 2) \in 1 .. 2
    BY <2>1
  <2>3. Loop(a, b)[i] = Pair(a, b, Utils[(i + 1) \div 2])[2 - (i % 2)]
    BY <2>1 DEF Loop
  <2>4. DOMAIN Pair(a, b, Utils[(i + 1) \div 2]) = 1 .. 2
    BY DEF Pair
  <2> QED
    BY <2>2, <2>3, <2>4, <1>1 DEF SeqOf
<1>3. CASE l.suite = "qc_fmm"
  <2>1. Jobs(l) = Pair("run_klee", "run_cache", None)
    BY <1>3 DEF Jobs, run_qc_jobs
  <2> QED
    BY <2>1, <1>1, <1>3
<1>4. CASE l.suite = "qc_dsmm"
  <2>1. Jobs(l) = Pair("run_merge", "run_merge_cache", None)
    BY <1>4 DEF Jobs, run_qc_merge_jobs
  <2> QED
    BY <2>1, <1>1, <1>4
<1>5. CASE l.suite = "validation"
  <2>1. Jobs(l) = run_validation_jobs
    BY <1>5 DEF Jobs
  <2> QED
    BY <2>1, <1>5 DEF run_validation_jobs
<1>6. CASE l.suite = "overhead_fmm"
  <2>1. Jobs(l) = IF Logged(l) THEN Loop("run_klee", "run_cache")
                  ELSE Pair("run_klee", "run_cache", l.prog)
    BY <1>6 DEF Jobs, Logged, run_with_limit, run_fmm_jobs
  <2> QED
    BY <2>1, <1>1, <1>2, <1>6
<1>7. CASE l.suite = "overhead_dsmm"
  <2>1. Jobs(l) = IF Logged(l) THEN Loop("run_dsmm", "run_dsmm_cache")
                  ELSE Pair("run_dsmm", "run_dsmm_cache", l.prog)
    BY <1>7 DEF Jobs, Logged, run_with_limit_dsmm, run_dsmm_jobs
  <2> QED
    BY <2>1, <1>1, <1>2, <1>7
<1>8. CASE l.suite = "coreutils_validation"
  <2>1. Jobs(l) = coreutils_validate_jobs
    BY <1>8 DEF Jobs
  <2> QED
    BY <2>1, <1>8 DEF coreutils_validate_jobs, SeqOf
<1> QED
  BY <1>3, <1>4, <1>5, <1>6, <1>7, <1>8 DEF LegOK

LEMMA JobDomains ==
  ASSUME NEW l, LegOK(l)
  PROVE  Len(Jobs(l)) \in Nat /\ Len(Jobs(l)) > 0 /\ DOMAIN Jobs(l) = 1 .. Len(Jobs(l))
<1>1. \A a, b, u : DOMAIN Pair(a, b, u) = 1 .. 2 /\ Len(Pair(a, b, u)) = 2
  BY DEF Pair
<1>2. \A a, b : /\ DOMAIN Loop(a, b) = 1 .. 2 * Len(Utils)
                /\ Len(Loop(a, b)) = 2 * Len(Utils)
  BY ProgramsAssumption DEF Loop
<1>3. /\ DOMAIN coreutils_validate_jobs = 1 .. Len(AllUtils)
      /\ Len(coreutils_validate_jobs) = Len(AllUtils)
  BY ProgramsAssumption DEF coreutils_validate_jobs
<1>4. DOMAIN run_validation_jobs = 1 .. 2 /\ Len(run_validation_jobs) = 2
  BY DEF run_validation_jobs
<1>5. /\ Len(Utils) \in Nat /\ Len(Utils) > 0
      /\ Len(AllUtils) \in Nat /\ Len(AllUtils) > 0
  BY ProgramsAssumption
<1>6. \/ \E a, b, u : Jobs(l) = Pair(a, b, u)
      \/ \E a, b : Jobs(l) = Loop(a, b)
      \/ Jobs(l) \in {coreutils_validate_jobs, run_validation_jobs}
  BY DEF LegOK, Jobs, run_qc_jobs, run_qc_merge_jobs, run_fmm_jobs, run_dsmm_jobs,
         run_with_limit, run_with_limit_dsmm
<1> HIDE DEF Jobs
<1> QED
  BY <1>1, <1>2, <1>3, <1>4, <1>5, <1>6

(* The directory of a job is one of the campaign's directories, and a       *)
(* logged job is about a utility.                                           *)
LEMMA JobFacts ==
  ASSUME NEW l, LegOK(l), NEW k \in DOMAIN Jobs(l)
  PROVE  /\ Output(l, Jobs(l)[k]) \in Slots
         /\ Logged(l) => /\ Jobs(l)[k].name \in Utilities
                         /\ Jobs(l)[k].role \in {"out-klee", "out-cache"}
         /\ ~Logged(l) /\ l.suite \in {"overhead_fmm", "overhead_dsmm"}
              => Jobs(l)[k].name = l.prog
         /\ l.suite \in {"qc_fmm", "qc_dsmm", "validation"} => Jobs(l)[k].name = None
  BY JobCases, NamesFacts, NamesAssumption
  DEF LegOK, Job, Logged, Output, Slot, Slots, Measured, Programs

-----------------------------------------------------------------------------
(* Where the shells are. *)

ControlOf(s) ==
  /\ pc[s] # "idle" => /\ pos[s].top \in DOMAIN Script
                       /\ pos[s].leg \in DOMAIN Script[pos[s].top]
                       /\ pos[s].job \in DOMAIN Jobs(Leg(s))
  /\ Working(s)

Control ==
  /\ pc \in [Shells -> Labels]
  /\ pos \in [Shells -> Positions]
  /\ env \in [Shells -> Envs]
  /\ \A s \in Shells : ControlOf(s)

LEMMA WorkingLeg ==
  ASSUME Control, NEW s \in Shells, pc[s] # "idle"
  PROVE  /\ LegOK(Leg(s))
         /\ Len(Jobs(Leg(s))) \in Nat
         /\ DOMAIN Jobs(Leg(s)) = 1 .. Len(Jobs(Leg(s)))
         /\ pos[s].job \in DOMAIN Jobs(Leg(s))
         /\ pos[s].leg \in Nat /\ pos[s].job \in Nat /\ pos[s].leg > 0
         /\ Len(Script[pos[s].top]) \in Nat
<1>1. /\ pos[s].top \in DOMAIN Script /\ pos[s].leg \in DOMAIN Script[pos[s].top]
      /\ pos[s].job \in DOMAIN Jobs(Leg(s)) /\ pos[s] \in Positions
  BY DEF Control, ControlOf
<1>2. /\ LegOK(Leg(s)) /\ DOMAIN Script[pos[s].top] = 1 .. Len(Script[pos[s].top])
      /\ Len(Script[pos[s].top]) \in Nat
  BY <1>1, ScriptLegs DEF Leg
<1> QED
  BY <1>1, <1>2, JobDomains DEF Positions

(* A step of one shell leaves the others where they are.                    *)
LEMMA Elsewhere ==
  ASSUME Control, NEW s \in Shells,
         pc' \in [Shells -> Labels], pos' \in [Shells -> Positions],
         env' \in [Shells -> Envs],
         \A t \in Shells \ {s} : pc'[t] = pc[t] /\ pos'[t] = pos[t] /\ env'[t] = env[t],
         ControlOf(s)'
  PROVE  Control'
<1>1. ASSUME NEW t \in Shells, t # s
      PROVE  ControlOf(t)'
  <2>1. pc'[t] = pc[t] /\ pos'[t] = pos[t] /\ env'[t] = env[t] /\ ControlOf(t)
    BY <1>1 DEF Control
  <2>2. Leg(t)' = Leg(t)
    BY <2>1 DEF Leg
  <2> QED
    BY <2>1, <2>2 DEF ControlOf, Working
<1> QED
  BY <1>1 DEF Control

(* What the shell's variables tell once it has sourced run.sh and made its  *)
(* directory: where the next KLEE writes.                                   *)
LEMMA TargetFacts ==
  ASSUME Control, NEW s \in Shells, pc[s] \notin {"idle", "leg", "prepare"}
  PROVE  Target(s) = Output(Leg(s), JobOf(s)) /\ Target(s) \in Slots
<1> DEFINE l == Leg(s)
           j == JobOf(s)
<1>1. LegOK(l) /\ j = Jobs(l)[pos[s].job] /\ pos[s].job \in DOMAIN Jobs(l)
  BY WorkingLeg DEF JobOf
<1>2. ~Logged(l) => env[s].pdir = ProgramDir(l)
  BY DEF Control, ControlOf, Working
<1> HIDE DEF l, j
<1>3. /\ Output(l, j) \in Slots
      /\ Logged(l) => j.name \in Utilities
      /\ ~Logged(l) /\ l.suite \in {"overhead_fmm", "overhead_dsmm"} => j.name = l.prog
      /\ l.suite \in {"qc_fmm", "qc_dsmm", "validation"} => j.name = None
  BY <1>1, JobFacts
<1>4. OutputDir(env[s], l, j) = Output(l, j)
  <2>1. l.prog # None /\ None \notin Utilities
    BY <1>1, NamesAssumption DEF LegOK
  <2>2. CASE Logged(l)
    BY <2>1, <2>2, <1>3 DEF OutputDir, Output, Parent, Slot
  <2>3. CASE ~Logged(l)
    <3>1. Parent(env[s], l) = ProgramDir(l)
      BY <2>3, <1>2 DEF Parent
    <3>2. l.suite # "coreutils_validation"
      BY <2>3, <1>1 DEF LegOK, Logged
    <3> QED
      BY <2>1, <2>3, <3>1, <3>2, <1>1, <1>3 DEF OutputDir, Output, ProgramDir, Slot, LegOK
  <2> QED
    BY <2>2, <2>3
<1> QED
  BY <1>3, <1>4 DEF Target, l, j

(* A run.sh sets its benchmark's variables, whatever the shell held before, *)
(* except the two it may leave alone.                                       *)
LEMMA SourceFacts ==
  ASSUME NEW e \in Envs, NEW p \in Programs, e = Fresh \/ Mine(e, p)
  PROVE  source(e, p) \in Envs /\ Sourced(source(e, p), p)
<1>1. /\ p \in Names /\ <<p>> \in Seq(Programs) /\ <<>> \in Seq(Programs)
      /\ Append(<<>>, p) = <<p>>
  BY DEF Names
<1>2. /\ p \notin Templated => e.template = None
      /\ p = "json" => e.args = None
  BY DEF Fresh, Mine, Templated
<1>3. /\ common_sh(e) \in Envs /\ common_sh(e).flags = <<>>
      /\ common_sh(e).lib = "common"
      /\ common_sh(e).args = e.args /\ common_sh(e).template = e.template
  BY <1>1 DEF Envs, common_sh
<1>4. /\ Own(e, p) \in Envs /\ Own(e, p).flags = <<p>> /\ Own(e, p).lib = "common"
      /\ Own(e, p).bc = p /\ Own(e, p).args = p /\ Own(e, p).template = e.template
  BY <1>1, <1>3 DEF Envs, Own
<1>5. CASE p \in {"m4", "apr", "libxml2", "expat"}
  <2>1. source(e, p) = Own(e, p)
    BY <1>5 DEF source, m4_run_sh, apr_run_sh, libxml2_run_sh, expat_run_sh
  <2> QED
    BY <2>1, <1>2, <1>4, <1>5 DEF Sourced, Mine, LibOf, Templated
<1>6. CASE p \in {"make", "bash"}
  <2>1. source(e, p) = [Own(e, p) EXCEPT !.template = p]
    BY <1>6 DEF source, make_run_sh, bash_run_sh
  <2> QED
    BY <2>1, <1>1, <1>4, <1>6 DEF Envs, Sourced, Mine, LibOf, Templated
<1>7. CASE p = "sqlite"
  <2>1. source(e, p) = [Own(e, p) EXCEPT !.lib = "sqlite"]
    BY <1>7 DEF source, sqlite_run_sh
  <2> QED
    BY <2>1, <1>2, <1>4, <1>7 DEF Envs, Sourced, Mine, LibOf, Templated
<1>8. CASE p = "json"
  <2>1. source(e, p) = [Own(e, p) EXCEPT !.args = e.args]
    BY <1>8 DEF source, json_run_sh
  <2>2. e.args \in Names
    BY DEF Envs
  <2> QED
    BY <2>1, <2>2, <1>2, <1>4, <1>8 DEF Envs, Sourced, Mine, LibOf, Templated
<1>9. CASE p = "libosip"
  <2>1. source(e, p) =
          [e EXCEPT !.flags = <<"libosip">>, !.lib = "libosip", !.bc = "libosip",
                    !.args = "libosip"]
    BY <1>9 DEF source, libosip_run_sh
  <2> QED
    BY <2>1, <1>1, <1>2, <1>9 DEF Envs, Sourced, Mine, LibOf, Templated
<1>10. CASE p = "libyaml"
  <2>1. source(e, p) =
          [common_sh(e) EXCEPT !.flags = <<"libyaml">>, !.lib = "libyaml",
                               !.bc = "libyaml", !.args = "libyaml"]
    BY <1>10 DEF source, libyaml_run_sh
  <2> QED
    BY <2>1, <1>1, <1>2, <1>3, <1>10 DEF Envs, Sourced, Mine, LibOf, Templated
<1>11. CASE p = "coreutils"
  <2>1. source(e, p) =
          [common_sh(e) EXCEPT !.flags = <<p>>, !.lib = "coreutils",
                               !.args = "coreutils"]
    <3>1. source(e, p) =
            [common_sh(e) EXCEPT !.flags = Append(common_sh(e).flags, "coreutils"),
                                 !.lib = "coreutils", !.args = "coreutils"]
      BY <1>11 DEF source, coreutils_run_sh
    <3> QED
      BY <3>1, <1>1, <1>3, <1>11
  <2> QED
    BY <2>1, <1>1, <1>2, <1>3, <1>11 DEF Envs, Sourced, Mine, LibOf, Templated
<1> QED
  BY <1>5, <1>6, <1>7, <1>8, <1>9, <1>10, <1>11 DEF Programs

LEMMA FreshTyped == Fresh \in Envs
  <1>1. <<>> \in Seq(Programs)
    OBVIOUS
  <1> QED
    BY <1>1 DEF Fresh, Envs, Names

LEMMA Advance ==
  ASSUME NEW p \in Positions, NEW i \in Nat, NEW k \in Nat
  PROVE  /\ [p EXCEPT !.job = k] \in Positions
         /\ [p EXCEPT !.job = k].top = p.top /\ [p EXCEPT !.job = k].leg = p.leg
         /\ [p EXCEPT !.job = k].job = k
         /\ [p EXCEPT !.leg = i, !.job = k] \in Positions
         /\ [p EXCEPT !.leg = i, !.job = k].top = p.top
         /\ [p EXCEPT !.leg = i, !.job = k].leg = i
         /\ [p EXCEPT !.leg = i, !.job = k].job = k
  BY DEF Positions

(* Going on after a job leads to a job of the same leg, to the next leg, or *)
(* out of the script.                                                       *)
LEMMA NextJobControl ==
  ASSUME Control, NEW s \in Shells,
         pc[s] \notin {"idle", "leg", "prepare"}, NextJob(s)
  PROVE  Control' /\ pc' = [pc EXCEPT ![s] = pc'[s]] /\ pc'[s] \in {"job", "leg", "idle"}
         /\ \A t \in Shells \ {s} : pos'[t] = pos[t] /\ env'[t] = env[t]
<1> DEFINE p == pos[s]
<1>1. /\ LegOK(Leg(s)) /\ DOMAIN Jobs(Leg(s)) = 1 .. Len(Jobs(Leg(s)))
      /\ Len(Jobs(Leg(s))) \in Nat /\ p.leg \in Nat /\ p.job \in Nat
      /\ p.job \in DOMAIN Jobs(Leg(s)) /\ Len(Script[p.top]) \in Nat /\ p.leg > 0
  BY WorkingLeg
<1>2. /\ p.top \in DOMAIN Script /\ p.leg \in DOMAIN Script[p.top]
      /\ DOMAIN Script[p.top] = 1 .. Len(Script[p.top])
      /\ p \in Positions /\ pos \in [Shells -> Positions] /\ env \in [Shells -> Envs]
      /\ pc \in [Shells -> Labels] /\ Working(s)
  BY ScriptLegs DEF Control, ControlOf
<1>3. Sourced(env[s], Leg(s).prog)
  BY <1>2 DEF Working
<1>4. CASE /\ p.job < Len(Jobs(Leg(s)))
           /\ pos' = [pos EXCEPT ![s].job = @ + 1]
           /\ Goto(s, "job")
           /\ UNCHANGED env
  <2>1. /\ pos'[s] = [p EXCEPT !.job = p.job + 1] /\ pos' \in [Shells -> Positions]
        /\ \A t \in Shells \ {s} : pos'[t] = pos[t]
    <3>1. pos' = [pos EXCEPT ![s] = [p EXCEPT !.job = p.job + 1]]
      BY <1>4
    <3>2. [p EXCEPT !.job = p.job + 1] \in Positions
      <4> HIDE DEF p
      <4>1. p \in Positions /\ p.job + 1 \in Nat
        BY <1>1, <1>2
      <4> QED
        BY <4>1, Advance
    <3> HIDE DEF p
    <3> QED
      BY <1>2, <3>1, <3>2
  <2>2. /\ pc' \in [Shells -> Labels] /\ pc' = [pc EXCEPT ![s] = "job"]
        /\ pc'[s] = "job"
    BY <1>2, <1>4 DEF Goto, Labels
  <2>3. pos'[s].top = p.top /\ pos'[s].leg = p.leg /\ pos'[s].job = p.job + 1
    BY <2>1, <1>2 DEF Positions
  <2>4. Leg(s)' = Leg(s)
    BY <2>3 DEF Leg
  <2>5. ControlOf(s)'
    <3>1. p.job + 1 \in DOMAIN Jobs(Leg(s))
      BY <1>1, <1>4
    <3> QED
      BY <1>2, <1>4, <2>2, <2>3, <2>4, <3>1 DEF ControlOf, Working
  <2> QED
    BY <1>2, <1>4, <2>1, <2>2, <2>5, Elsewhere
<1>5. CASE /\ p.leg < Len(Script[p.top])
           /\ pos' = [pos EXCEPT ![s].leg = @ + 1, ![s].job = 1]
           /\ Goto(s, "leg")
           /\ UNCHANGED env
  <2>1. /\ pos'[s] = [p EXCEPT !.leg = p.leg + 1, !.job = 1]
        /\ pos' \in [Shells -> Positions]
        /\ \A t \in Shells \ {s} : pos'[t] = pos[t]
    <3>1. pos' = [pos EXCEPT ![s] = [p EXCEPT !.leg = p.leg + 1, !.job = 1]]
      BY <1>5
    <3>2. [p EXCEPT !.leg = p.leg + 1, !.job = 1] \in Positions
      <4> HIDE DEF p
      <4>1. p \in Positions /\ p.leg + 1 \in Nat /\ 1 \in Nat
        BY <1>1, <1>2
      <4> QED
        BY <4>1, Advance
    <3> HIDE DEF p
    <3> QED
      BY <1>2, <3>1, <3>2
  <2>2. /\ pc' \in [Shells -> Labels] /\ pc' = [pc EXCEPT ![s] = "leg"]
        /\ pc'[s] = "leg"
    BY <1>2, <1>5 DEF Goto, Labels
  <2>3. pos'[s].top = p.top /\ pos'[s].leg = p.leg + 1 /\ pos'[s].job = 1
    BY <2>1, <1>2 DEF Positions
  <2>4. p.leg + 1 \in DOMAIN Script[p.top]
    BY <1>1, <1>2, <1>5
  <2>5. Leg(s)' = Script[p.top][p.leg + 1] /\ Leg(s) = Script[p.top][p.leg]
    BY <2>3 DEF Leg
  <2>6. LegOK(Leg(s)') /\ (Leg(s)'.bash = "same" => Leg(s)'.prog = Leg(s).prog)
    <3>1. /\ LegOK(Script[p.top][p.leg + 1])
          /\ Script[p.top][p.leg + 1].bash = "same" =>
               Script[p.top][(p.leg + 1) - 1].prog = Script[p.top][p.leg + 1].prog
      BY <1>2, <2>4, ScriptLegs
    <3>2. (p.leg + 1) - 1 = p.leg
      BY <1>1
    <3> QED
      BY <3>1, <3>2, <2>5
  <2>7. 1 \in DOMAIN Jobs(Leg(s)')
    BY <2>6, JobDomains
  <2>8. ControlOf(s)'
    BY <1>2, <1>3, <1>5, <2>2, <2>3, <2>4, <2>5, <2>6, <2>7
    DEF ControlOf, Working, Sourced
  <2> QED
    BY <1>2, <1>5, <2>1, <2>2, <2>8, Elsewhere
<1>6. CASE Exits(s)
  <2>1. /\ pos' \in [Shells -> Positions] /\ env' \in [Shells -> Envs]
        /\ pc' \in [Shells -> Labels] /\ pc' = [pc EXCEPT ![s] = "idle"]
        /\ pc'[s] = "idle"
        /\ \A t \in Shells \ {s} : pos'[t] = pos[t] /\ env'[t] = env[t]
    BY <1>2, <1>6, FreshTyped DEF Exits, Goto, AtEnd, Positions, Labels
  <2>2. ControlOf(s)'
    BY <2>1 DEF ControlOf, Working
  <2> QED
    BY <2>1, <2>2, Elsewhere
<1> QED
  BY <1>4, <1>5, <1>6 DEF NextJob

\* What a step of shell s leaves alone: the place of every other shell.
Moves(s) ==
  /\ pc' = [pc EXCEPT ![s] = pc'[s]]
  /\ \A t \in Shells \ {s} : pos'[t] = pos[t] /\ env'[t] = env[t]

LEMMA KleeReturnsControl ==
  ASSUME Control, NEW s \in Shells, pc[s] \notin {"idle", "leg", "prepare"},
         NEW code \in {0, 1}, status \in [Shells -> {0, 1}], KleeReturns(s, code)
  PROVE  /\ Control' /\ Moves(s) /\ status' \in [Shells -> {0, 1}]
         /\ pc'[s] \in {"job", "leg", "idle", "log"}
<1>1. CASE /\ Logged(Leg(s))
           /\ status' = [status EXCEPT ![s] = code]
           /\ Goto(s, "log")
           /\ UNCHANGED <<pos, env>>
  <2>1. /\ pc \in [Shells -> Labels] /\ pos \in [Shells -> Positions]
        /\ env \in [Shells -> Envs] /\ ControlOf(s)
    BY DEF Control
  <2>2. /\ pc' \in [Shells -> Labels] /\ pc' = [pc EXCEPT ![s] = "log"]
        /\ pc'[s] = "log"
    BY <1>1, <2>1 DEF Goto, Labels
  <2>3. Leg(s)' = Leg(s)
    BY <1>1 DEF Leg
  <2>4. ControlOf(s)'
    BY <1>1, <2>1, <2>2, <2>3 DEF ControlOf, Working
  <2>5. Control'
    BY <1>1, <2>1, <2>2, <2>4, Elsewhere
  <2> QED
    BY <1>1, <2>2, <2>5 DEF Moves
<1>2. CASE ~Logged(Leg(s)) /\ NextJob(s) /\ UNCHANGED status
  BY <1>2, NextJobControl DEF Moves
<1> QED
  BY <1>1, <1>2 DEF KleeReturns

LEMMA Along ==
  ASSUME Control, NEW s \in Shells, NEW label \in Labels, Goto(s, label),
         pc[s] # "idle", label \notin {"idle", "leg"}, UNCHANGED <<pos, env>>,
         pc[s] # "leg",
         pc[s] = "prepare" => Logged(Leg(s)),
         label \in {"untar", "log"} => Logged(Leg(s))
  PROVE  Control' /\ Moves(s) /\ pc'[s] = label
<1>1. /\ pc \in [Shells -> Labels] /\ pos \in [Shells -> Positions]
      /\ env \in [Shells -> Envs] /\ ControlOf(s)
  BY DEF Control
<1>2. pc' \in [Shells -> Labels] /\ pc' = [pc EXCEPT ![s] = label] /\ pc'[s] = label
  BY <1>1 DEF Goto
<1>3. Leg(s)' = Leg(s)
  BY DEF Leg
<1>4. ControlOf(s)'
  BY <1>1, <1>2, <1>3 DEF ControlOf, Working
<1>5. Control'
  BY <1>1, <1>2, <1>4, Elsewhere
<1> QED
  BY <1>2, <1>5 DEF Moves

LEMMA LaunchControl ==
  ASSUME Control, NEW s \in Shells, NEW top \in Menu[s], Launch(s, top)
  PROVE  Control' /\ Moves(s) /\ pc'[s] = "leg"
<1>1. /\ pc \in [Shells -> Labels] /\ pos \in [Shells -> Positions]
      /\ env \in [Shells -> Envs] /\ top \in DOMAIN Script
  BY LaunchAssumption DEF Control
<1>2. 1 \in DOMAIN Script[top]
  <2>1. /\ Len(Benchmarks) \in Nat \ {0} /\ DOMAIN Benchmarks = 1 .. Len(Benchmarks)
        /\ Len(Overheads) \in Nat \ {0} /\ DOMAIN Overheads = 1 .. Len(Overheads)
    BY ProgramsAssumption
  <2>2. /\ 1 \in DOMAIN run_qc_all /\ 1 \in DOMAIN run_qc_fmm_all
        /\ 1 \in DOMAIN run_qc_dsmm_all /\ 1 \in DOMAIN run_validation_all
        /\ 1 \in DOMAIN run_overhead_fmm /\ 1 \in DOMAIN run_overhead_dsmm
        /\ 1 \in DOMAIN coreutils_run_validation
    BY <2>1 DEF run_qc_all, run_qc_fmm_all, run_qc_dsmm_all, run_validation_all,
       run_overhead_fmm, run_overhead_dsmm, coreutils_run_validation, Each
  <2>3. top = "run_overhead_all" => Script[top] = run_overhead_all
    BY DEF Script
  <2>4. 1 \in DOMAIN run_overhead_all
    <3>1. \A x \in Suites : /\ Each(x, Overheads) \in Seq(LegRecords)
                            /\ Len(Each(x, Overheads)) = Len(Overheads)
      BY <2>1, ProgramsAssumption DEF Each, LegOf, LegRecords, Programs
    <3>2. /\ run_overhead_fmm \in Seq(LegRecords) /\ run_overhead_dsmm \in Seq(LegRecords)
          /\ Len(run_overhead_fmm) \in Nat \ {0} /\ Len(run_overhead_dsmm) \in Nat \ {0}
      BY <2>1, <3>1 DEF run_overhead_fmm, run_overhead_dsmm, Suites, FmmSuites, DsmmSuites
    <3>3. /\ run_overhead_all \in Seq(LegRecords)
          /\ Len(run_overhead_all) = Len(run_overhead_fmm) + Len(run_overhead_dsmm)
      BY <3>2, ConcatProperties DEF run_overhead_all
    <3> QED
      BY <3>2, <3>3
  <2> QED
    BY <1>1, <2>2, <2>4 DEF Script
<1>3. /\ LegOK(Script[top][1]) /\ Script[top][1].bash = "new"
      /\ 1 \in DOMAIN Jobs(Script[top][1])
  BY <1>1, <1>2, ScriptLegs, JobDomains
<1>4. [top |-> top, leg |-> 1, job |-> 1] \in Positions
  BY <1>1 DEF Positions
<1>5. /\ pos' \in [Shells -> Positions] /\ pos'[s] = [top |-> top, leg |-> 1, job |-> 1]
      /\ \A t \in Shells \ {s} : pos'[t] = pos[t]
      /\ env' = env
  BY <1>1, <1>4 DEF Launch
<1>6. /\ pc' \in [Shells -> Labels] /\ pc' = [pc EXCEPT ![s] = "leg"] /\ pc'[s] = "leg"
  BY <1>1 DEF Launch, Goto, Labels
<1>7. ControlOf(s)'
  <2>1. pos'[s].top = top /\ pos'[s].leg = 1 /\ pos'[s].job = 1
    BY <1>5
  <2>2. Leg(s)' = Script[top][1]
    BY <2>1 DEF Leg
  <2> QED
    BY <1>1, <1>2, <1>3, <1>6, <2>1, <2>2 DEF ControlOf, Working
<1>8. Control'
  BY <1>1, <1>5, <1>6, <1>7, Elsewhere
<1> QED
  BY <1>5, <1>6, <1>8 DEF Moves

LEMMA SourceControl ==
  ASSUME Control, NEW s \in Shells, Source(s)
  PROVE  Control' /\ Moves(s) /\ pc'[s] = "prepare"
<1> DEFINE e == IF Leg(s).bash = "new" THEN Fresh ELSE env[s]
           p == Leg(s).prog
<1>1. /\ pc \in [Shells -> Labels] /\ pos \in [Shells -> Positions]
      /\ env \in [Shells -> Envs] /\ ControlOf(s)
      /\ pc[s] = "leg" /\ LegOK(Leg(s))
  BY WorkingLeg DEF Control, Source
<1>2. e \in Envs /\ p \in Programs /\ (e = Fresh \/ Mine(e, p))
  BY <1>1, FreshTyped DEF LegOK, ControlOf, Working
<1>3. env' = [env EXCEPT ![s] = source(e, p)]
  BY DEF Source
<1> HIDE DEF e, p
<1>4. /\ env' \in [Shells -> Envs] /\ Sourced(env'[s], p)
      /\ \A t \in Shells \ {s} : env'[t] = env[t]
  BY <1>1, <1>2, <1>3, SourceFacts
<1>5. /\ pc' \in [Shells -> Labels] /\ pc' = [pc EXCEPT ![s] = "prepare"]
      /\ pc'[s] = "prepare" /\ pos' = pos
  BY <1>1 DEF Source, Goto, Labels
<1>6. Leg(s)' = Leg(s)
  BY <1>5 DEF Leg
<1>7. ControlOf(s)'
  BY <1>1, <1>4, <1>5, <1>6 DEF ControlOf, Working, p
<1>8. Control'
  BY <1>1, <1>4, <1>5, <1>7, Elsewhere
<1> QED
  BY <1>4, <1>5, <1>8 DEF Moves

LEMMA ProgramDirs ==
  ASSUME NEW l, LegOK(l), ~Logged(l)
  PROVE  ProgramDir(l) \in Places /\ [suite |-> l.suite, prog |-> None] \in Places
  BY DEF LegOK, Logged, ProgramDir, Places

LEMMA MakeDirControl ==
  ASSUME Control, NEW s \in Shells, MakeDir(s)
  PROVE  Control' /\ Moves(s) /\ pc'[s] = "job"
<1>1. /\ pc \in [Shells -> Labels] /\ pos \in [Shells -> Positions]
      /\ env \in [Shells -> Envs] /\ ControlOf(s)
      /\ pc[s] = "prepare" /\ ~Logged(Leg(s)) /\ LegOK(Leg(s))
  BY WorkingLeg DEF Control, MakeDir
<1> DEFINE d == ProgramDir(Leg(s))
<1>2. d \in Places
  BY <1>1, ProgramDirs
<1>3. env' = [env EXCEPT ![s] = [env[s] EXCEPT !.pdir = d]]
  BY DEF MakeDir
<1> HIDE DEF d
<1>4. ASSUME NEW e \in Envs
      PROVE  /\ [e EXCEPT !.pdir = d] \in Envs
             /\ [e EXCEPT !.pdir = d].pdir = d
             /\ \A p : Sourced(e, p) => Sourced([e EXCEPT !.pdir = d], p)
  <2>1. [e EXCEPT !.pdir = d] \in Envs
    BY <1>2 DEF Envs
  <2>2. /\ [e EXCEPT !.pdir = d].flags = e.flags /\ [e EXCEPT !.pdir = d].lib = e.lib
        /\ [e EXCEPT !.pdir = d].args = e.args /\ [e EXCEPT !.pdir = d].bc = e.bc
        /\ [e EXCEPT !.pdir = d].template = e.template /\ [e EXCEPT !.pdir = d].pdir = d
    BY DEF Envs
  <2> QED
    BY <2>1, <2>2 DEF Sourced, Mine
<1>5. /\ env' \in [Shells -> Envs] /\ env'[s].pdir = d
      /\ \A p : Sourced(env[s], p) => Sourced(env'[s], p)
      /\ \A t \in Shells \ {s} : env'[t] = env[t]
  BY <1>1, <1>3, <1>4
<1>6. /\ pc' \in [Shells -> Labels] /\ pc' = [pc EXCEPT ![s] = "job"]
      /\ pc'[s] = "job" /\ pos' = pos
  BY <1>1 DEF MakeDir, Goto, Labels
<1>7. Leg(s)' = Leg(s)
  BY <1>6 DEF Leg
<1>8. ControlOf(s)'
  BY <1>1, <1>5, <1>6, <1>7 DEF ControlOf, Working, d
<1>9. Control'
  BY <1>1, <1>5, <1>6, <1>8, Elsewhere
<1> QED
  BY <1>5, <1>6, <1>9 DEF Moves

LEMMA ExitsControl ==
  ASSUME Control, NEW s \in Shells, Exits(s)
  PROVE  Control' /\ Moves(s) /\ pc'[s] = "idle"
<1>1. /\ pc \in [Shells -> Labels] /\ pos \in [Shells -> Positions]
      /\ env \in [Shells -> Envs]
  BY DEF Control
<1>2. /\ pos' \in [Shells -> Positions] /\ env' \in [Shells -> Envs]
      /\ pc' \in [Shells -> Labels] /\ pc' = [pc EXCEPT ![s] = "idle"]
      /\ pc'[s] = "idle"
      /\ \A t \in Shells \ {s} : pos'[t] = pos[t] /\ env'[t] = env[t]
  BY <1>1, FreshTyped DEF Exits, Goto, AtEnd, Positions, Labels
<1>3. ControlOf(s)'
  BY <1>2 DEF ControlOf, Working
<1> QED
  BY <1>2, <1>3, Elsewhere DEF Moves

LEMMA RebootControl ==
  ASSUME Control, Reboot
  PROVE  Control' /\ \A s \in Shells : pc'[s] = "idle"
<1>1. /\ pos' \in [Shells -> Positions] /\ env' \in [Shells -> Envs]
      /\ pc' \in [Shells -> Labels] /\ \A s \in Shells : pc'[s] = "idle"
  BY FreshTyped DEF Reboot, AtEnd, Positions, Labels
<1> QED
  BY <1>1 DEF Control, ControlOf, Working

-----------------------------------------------------------------------------
(* What KLEE is told. *)

OwnInput(x, c) ==
  /\ c.flags = <<Owner(x)>>
  /\ c.bc = x.prog
  /\ c.args = (IF x.prog = "json" THEN None ELSE Owner(x))
  /\ c.template = (IF x.prog \in Templated THEN x.prog ELSE None)

Honest(x, o) ==
  /\ o.rebase <=> IsDsmm(x)
  /\ o.bin = "VANILLA_KLEE" <=> x.suite \in FmmSuites /\ x.role = "out-klee"
  /\ o.iso <=> x.role # "out-klee"
  /\ o.stats <=> x.suite = "validation"

\* The options that the two runs of a pair have in common.
CexOf(x) ==
  CASE x.suite = "qc_dsmm" /\ x.prog = "sqlite" -> 0
    [] x.suite = "overhead_fmm" /\ IsUtil(x)    -> None
    [] OTHER                                    -> 1
Matched(x, o) ==
  x.suite \in FmmSuites \cup DsmmSuites =>
    /\ o.cex = CexOf(x)
    /\ o.limit <=> x.suite \in {"overhead_fmm", "overhead_dsmm"}

\* The four options that tell the experiments apart.
Kind(o, bin, rebase, iso, stats) ==
  /\ o \in Options
  /\ o.bin = bin /\ o.rebase = rebase /\ o.iso = iso /\ o.stats = stats

LEMMA Runners ==
  /\ Kind(VANILLA, "VANILLA_KLEE", FALSE, FALSE, FALSE)
  /\ Kind(KLEE, "KLEE", FALSE, FALSE, FALSE)
  /\ Kind(run_klee, "VANILLA_KLEE", FALSE, FALSE, FALSE)
  /\ Kind(run_cache, "KLEE", FALSE, TRUE, FALSE)
  /\ Kind(run_merge, "KLEE", TRUE, FALSE, FALSE)
  /\ Kind(run_merge_cache, "KLEE", TRUE, TRUE, FALSE)
  /\ Kind(run_validation, "KLEE", FALSE, TRUE, TRUE)
  /\ Kind(run_merge_validation, "KLEE", TRUE, TRUE, TRUE)
  /\ Kind([run_klee EXCEPT !.limit = TRUE],
          "VANILLA_KLEE", FALSE, FALSE, FALSE)
  /\ Kind([run_cache EXCEPT !.limit = TRUE],
          "KLEE", FALSE, TRUE, FALSE)
  /\ Kind([run_merge EXCEPT !.limit = TRUE],
          "KLEE", TRUE, FALSE, FALSE)
  /\ Kind([run_merge_cache EXCEPT !.limit = TRUE],
          "KLEE", TRUE, TRUE, FALSE)
  /\ Kind([run_merge EXCEPT !.cex = 0],
          "KLEE", TRUE, FALSE, FALSE)
  /\ Kind([run_merge_cache EXCEPT !.cex = 0],
          "KLEE", TRUE, TRUE, FALSE)
  /\ Kind([[run_cache EXCEPT !.limit = TRUE] EXCEPT !.cacheflags = FALSE],
          "KLEE", FALSE, TRUE, FALSE)
  /\ Kind([[run_merge EXCEPT !.limit = TRUE] EXCEPT !.cacheflags = FALSE],
          "KLEE", TRUE, FALSE, FALSE)
  /\ Kind([[run_merge_cache EXCEPT !.limit = TRUE] EXCEPT !.cacheflags = FALSE],
          "KLEE", TRUE, TRUE, FALSE)
  /\ Kind([VANILLA EXCEPT !.limit = TRUE],
          "VANILLA_KLEE", FALSE, FALSE, FALSE)
  /\ Kind([KLEE EXCEPT !.branch = 0, !.iso = TRUE, !.limit = TRUE],
          "KLEE", FALSE, TRUE, FALSE)
  /\ Kind([KLEE EXCEPT !.branch = 0, !.iso = TRUE, !.validate = TRUE, !.limit = TRUE],
          "KLEE", FALSE, TRUE, FALSE)
<1>1. Kind(VANILLA, "VANILLA_KLEE", FALSE, FALSE, FALSE)
  BY DEF Kind, VANILLA, Options
<1>2. Kind(KLEE, "KLEE", FALSE, FALSE, FALSE)
  BY <1>1 DEF Kind, KLEE, Options
<1>3. Kind(run_klee, "VANILLA_KLEE", FALSE, FALSE, FALSE)
  BY <1>1 DEF Kind, run_klee, Options
<1>4. Kind(run_cache, "KLEE", FALSE, TRUE, FALSE)
  BY <1>2 DEF Kind, run_cache, Options
<1>5. Kind(run_merge, "KLEE", TRUE, FALSE, FALSE)
  BY <1>2 DEF Kind, run_merge, Options
<1>6. Kind(run_merge_cache, "KLEE", TRUE, TRUE, FALSE)
  BY <1>2 DEF Kind, run_merge_cache, Options
<1>7. Kind(run_validation, "KLEE", FALSE, TRUE, TRUE)
  BY <1>2 DEF Kind, run_validation, Options
<1>8. Kind(run_merge_validation, "KLEE", TRUE, TRUE, TRUE)
  BY <1>7 DEF Kind, run_merge_validation, Options
<1>9. Kind([run_klee EXCEPT !.limit = TRUE],
          "VANILLA_KLEE", FALSE, FALSE, FALSE)
  BY <1>3 DEF Kind, Options
<1>10. Kind([run_cache EXCEPT !.limit = TRUE],
          "KLEE", FALSE, TRUE, FALSE)
  BY <1>4 DEF Kind, Options
<1>11. Kind([run_merge EXCEPT !.limit = TRUE],
          "KLEE", TRUE, FALSE, FALSE)
  BY <1>5 DEF Kind, Options
<1>12. Kind([run_merge_cache EXCEPT !.limit = TRUE],
          "KLEE", TRUE, TRUE, FALSE)
  BY <1>6 DEF Kind, Options
<1>13. Kind([run_merge EXCEPT !.cex = 0],
          "KLEE", TRUE, FALSE, FALSE)
  BY <1>5 DEF Kind, Options
<1>14. Kind([run_merge_cache EXCEPT !.cex = 0],
          "KLEE", TRUE, TRUE, FALSE)
  BY <1>6 DEF Kind, Options
<1>15. Kind([[run_cache EXCEPT !.limit = TRUE] EXCEPT !.cacheflags = FALSE],
          "KLEE", FALSE, TRUE, FALSE)
  BY <1>10 DEF Kind, Options
<1>16. Kind([[run_merge EXCEPT !.limit = TRUE] EXCEPT !.cacheflags = FALSE],
          "KLEE", TRUE, FALSE, FALSE)
  BY <1>11 DEF Kind, Options
<1>17. Kind([[run_merge_cache EXCEPT !.limit = TRUE] EXCEPT !.cacheflags = FALSE],
          "KLEE", TRUE, TRUE, FALSE)
  BY <1>12 DEF Kind, Options
<1>18. Kind([VANILLA EXCEPT !.limit = TRUE],
          "VANILLA_KLEE", FALSE, FALSE, FALSE)
  BY <1>1 DEF Kind, Options
<1>19. Kind([KLEE EXCEPT !.branch = 0, !.iso = TRUE, !.limit = TRUE],
          "KLEE", FALSE, TRUE, FALSE)
  BY <1>2 DEF Kind, Options
<1>20. Kind([KLEE EXCEPT !.branch = 0, !.iso = TRUE, !.validate = TRUE, !.limit = TRUE],
          "KLEE", FALSE, TRUE, FALSE)
  BY <1>2 DEF Kind, Options
<1> QED
  BY <1>1, <1>2, <1>3, <1>4, <1>5, <1>6, <1>7, <1>8, <1>9, <1>10, <1>11, <1>12, <1>13,
     <1>14, <1>15, <1>16, <1>17, <1>18, <1>19, <1>20

(* Every run.sh leaves each function name with a function of its kind.      *)
LEMMA Tables ==
  ASSUME NEW p \in Programs, NEW e, e.lib = LibOf(p)
  PROVE  /\ p \notin {"libosip", "libyaml", "coreutils"} =>
              /\ Kind(Fn(e, "run_klee"), "VANILLA_KLEE", FALSE, FALSE, FALSE)
              /\ Kind(Fn(e, "run_cache"), "KLEE", FALSE, TRUE, FALSE)
              /\ Kind(Fn(e, "run_merge"), "KLEE", TRUE, FALSE, FALSE)
              /\ Kind(Fn(e, "run_merge_cache"), "KLEE", TRUE, TRUE, FALSE)
              /\ Kind(Fn(e, "run_validation"), "KLEE", FALSE, TRUE, TRUE)
              /\ Kind(Fn(e, "run_merge_validation"), "KLEE", TRUE, TRUE, TRUE)
         /\ p \in {"libosip", "libyaml", "coreutils"} =>
              /\ Kind(Fn(e, "run_klee"), "VANILLA_KLEE", FALSE, FALSE, FALSE)
              /\ Kind(Fn(e, "run_cache"), "KLEE", FALSE, TRUE, FALSE)
              /\ Kind(Fn(e, "run_dsmm"), "KLEE", TRUE, FALSE, FALSE)
              /\ Kind(Fn(e, "run_dsmm_cache"), "KLEE", TRUE, TRUE, FALSE)
         /\ p = "coreutils" => Kind(Fn(e, "run_validation"), "KLEE", FALSE, TRUE, FALSE)
<1>1. CASE e.lib = "common"
  <2>1. \A f : Fn(e, f) = common_fn[f]
    BY <1>1 DEF Fn
  <2>2. p \notin {"sqlite", "libosip", "libyaml", "coreutils"}
    BY <1>1 DEF LibOf
  <2>3. /\ common_fn["run_klee"] = run_klee /\ common_fn["run_cache"] = run_cache
        /\ common_fn["run_merge"] = run_merge
        /\ common_fn["run_merge_cache"] = run_merge_cache
        /\ common_fn["run_validation"] = run_validation
        /\ common_fn["run_merge_validation"] = run_merge_validation
    BY DEF common_fn
  <2> QED
    BY <2>1, <2>2, <2>3, Runners
<1>2. CASE e.lib = "sqlite"
  <2>1. \A f : Fn(e, f) = sqlite_fn[f]
    BY <1>2 DEF Fn
  <2>2. p = "sqlite"
    BY <1>2 DEF LibOf
  <2>3. /\ sqlite_fn["run_klee"] = run_klee /\ sqlite_fn["run_cache"] = run_cache
        /\ sqlite_fn["run_merge"] = [run_merge EXCEPT !.cex = 0]
        /\ sqlite_fn["run_merge_cache"] = [run_merge_cache EXCEPT !.cex = 0]
        /\ sqlite_fn["run_validation"] = run_validation
        /\ sqlite_fn["run_merge_validation"] = run_merge_validation
    BY DEF sqlite_fn, common_fn
  <2>4. Kind(sqlite_fn["run_merge"], "KLEE", TRUE, FALSE, FALSE)
    BY <2>3, Runners
  <2>5. Kind(sqlite_fn["run_merge_cache"], "KLEE", TRUE, TRUE, FALSE)
    BY <2>3, Runners
  <2> QED
    BY <2>1, <2>2, <2>3, <2>4, <2>5, Runners
<1>4. /\ libyaml_fn["run_klee"] = [run_klee EXCEPT !.limit = TRUE]
      /\ libyaml_fn["run_cache"] = [run_cache EXCEPT !.limit = TRUE]
      /\ libyaml_fn["run_dsmm"] = [run_merge EXCEPT !.limit = TRUE]
      /\ libyaml_fn["run_dsmm_cache"] = [run_merge_cache EXCEPT !.limit = TRUE]
  BY DEF libyaml_fn
<1>3. /\ Kind(libyaml_fn["run_klee"], "VANILLA_KLEE", FALSE, FALSE, FALSE)
      /\ Kind(libyaml_fn["run_cache"], "KLEE", FALSE, TRUE, FALSE)
      /\ Kind(libyaml_fn["run_dsmm"], "KLEE", TRUE, FALSE, FALSE)
      /\ Kind(libyaml_fn["run_dsmm_cache"], "KLEE", TRUE, TRUE, FALSE)
  <2>1. Kind(libyaml_fn["run_klee"], "VANILLA_KLEE", FALSE, FALSE, FALSE)
    BY <1>4, Runners
  <2>2. Kind(libyaml_fn["run_cache"], "KLEE", FALSE, TRUE, FALSE)
    BY <1>4, Runners
  <2>3. Kind(libyaml_fn["run_dsmm"], "KLEE", TRUE, FALSE, FALSE)
    BY <1>4, Runners
  <2>4. Kind(libyaml_fn["run_dsmm_cache"], "KLEE", TRUE, TRUE, FALSE)
    BY <1>4, Runners
  <2> QED
    BY <2>1, <2>2, <2>3, <2>4
<1>5. CASE e.lib = "libyaml"
  <2>1. p = "libyaml" /\ \A f : Fn(e, f) = libyaml_fn[f]
    BY <1>5 DEF Fn, LibOf
  <2> QED
    BY <2>1, <1>3
<1>6. CASE e.lib = "libosip"
  <2>1. p = "libosip" /\ \A f : Fn(e, f) = libosip_fn[f]
    BY <1>6 DEF Fn, LibOf
  <2>2. /\ libosip_fn["run_klee"] = libyaml_fn["run_klee"]
        /\ libosip_fn["run_cache"] =
             [[run_cache EXCEPT !.limit = TRUE] EXCEPT !.cacheflags = FALSE]
        /\ libosip_fn["run_dsmm"] =
             [[run_merge EXCEPT !.limit = TRUE] EXCEPT !.cacheflags = FALSE]
        /\ libosip_fn["run_dsmm_cache"] =
             [[run_merge_cache EXCEPT !.limit = TRUE] EXCEPT !.cacheflags = FALSE]
    BY DEF libosip_fn, libyaml_fn
  <2>3. Kind(libosip_fn["run_cache"], "KLEE", FALSE, TRUE, FALSE)
    BY <2>2, Runners
  <2>4. Kind(libosip_fn["run_dsmm"], "KLEE", TRUE, FALSE, FALSE)
    BY <2>2, Runners
  <2>5. Kind(libosip_fn["run_dsmm_cache"], "KLEE", TRUE, TRUE, FALSE)
    BY <2>2, Runners
  <2> QED
    BY <2>1, <2>2, <2>3, <2>4, <2>5, <1>3
<1>7. CASE e.lib = "coreutils"
  <2>1. p = "coreutils" /\ \A f : Fn(e, f) = coreutils_fn[f]
    BY <1>7 DEF Fn, LibOf
  <2>2. /\ coreutils_fn["run_klee"] = [VANILLA EXCEPT !.limit = TRUE]
        /\ coreutils_fn["run_dsmm"] = [run_merge EXCEPT !.limit = TRUE]
        /\ coreutils_fn["run_dsmm_cache"] = [run_merge_cache EXCEPT !.limit = TRUE]
    BY DEF coreutils_fn
  <2>3. /\ coreutils_fn["run_cache"] =
             [KLEE EXCEPT !.branch = 0, !.iso = TRUE, !.limit = TRUE]
        /\ coreutils_fn["run_validation"] =
             [KLEE EXCEPT !.branch = 0, !.iso = TRUE, !.validate = TRUE,
                          !.limit = TRUE]
    BY DEF coreutils_fn
  <2>4. Kind(coreutils_fn["run_klee"], "VANILLA_KLEE", FALSE, FALSE, FALSE)
    BY <2>2, Runners
  <2>5. Kind(coreutils_fn["run_cache"], "KLEE", FALSE, TRUE, FALSE)
    BY <2>3, Runners
  <2>6. Kind(coreutils_fn["run_dsmm"], "KLEE", TRUE, FALSE, FALSE)
    BY <2>2, Runners
  <2>7. Kind(coreutils_fn["run_dsmm_cache"], "KLEE", TRUE, TRUE, FALSE)
    BY <2>2, Runners
  <2>8. Kind(coreutils_fn["run_validation"], "KLEE", FALSE, TRUE, FALSE)
    BY <2>3, Runners
  <2> QED
    BY <2>1, <2>4, <2>5, <2>6, <2>7, <2>8
<1> QED
  BY <1>1, <1>2, <1>5, <1>6, <1>7 DEF LibOf

Bound(o, cex, limit) == o \in Options /\ o.cex = cex /\ o.limit = limit

(* The counterexample cache and the limit of each function.                 *)
LEMMA Limits ==
  ASSUME NEW p \in Programs, NEW e, e.lib = LibOf(p)
  PROVE  /\ p \notin {"libosip", "libyaml", "coreutils"} =>
              /\ \A f \in {"run_klee", "run_cache"} : Fn(e, f).cex = 1 /\ ~ Fn(e, f).limit
              /\ \A f \in {"run_merge", "run_merge_cache"} :
                   Fn(e, f).cex = (IF p = "sqlite" THEN 0 ELSE 1) /\ ~ Fn(e, f).limit
         /\ p \in {"libosip", "libyaml", "coreutils"} =>
              /\ \A f \in {"run_klee", "run_cache"} :
                   Fn(e, f).cex = (IF p = "coreutils" THEN None ELSE 1) /\ Fn(e, f).limit
              /\ \A f \in {"run_dsmm", "run_dsmm_cache"} :
                   Fn(e, f).cex = 1 /\ Fn(e, f).limit
<1>1. /\ Bound(run_klee, 1, FALSE) /\ Bound(run_cache, 1, FALSE)
      /\ Bound(run_merge, 1, FALSE) /\ Bound(run_merge_cache, 1, FALSE)
      /\ Bound(VANILLA, None, FALSE) /\ Bound(KLEE, None, FALSE)
  <2>1. /\ run_klee \in Options /\ run_cache \in Options /\ run_merge \in Options
        /\ run_merge_cache \in Options /\ VANILLA \in Options /\ KLEE \in Options
    BY Runners DEF Kind
  <2>2. Bound(VANILLA, None, FALSE)
    BY <2>1 DEF Bound, VANILLA
  <2>3. Bound(KLEE, None, FALSE)
    BY <2>1, <2>2 DEF Bound, KLEE, Options
  <2>4. Bound(run_klee, 1, FALSE)
    BY <2>1, <2>2 DEF Bound, run_klee, Options
  <2>5. Bound(run_cache, 1, FALSE)
    BY <2>1, <2>3 DEF Bound, run_cache, Options
  <2>6. Bound(run_merge, 1, FALSE)
    BY <2>1, <2>3 DEF Bound, run_merge, Options
  <2>7. Bound(run_merge_cache, 1, FALSE)
    BY <2>1, <2>3 DEF Bound, run_merge_cache, Options
  <2> QED
    BY <2>2, <2>3, <2>4, <2>5, <2>6, <2>7
<1>2. ASSUME NEW r, NEW cex, NEW limit, Bound(r, cex, limit)
      PROVE  /\ Bound([r EXCEPT !.cex = 0], 0, limit)
             /\ Bound([r EXCEPT !.limit = TRUE], cex, TRUE)
             /\ Bound([r EXCEPT !.cacheflags = FALSE], cex, limit)
             /\ Bound([r EXCEPT !.branch = 0, !.iso = TRUE, !.limit = TRUE], cex, TRUE)
  BY <1>2 DEF Bound, Options
<1>a. /\ Bound([run_merge EXCEPT !.cex = 0], 0, FALSE)
      /\ Bound([run_merge_cache EXCEPT !.cex = 0], 0, FALSE)
      /\ Bound([run_klee EXCEPT !.limit = TRUE], 1, TRUE)
      /\ Bound([run_cache EXCEPT !.limit = TRUE], 1, TRUE)
      /\ Bound([run_merge EXCEPT !.limit = TRUE], 1, TRUE)
      /\ Bound([run_merge_cache EXCEPT !.limit = TRUE], 1, TRUE)
      /\ Bound([VANILLA EXCEPT !.limit = TRUE], None, TRUE)
      /\ Bound([KLEE EXCEPT !.branch = 0, !.iso = TRUE, !.limit = TRUE], None, TRUE)
  BY <1>1, <1>2, Zenon
<1>3. CASE e.lib = "common"
  <2>1. \A f : Fn(e, f) = common_fn[f]
    BY <1>3 DEF Fn
  <2>2. p \notin {"sqlite", "libosip", "libyaml", "coreutils"}
    BY <1>3 DEF LibOf
  <2>3. /\ common_fn["run_klee"] = run_klee /\ common_fn["run_cache"] = run_cache
        /\ common_fn["run_merge"] = run_merge
        /\ common_fn["run_merge_cache"] = run_merge_cache
    BY DEF common_fn
  <2> QED
    BY <1>1, <2>1, <2>2, <2>3 DEF Bound
<1>4. CASE e.lib = "sqlite"
  <2>1. p = "sqlite" /\ \A f : Fn(e, f) = sqlite_fn[f]
    BY <1>4 DEF Fn, LibOf
  <2>2. /\ sqlite_fn["run_klee"] = run_klee /\ sqlite_fn["run_cache"] = run_cache
        /\ sqlite_fn["run_merge"] = [run_merge EXCEPT !.cex = 0]
        /\ sqlite_fn["run_merge_cache"] = [run_merge_cache EXCEPT !.cex = 0]
    BY DEF sqlite_fn, common_fn
  <2>3. /\ Bound(sqlite_fn["run_klee"], 1, FALSE) /\ Bound(sqlite_fn["run_cache"], 1, FALSE)
        /\ Bound(sqlite_fn["run_merge"], 0, FALSE)
        /\ Bound(sqlite_fn["run_merge_cache"], 0, FALSE)
    BY <1>1, <1>a, <2>2, Zenon
  <2> QED
    BY <2>1, <2>3 DEF Bound
<1>5. /\ libyaml_fn["run_klee"] = [run_klee EXCEPT !.limit = TRUE]
      /\ libyaml_fn["run_cache"] = [run_cache EXCEPT !.limit = TRUE]
      /\ libyaml_fn["run_dsmm"] = [run_merge EXCEPT !.limit = TRUE]
      /\ libyaml_fn["run_dsmm_cache"] = [run_merge_cache EXCEPT !.limit = TRUE]
  BY DEF libyaml_fn
<1>6. /\ Bound(libyaml_fn["run_klee"], 1, TRUE) /\ Bound(libyaml_fn["run_cache"], 1, TRUE)
      /\ Bound(libyaml_fn["run_dsmm"], 1, TRUE) /\ Bound(libyaml_fn["run_dsmm_cache"], 1, TRUE)
  BY <1>5, <1>a, Zenon
<1>7. CASE e.lib = "libyaml"
  <2>1. p = "libyaml" /\ \A f : Fn(e, f) = libyaml_fn[f]
    BY <1>7 DEF Fn, LibOf
  <2> QED
    BY <1>6, <2>1 DEF Bound
<1>8. CASE e.lib = "libosip"
  <2>1. p = "libosip" /\ \A f : Fn(e, f) = libosip_fn[f]
    BY <1>8 DEF Fn, LibOf
  <2>2. /\ libosip_fn["run_klee"] = libyaml_fn["run_klee"]
        /\ libosip_fn["run_cache"] = [libyaml_fn["run_cache"] EXCEPT !.cacheflags = FALSE]
        /\ libosip_fn["run_dsmm"] = [libyaml_fn["run_dsmm"] EXCEPT !.cacheflags = FALSE]
        /\ libosip_fn["run_dsmm_cache"] =
             [libyaml_fn["run_dsmm_cache"] EXCEPT !.cacheflags = FALSE]
    BY DEF libosip_fn, libyaml_fn
  <2>3. /\ Bound(libosip_fn["run_klee"], 1, TRUE) /\ Bound(libosip_fn["run_cache"], 1, TRUE)
        /\ Bound(libosip_fn["run_dsmm"], 1, TRUE)
        /\ Bound(libosip_fn["run_dsmm_cache"], 1, TRUE)
    <3>1. ASSUME NEW r, Bound(r, 1, TRUE)
          PROVE  Bound([r EXCEPT !.cacheflags = FALSE], 1, TRUE)
      BY <1>2, <3>1
    <3>2. Bound(libosip_fn["run_klee"], 1, TRUE)
      BY <1>6, <2>2, Zenon
    <3>3. Bound(libosip_fn["run_cache"], 1, TRUE)
      BY <1>6, <2>2, <3>1, Zenon
    <3>4. Bound(libosip_fn["run_dsmm"], 1, TRUE)
      BY <1>6, <2>2, <3>1, Zenon
    <3>5. Bound(libosip_fn["run_dsmm_cache"], 1, TRUE)
      BY <1>6, <2>2, <3>1, Zenon
    <3> QED
      BY <3>2, <3>3, <3>4, <3>5
  <2> QED
    BY <2>1, <2>3 DEF Bound
<1>9. CASE e.lib = "coreutils"
  <2>1. p = "coreutils" /\ \A f : Fn(e, f) = coreutils_fn[f]
    BY <1>9 DEF Fn, LibOf
  <2>2. /\ coreutils_fn["run_klee"] = [VANILLA EXCEPT !.limit = TRUE]
        /\ coreutils_fn["run_cache"] = [KLEE EXCEPT !.branch = 0, !.iso = TRUE, !.limit = TRUE]
        /\ coreutils_fn["run_dsmm"] = [run_merge EXCEPT !.limit = TRUE]
        /\ coreutils_fn["run_dsmm_cache"] = [run_merge_cache EXCEPT !.limit = TRUE]
    BY DEF coreutils_fn
  <2>3. /\ Bound(coreutils_fn["run_klee"], None, TRUE)
        /\ Bound(coreutils_fn["run_cache"], None, TRUE)
        /\ Bound(coreutils_fn["run_dsmm"], 1, TRUE)
        /\ Bound(coreutils_fn["run_dsmm_cache"], 1, TRUE)
    BY <1>a, <2>2, Zenon
  <2> QED
    BY <2>1, <2>3 DEF Bound
<1> QED
  BY <1>3, <1>4, <1>7, <1>8, <1>9 DEF LibOf

\* Which function a suite calls for a role, and for which benchmarks.
RunsWith(l, j) ==
  /\ \/ /\ l.suite \in {"qc_fmm", "overhead_fmm"}
        /\ \/ j.role = "out-klee" /\ j.fn = "run_klee"
           \/ j.role = "out-cache" /\ j.fn = "run_cache"
     \/ /\ l.suite = "qc_dsmm"
        /\ \/ j.role = "out-klee" /\ j.fn = "run_merge"
           \/ j.role = "out-cache" /\ j.fn = "run_merge_cache"
     \/ /\ l.suite = "validation"
        /\ \/ j.role = "out-fmm" /\ j.fn = "run_validation"
           \/ j.role = "out-dsmm" /\ j.fn = "run_merge_validation"
     \/ /\ l.suite = "overhead_dsmm"
        /\ \/ j.role = "out-klee" /\ j.fn = "run_dsmm"
           \/ j.role = "out-cache" /\ j.fn = "run_dsmm_cache"
     \/ l.suite = "coreutils_validation" /\ j.role = "out-cache" /\ j.fn = "run_validation"
  /\ l.suite \in {"qc_fmm", "qc_dsmm", "validation"} =>
       l.prog \notin {"libosip", "libyaml", "coreutils"}
  /\ l.suite \in {"overhead_fmm", "overhead_dsmm"} =>
       l.prog \in {"libosip", "libyaml", "coreutils"}
  /\ l.suite = "coreutils_validation" => l.prog = "coreutils"

LEMMA JobRunners ==
  ASSUME NEW l, LegOK(l), NEW k \in DOMAIN Jobs(l)
  PROVE  RunsWith(l, Jobs(l)[k])
BY JobCases, NamesFacts DEF Job, LegOK, RunsWith

(* A job's directory is labelled with what its KLEE is told to do, and      *)
(* nothing else in the command depends on what the shell ran before.        *)
LEMMA CommandFacts ==
  ASSUME NEW l, LegOK(l), NEW k \in DOMAIN Jobs(l), NEW e \in Envs,
         Sourced(e, l.prog)
  PROVE  /\ Command(e, l, Jobs(l)[k]) \in Commands
         /\ OwnInput(Output(l, Jobs(l)[k]), Command(e, l, Jobs(l)[k]))
         /\ Honest(Output(l, Jobs(l)[k]), Command(e, l, Jobs(l)[k]).opts)
         /\ Matched(Output(l, Jobs(l)[k]), Command(e, l, Jobs(l)[k]).opts)
<1> DEFINE j == Jobs(l)[k]
           f == Fn(e, j.fn)
           o == [f EXCEPT !.cacheflags = f.cacheflags /\ e.cache]
           x == Output(l, j)
<1>1. /\ l.prog \in Programs /\ l.prog # None /\ l.prog \notin Utilities
      /\ e.lib = LibOf(l.prog)
      /\ Logged(l) => j.name \in Utilities /\ j.name # None /\ j.name \notin Programs
      /\ x \in Slots
  BY JobFacts, NamesAssumption DEF LegOK, Sourced
<1>2. /\ x.suite = l.suite /\ x.role = j.role
      /\ x.prog = (IF j.name = None THEN l.prog ELSE j.name)
  BY DEF Output, Slot
<1>3. /\ f \in Options
      /\ f.rebase <=> IsDsmm(x)
      /\ f.bin = "VANILLA_KLEE" <=> x.suite \in FmmSuites /\ x.role = "out-klee"
      /\ f.iso <=> x.role # "out-klee"
      /\ f.stats <=> x.suite = "validation"
  <2>3. \/ /\ Kind(f, "VANILLA_KLEE", FALSE, FALSE, FALSE)
           /\ l.suite \in {"qc_fmm", "overhead_fmm"} /\ j.role = "out-klee"
        \/ /\ Kind(f, "KLEE", FALSE, TRUE, FALSE)
           /\ l.suite \in {"qc_fmm", "overhead_fmm", "coreutils_validation"}
           /\ j.role = "out-cache"
        \/ /\ Kind(f, "KLEE", TRUE, FALSE, FALSE)
           /\ l.suite \in {"qc_dsmm", "overhead_dsmm"} /\ j.role = "out-klee"
        \/ /\ Kind(f, "KLEE", TRUE, TRUE, FALSE)
           /\ l.suite \in {"qc_dsmm", "overhead_dsmm"} /\ j.role = "out-cache"
        \/ /\ Kind(f, "KLEE", FALSE, TRUE, TRUE)
           /\ l.suite = "validation" /\ j.role = "out-fmm"
        \/ /\ Kind(f, "KLEE", TRUE, TRUE, TRUE)
           /\ l.suite = "validation" /\ j.role = "out-dsmm"
    <3>1. RunsWith(l, j)
      BY JobRunners
    <3> HIDE DEF j
    <3> QED
      BY <1>1, <3>1, Tables DEF RunsWith
  <2> HIDE DEF f, j, x
  <2> QED
    BY <2>3, <1>2 DEF Kind, IsDsmm, FmmSuites, DsmmSuites
<1>4. /\ Command(e, l, j) =
           [opts |-> o, flags |-> e.flags, bc |-> IF Logged(l) THEN j.name ELSE e.bc,
            args |-> e.args, template |-> e.template]
  BY DEF Command
<1>5. /\ o \in Options /\ o.rebase = f.rebase /\ o.bin = f.bin /\ o.iso = f.iso
      /\ o.stats = f.stats /\ o.cex = f.cex /\ o.limit = f.limit
  <2> HIDE DEF f
  <2> QED
    BY <1>3 DEF Options, Envs
<1>6. Command(e, l, j) \in Commands
  <2> HIDE DEF o, f, j
  <2>1. (IF Logged(l) THEN j.name ELSE e.bc) \in Names
    BY <1>1 DEF Envs, Names
  <2> QED
    BY <1>4, <1>5, <2>1 DEF Commands, Envs
<1>7. Honest(x, Command(e, l, j).opts)
  <2> HIDE DEF o, f, j, x
  <2> QED
    BY <1>3, <1>4, <1>5 DEF Honest
<1>8. OwnInput(x, Command(e, l, j))
  <2> HIDE DEF o, f, j, x
  <2>1. CASE Logged(l)
    <3>1. /\ x.prog = j.name /\ Owner(x) = "coreutils" /\ l.prog = "coreutils"
          /\ x.prog \notin Programs
      BY <2>1, <1>1, <1>2 DEF Owner, IsUtil, Logged
    <3> QED
      BY <2>1, <3>1, <1>4 DEF OwnInput, Sourced, Mine, Templated, Programs
  <2>2. CASE ~Logged(l)
    <3>1. x.prog = l.prog
      <4>1. j.name = None \/ j.name = l.prog
        BY <2>2, JobFacts DEF LegOK, j, Logged
      <4> QED
        BY <4>1, <1>2
    <3>2. Owner(x) = l.prog /\ e.bc = l.prog
      BY <2>2, <3>1, <1>1 DEF Owner, IsUtil, Sourced, Logged
    <3> QED
      BY <2>2, <3>1, <3>2, <1>4 DEF OwnInput, Sourced, Mine
  <2> QED
    BY <2>1, <2>2
<1>9. Matched(x, Command(e, l, j).opts)
  <2> SUFFICES ASSUME x.suite \in FmmSuites \cup DsmmSuites
               PROVE  /\ f.cex = CexOf(x)
                      /\ f.limit <=> x.suite \in {"overhead_fmm", "overhead_dsmm"}
    <3> HIDE DEF o, f, j, x
    <3> QED
      BY <1>4, <1>5 DEF Matched
  <2>1. /\ l.suite = "qc_fmm" => j.fn \in {"run_klee", "run_cache"}
        /\ l.suite = "qc_dsmm" => j.fn \in {"run_merge", "run_merge_cache"}
        /\ l.suite = "overhead_fmm" => j.fn \in {"run_klee", "run_cache"}
        /\ l.suite = "overhead_dsmm" => j.fn \in {"run_dsmm", "run_dsmm_cache"}
        /\ l.suite \in {"qc_fmm", "qc_dsmm"} =>
             l.prog \notin {"libosip", "libyaml", "coreutils"}
        /\ l.suite \in {"overhead_fmm", "overhead_dsmm"} =>
             l.prog \in {"libosip", "libyaml", "coreutils"}
    <3>1. RunsWith(l, j)
      BY JobRunners
    <3> HIDE DEF j
    <3> QED
      BY <3>1 DEF RunsWith
  <2>2. /\ l.suite = "qc_dsmm" => x.prog = l.prog
        /\ IsUtil(x) <=> Logged(l)
    <3>1. j.name = None \/ j.name = l.prog \/ Logged(l)
      BY JobFacts DEF LegOK, j, Logged
    <3>2. l.suite = "qc_dsmm" => ~ Logged(l)
      BY <2>1 DEF Logged
    <3> HIDE DEF j, x
    <3> QED
      BY <1>1, <1>2, <3>1, <3>2, NamesAssumption DEF IsUtil
  <2> HIDE DEF o, f, j, x
  <2>3. CASE l.suite = "qc_fmm"
    BY <1>1, <1>2, <2>1, <2>3, Limits DEF CexOf, f
  <2>4. CASE l.suite = "qc_dsmm"
    BY <1>1, <1>2, <2>1, <2>2, <2>4, Limits DEF CexOf, f
  <2>5. CASE l.suite = "overhead_fmm"
    BY <1>1, <1>2, <2>1, <2>2, <2>5, Limits DEF CexOf, f, Logged
  <2>6. CASE l.suite = "overhead_dsmm"
    BY <1>1, <1>2, <2>1, <2>6, Limits DEF CexOf, f
  <2> QED
    BY <1>2, <2>3, <2>4, <2>5, <2>6 DEF FmmSuites, DsmmSuites
<1> QED
  BY <1>6, <1>7, <1>8, <1>9

-----------------------------------------------------------------------------
(* What a step does to the files. *)

Rest ==
  /\ made \subseteq Places
  /\ sandbox \in {"absent", "clean", "dirty"}
  /\ log \in Seq(LogLines)
  /\ status \in [Shells -> {0, 1}]
  /\ kills \in 0 .. MaxKills

\* A step of shell s leaves the directories alone, opens one, lets one be
\* born dead, or settles the one it was waiting for.
Opens(s, x, new) ==
  /\ dir[x].st = "absent" /\ new.st = "open"
  /\ new.by = Command(env[s], Leg(s), JobOf(s))
  /\ pc[s] # "klee" /\ pc'[s] = "klee" /\ Target(s)' = x

BornDead(s, x, new) ==
  /\ dir[x].st = "absent" /\ new.st = "dead"
  /\ new.by = Command(env[s], Leg(s), JobOf(s))
  /\ pc[s] # "klee" /\ pc'[s] # "klee"

Settles(s, x, new) ==
  /\ pc[s] = "klee" /\ pc'[s] # "klee"
  /\ new.st \in {"done", "dead"} /\ new.by = dir[x].by

Writes(s) ==
  \E x \in Slots, new \in Entries :
    /\ x = Target(s) /\ x = Output(Leg(s), JobOf(s))
    /\ dir' = [dir EXCEPT ![x] = new]
    /\ pc[s] \notin {"idle", "leg", "prepare"}
    /\ Opens(s, x, new) \/ BornDead(s, x, new) \/ Settles(s, x, new)

Effect(s) == Moves(s) /\ (Writes(s) \/ (dir' = dir /\ pc[s] # "klee" /\ pc'[s] # "klee"))

LEMMA IInvParts == IInv <=> Control /\ Rest /\ dir \in [Slots -> Entries] /\ OneWriter
  BY DEF IInv, Control, ControlOf, Rest, TypeOK

LEMMA CommandTyped ==
  ASSUME Control, NEW s \in Shells, pc[s] \notin {"idle", "leg", "prepare"}
  PROVE  /\ Command(env[s], Leg(s), JobOf(s)) \in Commands
         /\ OwnInput(Target(s), Command(env[s], Leg(s), JobOf(s)))
         /\ Honest(Target(s), Command(env[s], Leg(s), JobOf(s)).opts)
         /\ Matched(Target(s), Command(env[s], Leg(s), JobOf(s)).opts)
<1>1. /\ LegOK(Leg(s)) /\ pos[s].job \in DOMAIN Jobs(Leg(s))
      /\ JobOf(s) = Jobs(Leg(s))[pos[s].job]
  BY WorkingLeg DEF JobOf
<1>2. Sourced(env[s], Leg(s).prog) /\ env[s] \in Envs
  BY DEF Control, ControlOf, Working
<1>3. Target(s) = Output(Leg(s), JobOf(s))
  BY TargetFacts
<1> QED
  BY <1>1, <1>2, <1>3, CommandFacts

LEMMA StartKleeEffect ==
  ASSUME IInv, NEW s \in Shells, StartKlee(s)
  PROVE  Control' /\ Rest' /\ Effect(s)
<1>1. Control /\ Rest /\ dir \in [Slots -> Entries]
  BY IInvParts
<1>2. pc[s] \in {"job", "klee?"} /\ UNCHANGED <<pos, env>> /\ Goto(s, "klee")
  BY DEF StartKlee, AtKlee
<1>3. Control' /\ Moves(s) /\ pc'[s] = "klee"
  BY <1>1, <1>2, Along DEF Labels
<1>4. Rest'
  BY <1>1 DEF Rest, StartKlee
<1> DEFINE x == Target(s)
           new == [st |-> "open", by |-> Command(env[s], Leg(s), JobOf(s)),
                   box |-> IF Logged(Leg(s)) THEN sandbox ELSE None, res |-> None]
<1>5. x \in Slots /\ x = Output(Leg(s), JobOf(s))
  BY <1>1, <1>2, TargetFacts
<1>6. new \in Entries
  BY <1>1, <1>2, CommandTyped DEF Entries, Rest
<1>7. dir' = [dir EXCEPT ![x] = new] /\ dir[x].st = "absent"
  BY DEF StartKlee, MayCreate
<1>8. Target(s)' = x
  BY <1>2 DEF Target, Leg, JobOf
<1>9. Opens(s, x, new)
  BY <1>2, <1>3, <1>7, <1>8 DEF Opens
<1> HIDE DEF x, new
<1>10. Writes(s)
  BY <1>2, <1>5, <1>6, <1>7, <1>9 DEF Writes, x
<1> QED
  BY <1>3, <1>4, <1>10 DEF Effect

LEMMA LoseSandboxEffect ==
  ASSUME IInv, NEW s \in Shells, LoseSandbox(s)
  PROVE  Control' /\ Rest' /\ Effect(s)
<1>1. Control /\ Rest /\ dir \in [Slots -> Entries]
  BY IInvParts
<1>2. pc[s] \in {"job", "klee?"} /\ KleeReturns(s, 1)
  BY DEF LoseSandbox, AtKlee
<1>3. /\ Control' /\ Moves(s) /\ status' \in [Shells -> {0, 1}]
      /\ pc'[s] \in {"job", "leg", "idle", "log"}
  BY <1>1, <1>2, KleeReturnsControl DEF Rest
<1>4. Rest'
  BY <1>1, <1>3 DEF Rest, LoseSandbox
<1> DEFINE x == Target(s)
           new == [st |-> "dead", by |-> Command(env[s], Leg(s), JobOf(s)),
                   box |-> sandbox, res |-> None]
<1>5. x \in Slots /\ x = Output(Leg(s), JobOf(s))
  BY <1>1, <1>2, TargetFacts
<1>6. new \in Entries
  BY <1>1, <1>2, CommandTyped DEF Entries, Rest
<1>7. dir' = [dir EXCEPT ![x] = new] /\ dir[x].st = "absent"
  BY DEF LoseSandbox, MayCreate
<1>8. BornDead(s, x, new)
  BY <1>2, <1>3, <1>7 DEF BornDead
<1> HIDE DEF x, new
<1>9. Writes(s)
  BY <1>2, <1>5, <1>6, <1>7, <1>8 DEF Writes, x
<1> QED
  BY <1>3, <1>4, <1>9 DEF Effect

\* A directory keeps its command line when its run ends.
LEMMA Ended ==
  ASSUME NEW r \in Results \cup {None}, NEW v \in Entries,
         NEW st \in {"done", "dead"}
  PROVE  /\ [v EXCEPT !.st = st, !.res = r] \in Entries
         /\ [v EXCEPT !.st = st, !.res = r].st = st
         /\ [v EXCEPT !.st = st, !.res = r].by = v.by
         /\ [v EXCEPT !.st = st] \in Entries
         /\ [v EXCEPT !.st = st].st = st
         /\ [v EXCEPT !.st = st].by = v.by
  BY DEF Entries

LEMMA EndKleeEffect ==
  ASSUME IInv, NEW s \in Shells, EndKlee(s)
  PROVE  Control' /\ Rest' /\ Effect(s)
<1>1. Control /\ Rest /\ dir \in [Slots -> Entries]
  BY IInvParts
<1>2. pc[s] = "klee" /\ \E code \in {0, 1} : KleeReturns(s, code)
  BY DEF EndKlee, FinishKlee, DieKlee
<1>3. /\ Control' /\ Moves(s) /\ status' \in [Shells -> {0, 1}]
      /\ pc'[s] \in {"job", "leg", "idle", "log"}
  BY <1>1, <1>2, KleeReturnsControl DEF Rest
<1>4. Rest'
  BY <1>1, <1>3 DEF Rest, EndKlee, FinishKlee, DieKlee, Soil
<1>5. Target(s) \in Slots /\ Target(s) = Output(Leg(s), JobOf(s))
  BY <1>1, <1>2, TargetFacts
<1> DEFINE x == Target(s)
<1>6. \E new \in Entries : /\ dir' = [dir EXCEPT ![x] = new]
                           /\ new.st \in {"done", "dead"} /\ new.by = dir[x].by
  <2>1. dir[x] \in Entries /\ x \in Slots
    BY <1>1, <1>5
  <2>2. CASE DieKlee(s)
    <3>1. dir' = [dir EXCEPT ![x] = [dir[x] EXCEPT !.st = "dead"]]
      BY <2>2 DEF DieKlee
    <3> DEFINE new == [dir[x] EXCEPT !.st = "dead"]
    <3>2. new \in Entries /\ new.st = "dead" /\ new.by = dir[x].by
      BY <2>1, Ended
    <3>3. dir' = [dir EXCEPT ![x] = new]
      BY <3>1
    <3> HIDE DEF x, new
    <3> QED
      BY <3>2, <3>3
  <2>3. CASE \E r \in Results : FinishKlee(s, r)
    <3>1. PICK r \in Results : FinishKlee(s, r)
      BY <2>3
    <3>2. dir' = [dir EXCEPT ![x] = [dir[x] EXCEPT !.st = "done", !.res = r]]
      BY <3>1, <2>1 DEF FinishKlee
    <3> DEFINE new == [dir[x] EXCEPT !.st = "done", !.res = r]
    <3>3. new \in Entries /\ new.st = "done" /\ new.by = dir[x].by
      <4>1. r \in Results \cup {None} /\ "done" \in {"done", "dead"}
        BY <3>1
      <4> HIDE DEF x
      <4>2. \A v \in Entries :
              LET w == [v EXCEPT !.st = "done", !.res = r]
              IN  w \in Entries /\ w.st = "done" /\ w.by = v.by
        BY <4>1 DEF Entries
      <4> QED
        BY <4>2, <2>1, Zenon
    <3>4. dir' = [dir EXCEPT ![x] = new]
      BY <3>2
    <3> HIDE DEF x, new
    <3> QED
      BY <3>3, <3>4
  <2> QED
    BY <2>2, <2>3 DEF EndKlee
<1>7. PICK new \in Entries : /\ dir' = [dir EXCEPT ![x] = new]
                             /\ new.st \in {"done", "dead"} /\ new.by = dir[x].by
  BY <1>6
<1> HIDE DEF x
<1>8. Settles(s, x, new)
  BY <1>2, <1>3, <1>7 DEF Settles
<1>9. Writes(s)
  BY <1>2, <1>5, <1>7, <1>8 DEF Writes, x
<1> QED
  BY <1>3, <1>4, <1>9 DEF Effect

LEMMA QuietEffect ==
  ASSUME IInv, NEW s \in Shells,
         \/ \E top \in Menu[s] : Launch(s, top)
         \/ Source(s) \/ MakeDir(s) \/ RemoveLog(s) \/ RemoveSandbox(s)
         \/ UnpackSandbox(s) \/ RefuseKlee(s) \/ WriteLog(s)
  PROVE  Control' /\ Rest' /\ Effect(s)
<1>1. Control /\ Rest /\ dir \in [Slots -> Entries]
  BY IInvParts
<1>2. CASE \E top \in Menu[s] : Launch(s, top)
  <2>1. PICK top \in Menu[s] : Launch(s, top)
    BY <1>2
  <2>2. Control' /\ Moves(s) /\ pc'[s] = "leg"
    BY <1>1, <2>1, LaunchControl
  <2> QED
    BY <1>1, <2>1, <2>2 DEF Launch, Rest, Effect, files
<1>3. CASE Source(s)
  <2>1. Control' /\ Moves(s) /\ pc'[s] = "prepare"
    BY <1>1, <1>3, SourceControl
  <2> QED
    BY <1>1, <1>3, <2>1 DEF Source, Rest, Effect, files
<1>4. CASE MakeDir(s)
  <2>1. Control' /\ Moves(s) /\ pc'[s] = "job"
    BY <1>1, <1>4, MakeDirControl
  <2>2. /\ pc[s] = "prepare" /\ ~Logged(Leg(s)) /\ LegOK(Leg(s))
    BY <1>1, <1>4, WorkingLeg DEF MakeDir
  <2>3. made' \subseteq Places
    BY <1>1, <1>4, <2>2, ProgramDirs DEF MakeDir, Rest
  <2> QED
    BY <1>1, <1>4, <2>1, <2>2, <2>3 DEF MakeDir, Rest, Effect
<1>5. CASE RemoveLog(s)
  <2>1. Control' /\ Moves(s) /\ pc'[s] = "job"
    BY <1>1, <1>5, Along DEF RemoveLog, Labels
  <2>2. log' \in Seq(LogLines)
    BY <1>5 DEF RemoveLog
  <2> QED
    BY <1>1, <1>5, <2>1, <2>2 DEF RemoveLog, Rest, Effect
<1>6. CASE RemoveSandbox(s)
  <2>1. Control' /\ Moves(s) /\ pc'[s] = "untar"
    BY <1>1, <1>6, Along DEF RemoveSandbox, Labels, Resets
  <2> QED
    BY <1>1, <1>6, <2>1 DEF RemoveSandbox, Rest, Effect
<1>7. CASE UnpackSandbox(s)
  <2>1. Control' /\ Moves(s) /\ pc'[s] = "klee?"
    BY <1>1, <1>7, Along DEF UnpackSandbox, Labels
  <2> QED
    BY <1>1, <1>7, <2>1 DEF UnpackSandbox, Rest, Effect
<1>8. CASE RefuseKlee(s)
  <2>1. pc[s] \in {"job", "klee?"} /\ KleeReturns(s, 1)
    BY <1>8 DEF RefuseKlee, AtKlee
  <2>2. /\ Control' /\ Moves(s) /\ status' \in [Shells -> {0, 1}]
        /\ pc'[s] \in {"job", "leg", "idle", "log"}
    BY <1>1, <2>1, KleeReturnsControl DEF Rest
  <2> QED
    BY <1>1, <1>8, <2>1, <2>2 DEF RefuseKlee, Rest, Effect, files
<1>9. CASE WriteLog(s)
  <2>1. pc[s] = "log" /\ NextJob(s) /\ log' = Append(log, LogLine(s))
    BY <1>9 DEF WriteLog
  <2>2. Control' /\ Moves(s) /\ pc'[s] \in {"job", "leg", "idle"}
    BY <1>1, <2>1, NextJobControl DEF Moves
  <2>3. Logged(Leg(s)) /\ LegOK(Leg(s)) /\ pos[s].job \in DOMAIN Jobs(Leg(s))
    BY <1>1, <2>1, WorkingLeg DEF Control, ControlOf, Working
  <2>4. /\ JobOf(s).name \in Utilities /\ JobOf(s).role \in {"out-klee", "out-cache"}
        /\ status[s] \in {0, 1}
    BY <1>1, <2>3, JobFacts DEF JobOf, Rest
  <2>5. LogLine(s) \in LogLines
    BY <2>4 DEF LogLine, LogLines
  <2>6. log' \in Seq(LogLines)
    BY <1>1, <2>1, <2>5 DEF Rest
  <2> QED
    BY <1>1, <1>9, <2>1, <2>2, <2>6 DEF WriteLog, Rest, Effect
<1> QED
  BY <1>2, <1>3, <1>4, <1>5, <1>6, <1>7, <1>8, <1>9

LEMMA KillEffect ==
  ASSUME IInv, NEW s \in Shells, Kill(s)
  PROVE  Control' /\ Rest' /\ Effect(s)
<1>1. Control /\ Rest /\ dir \in [Slots -> Entries] /\ pc[s] # "idle"
  BY IInvParts DEF Kill
<1>2. Control' /\ Moves(s) /\ pc'[s] = "idle"
  BY <1>1, ExitsControl DEF Kill
<1>3. Rest'
  BY <1>1, BoundAssumption DEF Rest, Kill
<1>4. CASE pc[s] = "klee"
  <2> DEFINE x == Target(s)
             new == [dir[x] EXCEPT !.st = "dead"]
  <2>1. x \in Slots /\ x = Output(Leg(s), JobOf(s))
    BY <1>1, <1>4, TargetFacts
  <2>2. dir[x] \in Entries
    BY <1>1, <2>1
  <2>3. dir' = [dir EXCEPT ![x] = new]
    BY <1>4 DEF Kill
  <2>4. new \in Entries /\ new.st = "dead" /\ new.by = dir[x].by
    BY <2>2, Ended
  <2> HIDE DEF x, new
  <2>5. Settles(s, x, new)
    BY <1>2, <1>4, <2>4 DEF Settles
  <2>6. Writes(s)
    BY <1>4, <2>1, <2>3, <2>4, <2>5 DEF Writes, x
  <2> QED
    BY <1>2, <1>3, <2>6 DEF Effect
<1>5. CASE pc[s] # "klee"
  BY <1>2, <1>3, <1>5 DEF Effect, Kill
<1> QED
  BY <1>4, <1>5

-----------------------------------------------------------------------------
(* One writer per directory. *)

LEMMA EffectKeepsOneWriter ==
  ASSUME IInv, NEW s \in Shells, Control', Effect(s)
  PROVE  OneWriter' /\ dir' \in [Slots -> Entries]
<1>1. Control /\ dir \in [Slots -> Entries] /\ OneWriter /\ pc \in [Shells -> Labels]
  BY IInvParts DEF Control
<1>2. ASSUME NEW t \in Shells, t # s
      PROVE  pc'[t] = pc[t] /\ Target(t)' = Target(t)
  <2>1. pc'[t] = pc[t] /\ pos'[t] = pos[t] /\ env'[t] = env[t]
    BY <1>1, <1>2 DEF Effect, Moves
  <2> QED
    BY <2>1 DEF Target, Leg, JobOf
<1>3. ASSUME NEW t \in Shells, pc[t] = "klee"
      PROVE  Target(t) \in Slots /\ dir[Target(t)].st = "open"
  BY <1>1, <1>3, TargetFacts DEF OneWriter
<1>4. CASE dir' = dir /\ pc[s] # "klee" /\ pc'[s] # "klee"
  BY <1>1, <1>2, <1>4 DEF OneWriter
<1>5. CASE Writes(s)
  <2>1. PICK x \in Slots, new \in Entries :
          /\ x = Target(s) /\ dir' = [dir EXCEPT ![x] = new]
          /\ Opens(s, x, new) \/ BornDead(s, x, new) \/ Settles(s, x, new)
    BY <1>5 DEF Writes
  <2>2. /\ dir' \in [Slots -> Entries] /\ dir'[x] = new
        /\ \A y \in Slots \ {x} : dir'[y] = dir[y]
    BY <1>1, <2>1
  <2>3. \A t \in Shells \ {s} : pc[t] = "klee" => Target(t) # x
    <3>1. CASE dir[x].st = "absent"
      BY <3>1, <1>3
    <3>2. CASE Settles(s, x, new)
      BY <3>2, <2>1, <1>1 DEF Settles, OneWriter
    <3> QED
      BY <2>1, <3>1, <3>2 DEF Opens, BornDead
  <2>4. CASE Opens(s, x, new)
    <3>1. pc[s] # "klee" /\ pc'[s] = "klee" /\ Target(s)' = x /\ new.st = "open"
      BY <2>4 DEF Opens
    <3>2. \A t \in Shells : pc'[t] = "klee" => dir'[Target(t)'].st = "open"
      BY <3>1, <2>2, <2>3, <1>2, <1>3
    <3>3. \A t, u \in Shells :
            pc'[t] = "klee" /\ pc'[u] = "klee" /\ Target(t)' = Target(u)' => t = u
      BY <3>1, <2>3, <1>1, <1>2 DEF OneWriter
    <3>4. \A y \in Slots :
            dir'[y].st = "open" => \E t \in Shells : pc'[t] = "klee" /\ Target(t)' = y
      BY <3>1, <2>2, <1>1, <1>2 DEF OneWriter
    <3> QED
      BY <2>2, <3>2, <3>3, <3>4 DEF OneWriter
  <2>5. CASE BornDead(s, x, new) \/ Settles(s, x, new)
    <3>1. pc'[s] # "klee" /\ new.st # "open" /\ (pc[s] = "klee" => Target(s) = x)
      BY <2>1, <2>5 DEF BornDead, Settles
    <3>2. \A t \in Shells : pc'[t] = "klee" => dir'[Target(t)'].st = "open"
      BY <3>1, <2>2, <2>3, <1>2, <1>3
    <3>3. \A t, u \in Shells :
            pc'[t] = "klee" /\ pc'[u] = "klee" /\ Target(t)' = Target(u)' => t = u
      BY <3>1, <1>1, <1>2 DEF OneWriter
    <3>4. \A y \in Slots :
            dir'[y].st = "open" => \E t \in Shells : pc'[t] = "klee" /\ Target(t)' = y
      BY <3>1, <2>2, <1>1, <1>2 DEF OneWriter
    <3> QED
      BY <2>2, <3>2, <3>3, <3>4 DEF OneWriter
  <2> QED
    BY <2>1, <2>2, <2>4, <2>5
<1> QED
  BY <1>1, <1>4, <1>5 DEF Effect

\* A reboot settles every open directory as dead.
Died(v) == IF v.st = "open" THEN [v EXCEPT !.st = "dead"] ELSE v

LEMMA RebootEffect ==
  ASSUME IInv, Reboot
  PROVE  /\ Control' /\ Rest' /\ OneWriter' /\ dir' \in [Slots -> Entries]
         /\ dir' = [x \in Slots |-> Died(dir[x])]
<1>1. Control /\ Rest /\ dir \in [Slots -> Entries]
  BY IInvParts
<1>2. Control' /\ \A s \in Shells : pc'[s] = "idle"
  BY <1>1, RebootControl
<1>3. Rest'
  BY <1>1, BoundAssumption DEF Rest, Reboot
<1>4. dir' = [x \in Slots |-> Died(dir[x])]
  BY DEF Reboot, Died
<1>5. \A v \in Entries : Died(v) \in Entries /\ Died(v).st # "open"
  BY Ended DEF Died
<1>6. dir' \in [Slots -> Entries] /\ \A x \in Slots : dir'[x].st # "open"
  BY <1>1, <1>4, <1>5
<1>7. OneWriter'
  BY <1>2, <1>6 DEF OneWriter
<1> QED
  BY <1>2, <1>3, <1>4, <1>6, <1>7

LEMMA InitIInv == Init => IInv
<1> SUFFICES ASSUME Init PROVE IInv
  OBVIOUS
<1>1. dir = [x \in Slots |-> NotRun] /\ NotRun \in Entries
  BY DEF Init, NotRun, Entries
<1>2. /\ pc \in [Shells -> Labels] /\ \A s \in Shells : pc[s] = "idle"
  BY DEF Init, Labels
<1>3. pos \in [Shells -> Positions] /\ env \in [Shells -> Envs]
  BY FreshTyped DEF Init, AtEnd, Positions
<1>4. Control
  BY <1>2, <1>3 DEF Control, ControlOf, Working
<1>5. Rest
  <2>1. log \in Seq(LogLines)
    BY DEF Init
  <2> QED
    BY <2>1, BoundAssumption DEF Rest, Init, Places, Suites
<1>6. dir \in [Slots -> Entries] /\ \A x \in Slots : dir[x].st = "absent"
  BY <1>1 DEF NotRun
<1>7. OneWriter
  BY <1>2, <1>6 DEF OneWriter
<1> QED
  BY <1>4, <1>5, <1>6, <1>7, IInvParts

(* Each step is a step of one shell or a reboot.                            *)
LEMMA Steps ==
  ASSUME IInv, Next
  PROVE  \/ \E s \in Shells : Control' /\ Rest' /\ Effect(s)
         \/ Reboot
<1>1. ASSUME NEW s \in Shells,
             \/ \E top \in Menu[s] : Launch(s, top)
             \/ Step(s) \/ EndKlee(s) \/ Kill(s)
      PROVE  Control' /\ Rest' /\ Effect(s)
  BY <1>1, QuietEffect, StartKleeEffect, LoseSandboxEffect, EndKleeEffect, KillEffect
  DEF Step
<1> QED
  BY <1>1 DEF Next

LEMMA NextIInv == IInv /\ [Next]_vars => IInv'
<1> SUFFICES ASSUME IInv, [Next]_vars PROVE IInv'
  OBVIOUS
<1>1. Control' /\ Rest' /\ dir' \in [Slots -> Entries] /\ OneWriter' => IInv'
  BY DEF IInv, Control, ControlOf, Rest, TypeOK
<1>2. CASE \E s \in Shells : Control' /\ Rest' /\ Effect(s)
  BY <1>1, <1>2, EffectKeepsOneWriter
<1>3. CASE Reboot
  BY <1>1, <1>3, RebootEffect
<1>4. CASE UNCHANGED vars
  BY <1>4 DEF vars, IInv, TypeOK, Working, OneWriter, Target, Leg, JobOf
<1> QED
  BY <1>2, <1>3, <1>4, Steps

(* Every label, directory and command is of its type in every reachable     *)
(* state, and a working shell is at a leg and a job that its script has.    *)
THEOREM TypeCorrect == Spec => []TypeOK
<1>1. IInv => TypeOK
  BY DEF IInv
<1> QED
  BY <1>1, InitIInv, NextIInv, PTL DEF Spec

(* No two KLEEs ever write one directory and none outlives the script that  *)
(* waits for it, however many shells, scripts, kills and reboots there are. *)
THEOREM OneWriterEach == Spec => []OneWriter
<1>1. IInv => OneWriter
  BY DEF IInv
<1> QED
  BY <1>1, InitIInv, NextIInv, PTL DEF Spec
-----------------------------------------------------------------------------
(* Labels. *)

Labelled ==
  \A x \in Slots : Opened(x) =>
    /\ dir[x].by \in Commands
    /\ OwnInput(x, dir[x].by) /\ Honest(x, dir[x].by.opts) /\ Matched(x, dir[x].by.opts)

LEMMA EffectKeepsLabels ==
  ASSUME IInv, Labelled, NEW s \in Shells, Effect(s)
  PROVE  Labelled'
<1>1. Control /\ dir \in [Slots -> Entries]
  BY IInvParts
<1>2. \A x \in Slots : \A c :
         /\ OwnInput(x, c)' <=> OwnInput(x, c)
         /\ Honest(x, c)' <=> Honest(x, c)
         /\ Matched(x, c)' <=> Matched(x, c)
  BY DEF OwnInput, Honest, Matched, CexOf, Owner, IsUtil, IsDsmm
<1>3. CASE dir' = dir
  BY <1>2, <1>3 DEF Labelled, Opened
<1>4. CASE Writes(s)
  <2>1. PICK x \in Slots, new \in Entries :
          /\ x = Target(s) /\ dir' = [dir EXCEPT ![x] = new]
          /\ pc[s] \notin {"idle", "leg", "prepare"}
          /\ Opens(s, x, new) \/ BornDead(s, x, new) \/ Settles(s, x, new)
    BY <1>4 DEF Writes
  <2>2. dir'[x] = new /\ \A y \in Slots \ {x} : dir'[y] = dir[y]
    BY <1>1, <2>1
  <2>3. /\ new.by \in Commands
        /\ OwnInput(x, new.by) /\ Honest(x, new.by.opts) /\ Matched(x, new.by.opts)
    <3>1. CASE Opens(s, x, new) \/ BornDead(s, x, new)
      BY <3>1, <2>1, <1>1, CommandTyped DEF Opens, BornDead
    <3>2. CASE Settles(s, x, new)
      <4>1. dir[x].st = "open" /\ new.by = dir[x].by
        BY <3>2, <2>1, IInvParts DEF Settles, OneWriter
      <4> QED
        BY <4>1 DEF Labelled, Opened
    <3> QED
      BY <2>1, <3>1, <3>2
  <2> QED
    BY <1>2, <2>2, <2>3 DEF Labelled, Opened
<1> QED
  BY <1>3, <1>4 DEF Effect

LEMMA RebootKeepsLabels ==
  ASSUME IInv, Labelled, Reboot
  PROVE  Labelled'
<1>1. dir \in [Slots -> Entries] /\ dir' = [x \in Slots |-> Died(dir[x])]
  BY IInvParts, RebootEffect
<1>2. ASSUME NEW x \in Slots
      PROVE  /\ dir'[x].by = dir[x].by
             /\ dir'[x].st = "absent" <=> dir[x].st = "absent"
  <2>1. dir[x] \in Entries /\ dir'[x] = Died(dir[x])
    BY <1>1
  <2> QED
    BY <2>1, Ended DEF Died
<1>3. \A x \in Slots : \A c :
         /\ OwnInput(x, c)' <=> OwnInput(x, c)
         /\ Honest(x, c)' <=> Honest(x, c)
         /\ Matched(x, c)' <=> Matched(x, c)
  BY DEF OwnInput, Honest, Matched, CexOf, Owner, IsUtil, IsDsmm
<1> QED
  BY <1>2, <1>3 DEF Labelled, Opened

LEMMA LabelledAlways == Spec => []Labelled
<1>1. Init => Labelled
  BY DEF Init, Labelled, Opened, NotRun
<1>2. IInv /\ Labelled /\ [Next]_vars => Labelled'
  <2> SUFFICES ASSUME IInv, Labelled, [Next]_vars PROVE Labelled'
    OBVIOUS
  <2>1. CASE \E s \in Shells : Control' /\ Rest' /\ Effect(s)
    BY <2>1, EffectKeepsLabels
  <2>2. CASE Reboot
    BY <2>2, RebootKeepsLabels
  <2>3. CASE UNCHANGED vars
    BY <2>3
    DEF vars, Labelled, Opened, OwnInput, Honest, Matched, CexOf, Owner, IsUtil, IsDsmm
  <2> QED
    BY <2>1, <2>2, <2>3, Steps
<1> QED
  BY <1>1, <1>2, InitIInv, NextIInv, PTL DEF Spec

(* What runs in a benchmark's directory is given that benchmark's options   *)
(* once, its bitcode, its arguments and its template, whatever ran before   *)
(* in the same shell.                                                       *)
THEOREM OwnInputsEach == Spec => []OwnInputs
<1>1. Labelled => OwnInputs
  BY DEF Labelled, OwnInputs, OwnInput
<1> QED
  BY <1>1, LabelledAlways, PTL

(* The path of a directory tells the experiment that ran in it.             *)
THEOREM LabelHonestEach == Spec => []LabelHonest
<1>1. Labelled => LabelHonest
  BY DEF Labelled, LabelHonest, Honest
<1> QED
  BY <1>1, LabelledAlways, PTL

(* The two runs that a report compares have the same options but for what   *)
(* is measured, and the same inputs.                                        *)
THEOREM PairsComparableEach == Spec => []PairsComparable
<1>1. Labelled => PairsComparable
  <2> SUFFICES ASSUME Labelled, NEW x \in Slots, NEW y \in Slots, Opened(x), Opened(y),
                      x.suite = y.suite, x.prog = y.prog,
                      x.suite \in FmmSuites \cup DsmmSuites
               PROVE  LET a == dir[x].by
                          b == dir[y].by
                      IN /\ a.opts.cex = b.opts.cex
                         /\ a.opts.rebase = b.opts.rebase
                         /\ a.opts.limit = b.opts.limit
                         /\ a.args = b.args /\ a.bc = b.bc /\ a.flags = b.flags
    BY DEF PairsComparable
  <2> DEFINE a == dir[x].by
             b == dir[y].by
  <2>1. /\ a \in Commands /\ OwnInput(x, a) /\ Honest(x, a.opts) /\ Matched(x, a.opts)
        /\ b \in Commands /\ OwnInput(y, b) /\ Honest(y, b.opts) /\ Matched(y, b.opts)
    BY DEF Labelled
  <2>2. a.opts \in Options /\ b.opts \in Options
    BY <2>1 DEF Commands
  <2> HIDE DEF a, b
  <2>3. a.args = b.args /\ a.bc = b.bc /\ a.flags = b.flags
    BY <2>1 DEF OwnInput, Owner, IsUtil
  <2>4. /\ a.opts.rebase \in BOOLEAN /\ b.opts.rebase \in BOOLEAN
        /\ a.opts.limit \in BOOLEAN /\ b.opts.limit \in BOOLEAN
    BY <2>2 DEF Options
  <2>5. IsDsmm(x) <=> IsDsmm(y)
    BY DEF IsDsmm, Slots, Slot, FmmSuites, DsmmSuites
  <2> QED
    BY <2>1, <2>3, <2>4, <2>5 DEF Honest, Matched, CexOf, IsUtil, a, b
<1> QED
  BY <1>1, LabelledAlways, PTL
-----------------------------------------------------------------------------
(* The scripts implement a store that is written once. *)

LEMMA EffectInStore ==
  ASSUME IInv, NEW s \in Shells, Effect(s)
  PROVE  Store!Next \/ UNCHANGED dir
<1>1. dir \in [Slots -> Entries] /\ OneWriter
  BY IInvParts
<1>2. CASE Writes(s)
  <2>1. PICK x \in Slots, new \in Entries :
          /\ x = Target(s) /\ dir' = [dir EXCEPT ![x] = new]
          /\ Opens(s, x, new) \/ BornDead(s, x, new) \/ Settles(s, x, new)
    BY <1>2 DEF Writes
  <2>2. dir'[x] = new /\ dir' = [dir EXCEPT ![x] = dir'[x]]
    BY <1>1, <2>1
  <2>3. CASE Opens(s, x, new)
    BY <2>2, <2>3 DEF Opens, Store!Next, Store!Create, Store!Absent
  <2>4. CASE BornDead(s, x, new)
    BY <2>2, <2>4 DEF BornDead, Store!Next, Store!Stillborn, Store!Absent
  <2>5. CASE Settles(s, x, new)
    <3>1. dir[x].st = "open"
      BY <2>1, <2>5, <1>1 DEF Settles, OneWriter
    <3> QED
      BY <2>2, <2>5, <3>1 DEF Settles, Store!Next, Store!Settle, Store!Open
  <2> QED
    BY <2>1, <2>3, <2>4, <2>5
<1> QED
  BY <1>2 DEF Effect

(* Every campaign is a behaviour of the result store: a directory is        *)
(* created once, keeps its command line, and never changes once settled.    *)
THEOREM Refinement == Spec => WriteOnce
<1>1. Init => Store!Init
  <2>1. NotRun.st = "absent"
    BY DEF NotRun
  <2>2. Init => \A x \in Slots : dir[x].st = "absent"
    BY <2>1 DEF Init
  <2> QED
    BY <2>2 DEF Store!Init
<1>2. IInv /\ [Next]_vars => Store!Next \/ UNCHANGED dir
  <2> SUFFICES ASSUME IInv, [Next]_vars PROVE Store!Next \/ UNCHANGED dir
    OBVIOUS
  <2>1. CASE \E s \in Shells : Control' /\ Rest' /\ Effect(s)
    BY <2>1, EffectInStore
  <2>2. CASE Reboot
    BY <2>2 DEF Reboot, Store!Next, Store!Crash, Store!Open
  <2>3. CASE UNCHANGED vars
    BY <2>3 DEF vars
  <2> QED
    BY <2>1, <2>2, <2>3, Steps
<1> QED
  BY <1>1, <1>2, InitIInv, NextIInv, PTL DEF Spec, WriteOnce, Store!Spec
-----------------------------------------------------------------------------
(***************************************************************************)
(* What a campaign can rely on while its operator works in one shell: the  *)
(* sandbox, the status log and the directories that one leg leaves for the *)
(* next.  With two shells none of this holds, because nothing locks them.  *)
(***************************************************************************)
OneShell == \A s, t \in Shells : s = t

-----------------------------------------------------------------------------
(* Where a step leads. *)

\* The shell goes on with the next job, the next leg, or exits.
Onward(s) ==
  \/ /\ pc'[s] = "job" /\ Leg(s)' = Leg(s)
     /\ pos'[s].top = pos[s].top /\ pos'[s].leg = pos[s].leg
     /\ pos'[s].job = pos[s].job + 1
  \/ /\ pc'[s] = "leg"
     /\ pos'[s].top = pos[s].top /\ pos'[s].leg = pos[s].leg + 1 /\ pos'[s].job = 1
  \/ pc'[s] = "idle"

LEMMA NextJobPlaces ==
  ASSUME Control, NEW s \in Shells, NextJob(s)
  PROVE  Onward(s)
<1>1. /\ pc \in [Shells -> Labels] /\ pos \in [Shells -> Positions]
      /\ pos[s] \in Positions /\ pos[s].leg \in Nat /\ pos[s].job \in Nat
  BY DEF Control, Positions
<1>2. ASSUME NEW k \in Nat
      PROVE  /\ [pos[s] EXCEPT !.job = k].top = pos[s].top
             /\ [pos[s] EXCEPT !.job = k].leg = pos[s].leg
             /\ [pos[s] EXCEPT !.job = k].job = k
  BY <1>1 DEF Positions
<1>3. ASSUME NEW i \in Nat
      PROVE  /\ [pos[s] EXCEPT !.leg = i, !.job = 1].top = pos[s].top
             /\ [pos[s] EXCEPT !.leg = i, !.job = 1].leg = i
             /\ [pos[s] EXCEPT !.leg = i, !.job = 1].job = 1
  BY <1>1 DEF Positions
<1>4. CASE pos' = [pos EXCEPT ![s].job = @ + 1] /\ Goto(s, "job")
  <2>1. pos'[s] = [pos[s] EXCEPT !.job = pos[s].job + 1] /\ pc'[s] = "job"
    BY <1>1, <1>4 DEF Goto
  <2>2. /\ pos'[s].top = pos[s].top /\ pos'[s].leg = pos[s].leg
        /\ pos'[s].job = pos[s].job + 1
    BY <1>1, <1>2, <2>1
  <2> QED
    BY <2>1, <2>2 DEF Onward, Leg
<1>5. CASE pos' = [pos EXCEPT ![s].leg = @ + 1, ![s].job = 1] /\ Goto(s, "leg")
  <2>1. pos'[s] = [pos[s] EXCEPT !.leg = pos[s].leg + 1, !.job = 1] /\ pc'[s] = "leg"
    BY <1>1, <1>5 DEF Goto
  <2> QED
    BY <1>1, <1>3, <2>1 DEF Onward
<1>6. CASE Exits(s)
  BY <1>1, <1>6 DEF Exits, Goto, Onward
<1> QED
  BY <1>4, <1>5, <1>6 DEF NextJob

LEMMA KleeReturnsPlaces ==
  ASSUME Control, NEW s \in Shells, NEW code \in {0, 1}, KleeReturns(s, code),
         status \in [Shells -> {0, 1}]
  PROVE  \/ /\ Logged(Leg(s)) /\ pc'[s] = "log" /\ status'[s] = code
            /\ pos' = pos /\ env' = env /\ Leg(s)' = Leg(s) /\ JobOf(s)' = JobOf(s)
         \/ ~Logged(Leg(s)) /\ Onward(s) /\ status' = status
<1>1. pc \in [Shells -> Labels]
  BY DEF Control
<1>2. CASE ~Logged(Leg(s)) /\ NextJob(s) /\ UNCHANGED status
  BY <1>2, NextJobPlaces
<1>3. CASE /\ Logged(Leg(s))
           /\ status' = [status EXCEPT ![s] = code]
           /\ Goto(s, "log")
           /\ UNCHANGED <<pos, env>>
  BY <1>1, <1>3 DEF Goto, Leg, JobOf
<1> QED
  BY <1>2, <1>3 DEF KleeReturns

(* The label a step leads to.                                               *)
LEMMA Leads ==
  ASSUME IInv, NEW s \in Shells
  PROVE  /\ \A top \in Menu[s] : Launch(s, top) => pc'[s] = "leg"
         /\ Source(s) => pc'[s] = "prepare"
         /\ MakeDir(s) \/ RemoveLog(s) => pc'[s] = "job" /\ Leg(s)' = Leg(s)
         /\ RemoveSandbox(s) => pc'[s] = "untar" /\ Leg(s)' = Leg(s)
         /\ UnpackSandbox(s) => pc'[s] = "klee?" /\ Leg(s)' = Leg(s)
         /\ StartKlee(s) => pc'[s] = "klee" /\ Leg(s)' = Leg(s)
         /\ Kill(s) => pc'[s] = "idle"
         /\ \A t \in Shells : Reboot => pc'[t] = "idle"
<1>1. pc \in [Shells -> Labels]
  BY DEF IInv, TypeOK
<1>2. \A top \in Menu[s] : Launch(s, top) => pc'[s] = "leg"
  BY <1>1 DEF Launch, Goto
<1>3. Source(s) => pc'[s] = "prepare"
  BY <1>1 DEF Source, Goto
<1>4. MakeDir(s) \/ RemoveLog(s) => pc'[s] = "job" /\ Leg(s)' = Leg(s)
  BY <1>1 DEF MakeDir, RemoveLog, Goto, Leg
<1>5. /\ RemoveSandbox(s) => pc'[s] = "untar" /\ Leg(s)' = Leg(s)
      /\ UnpackSandbox(s) => pc'[s] = "klee?" /\ Leg(s)' = Leg(s)
  BY <1>1 DEF RemoveSandbox, UnpackSandbox, Goto, Leg
<1>6. StartKlee(s) => pc'[s] = "klee" /\ Leg(s)' = Leg(s)
  BY <1>1 DEF StartKlee, Goto, Leg
<1>7. Kill(s) => pc'[s] = "idle"
  BY <1>1 DEF Kill, Exits, Goto
<1>8. \A t \in Shells : Reboot => pc'[t] = "idle"
  BY DEF Reboot
<1> QED
  BY <1>2, <1>3, <1>4, <1>5, <1>6, <1>7, <1>8

(* A step is one of these, by one shell, or a reboot.                       *)
LEMMA Actions ==
  ASSUME Next
  PROVE  \/ \E s \in Shells :
              \/ \E top \in Menu[s] : Launch(s, top)
              \/ Source(s) \/ MakeDir(s) \/ RemoveLog(s)
              \/ RemoveSandbox(s) \/ UnpackSandbox(s)
              \/ StartKlee(s) \/ LoseSandbox(s) \/ RefuseKlee(s)
              \/ EndKlee(s) \/ WriteLog(s) \/ Kill(s)
         \/ Reboot
BY DEF Next, Step

-----------------------------------------------------------------------------
(* The baseline of a utility starts in a clean sandbox. *)

Baseline(x) == x.suite = "overhead_fmm" /\ x.role = "out-klee" /\ IsUtil(x)

\* Between the two halves of reset and KLEE nobody else is in the sandbox.
Unpacked == \A s \in Shells : pc[s] = "klee?" => sandbox = "clean"

\* What a step does to the sandbox that a directory was made in.
BoxesKept == \A x \in Slots : Opened(x)' => Opened(x) /\ dir'[x].box = dir[x].box

LEMMA BaselineResets ==
  ASSUME IInv, NEW s \in Shells, AtKlee(s), Baseline(Target(s))
  PROVE  pc[s] = "klee?" /\ Logged(Leg(s))
<1>1. Control /\ pc[s] \in {"job", "klee?"}
  BY IInvParts DEF AtKlee
<1>2. /\ Target(s) = Output(Leg(s), JobOf(s)) /\ LegOK(Leg(s))
      /\ pos[s].job \in DOMAIN Jobs(Leg(s)) /\ JobOf(s) = Jobs(Leg(s))[pos[s].job]
  BY <1>1, TargetFacts, WorkingLeg DEF JobOf
<1>3. /\ Leg(s).suite = "overhead_fmm" /\ JobOf(s).role = "out-klee"
      /\ Target(s).prog = (IF JobOf(s).name = None THEN Leg(s).prog ELSE JobOf(s).name)
      /\ Target(s).prog \in Utilities
  BY <1>2 DEF Baseline, Output, Slot, IsUtil
<1>4. JobOf(s).fn = "run_klee" /\ Leg(s).prog \in {"libosip", "libyaml", "coreutils"}
  BY <1>2, <1>3, JobRunners DEF RunsWith
<1>5. Logged(Leg(s))
  <2>1. CASE ~ Logged(Leg(s))
    <3>1. JobOf(s).name = Leg(s).prog
      BY <1>2, <1>3, <2>1, JobFacts
    <3> QED
      BY <1>3, <1>4, <3>1, NamesAssumption DEF Programs
  <2> QED
    BY <2>1
<1> QED
  BY <1>4, <1>5 DEF AtKlee, Resets

\* Ending keeps the sandbox a directory was made in.
LEMMA BoxOf ==
  ASSUME NEW v \in Entries, NEW st \in {"done", "dead"}, NEW r
  PROVE  /\ [v EXCEPT !.st = st].box = v.box
         /\ [v EXCEPT !.st = st, !.res = r].box = v.box
         /\ [v EXCEPT !.st = st].st = st
         /\ [v EXCEPT !.st = st, !.res = r].st = st
BY DEF Entries

LEMMA EndsKeepBoxes ==
  ASSUME IInv, NEW s \in Shells, EndKlee(s) \/ Kill(s) \/ Reboot
  PROVE  BoxesKept
<1>1. Control /\ dir \in [Slots -> Entries] /\ OneWriter
  BY IInvParts
<1>2. ASSUME NEW x \in Slots, x = Target(s), pc[s] = "klee",
             NEW v, dir' = [dir EXCEPT ![x] = v], v.box = dir[x].box
      PROVE  BoxesKept
  <2>1. dir[x].st = "open"
    BY <1>1, <1>2 DEF OneWriter
  <2>2. dir'[x] = v /\ \A y \in Slots \ {x} : dir'[y] = dir[y]
    BY <1>1, <1>2
  <2> QED
    BY <1>2, <2>1, <2>2 DEF BoxesKept, Opened
<1>3. pc[s] = "klee" => Target(s) \in Slots /\ dir[Target(s)] \in Entries
  BY <1>1, TargetFacts
<1>4. CASE DieKlee(s)
  <2>1. pc[s] = "klee" /\ dir' = [dir EXCEPT ![Target(s)] = [dir[Target(s)] EXCEPT !.st = "dead"]]
    BY <1>4 DEF DieKlee
  <2> QED
    BY <1>2, <1>3, <2>1, BoxOf
<1>5. CASE \E r \in Results : FinishKlee(s, r)
  <2>1. PICK r \in Results : FinishKlee(s, r)
    BY <1>5
  <2>2. /\ pc[s] = "klee"
        /\ dir' = [dir EXCEPT ![Target(s)] =
                     [dir[Target(s)] EXCEPT !.st = "done", !.res = r]]
    BY <1>1, <1>3, <2>1 DEF FinishKlee
  <2> QED
    BY <1>2, <1>3, <2>2, BoxOf
<1>6. CASE Kill(s)
  <2>1. CASE pc[s] = "klee"
    <3>1. dir' = [dir EXCEPT ![Target(s)] = [dir[Target(s)] EXCEPT !.st = "dead"]]
      BY <1>6, <2>1 DEF Kill
    <3> QED
      BY <1>2, <1>3, <2>1, <3>1, BoxOf
  <2>2. CASE pc[s] # "klee"
    BY <1>6, <2>2 DEF Kill, BoxesKept, Opened
  <2> QED
    BY <2>1, <2>2
<1>7. CASE Reboot
  <2>1. \A x \in Slots : dir'[x] = Died(dir[x]) /\ dir[x] \in Entries
    BY <1>1, <1>7, RebootEffect
  <2>2. \A v \in Entries : Died(v).box = v.box /\ (Died(v).st # "absent" => v.st # "absent")
    BY BoxOf DEF Died
  <2> QED
    BY <2>1, <2>2 DEF BoxesKept, Opened
<1> QED
  BY <1>4, <1>5, <1>6, <1>7 DEF EndKlee

LEMMA UnpackedKept ==
  ASSUME OneShell, IInv, Unpacked, Next
  PROVE  Unpacked'
<1>1. Control /\ Rest /\ pc \in [Shells -> Labels]
  BY IInvParts DEF Control
<1> SUFFICES ASSUME NEW s \in Shells, pc'[s] = "klee?" PROVE sandbox' = "clean"
  BY DEF Unpacked
<1>2. \A t \in Shells : t = s
  BY DEF OneShell
<1>3. ~ Reboot
  BY Leads
<1>4. \A code \in {0, 1} : ~ KleeReturns(s, code)
  BY <1>1, KleeReturnsPlaces DEF Rest, Onward
<1>5. ~ NextJob(s)
  BY <1>1, NextJobPlaces DEF Onward
<1>6. ~ (LoseSandbox(s) \/ RefuseKlee(s) \/ EndKlee(s) \/ WriteLog(s))
  BY <1>4, <1>5 DEF LoseSandbox, RefuseKlee, EndKlee, FinishKlee, DieKlee, WriteLog
<1>7. UnpackSandbox(s)
  <2>1. \/ \E top \in Menu[s] : Launch(s, top)
        \/ Source(s) \/ MakeDir(s) \/ RemoveLog(s)
        \/ RemoveSandbox(s) \/ UnpackSandbox(s) \/ StartKlee(s) \/ Kill(s)
    BY <1>2, <1>3, <1>6, Actions
  <2> QED
    BY <2>1, Leads
<1> QED
  BY <1>7 DEF UnpackSandbox

LEMMA BaselineKept ==
  ASSUME IInv, Unpacked, BaselineClean, Next
  PROVE  BaselineClean'
<1>1. Control /\ dir \in [Slots -> Entries]
  BY IInvParts
<1>2. \A x : Baseline(x)' <=> Baseline(x)
  BY DEF Baseline, IsUtil
<1>3. CASE BoxesKept
  BY <1>3 DEF BaselineClean, BoxesKept, IsUtil
<1>4. ASSUME NEW s \in Shells, StartKlee(s) \/ LoseSandbox(s)
      PROVE  BaselineClean'
  <2> DEFINE x == Target(s)
  <2>1. AtKlee(s) /\ x \in Slots
    BY <1>1, <1>4, TargetFacts DEF StartKlee, LoseSandbox, AtKlee
  <2>2. Baseline(x) => pc[s] = "klee?" /\ Logged(Leg(s)) /\ sandbox = "clean"
    BY <2>1, BaselineResets DEF Unpacked
  <2>3. \E new : dir' = [dir EXCEPT ![x] = new] /\ (Baseline(x) => new.box = "clean")
    <3>1. CASE StartKlee(s)
      <4> DEFINE new == [st |-> "open", by |-> Command(env[s], Leg(s), JobOf(s)),
                         box |-> IF Logged(Leg(s)) THEN sandbox ELSE None, res |-> None]
      <4>1. dir' = [dir EXCEPT ![x] = new]
        BY <3>1 DEF StartKlee
      <4>2. Baseline(x) => new.box = "clean"
        BY <2>2
      <4> HIDE DEF new
      <4> QED
        BY <4>1, <4>2
    <3>2. CASE LoseSandbox(s)
      BY <2>1, <2>2, <3>2 DEF LoseSandbox
    <3> QED
      BY <1>4, <3>1, <3>2
  <2>4. PICK new : dir' = [dir EXCEPT ![x] = new] /\ (Baseline(x) => new.box = "clean")
    BY <2>3
  <2> HIDE DEF x
  <2>5. dir'[x] = new /\ \A y \in Slots \ {x} : dir'[y] = dir[y]
    BY <1>1, <2>1, <2>4
  <2> QED
    BY <2>4, <2>5 DEF BaselineClean, Opened, Baseline, IsUtil
<1>5. ASSUME NEW s \in Shells,
             \/ \E top \in Menu[s] : Launch(s, top)
             \/ Source(s) \/ MakeDir(s) \/ RemoveLog(s)
             \/ RemoveSandbox(s) \/ UnpackSandbox(s) \/ RefuseKlee(s) \/ WriteLog(s)
      PROVE  dir' = dir
  BY <1>5 DEF Launch, Source, MakeDir, RemoveLog, RemoveSandbox, UnpackSandbox, RefuseKlee,
     WriteLog, files
<1>6. dir' = dir => BoxesKept
  BY DEF BoxesKept, Opened
<1>7. ASSUME NEW s \in Shells, EndKlee(s) \/ Kill(s) \/ Reboot
      PROVE  BaselineClean'
  BY <1>3, <1>7, EndsKeepBoxes
<1>8. Reboot => \E s \in Shells : TRUE
  BY DEF Reboot
<1> QED
  BY <1>3, <1>4, <1>5, <1>6, <1>7, <1>8, Actions

(* The baseline run of a utility starts in a freshly unpacked sandbox,      *)
(* whatever the shell ran before and wherever it was killed or rebooted.    *)
THEOREM BaselineCleanAlone ==
  ASSUME OneShell
  PROVE  Spec => []BaselineClean
<1>1. Init => Unpacked /\ BaselineClean
  BY DEF Init, Unpacked, BaselineClean, Opened, NotRun
<1>2. IInv /\ Unpacked /\ BaselineClean /\ [Next]_vars => Unpacked' /\ BaselineClean'
  <2>1. CASE Next
    BY <2>1, UnpackedKept, BaselineKept
  <2>2. CASE UNCHANGED vars
    BY <2>2 DEF vars, Unpacked, BaselineClean, Opened, IsUtil
  <2> QED
    BY <2>1, <2>2
<1> QED
  BY <1>1, <1>2, InitIInv, NextIInv, PTL DEF Spec

-----------------------------------------------------------------------------
(* The status log follows the loop. *)

Looping(s) == pc[s] \in {"job", "untar", "klee?", "klee", "log"} /\ Logged(Leg(s))

\* Line i of the log tells the truth about job i of leg l.
Told(l, i) ==
  LET j == Jobs(l)[i] IN
  /\ log[i].name = j.name /\ log[i].role = j.role
  /\ log[i].status = 0 => dir[Output(l, j)].st = "done"

LogOf(s) ==
  /\ pc[s] \in {"leg", "prepare"} => pos[s].job = 1
  /\ Looping(s) => Len(log) = pos[s].job - 1 /\ \A i \in 1 .. Len(log) : Told(Leg(s), i)
  /\ pc[s] = "log" /\ status[s] = 0 => dir[Output(Leg(s), JobOf(s))].st = "done"

Logs == \A s \in Shells : LogOf(s)

\* A run that ended well stays so.
DoneKept == \A x \in Slots : dir[x].st = "done" => dir'[x].st = "done"

LEMMA EveryStepKeepsDone ==
  ASSUME IInv, Next
  PROVE  DoneKept
<1>1. Control /\ dir \in [Slots -> Entries] /\ OneWriter
  BY IInvParts
<1>2. ASSUME NEW s \in Shells, Effect(s) PROVE DoneKept
  <2>1. CASE dir' = dir
    BY <2>1 DEF DoneKept
  <2>2. CASE Writes(s)
    <3>1. PICK x \in Slots, new \in Entries :
            /\ x = Target(s) /\ dir' = [dir EXCEPT ![x] = new]
            /\ Opens(s, x, new) \/ BornDead(s, x, new) \/ Settles(s, x, new)
      BY <2>2 DEF Writes
    <3>2. dir[x].st # "done"
      BY <1>1, <3>1 DEF Opens, BornDead, Settles, OneWriter
    <3>3. \A y \in Slots \ {x} : dir'[y] = dir[y]
      BY <1>1, <3>1
    <3> QED
      BY <3>2, <3>3 DEF DoneKept
  <2> QED
    BY <1>2, <2>1, <2>2 DEF Effect
<1>3. CASE Reboot
  <2>1. \A x \in Slots : dir'[x] = Died(dir[x])
    BY <1>1, <1>3, RebootEffect
  <2> QED
    BY <2>1 DEF Died, DoneKept
<1> QED
  BY <1>2, <1>3, Steps

\* The shell goes on at a job of the same leg.
LEMMA OnwardInLoop ==
  ASSUME NEW s \in Shells, Onward(s)
  PROVE  /\ pc'[s] \in {"leg", "prepare"} => pos'[s].job = 1
         /\ pc'[s] # "log"
         /\ Looping(s)' => /\ Logged(Leg(s)) /\ Leg(s)' = Leg(s)
                           /\ pos'[s].job = pos[s].job + 1 /\ pc'[s] = "job"
BY DEF Onward, Looping, Logged

\* The lines so far stay true.
LEMMA ToldStays ==
  ASSUME IInv, DoneKept, NEW s \in Shells, pc[s] # "idle", Looping(s),
         NEW i \in 1 .. Len(log), i < pos[s].job, Told(Leg(s), i), log'[i] = log[i],
         Leg(s)' = Leg(s)
  PROVE  Told(Leg(s), i)'
<1>1. LegOK(Leg(s)) /\ i \in DOMAIN Jobs(Leg(s))
  BY IInvParts, WorkingLeg
<1>2. Output(Leg(s), Jobs(Leg(s))[i]) \in Slots
  BY <1>1, JobFacts
<1>3. /\ Jobs(Leg(s))' = Jobs(Leg(s))
      /\ Output(Leg(s), Jobs(Leg(s))[i])' = Output(Leg(s), Jobs(Leg(s))[i])
  BY DEF Jobs, Output
<1> QED
  BY <1>2, <1>3 DEF Told, DoneKept

\* Nothing is written to the log, and the shell stays at its job.
LEMMA LogUnwritten ==
  ASSUME IInv, DoneKept, NEW s \in Shells, pc[s] # "idle", LogOf(s),
         log' = log, pos' = pos, pc'[s] \notin {"leg", "prepare"},
         Looping(s)' => Looping(s),
         pc'[s] = "log" /\ status'[s] = 0 => dir'[Target(s)].st = "done",
         pc'[s] = "log" => pc[s] \notin {"leg", "prepare"}
  PROVE  LogOf(s)'
<1>1. /\ Control /\ pos[s].job \in Nat /\ Len(log) \in Nat
      /\ Leg(s)' = Leg(s) /\ JobOf(s)' = JobOf(s)
  BY IInvParts, WorkingLeg DEF Leg, JobOf, Rest
<1>2. Looping(s)' => Len(log') = pos'[s].job - 1 /\ \A i \in 1 .. Len(log') : Told(Leg(s), i)'
  <2> SUFFICES ASSUME Looping(s)'
               PROVE  Len(log) = pos[s].job - 1 /\ \A i \in 1 .. Len(log) : Told(Leg(s), i)'
    OBVIOUS
  <2>1. Looping(s) /\ Len(log) = pos[s].job - 1 /\ \A i \in 1 .. Len(log) : Told(Leg(s), i)
    BY DEF LogOf
  <2>2. ASSUME NEW i \in 1 .. Len(log) PROVE Told(Leg(s), i)'
    BY <1>1, <2>1, <2>2, ToldStays
  <2> QED
    BY <2>1, <2>2
<1>3. pc'[s] = "log" => Target(s) = Output(Leg(s), JobOf(s))
  BY <1>1, TargetFacts
<1>4. Output(Leg(s), JobOf(s))' = Output(Leg(s), JobOf(s))
  BY <1>1 DEF Output
<1> QED
  BY <1>2, <1>3, <1>4 DEF LogOf

LEMMA ReturnKeepsLogs ==
  ASSUME IInv, DoneKept, NEW s \in Shells, LogOf(s), NEW code \in {0, 1},
         pc[s] \in {"job", "klee?", "klee"}, KleeReturns(s, code), log' = log,
         code = 0 => dir'[Target(s)].st = "done"
  PROVE  LogOf(s)'
<1>1. Control /\ status \in [Shells -> {0, 1}]
  BY IInvParts DEF Rest
<1>2. CASE /\ Logged(Leg(s)) /\ pc'[s] = "log" /\ status'[s] = code
           /\ pos' = pos /\ env' = env /\ Leg(s)' = Leg(s) /\ JobOf(s)' = JobOf(s)
  <2>1. Looping(s)
    BY <1>2 DEF Looping
  <2> QED
    BY <1>2, <2>1, LogUnwritten
<1>3. CASE ~Logged(Leg(s)) /\ Onward(s) /\ status' = status
  <2>1. /\ pc'[s] \in {"leg", "prepare"} => pos'[s].job = 1
        /\ pc'[s] # "log" /\ ~ Looping(s)'
    BY <1>3, OnwardInLoop
  <2> QED
    BY <2>1 DEF LogOf
<1> QED
  BY <1>1, <1>2, <1>3, KleeReturnsPlaces

LEMMA WriteLogKeepsLogs ==
  ASSUME IInv, DoneKept, NEW s \in Shells, LogOf(s), WriteLog(s)
  PROVE  LogOf(s)'
<1>1. /\ Control /\ log \in Seq(LogLines) /\ pc[s] = "log" /\ dir' = dir
      /\ log' = Append(log, LogLine(s)) /\ NextJob(s) /\ Onward(s)
  BY IInvParts, NextJobPlaces DEF Rest, WriteLog
<1>2. /\ pos[s].job \in Nat /\ pos[s].job \in DOMAIN Jobs(Leg(s))
      /\ JobOf(s) = Jobs(Leg(s))[pos[s].job]
  BY <1>1, WorkingLeg DEF JobOf
<1>3. /\ pc'[s] \in {"leg", "prepare"} => pos'[s].job = 1
      /\ pc'[s] # "log"
      /\ Looping(s)' => /\ Logged(Leg(s)) /\ Leg(s)' = Leg(s)
                        /\ pos'[s].job = pos[s].job + 1 /\ pc'[s] = "job"
  BY <1>1, OnwardInLoop
<1>4. Looping(s)' => Len(log') = pos'[s].job - 1 /\ \A i \in 1 .. Len(log') : Told(Leg(s), i)'
  <2> SUFFICES ASSUME Looping(s)'
               PROVE  /\ Len(log') = pos'[s].job - 1
                      /\ \A i \in 1 .. Len(log') : Told(Leg(s), i)'
    OBVIOUS
  <2>1. /\ Looping(s) /\ Leg(s)' = Leg(s) /\ pos'[s].job = pos[s].job + 1
    BY <1>1, <1>3 DEF Looping
  <2>2. Len(log) = pos[s].job - 1 /\ \A i \in 1 .. Len(log) : Told(Leg(s), i)
    BY <2>1 DEF LogOf
  <2>3. /\ Len(log) \in Nat /\ Len(log') = Len(log) + 1
        /\ \A i \in 1 .. Len(log) : log'[i] = log[i]
        /\ log'[Len(log) + 1] = LogLine(s)
    <3>1. LogLine(s) \in LogLines
      <4>1. /\ LegOK(Leg(s)) /\ status[s] \in {0, 1} /\ Logged(Leg(s))
        BY <1>1, <2>1, IInvParts, WorkingLeg DEF Rest, Looping
      <4> QED
        BY <1>2, <4>1, JobFacts DEF LogLine, LogLines
    <3> QED
      BY <1>1, <3>1
  <2>4. ASSUME NEW i \in 1 .. Len(log) PROVE Told(Leg(s), i)'
    <3>1. i < pos[s].job /\ Told(Leg(s), i) /\ log'[i] = log[i]
      BY <1>2, <2>2, <2>3
    <3>2. pc[s] # "idle"
      BY <1>1
    <3> QED
      BY <2>1, <3>1, <3>2, ToldStays
  <2>5. ASSUME NEW k \in 1 .. Len(log'), k = pos[s].job PROVE Told(Leg(s), k)'
    <3>1. log'[k] = LogLine(s) /\ JobOf(s) = Jobs(Leg(s))[k]
      BY <1>2, <2>2, <2>3, <2>5
    <3>2. status[s] = 0 => dir[Output(Leg(s), JobOf(s))].st = "done"
      BY <1>1 DEF LogOf
    <3>3. /\ Jobs(Leg(s))' = Jobs(Leg(s))
          /\ \A j : Output(Leg(s), j)' = Output(Leg(s), j)
      BY <2>1 DEF Jobs, Output
    <3>4. /\ LogLine(s).name = JobOf(s).name /\ LogLine(s).role = JobOf(s).role
          /\ LogLine(s).status = status[s]
      BY DEF LogLine
    <3>5. Jobs(Leg(s))[k]' = Jobs(Leg(s))[k]
      BY <3>3
    <3>6. dir'[Output(Leg(s), JobOf(s))] = dir[Output(Leg(s), JobOf(s))]
      BY <1>1
    <3> HIDE DEF LogLine
    <3> QED
      BY <2>1, <3>1, <3>2, <3>3, <3>4, <3>5, <3>6 DEF Told
  <2>6. Len(log') = pos'[s].job - 1
    BY <1>2, <2>1, <2>2, <2>3
  <2>7. ASSUME NEW i \in 1 .. Len(log') PROVE Told(Leg(s), i)'
    <3>1. i \in 1 .. Len(log) \/ i = pos[s].job
      BY <1>2, <2>2, <2>3
    <3> QED
      BY <2>4, <2>5, <3>1
  <2> QED
    BY <2>6, <2>7
<1> QED
  BY <1>3, <1>4 DEF LogOf

LEMMA LogsKept ==
  ASSUME OneShell, IInv, Logs, Next
  PROVE  Logs'
<1> SUFFICES ASSUME NEW s \in Shells PROVE LogOf(s)'
  BY DEF Logs
<1>1. /\ Control /\ dir \in [Slots -> Entries] /\ DoneKept /\ LogOf(s)
      /\ pc \in [Shells -> Labels] /\ pos \in [Shells -> Positions]
  BY IInvParts, EveryStepKeepsDone DEF Logs, Control
<1>2. \A t \in Shells : t = s
  BY DEF OneShell
<1>3. CASE pc'[s] = "idle"
  BY <1>3 DEF LogOf, Looping
<1>4. ASSUME NEW top \in Menu[s], Launch(s, top) PROVE LogOf(s)'
  <2>1. pc'[s] = "leg" /\ pos'[s] = [top |-> top, leg |-> 1, job |-> 1]
    BY <1>1, <1>4 DEF Launch, Goto
  <2> QED
    BY <2>1 DEF LogOf, Looping
<1>5. CASE Source(s)
  <2>1. pc[s] = "leg" /\ pc'[s] = "prepare" /\ pos'[s] = pos[s]
    BY <1>1, <1>5 DEF Source, Goto
  <2> QED
    BY <1>1, <2>1 DEF LogOf, Looping
<1>6. CASE MakeDir(s)
  <2>1. ~ Logged(Leg(s)) /\ pc'[s] = "job" /\ Leg(s)' = Leg(s)
    BY <1>1, <1>6 DEF MakeDir, Goto, Leg
  <2> QED
    BY <2>1 DEF LogOf, Looping, Logged
<1>7. CASE RemoveLog(s)
  <2>1. pc[s] = "prepare" /\ pc'[s] = "job" /\ log' = <<>> /\ pos'[s].job = pos[s].job
    BY <1>1, <1>7 DEF RemoveLog, Goto
  <2>2. pos[s].job = 1
    BY <1>1, <2>1 DEF LogOf
  <2>3. Len(log') = 0
    BY <2>1
  <2> QED
    BY <2>1, <2>2, <2>3 DEF LogOf
<1>8. CASE RemoveSandbox(s) \/ UnpackSandbox(s) \/ StartKlee(s)
  <2>1. /\ log' = log /\ pos' = pos /\ pc[s] \in {"job", "untar", "klee?"}
        /\ pc'[s] \in {"untar", "klee?", "klee"}
    BY <1>1, <1>8 DEF RemoveSandbox, UnpackSandbox, StartKlee, AtKlee, Goto
  <2>2. Looping(s)' => Looping(s)
    BY <2>1 DEF Looping, Logged, Leg
  <2> QED
    BY <1>1, <2>1, <2>2, LogUnwritten
<1>9. CASE LoseSandbox(s) \/ RefuseKlee(s) \/ DieKlee(s)
  <2>1. /\ pc[s] \in {"job", "klee?", "klee"} /\ KleeReturns(s, 1) /\ log' = log
    BY <1>9 DEF LoseSandbox, RefuseKlee, DieKlee, AtKlee, files
  <2> QED
    BY <1>1, <2>1, ReturnKeepsLogs
<1>10. ASSUME NEW r \in Results, FinishKlee(s, r) PROVE LogOf(s)'
  <2>1. pc[s] = "klee" /\ KleeReturns(s, 0) /\ log' = log
    BY <1>10 DEF FinishKlee
  <2>2. Target(s) \in Slots /\ dir[Target(s)] \in Entries
    BY <1>1, <2>1, TargetFacts
  <2>3. dir' = [dir EXCEPT ![Target(s)] = [dir[Target(s)] EXCEPT !.st = "done", !.res = r]]
    BY <1>1, <1>10, <2>2 DEF FinishKlee
  <2>4. dir'[Target(s)] = [dir[Target(s)] EXCEPT !.st = "done", !.res = r]
    BY <1>1, <2>2, <2>3
  <2>5. dir'[Target(s)].st = "done"
    BY <2>2, <2>4, BoxOf
  <2> QED
    BY <1>1, <2>1, <2>5, ReturnKeepsLogs
<1>11. CASE WriteLog(s)
  BY <1>1, <1>11, WriteLogKeepsLogs
<1>12. Kill(s) \/ Reboot => pc'[s] = "idle"
  BY Leads
<1> QED
  BY <1>2, <1>3, <1>4, <1>5, <1>6, <1>7, <1>8, <1>9, <1>10, <1>11, <1>12, Actions DEF EndKlee

\* The log's lines are about the directories that the loop names.
LEMMA LogsMatch ==
  ASSUME IInv, Logs
  PROVE  LogMatchesLoop
<1> SUFFICES ASSUME NEW s \in Shells, Looping(s)
             PROVE  /\ Len(log) = pos[s].job - 1
                    /\ \A i \in DOMAIN log :
                         LET j == Jobs(Leg(s))[i]
                         IN /\ log[i].name = j.name /\ log[i].role = j.role
                            /\ log[i].status = 0
                               => dir[OutputDir(env[s], Leg(s), j)].st = "done"
  BY DEF LogMatchesLoop, Looping
<1>1. /\ Control /\ pc[s] # "idle" /\ Logged(Leg(s)) /\ log \in Seq(LogLines)
  BY IInvParts DEF Looping, Rest
<1>2. Len(log) = pos[s].job - 1 /\ \A i \in 1 .. Len(log) : Told(Leg(s), i)
  BY DEF Logs, LogOf
<1>3. /\ LegOK(Leg(s)) /\ pos[s].job \in Nat /\ DOMAIN Jobs(Leg(s)) = 1 .. Len(Jobs(Leg(s)))
      /\ pos[s].job \in DOMAIN Jobs(Leg(s)) /\ Len(Jobs(Leg(s))) \in Nat
  BY <1>1, WorkingLeg
<1>4. ASSUME NEW i \in DOMAIN log
      PROVE  /\ Told(Leg(s), i)
             /\ OutputDir(env[s], Leg(s), Jobs(Leg(s))[i]) = Output(Leg(s), Jobs(Leg(s))[i])
  <2>1. i \in 1 .. Len(log)
    BY <1>1
  <2>2. i \in DOMAIN Jobs(Leg(s))
    BY <1>2, <1>3, <2>1
  <2>3. Jobs(Leg(s))[i].name # None
    BY <1>1, <1>3, <2>2, JobFacts, NamesAssumption
  <2> QED
    BY <1>1, <1>2, <2>1, <2>3 DEF OutputDir, Output, Parent, Slot
<1> QED
  BY <1>2, <1>4 DEF Told

(* While a coreutils loop is at a job, the status log holds one line per    *)
(* finished job, in order, and a zero status is never a lie, whatever loop  *)
(* was killed or rebooted before it.                                        *)
THEOREM LogMatchesLoopAlone ==
  ASSUME OneShell
  PROVE  Spec => []LogMatchesLoop
<1>1. Init => Logs
  BY DEF Init, Logs, LogOf, Looping
<1>2. IInv /\ Logs /\ [Next]_vars => Logs'
  <2>1. CASE Next
    BY <2>1, LogsKept
  <2>2. CASE UNCHANGED vars
    BY <2>2 DEF vars, Logs, LogOf, Looping, Told, Leg, JobOf, Output
  <2> QED
    BY <2>1, <2>2
<1> QED
  BY <1>1, <1>2, InitIInv, NextIInv, LogsMatch, PTL DEF Spec

-----------------------------------------------------------------------------
(* A leg finds what the legs before it left. *)

\* The scripts that rely on no script launched before them, with the library
\* that makes the suite's directory ahead of the coreutils loop.
Ordered ==
  /\ Overheads[1] # "coreutils"
  /\ \A s \in Shells :
       Menu[s] \cap {"run_overhead_dsmm", "coreutils_run_validation"} = {}

Above(l) == [suite |-> l.suite, prog |-> None]
Unpacks(l) == Logged(l) /\ l.suite = "overhead_fmm"

(* In these scripts a leg without a log comes before the loop of its suite, *)
(* and the loop that unpacks the sandbox before the loop that does not.     *)
LEMMA LoopsFollow ==
  ASSUME Ordered, NEW s \in Shells, NEW top \in Menu[s],
         NEW i \in DOMAIN Script[top], Logged(Script[top][i])
  PROVE  /\ \E k \in 1 .. i - 1 : /\ ~ Logged(Script[top][k])
                                  /\ Above(Script[top][k]) = Above(Script[top][i])
         /\ \/ Unpacks(Script[top][i])
            \/ \E k \in 1 .. i - 1 : Unpacks(Script[top][k])
<1> DEFINE n == Len(Overheads)
           q == Script[top]
<1>1. top \in DOMAIN Script \ {"run_overhead_dsmm", "coreutils_run_validation"}
  BY LaunchAssumption DEF Ordered
<1>2. /\ n \in Nat /\ n > 0 /\ DOMAIN Overheads = 1 .. n
      /\ DOMAIN Benchmarks = 1 .. Len(Benchmarks) /\ Len(Benchmarks) \in Nat
  BY ProgramsAssumption
<1>3. ASSUME NEW k \in DOMAIN Benchmarks PROVE Benchmarks[k] # "coreutils"
  BY ProgramsAssumption
<1>4. CASE q = run_qc_all
  <2>1. i \in 1 .. 2 * Len(Benchmarks)
    BY <1>4 DEF run_qc_all
  <2>2. (i + 1) \div 2 \in DOMAIN Benchmarks /\ (i % 2 # 1 => i \div 2 \in DOMAIN Benchmarks)
    BY <1>2, <2>1
  <2>3. q[i].prog # "coreutils"
    BY <1>3, <1>4, <2>1, <2>2 DEF run_qc_all, LegOf
  <2> QED
    BY <2>3 DEF Logged
<1>5. ASSUME NEW x, q = Each(x, Benchmarks) PROVE FALSE
  BY <1>3, <1>5 DEF Each, LegOf, Logged
<1>6. ASSUME NEW x PROVE /\ DOMAIN Each(x, Overheads) = 1 .. n
                         /\ \A k \in 1 .. n : Each(x, Overheads)[k] = LegOf(x, Overheads[k], "new")
  BY <1>2 DEF Each
<1>7. CASE q = run_overhead_fmm
  <2>1. i \in 1 .. n /\ \A k \in 1 .. n : q[k] = LegOf("overhead_fmm", Overheads[k], "new")
    BY <1>6, <1>7 DEF run_overhead_fmm
  <2>2. \A k \in 1 .. n : q[k].suite = "overhead_fmm" /\ q[k].prog = Overheads[k]
    <3> HIDE DEF q
    <3> QED
      BY <2>1, LegFields
  <2>3. /\ q[i].prog = "coreutils" /\ q[1].prog # "coreutils"
        /\ q[1].suite = "overhead_fmm" /\ q[i].suite = "overhead_fmm"
    BY <1>2, <2>1, <2>2 DEF Ordered, Logged
  <2>4. 1 \in 1 .. i - 1
    BY <2>1, <2>3
  <2> QED
    BY <2>2, <2>3, <2>4 DEF Logged, Above, Unpacks
<1>8. CASE q = run_overhead_all
  <2>1. /\ i \in 1 .. n + n
        /\ \A k \in 1 .. n : q[k] = LegOf("overhead_fmm", Overheads[k], "new")
        /\ \A k \in 1 .. n : q[n + k] = LegOf("overhead_dsmm", Overheads[k], "new")
    BY <1>2, <1>8, OverheadAll
  <2>2. /\ \A k \in 1 .. n : /\ q[k].suite = "overhead_fmm" /\ q[k].prog = Overheads[k]
                             /\ q[n + k].suite = "overhead_dsmm" /\ q[n + k].prog = Overheads[k]
    <3> HIDE DEF q
    <3> QED
      BY <2>1, LegFields
  <2>3. CASE i <= n
    <3>1. /\ q[i].suite = "overhead_fmm" /\ q[1].suite = "overhead_fmm"
          /\ q[i].prog = "coreutils" /\ q[1].prog # "coreutils"
      BY <1>2, <2>1, <2>2, <2>3 DEF Ordered, Logged
    <3>2. 1 \in 1 .. i - 1
      BY <2>1, <3>1
    <3> QED
      BY <3>1, <3>2 DEF Logged, Above, Unpacks
  <2>4. CASE i > n
    <3>1. PICK m \in 1 .. n : i = n + m
      <4>1. i - n \in 1 .. n /\ i = n + (i - n)
        BY <1>2, <2>1, <2>4
      <4> QED
        BY <4>1
    <3>2. /\ q[i].suite = "overhead_dsmm" /\ q[i].prog = Overheads[m]
          /\ q[m].suite = "overhead_fmm" /\ q[m].prog = Overheads[m]
      BY <2>2, <3>1
    <3>3. q[n + 1].suite = "overhead_dsmm" /\ q[n + 1].prog # "coreutils"
      BY <1>2, <2>2 DEF Ordered
    <3>4. Overheads[m] = "coreutils" /\ m # 1
      BY <3>2 DEF Logged, Ordered
    <3>5. m \in 1 .. i - 1 /\ n + 1 \in 1 .. i - 1
      BY <1>2, <3>1, <3>4
    <3> QED
      BY <3>2, <3>3, <3>4, <3>5 DEF Logged, Above, Unpacks
  <2> QED
    BY <1>2, <2>1, <2>3, <2>4
<1>9. \/ q = run_qc_all \/ q = run_overhead_fmm \/ q = run_overhead_all
      \/ \E x : q = Each(x, Benchmarks)
  BY <1>1 DEF Script, run_qc_fmm_all, run_qc_dsmm_all, run_validation_all
<1> QED
  BY <1>4, <1>5, <1>7, <1>8, <1>9

\* What leg l leaves behind: its suite's directory, or an unpacked sandbox.
LeavesDir(l)     == ~ Logged(l) => Above(l) \in made
LeavesSandbox(l) == Unpacks(l) => sandbox # "absent"

AtWork(s) == pc[s] \notin {"idle", "leg", "prepare"}
InSandbox(s) == pos[s].job > 1 \/ pc[s] \in {"klee?", "klee", "log"}

\* What the legs and jobs before a shell's place have left for it.
History(s) ==
  pc[s] # "idle" =>
    /\ pos[s].top \in Menu[s]
    /\ \A k \in 1 .. pos[s].leg - 1 : LeavesDir(Script[pos[s].top][k])
    /\ pc[s] # "untar" =>
         /\ \A k \in 1 .. pos[s].leg - 1 : LeavesSandbox(Script[pos[s].top][k])
         /\ InSandbox(s) => LeavesSandbox(Leg(s))
    /\ AtWork(s) /\ ~ Logged(Leg(s)) => {Above(Leg(s)), ProgramDir(Leg(s))} \subseteq made

\* The first job of the loop that unpacks the sandbox is a baseline run.
LEMMA FirstJobResets ==
  ASSUME NEW l, LegOK(l), Unpacks(l)
  PROVE  Resets(l, Jobs(l)[1])
<1>1. Jobs(l) = Loop("run_klee", "run_cache") /\ Logged(l)
  BY DEF Unpacks, Jobs, Logged, run_with_limit
<1>2. 1 \in 1 .. 2 * Len(Utils)
  BY ProgramsAssumption
<1>3. Jobs(l)[1] = Pair("run_klee", "run_cache", Utils[(1 + 1) \div 2])[2 - (1 % 2)]
  BY <1>1, <1>2 DEF Loop
<1>4. 2 - (1 % 2) = 1
  OBVIOUS
<1>5. \A u : Pair("run_klee", "run_cache", u)[1].fn = "run_klee"
  BY DEF Pair, Job
<1> QED
  BY <1>1, <1>3, <1>4, <1>5 DEF Resets

(* The conditions under which a leg's KLEE finds what it needs.             *)
Prepared(s) ==
  /\ Parses(env[s])
  /\ Parent(env[s], Leg(s)) \in made
  /\ Logged(Leg(s)) => sandbox # "absent"

LEMMA HistoryPrepares ==
  ASSUME Ordered, IInv, Unpacked, NEW s \in Shells, History(s), AtKlee(s), pc[s] # "idle"
  PROVE  Prepared(s)
<1>1. Control /\ pc[s] \in {"job", "klee?"} /\ AtWork(s) /\ pc[s] # "untar"
  BY IInvParts DEF AtKlee, AtWork
<1>2. /\ Sourced(env[s], Leg(s).prog)
      /\ ~ Logged(Leg(s)) => env[s].pdir = ProgramDir(Leg(s))
      /\ pos[s].leg \in DOMAIN Script[pos[s].top] /\ pos[s].top \in Menu[s]
  BY <1>1 DEF Control, ControlOf, Working, AtWork, History
<1>3. /\ LegOK(Leg(s)) /\ pos[s].job \in Nat /\ pos[s].job \in DOMAIN Jobs(Leg(s))
      /\ DOMAIN Jobs(Leg(s)) = 1 .. Len(Jobs(Leg(s))) /\ JobOf(s) = Jobs(Leg(s))[pos[s].job]
  BY <1>1, WorkingLeg DEF JobOf
<1>4. Parses(env[s])
  <2>1. env[s].flags = <<Leg(s).prog>>
    BY <1>2 DEF Sourced
  <2> QED
    BY <2>1 DEF Parses
<1>5. CASE ~ Logged(Leg(s))
  BY <1>1, <1>2, <1>4, <1>5 DEF Prepared, Parent, History
<1>6. CASE Logged(Leg(s))
  <2>1. /\ \E k \in 1 .. pos[s].leg - 1 : /\ ~ Logged(Script[pos[s].top][k])
                                          /\ Above(Script[pos[s].top][k]) = Above(Leg(s))
        /\ \/ Unpacks(Leg(s))
           \/ \E k \in 1 .. pos[s].leg - 1 : Unpacks(Script[pos[s].top][k])
    BY <1>2, <1>6, LoopsFollow DEF Leg
  <2>2. Parent(env[s], Leg(s)) \in made
    BY <1>1, <1>6, <2>1 DEF History, LeavesDir, Above, Parent
  <2>3. sandbox # "absent"
    <3>1. CASE \E k \in 1 .. pos[s].leg - 1 : Unpacks(Script[pos[s].top][k])
      BY <1>1, <3>1 DEF History, LeavesSandbox
    <3>2. CASE Unpacks(Leg(s)) /\ pc[s] = "klee?"
      BY <3>2 DEF Unpacked
    <3>3. CASE Unpacks(Leg(s)) /\ pc[s] = "job"
      <4>1. ~ Resets(Leg(s), JobOf(s))
        BY <3>3 DEF AtKlee
      <4>2. pos[s].job # 1
        BY <1>3, <3>3, <4>1, FirstJobResets
      <4>3. pos[s].job > 1
        BY <1>3, <4>2
      <4> QED
        BY <1>1, <3>3, <4>3 DEF History, InSandbox, LeavesSandbox
    <3> QED
      BY <1>1, <2>1, <3>1, <3>2, <3>3
  <2> QED
    BY <1>4, <2>2, <2>3 DEF Prepared
<1> QED
  BY <1>5, <1>6

\* The shell stays at its job, and loses neither directories nor the sandbox.
LEMMA StaysHistory ==
  ASSUME NEW s \in Shells, History(s), pc[s] # "idle", pos' = pos, made \subseteq made',
         AtWork(s)' /\ ~ Logged(Leg(s))
           => AtWork(s) \/ {Above(Leg(s)), ProgramDir(Leg(s))} \subseteq made',
         pc'[s] # "untar" /\ pc[s] = "untar" => sandbox' # "absent",
         pc'[s] # "untar" /\ sandbox' = "absent" => sandbox = "absent",
         pc'[s] # "untar" /\ InSandbox(s)' /\ ~ InSandbox(s) => LeavesSandbox(Leg(s))'
  PROVE  History(s)'
<1>1. Leg(s)' = Leg(s)
  BY DEF Leg
<1>2. \A l : LeavesDir(l) => LeavesDir(l)'
  BY DEF LeavesDir, Above, Logged
<1>3. AtWork(s)' /\ ~ Logged(Leg(s)) => {Above(Leg(s)), ProgramDir(Leg(s))} \subseteq made'
  BY DEF History
<1>4. ASSUME pc'[s] # "untar"
      PROVE  /\ \A k \in 1 .. pos[s].leg - 1 : LeavesSandbox(Script[pos[s].top][k])'
             /\ InSandbox(s)' => LeavesSandbox(Leg(s))'
  <2>1. CASE sandbox' # "absent"
    BY <2>1 DEF LeavesSandbox
  <2>2. CASE sandbox' = "absent"
    <3>1. pc[s] # "untar" /\ sandbox = "absent"
      BY <1>4, <2>2
    <3>2. \A l : LeavesSandbox(l) => LeavesSandbox(l)'
      BY <3>1 DEF LeavesSandbox, Unpacks, Logged
    <3>3. InSandbox(s) => LeavesSandbox(Leg(s))'
      BY <1>1, <3>1, <3>2 DEF History
    <3> QED
      BY <1>4, <3>1, <3>2, <3>3 DEF History
  <2> QED
    BY <2>1, <2>2
<1> QED
  BY <1>1, <1>2, <1>3, <1>4 DEF History, Logged, Above, ProgramDir

\* The shell goes on from a job that has left what it leaves.
LEMMA OnwardHistory ==
  ASSUME Control, NEW s \in Shells, History(s), AtWork(s), pc[s] # "untar", Onward(s),
         made' = made, sandbox' = "absent" => sandbox = "absent", LeavesSandbox(Leg(s))
  PROVE  History(s)'
<1>1. /\ pc[s] # "idle" /\ pos[s].leg \in Nat /\ pos[s].job \in Nat
      /\ Leg(s) = Script[pos[s].top][pos[s].leg]
  BY WorkingLeg DEF AtWork, Leg
<1>2. /\ \A l : LeavesDir(l) => LeavesDir(l)'
      /\ \A l : LeavesSandbox(l) => LeavesSandbox(l)'
  BY DEF LeavesDir, LeavesSandbox, Above, Unpacks, Logged
<1>3. /\ pos[s].top \in Menu[s] /\ LeavesDir(Leg(s))
      /\ ~ Logged(Leg(s)) => {Above(Leg(s)), ProgramDir(Leg(s))} \subseteq made
      /\ \A k \in 1 .. pos[s].leg - 1 : /\ LeavesDir(Script[pos[s].top][k])
                                        /\ LeavesSandbox(Script[pos[s].top][k])
  BY <1>1 DEF History, LeavesDir
<1>4. CASE pc'[s] = "idle"
  BY <1>4 DEF History
<1>5. CASE /\ pc'[s] = "job" /\ Leg(s)' = Leg(s)
           /\ pos'[s].top = pos[s].top /\ pos'[s].leg = pos[s].leg
  <2>1. ASSUME NEW k \in 1 .. pos'[s].leg - 1
        PROVE  LeavesDir(Script[pos[s].top][k])' /\ LeavesSandbox(Script[pos[s].top][k])'
    BY <1>2, <1>3, <1>5
  <2>2. LeavesSandbox(Leg(s))'
    BY <1>2, <1>5
  <2>3. ~ Logged(Leg(s))' => {Above(Leg(s))', ProgramDir(Leg(s))'} \subseteq made'
    BY <1>3, <1>5 DEF Logged, Above, ProgramDir
  <2> QED
    BY <1>3, <1>5, <2>1, <2>2, <2>3 DEF History
<1>6. CASE /\ pc'[s] = "leg" /\ pos'[s].top = pos[s].top
           /\ pos'[s].leg = pos[s].leg + 1 /\ pos'[s].job = 1
  <2>1. ASSUME NEW k \in 1 .. pos'[s].leg - 1
        PROVE  LeavesDir(Script[pos[s].top][k])' /\ LeavesSandbox(Script[pos[s].top][k])'
    <3>1. k \in 1 .. pos[s].leg - 1 \/ k = pos[s].leg
      BY <1>1, <1>6
    <3>2. LeavesDir(Script[pos[s].top][k]) /\ LeavesSandbox(Script[pos[s].top][k])
      BY <1>1, <1>3, <3>1
    <3> QED
      BY <1>2, <1>6, <3>2
  <2>2. ~ InSandbox(s)' /\ ~ AtWork(s)'
    BY <1>6 DEF InSandbox, AtWork
  <2> QED
    BY <1>3, <1>6, <2>1, <2>2 DEF History
<1> QED
  BY <1>4, <1>5, <1>6 DEF Onward

LEMMA HistoryKept ==
  ASSUME OneShell, Ordered, IInv, Unpacked, \A s \in Shells : History(s), Next
  PROVE  \A s \in Shells : History(s)'
<1> SUFFICES ASSUME NEW s \in Shells PROVE History(s)'
  OBVIOUS
<1>1. /\ Control /\ Rest /\ History(s)
      /\ pc \in [Shells -> Labels] /\ pos \in [Shells -> Positions]
  BY IInvParts DEF Control
<1>2. \A t \in Shells : t = s
  BY DEF OneShell
<1>3. CASE pc'[s] = "idle"
  BY <1>3 DEF History
<1>4. ASSUME NEW top \in Menu[s], Launch(s, top) PROVE History(s)'
  <2>1. pc'[s] = "leg" /\ pos'[s] = [top |-> top, leg |-> 1, job |-> 1]
    BY <1>1, <1>4 DEF Launch, Goto
  <2> QED
    BY <2>1 DEF History, InSandbox, AtWork
<1>5. CASE Source(s) \/ MakeDir(s) \/ RemoveLog(s)
  <2>1. /\ pc[s] \in {"leg", "prepare"} /\ pc'[s] \in {"prepare", "job"}
        /\ pos' = pos /\ sandbox' = sandbox /\ made \subseteq made'
    BY <1>1, <1>5 DEF Source, MakeDir, RemoveLog, Goto, files
  <2>2. AtWork(s)' /\ ~ Logged(Leg(s)) => {Above(Leg(s)), ProgramDir(Leg(s))} \subseteq made'
    BY <1>1, <1>5 DEF Source, MakeDir, RemoveLog, Goto, AtWork, Above
  <2>3. InSandbox(s)' => InSandbox(s)
    BY <2>1 DEF InSandbox
  <2> QED
    BY <1>1, <2>1, <2>2, <2>3, StaysHistory
<1>6. CASE RemoveSandbox(s)
  <2>1. /\ pc[s] = "job" /\ pc'[s] = "untar" /\ pos' = pos /\ made' = made
    BY <1>1, <1>6 DEF RemoveSandbox, Goto
  <2> QED
    BY <1>1, <2>1, StaysHistory DEF AtWork
<1>7. CASE UnpackSandbox(s)
  <2>1. /\ pc[s] = "untar" /\ pc'[s] = "klee?" /\ pos' = pos /\ made' = made
        /\ sandbox' = "clean"
    BY <1>1, <1>7 DEF UnpackSandbox, Goto
  <2>2. LeavesSandbox(Leg(s))'
    BY <2>1 DEF LeavesSandbox
  <2> QED
    BY <1>1, <2>1, <2>2, StaysHistory DEF AtWork
<1>8. AtKlee(s) /\ pc[s] # "idle" => Prepared(s)
  BY <1>1, HistoryPrepares
<1>9. CASE StartKlee(s)
  <2>1. /\ pc[s] \in {"job", "klee?"} /\ pc'[s] = "klee" /\ pos' = pos /\ made' = made
        /\ sandbox' = sandbox /\ (Logged(Leg(s)) => sandbox # "absent")
    BY <1>1, <1>9 DEF StartKlee, AtKlee, Goto
  <2>2. LeavesSandbox(Leg(s))'
    BY <2>1 DEF LeavesSandbox, Unpacks, Logged, Leg
  <2> QED
    BY <1>1, <2>1, <2>2, StaysHistory DEF AtWork
<1>10. ASSUME NEW code \in {0, 1}, KleeReturns(s, code), AtWork(s), pc[s] # "untar",
              made' = made, sandbox' = "absent" => sandbox = "absent",
              LeavesSandbox(Leg(s))
       PROVE  History(s)'
  <2>1. CASE pc'[s] = "log" /\ pos' = pos /\ Logged(Leg(s)) /\ Leg(s)' = Leg(s)
    <3>1. LeavesSandbox(Leg(s))'
      BY <1>10, <2>1 DEF LeavesSandbox, Unpacks, Logged
    <3> QED
      BY <1>1, <1>10, <2>1, <3>1, StaysHistory DEF AtWork
  <2>2. CASE Onward(s)
    BY <1>1, <1>10, <2>2, OnwardHistory
  <2> QED
    BY <1>1, <1>10, <2>1, <2>2, KleeReturnsPlaces DEF Rest
<1>11. CASE LoseSandbox(s) \/ RefuseKlee(s)
  <2>1. /\ AtKlee(s) /\ KleeReturns(s, 1) /\ made' = made /\ sandbox' = sandbox
    BY <1>11 DEF LoseSandbox, RefuseKlee, files
  <2>2. AtWork(s) /\ pc[s] # "untar" /\ pc[s] # "idle"
    BY <2>1 DEF AtKlee, AtWork
  <2>3. LeavesSandbox(Leg(s))
    BY <1>8, <2>1, <2>2 DEF Prepared, LeavesSandbox, Unpacks
  <2> QED
    BY <1>10, <2>1, <2>2, <2>3
<1>12. ASSUME NEW code \in {0, 1}, pc[s] = "klee", KleeReturns(s, code), made' = made, Soil(s)
       PROVE  History(s)'
  <2>1. AtWork(s) /\ LeavesSandbox(Leg(s))
    BY <1>1, <1>12 DEF AtWork, History, InSandbox
  <2>2. sandbox' = "absent" => sandbox = "absent"
    BY <1>12 DEF Soil
  <2> QED
    BY <1>10, <1>12, <2>1, <2>2
<1>13. CASE EndKlee(s)
  BY <1>12, <1>13 DEF EndKlee, DieKlee, FinishKlee
<1>14. CASE WriteLog(s)
  <2>1. pc[s] = "log" /\ NextJob(s) /\ made' = made /\ sandbox' = sandbox
    BY <1>14 DEF WriteLog
  <2>2. AtWork(s) /\ LeavesSandbox(Leg(s)) /\ Onward(s)
    BY <1>1, <2>1, NextJobPlaces DEF AtWork, History, InSandbox
  <2> QED
    BY <1>1, <2>1, <2>2, OnwardHistory
<1>15. Kill(s) \/ Reboot => pc'[s] = "idle"
  BY Leads
<1> QED
  BY <1>2, <1>3, <1>4, <1>5, <1>6, <1>7, <1>9, <1>11, <1>13, <1>14, <1>15, Actions

(* A leg finds what it needs but does not make, as long as the operator     *)
(* works in one shell, starts no script that relies on one started before   *)
(* it, and the overhead scripts do not begin with the coreutils loop:       *)
(* wherever a script was killed or the machine rebooted, run.sh's options   *)
(* are given once, the suite's directory is there and so is the sandbox.    *)
THEOREM LegsPreparedAlone ==
  ASSUME OneShell, Ordered
  PROVE  Spec => []LegsPrepared
<1> DEFINE H == Unpacked /\ \A s \in Shells : History(s)
<1>1. Init => H
  BY DEF Init, Unpacked, History
<1>2. IInv /\ H /\ [Next]_vars => H'
  <2>1. CASE Next
    BY <2>1, UnpackedKept, HistoryKept
  <2>2. CASE UNCHANGED vars
    <3>1. Unpacked => Unpacked'
      BY <2>2 DEF vars, Unpacked
    <3>2. ASSUME NEW s \in Shells, History(s) PROVE History(s)'
      BY <2>2, <3>2 DEF vars, History, Leg, AtWork, InSandbox, LeavesDir, LeavesSandbox,
         Logged, Above, Unpacks, ProgramDir
    <3> QED
      BY <3>1, <3>2
  <2> QED
    BY <2>1, <2>2
<1>3. IInv /\ H => LegsPrepared
  BY HistoryPrepares DEF LegsPrepared, Prepared
<1> HIDE DEF H
<1> QED
  BY <1>1, <1>2, <1>3, InitIInv, NextIInv, PTL DEF Spec
=============================================================================
