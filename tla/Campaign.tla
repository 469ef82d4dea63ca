------------------------------ MODULE Campaign ------------------------------
(***************************************************************************)
(* The experiment scripts: the top-level run_*_all.sh, the per-benchmark   *)
(* run_qc.sh, run_qc_merge.sh, run_validation.sh, run_fmm.sh, run_dsmm.sh, *)
(* the run.sh they source, common.sh, and the loops of coreutils/run.sh.   *)
(*                                                                         *)
(* A shell is a terminal in which the operator launches a top-level        *)
(* script.  A script is a sequence of legs, one per sub-script; a leg      *)
(* prepares its directory (or log) and runs KLEE once per job, one KLEE at *)
(* a time.  Several shells share the artifact directory, the coreutils     *)
(* sandbox /tmp/env and the coreutils status log.  No script sets -e, so   *)
(* a failing command never stops one.                                      *)
(***************************************************************************)
EXTENDS Naturals, Sequences

CONSTANTS
  Shells,       \* terminals in which the operator works
  Menu,         \* Menu[s]: the top-level scripts launched in shell s
  Benchmarks,   \* the benchmarks of run_qc_all.sh, in its order
  Overheads,    \* the members of run_overhead_fmm.sh, in its order
  Utils,        \* the utilities of coreutils/inst.txt, in its order
  AllUtils,     \* the utilities of coreutils/utils.txt, in its order
  Built,        \* the benchmarks and utilities whose bitcode file loads
  Results,      \* what a completed KLEE run may have found
  None,         \* an unset shell variable, a missing path component
  MaxKills      \* bound on kills and reboots

SeqOf(S) == {S[i] : i \in DOMAIN S}

FmmSuites  == {"qc_fmm", "overhead_fmm"}
DsmmSuites == {"qc_dsmm", "overhead_dsmm"}
Suites     == FmmSuites \cup DsmmSuites \cup {"validation", "coreutils_validation"}
Templated  == {"make", "bash"}

Programs == {"m4", "make", "sqlite", "apr", "libxml2", "expat", "bash", "json",
             "libosip", "libyaml", "coreutils"}
Utilities == SeqOf(Utils) \cup SeqOf(AllUtils)

ASSUME BoundAssumption == MaxKills \in Nat

ASSUME ProgramsAssumption ==
  /\ Benchmarks \in Seq(Programs \ {"libosip", "libyaml", "coreutils"})
  /\ Overheads \in Seq({"libosip", "libyaml", "coreutils"})
  /\ Utils \in Seq(Utilities)
  /\ AllUtils \in Seq(Utilities)
  /\ \A ps \in {Benchmarks, Overheads, Utils, AllUtils} : Len(ps) > 0

\* No utility is called like a benchmark, and neither is called None.
ASSUME NamesAssumption ==
  /\ Utilities \cap Programs = {}
  /\ None \notin Utilities \cup Programs
-----------------------------------------------------------------------------
(* Shell environments.  FLAGS is kept as the sequence of option blocks     *)
(* appended since it was last reset: each run.sh appends one block of its  *)
(* own options, named after the benchmark.                                 *)

Fresh == [flags |-> <<>>, cache |-> FALSE, lib |-> None, bc |-> None,
          args |-> None, template |-> None, pdir |-> None]

\* Bug: the flags of an earlier run.sh stay when common.sh is sourced again.
common_sh_keeps_flags(e) == [e EXCEPT !.cache = TRUE, !.lib = "common"]

common_sh(e) == [e EXCEPT !.flags = <<>>, !.cache = TRUE, !.lib = "common"]

\* What every run.sh of a benchmark does after it has sourced common.sh.
Own(e, p) ==
  [common_sh(e) EXCEPT !.flags = Append(@, p), !.bc = p, !.args = p]

m4_run_sh(e)      == Own(e, "m4")
make_run_sh(e)    == [Own(e, "make") EXCEPT !.template = "make"]
sqlite_run_sh(e)  == [Own(e, "sqlite") EXCEPT !.lib = "sqlite"]
apr_run_sh(e)     == Own(e, "apr")
libxml2_run_sh(e) == Own(e, "libxml2")
expat_run_sh(e)   == Own(e, "expat")
bash_run_sh(e)    == [Own(e, "bash") EXCEPT !.template = "bash"]

\* json/run.sh assigns no ARGS: whatever the shell holds is passed on.
json_run_sh(e) == [Own(e, "json") EXCEPT !.args = e.args]

\* libosip/run.sh does not source common.sh: CACHE_FLAGS keeps its value.
libosip_run_sh(e) ==
  [e EXCEPT !.flags = <<"libosip">>, !.lib = "libosip", !.bc = "libosip",
            !.args = "libosip"]

libyaml_run_sh(e) ==
  [common_sh(e) EXCEPT !.flags = <<"libyaml">>, !.lib = "libyaml",
                       !.bc = "libyaml", !.args = "libyaml"]

coreutils_run_sh(e) ==
  [common_sh(e) EXCEPT !.flags = Append(@, "coreutils"), !.lib = "coreutils",
                       !.args = "coreutils"]

source(e, p) ==
  CASE p = "m4"        -> m4_run_sh(e)
    [] p = "make"      -> make_run_sh(e)
    [] p = "sqlite"    -> sqlite_run_sh(e)
    [] p = "apr"       -> apr_run_sh(e)
    [] p = "libxml2"   -> libxml2_run_sh(e)
    [] p = "expat"     -> expat_run_sh(e)
    [] p = "bash"      -> bash_run_sh(e)
    [] p = "json"      -> json_run_sh(e)
    [] p = "libosip"   -> libosip_run_sh(e)
    [] p = "libyaml"   -> libyaml_run_sh(e)
    [] p = "coreutils" -> coreutils_run_sh(e)
-----------------------------------------------------------------------------
(* The shell functions that start KLEE, as the options they pass.          *)

VANILLA == [bin |-> "VANILLA_KLEE", cacheflags |-> FALSE, sym |-> FALSE,
            rebase |-> FALSE, reuse |-> FALSE, cex |-> None, branch |-> None,
            iso |-> FALSE, stats |-> FALSE, validate |-> FALSE, limit |-> FALSE]
KLEE == [VANILLA EXCEPT !.bin = "KLEE", !.cacheflags = TRUE, !.sym = TRUE]

run_klee  == [VANILLA EXCEPT !.cex = 1, !.branch = 1]
run_cache == [KLEE EXCEPT !.cex = 1, !.branch = 0, !.iso = TRUE]
run_merge == [KLEE EXCEPT !.rebase = TRUE, !.reuse = TRUE, !.cex = 1, !.branch = 1]
run_merge_cache ==
  [KLEE EXCEPT !.rebase = TRUE, !.cex = 1, !.branch = 0, !.iso = TRUE]
run_validation ==
  [KLEE EXCEPT !.cex = 1, !.branch = 0, !.iso = TRUE, !.stats = TRUE,
               !.validate = TRUE]
run_merge_validation == [run_validation EXCEPT !.rebase = TRUE]

common_fn ==
  [run_klee |-> run_klee, run_cache |-> run_cache, run_merge |-> run_merge,
   run_merge_cache |-> run_merge_cache, run_validation |-> run_validation,
   run_merge_validation |-> run_merge_validation]

\* Bug: only one of a pair of functions is redefined.
sqlite_fn_half == [common_fn EXCEPT !.run_merge.cex = 0]

\* sqlite/run.sh redefines two functions of common.sh: no counterexample cache.
sqlite_fn ==
  [common_fn EXCEPT !.run_merge.cex = 0, !.run_merge_cache.cex = 0]

\* The four runners of libyaml/run.sh pass limits and common.sh's CACHE_FLAGS.
libyaml_fn ==
  [run_klee |-> [run_klee EXCEPT !.limit = TRUE],
   run_cache |-> [run_cache EXCEPT !.limit = TRUE],
   run_dsmm |-> [run_merge EXCEPT !.limit = TRUE],
   run_dsmm_cache |-> [run_merge_cache EXCEPT !.limit = TRUE]]

\* Those of libosip/run.sh are the same but for CACHE_FLAGS, which none passes.
libosip_fn ==
  [libyaml_fn EXCEPT !.run_cache.cacheflags = FALSE,
                     !.run_dsmm.cacheflags = FALSE,
                     !.run_dsmm_cache.cacheflags = FALSE]

coreutils_fn ==
  [run_klee |-> [VANILLA EXCEPT !.limit = TRUE],
   run_cache |-> [KLEE EXCEPT !.branch = 0, !.iso = TRUE, !.limit = TRUE],
   run_dsmm |-> [run_merge EXCEPT !.limit = TRUE],
   run_dsmm_cache |-> [run_merge_cache EXCEPT !.limit = TRUE],
   run_validation |-> [KLEE EXCEPT !.branch = 0, !.iso = TRUE,
                                   !.validate = TRUE, !.limit = TRUE]]

Fn(e, f) ==
  CASE e.lib = "common"    -> common_fn[f]
    [] e.lib = "sqlite"    -> sqlite_fn[f]
    [] e.lib = "libosip"   -> libosip_fn[f]
    [] e.lib = "libyaml"   -> libyaml_fn[f]
    [] e.lib = "coreutils" -> coreutils_fn[f]
-----------------------------------------------------------------------------
(* Scripts.  A leg runs one sub-script: in a new bash, or sourced into the *)
(* same bash as the leg before it.                                         *)

LegOf(suite, p, bash) == [suite |-> suite, prog |-> p, bash |-> bash]
Each(suite, ps) == [i \in DOMAIN ps |-> LegOf(suite, ps[i], "new")]

\* Bug: one shell sources the scripts of every benchmark.
run_qc_all_one_shell ==
  [i \in 1 .. 2 * Len(Benchmarks) |->
     LegOf(IF i % 2 = 1 THEN "qc_fmm" ELSE "qc_dsmm",
           Benchmarks[(i + 1) \div 2], IF i = 1 THEN "new" ELSE "same")]

\* <benchmark>/run_qc_all.sh sources run_qc.sh, then run_qc_merge.sh.
run_qc_all ==
  [i \in 1 .. 2 * Len(Benchmarks) |->
     IF i % 2 = 1 THEN LegOf("qc_fmm", Benchmarks[(i + 1) \div 2], "new")
     ELSE LegOf("qc_dsmm", Benchmarks[i \div 2], "same")]
run_qc_fmm_all     == Each("qc_fmm", Benchmarks)
run_qc_dsmm_all    == Each("qc_dsmm", Benchmarks)
run_validation_all == Each("validation", Benchmarks)
\* Bug: the coreutils leg comes before the leg that makes the directory.
run_overhead_fmm_backwards ==
  Each("overhead_fmm", [i \in DOMAIN Overheads |-> Overheads[Len(Overheads) + 1 - i]])
run_overhead_fmm   == Each("overhead_fmm", Overheads)
run_overhead_dsmm  == Each("overhead_dsmm", Overheads)
run_overhead_all   == run_overhead_fmm \o run_overhead_dsmm
coreutils_run_validation == <<LegOf("coreutils_validation", "coreutils", "new")>>

Script ==
  [run_qc_all |-> run_qc_all, run_qc_fmm_all |-> run_qc_fmm_all,
   run_qc_dsmm_all |-> run_qc_dsmm_all,
   run_validation_all |-> run_validation_all,
   run_overhead_fmm |-> run_overhead_fmm,
   run_overhead_dsmm |-> run_overhead_dsmm,
   run_overhead_all |-> run_overhead_all,
   coreutils_run_validation |-> coreutils_run_validation]

ASSUME LaunchAssumption == Menu \in [Shells -> SUBSET DOMAIN Script]

Job(role, fn, name) == [role |-> role, fn |-> fn, name |-> name]
Pair(klee, cache, name) ==
  <<Job("out-klee", klee, name), Job("out-cache", cache, name)>>

run_qc_jobs             == Pair("run_klee", "run_cache", None)
run_qc_merge_jobs       == Pair("run_merge", "run_merge_cache", None)
run_validation_jobs     ==
  <<Job("out-fmm", "run_validation", None),
    Job("out-dsmm", "run_merge_validation", None)>>
run_fmm_jobs(lib)       == Pair("run_klee", "run_cache", lib)
run_dsmm_jobs(lib)      == Pair("run_dsmm", "run_dsmm_cache", lib)

\* The loop over inst.txt runs a pair per utility.
Loop(klee, cache) ==
  [i \in 1 .. 2 * Len(Utils) |-> Pair(klee, cache, Utils[(i + 1) \div 2])[2 - (i % 2)]]
run_with_limit          == Loop("run_klee", "run_cache")
run_with_limit_dsmm     == Loop("run_dsmm", "run_dsmm_cache")
coreutils_validate_jobs ==
  [i \in DOMAIN AllUtils |-> Job("out-cache", "run_validation", AllUtils[i])]

Jobs(l) ==
  CASE l.suite = "qc_fmm"     -> run_qc_jobs
    [] l.suite = "qc_dsmm"    -> run_qc_merge_jobs
    [] l.suite = "validation" -> run_validation_jobs
    [] l.suite = "overhead_fmm" ->
         IF l.prog = "coreutils" THEN run_with_limit ELSE run_fmm_jobs(l.prog)
    [] l.suite = "overhead_dsmm" ->
         IF l.prog = "coreutils" THEN run_with_limit_dsmm ELSE run_dsmm_jobs(l.prog)
    [] l.suite = "coreutils_validation" -> coreutils_validate_jobs

\* Only coreutils legs keep a status log and run KLEE inside the sandbox.
Logged(l) == l.prog = "coreutils"
\* Bug: the other runner of the pair calls reset.
Resets_cached(l, j) == Logged(l) /\ j.fn = "run_cache"
\* Of those, only the baseline runner calls reset first.
Resets(l, j) == Logged(l) /\ j.fn = "run_klee"
-----------------------------------------------------------------------------
Slot(suite, p, role) == [suite |-> suite, prog |-> p, role |-> role]
Measured == (SeqOf(Overheads) \ {"coreutils"}) \cup SeqOf(Utils)

Slots ==
  {Slot(x, p, r) : x \in {"qc_fmm", "qc_dsmm"}, p \in SeqOf(Benchmarks),
                   r \in {"out-klee", "out-cache"}}
  \cup {Slot("validation", p, r) : p \in SeqOf(Benchmarks),
                                   r \in {"out-fmm", "out-dsmm"}}
  \cup {Slot(x, p, r) : x \in {"overhead_fmm", "overhead_dsmm"}, p \in Measured,
                        r \in {"out-klee", "out-cache"}}
  \cup {Slot("coreutils_validation", p, "out-cache") : p \in SeqOf(AllUtils)}

VARIABLES
  dir,       \* the artifact directory: one record per output directory
  made,      \* the directories mkdir -p has made, as [suite, prog]
  sandbox,   \* /tmp/env/sandbox: "absent", "clean" or "dirty"
  log,       \* the lines of coreutils/status.log
  pc,        \* per shell: the step its script is at
  pos,       \* per shell: script, leg and job
  env,       \* per shell: the variables of the bash that runs the leg
  status,    \* per shell: $? of the last KLEE command
  kills      \* kills and reboots so far

vars == <<dir, made, sandbox, log, pc, pos, env, status, kills>>
files == <<dir, made, sandbox, log>>

Leg(s) == (Script[pos[s].top])[pos[s].leg]
JobOf(s) == (Jobs(Leg(s)))[pos[s].job]

\* ${PROGRAM_DIR}, or the directory the coreutils loops name outright.
Parent(e, l) ==
  IF Logged(l) THEN [suite |-> l.suite, prog |-> None] ELSE e.pdir

OutputDir(e, l, j) ==
  LET d == Parent(e, l)
  IN Slot(d.suite, IF j.name = None THEN d.prog ELSE j.name, j.role)

Command(e, l, j) ==
  LET f == Fn(e, j.fn)
  IN [opts |-> [f EXCEPT !.cacheflags = @ /\ e.cache],
      flags |-> e.flags,
      bc |-> IF Logged(l) THEN j.name ELSE e.bc,
      args |-> e.args,
      template |-> e.template]

AtEnd  == [top |-> None, leg |-> 1, job |-> 1]
NotRun == [st |-> "absent", by |-> None, box |-> None, res |-> None]

Init ==
  /\ dir = [x \in Slots |-> NotRun]
  /\ made = {[suite |-> "coreutils_validation", prog |-> None]}
  /\ sandbox = "absent"
  /\ log = <<>>
  /\ pc = [s \in Shells |-> "idle"]
  /\ pos = [s \in Shells |-> AtEnd]
  /\ env = [s \in Shells |-> Fresh]
  /\ status = [s \in Shells |-> 0]
  /\ kills = 0

Goto(s, label) == pc' = [pc EXCEPT ![s] = label]

(* The operator launches a top-level script in an idle shell, for the      *)
(* first time or again.                                                    *)
Launch(s, top) ==
  /\ pc[s] = "idle"
  /\ top \in Menu[s]
  /\ pos' = [pos EXCEPT ![s] = [top |-> top, leg |-> 1, job |-> 1]]
  /\ Goto(s, "leg")
  /\ UNCHANGED <<files, env, status, kills>>

(* The leg's shell sources config.sh, common.sh and run.sh.                *)
Source(s) ==
  /\ pc[s] = "leg"
  /\ env' = [env EXCEPT ![s] = source(IF Leg(s).bash = "new" THEN Fresh ELSE @, Leg(s).prog)]
  /\ Goto(s, "prepare")
  /\ UNCHANGED <<files, pos, status, kills>>

\* Bug: run_qc_merge.sh keeps the PROGRAM_DIR of run_qc.sh.
ProgramDir_copied(l) ==
  [suite |-> IF l.suite = "qc_dsmm" THEN "qc_fmm" ELSE l.suite, prog |-> l.prog]

(* PROGRAM_DIR=...; mkdir -p ${PROGRAM_DIR}                                *)
ProgramDir(l) ==
  [suite |-> l.suite, prog |-> IF l.suite \in {"overhead_fmm", "overhead_dsmm"}
                               THEN None ELSE l.prog]

\* Bug: the directory is emptied before it is made.
MakeDir_rm(s) ==
  /\ pc[s] = "prepare"
  /\ ~Logged(Leg(s))
  /\ env' = [env EXCEPT ![s].pdir = ProgramDir(Leg(s))]
  /\ made' = made \cup {ProgramDir(Leg(s)), [suite |-> Leg(s).suite, prog |-> None]}
  /\ dir' = [x \in Slots |-> IF x.suite = Leg(s).suite THEN NotRun ELSE dir[x]]
  /\ Goto(s, "job")
  /\ UNCHANGED <<sandbox, log, pos, status, kills>>

MakeDir(s) ==
  /\ pc[s] = "prepare"
  /\ ~Logged(Leg(s))
  /\ env' = [env EXCEPT ![s].pdir = ProgramDir(Leg(s))]
  /\ made' = made \cup {ProgramDir(Leg(s)), [suite |-> Leg(s).suite, prog |-> None]}
  /\ Goto(s, "job")
  /\ UNCHANGED <<dir, sandbox, log, pos, status, kills>>

\* Bug: the log of the last loop is kept.
RemoveLog_kept(s) ==
  /\ pc[s] = "prepare"
  /\ Logged(Leg(s))
  /\ Goto(s, "job")
  /\ UNCHANGED <<files, pos, env, status, kills>>

(* rm -rf ${log_file}                                                      *)
RemoveLog(s) ==
  /\ pc[s] = "prepare"
  /\ Logged(Leg(s))
  /\ log' = <<>>
  /\ Goto(s, "job")
  /\ UNCHANGED <<dir, made, sandbox, pos, env, status, kills>>

(* reset, in its two halves: rm -rf /tmp/env, then unpack sandbox.tgz.     *)
RemoveSandbox(s) ==
  /\ pc[s] = "job"
  /\ Resets(Leg(s), JobOf(s))
  /\ sandbox' = "absent"
  /\ Goto(s, "untar")
  /\ UNCHANGED <<dir, made, log, pos, env, status, kills>>

\* Bug: the runner goes back to its first line after reset.
UnpackSandbox_again(s) ==
  /\ pc[s] = "untar"
  /\ sandbox' = "clean"
  /\ Goto(s, "job")
  /\ UNCHANGED <<dir, made, log, pos, env, status, kills>>

UnpackSandbox(s) ==
  /\ pc[s] = "untar"
  /\ sandbox' = "clean"
  /\ Goto(s, "klee?")
  /\ UNCHANGED <<dir, made, log, pos, env, status, kills>>

AtKlee(s) ==
  \/ pc[s] = "klee?"
  \/ pc[s] = "job" /\ ~Resets(Leg(s), JobOf(s))

\* The shell of the script exits: its position and its variables are gone.
Exits(s) ==
  /\ pos' = [pos EXCEPT ![s] = AtEnd]
  /\ env' = [env EXCEPT ![s] = Fresh]
  /\ Goto(s, "idle")

\* Bug: the loop goes round once more than there are jobs.
NextJob_once_more(s) ==
  \/ /\ pos[s].job <= Len(Jobs(Leg(s)))
     /\ pos' = [pos EXCEPT ![s].job = @ + 1]
     /\ Goto(s, "job")
     /\ UNCHANGED env
  \/ /\ pos[s].job > Len(Jobs(Leg(s)))
     /\ Exits(s)

\* Where the script goes on after a job: the next job, the next leg, or its end.
NextJob(s) ==
  \/ /\ pos[s].job < Len(Jobs(Leg(s)))
     /\ pos' = [pos EXCEPT ![s].job = @ + 1]
     /\ Goto(s, "job")
     /\ UNCHANGED env
  \/ /\ pos[s].job >= Len(Jobs(Leg(s)))
     /\ pos[s].leg < Len(Script[pos[s].top])
     /\ pos' = [pos EXCEPT ![s].leg = @ + 1, ![s].job = 1]
     /\ Goto(s, "leg")
     /\ UNCHANGED env
  \/ /\ pos[s].job >= Len(Jobs(Leg(s)))
     /\ pos[s].leg >= Len(Script[pos[s].top])
     /\ Exits(s)

\* Bug: a script without a log waits for the log line.
KleeReturns_waits(s, code) ==
  /\ Logged(Leg(s))
     => status' = [status EXCEPT ![s] = code] /\ Goto(s, "log")
  /\ ~Logged(Leg(s)) => UNCHANGED <<status, pc>>
  /\ UNCHANGED <<pos, env>>

\* KLEE is back with an exit code: coreutils logs it, no other script looks.
KleeReturns(s, code) ==
  \/ /\ Logged(Leg(s))
     /\ status' = [status EXCEPT ![s] = code]
     /\ Goto(s, "log")
     /\ UNCHANGED <<pos, env>>
  \/ /\ ~Logged(Leg(s))
     /\ NextJob(s)
     /\ UNCHANGED status

Target(s) == OutputDir(env[s], Leg(s), JobOf(s))

\* LLVM's option parser accepts an option of FLAGS once.
Parses(e) == \A i, j \in DOMAIN e.flags : e.flags[i] = e.flags[j] => i = j

\* Bug: KLEE writes into a directory that is there.
MayCreate_reuse(s) ==
  /\ Parses(env[s])
  /\ Command(env[s], Leg(s), JobOf(s)).bc \in Built
  /\ Parent(env[s], Leg(s)) \in made

\* KLEE's -output-dir is created with mkdir: the parent must be there, the
\* directory itself must not.
MayCreate(s) ==
  /\ Parses(env[s])
  /\ Command(env[s], Leg(s), JobOf(s)).bc \in Built
  /\ dir[Target(s)].st = "absent"
  /\ Parent(env[s], Leg(s)) \in made

(* KLEE starts and creates its output directory.                           *)
StartKlee(s) ==
  /\ AtKlee(s)
  /\ MayCreate(s)
  /\ Logged(Leg(s)) => sandbox # "absent"
  /\ dir' = [dir EXCEPT ![Target(s)] =
               [st |-> "open", by |-> Command(env[s], Leg(s), JobOf(s)),
                box |-> IF Logged(Leg(s)) THEN sandbox ELSE None, res |-> None]]
  /\ Goto(s, "klee")
  /\ UNCHANGED <<made, sandbox, log, pos, env, status, kills>>

(* KLEE cannot enter -run-in-dir: it gives up after creating its output.   *)
LoseSandbox(s) ==
  /\ AtKlee(s)
  /\ MayCreate(s)
  /\ Logged(Leg(s)) /\ sandbox = "absent"
  /\ dir' = [dir EXCEPT ![Target(s)] =
               [st |-> "dead", by |-> Command(env[s], Leg(s), JobOf(s)),
                box |-> sandbox, res |-> None]]
  /\ KleeReturns(s, 1)
  /\ UNCHANGED <<made, sandbox, log, kills>>

(* KLEE refuses: the directory exists, its parent does not, an option is   *)
(* repeated, or the bitcode file cannot be loaded.                         *)
RefuseKlee(s) ==
  /\ AtKlee(s)
  /\ ~MayCreate(s)
  /\ KleeReturns(s, 1)
  /\ UNCHANGED <<files, kills>>

\* A run with external calls may leave files in the sandbox it runs in.
Soil(s) ==
  \/ UNCHANGED sandbox
  \/ Logged(Leg(s)) /\ sandbox = "clean" /\ sandbox' = "dirty"

(* KLEE completes, or halts at a limit or on ctrl-c, and writes its totals.*)
FinishKlee(s, r) ==
  /\ pc[s] = "klee"
  /\ dir' = [dir EXCEPT ![Target(s)].st = "done", ![Target(s)].res = r]
  /\ Soil(s)
  /\ KleeReturns(s, 0)
  /\ UNCHANGED <<made, log, kills>>

(* KLEE dies: out of memory, an internal error, the watchdog.              *)
DieKlee(s) ==
  /\ pc[s] = "klee"
  /\ dir' = [dir EXCEPT ![Target(s)].st = "dead"]
  /\ Soil(s)
  /\ KleeReturns(s, 1)
  /\ UNCHANGED <<made, log, kills>>

(* echo "${name}: ... status = $?" >> ${log_file}                          *)
LogLine(s) == [name |-> JobOf(s).name, role |-> JobOf(s).role, status |-> status[s]]

WriteLog(s) ==
  /\ pc[s] = "log"
  /\ log' = Append(log, LogLine(s))
  /\ NextJob(s)
  /\ UNCHANGED <<dir, made, sandbox, status, kills>>

(* The operator kills the script and the KLEE it is waiting for.           *)
Kill(s) ==
  /\ kills < MaxKills
  /\ pc[s] # "idle"
  /\ dir' = IF pc[s] = "klee" THEN [dir EXCEPT ![Target(s)].st = "dead"] ELSE dir
  /\ Exits(s)
  /\ kills' = kills + 1
  /\ UNCHANGED <<made, sandbox, log, status>>

(* The machine reboots: every script and KLEE is gone, /tmp may be empty.  *)
Reboot ==
  /\ kills < MaxKills
  /\ \E s \in Shells : pc[s] # "idle"
  /\ dir' = [x \in Slots |->
               IF dir[x].st = "open" THEN [dir[x] EXCEPT !.st = "dead"] ELSE dir[x]]
  /\ sandbox' \in {sandbox, "absent"}
  /\ pc' = [s \in Shells |-> "idle"]
  /\ pos' = [s \in Shells |-> AtEnd]
  /\ env' = [s \in Shells |-> Fresh]
  /\ kills' = kills + 1
  /\ UNCHANGED <<made, log, status>>

EndKlee(s) == DieKlee(s) \/ \E r \in Results : FinishKlee(s, r)

Step(s) ==
  \/ Source(s)
  \/ MakeDir(s)
  \/ RemoveLog(s)
  \/ RemoveSandbox(s)
  \/ UnpackSandbox(s)
  \/ StartKlee(s)
  \/ LoseSandbox(s)
  \/ RefuseKlee(s)
  \/ WriteLog(s)

Next ==
  \/ \E s \in Shells :
       \/ \E top \in Menu[s] : Launch(s, top)
       \/ Step(s)
       \/ EndKlee(s)
       \/ Kill(s)
  \/ Reboot

Spec == Init /\ [][Next]_vars

(* A shell executes the next command of its script; a KLEE that was given  *)
(* -max-time ends.  Nothing bounds the qc and validation runs.             *)
Limited(s) == pc[s] = "klee" /\ Fn(env[s], JobOf(s).fn).limit

Fairness ==
  \A s \in Shells : WF_vars(Step(s)) /\ WF_vars(Limited(s) /\ EndKlee(s))

FairSpec == Spec /\ Fairness
-----------------------------------------------------------------------------
Opened(x) == dir[x].st # "absent"
IsDsmm(x) == x.suite \in DsmmSuites \/ x.role = "out-dsmm"
IsUtil(x) == x.prog \in Utilities

\* The run.sh whose settings belong to a directory.
Owner(x) == IF IsUtil(x) THEN "coreutils" ELSE x.prog

Labels    == {"idle", "leg", "prepare", "job", "untar", "klee?", "klee", "log"}
Names     == Programs \cup Utilities \cup {None}
Places    == [suite : Suites, prog : SeqOf(Benchmarks) \cup {None}]
Envs      == [flags : Seq(Programs), cache : BOOLEAN,
              lib : {"common", "sqlite", "libosip", "libyaml", "coreutils", None},
              bc : Names, args : Names, template : Names,
              pdir : Places \cup {None}]
Options   == [bin : {"VANILLA_KLEE", "KLEE"}, cacheflags : BOOLEAN, sym : BOOLEAN,
              rebase : BOOLEAN, reuse : BOOLEAN, cex : {0, 1, None},
              branch : {0, 1, None}, iso : BOOLEAN, stats : BOOLEAN,
              validate : BOOLEAN, limit : BOOLEAN]
Commands  == [opts : Options, flags : Seq(Programs), bc : Names, args : Names,
              template : Names]
Entries   == [st : {"absent", "open", "done", "dead"}, by : Commands \cup {None},
              box : {"absent", "clean", "dirty", None}, res : Results \cup {None}]
LogLines  == [name : Utilities, role : {"out-klee", "out-cache"}, status : {0, 1}]
Positions == [top : DOMAIN Script \cup {None}, leg : Nat, job : Nat]

(* Every variable has its type; a working shell is at a leg and a job that *)
(* its script has.                                                         *)
TypeOK ==
  /\ dir \in [Slots -> Entries]
  /\ made \subseteq Places
  /\ sandbox \in {"absent", "clean", "dirty"}
  /\ log \in Seq(LogLines)
  /\ pc \in [Shells -> Labels]
  /\ pos \in [Shells -> Positions]
  /\ env \in [Shells -> Envs]
  /\ status \in [Shells -> {0, 1}]
  /\ kills \in 0 .. MaxKills
  /\ \A s \in Shells : pc[s] # "idle" =>
       /\ pos[s].top \in DOMAIN Script
       /\ pos[s].leg \in DOMAIN Script[pos[s].top]
       /\ pos[s].job \in DOMAIN Jobs(Leg(s))

(* No variable leaks from one benchmark to the next, although run_qc_all.sh *)
(* sources two scripts into one shell and common.sh and run.sh are sourced  *)
(* twice there: what runs in a benchmark's directory is given that          *)
(* benchmark's options once, its bitcode, its arguments and its template.   *)
OwnInputs ==
  \A x \in Slots : Opened(x) =>
    /\ dir[x].by.flags = <<Owner(x)>>
    /\ dir[x].by.bc = x.prog
    /\ dir[x].by.args = (IF x.prog = "json" THEN None ELSE Owner(x))
    /\ dir[x].by.template = (IF x.prog \in Templated THEN x.prog ELSE None)

(* The name of a directory tells which experiment ran in it: the report     *)
(* scripts know the memory model, the baseline and the statistics they read *)
(* about from the path alone.                                               *)
LabelHonest ==
  \A x \in Slots : Opened(x) =>
    LET o == dir[x].by.opts
    IN /\ o.rebase <=> IsDsmm(x)
       /\ o.bin = "VANILLA_KLEE" <=> x.suite \in FmmSuites /\ x.role = "out-klee"
       /\ o.iso <=> x.role # "out-klee"
       /\ o.stats <=> x.suite = "validation"

(* The two runs that a report compares differ in nothing but what is        *)
(* measured: same counterexample cache, memory model and limits.            *)
PairsComparable ==
  \A x, y \in Slots :
    /\ Opened(x) /\ Opened(y)
    /\ x.suite = y.suite /\ x.prog = y.prog
    /\ x.suite \in FmmSuites \cup DsmmSuites
    => LET a == dir[x].by
           b == dir[y].by
       IN /\ a.opts.cex = b.opts.cex
          /\ a.opts.rebase = b.opts.rebase
          /\ a.opts.limit = b.opts.limit
          /\ a.args = b.args /\ a.bc = b.bc /\ a.flags = b.flags

(* However many scripts run at once, and whatever was killed before: a      *)
(* directory is being written exactly while one shell waits for the KLEE    *)
(* that created it, so no two KLEEs share a directory and none is orphaned. *)
OneWriter ==
  /\ \A s \in Shells : pc[s] = "klee" => dir[Target(s)].st = "open"
  /\ \A s, t \in Shells :
       pc[s] = "klee" /\ pc[t] = "klee" /\ Target(s) = Target(t) => s = t
  /\ \A x \in Slots :
       dir[x].st = "open" => \E s \in Shells : pc[s] = "klee" /\ Target(s) = x

(* In run_qc_all.sh and run_overhead_all.sh a leg finds what it needs but   *)
(* does not make: a FLAGS that names no option twice (two scripts source    *)
(* run.sh into one shell), the suite directory that the libosip or libyaml  *)
(* leg made, and the sandbox that the fmm half left for the dsmm half.      *)
LegsPrepared ==
  \A s \in Shells : pc[s] # "idle" /\ AtKlee(s) =>
    /\ Parses(env[s])
    /\ Parent(env[s], Leg(s)) \in made
    /\ Logged(Leg(s)) => sandbox # "absent"

(* The baseline run of a utility starts in a freshly unpacked sandbox,      *)
(* whatever ran, was killed or rebooted before.                             *)
BaselineClean ==
  \A x \in Slots :
    Opened(x) /\ x.suite = "overhead_fmm" /\ x.role = "out-klee" /\ IsUtil(x)
    => dir[x].box = "clean"

(* While a coreutils loop is at a job, the status log holds one line per    *)
(* finished job, in order, and a zero status is never a lie.                *)
LogMatchesLoop ==
  \A s \in Shells :
    pc[s] \in {"job", "untar", "klee?", "klee", "log"} /\ Logged(Leg(s)) =>
      /\ Len(log) = pos[s].job - 1
      /\ \A i \in DOMAIN log :
           LET j == Jobs(Leg(s))[i]
           IN /\ log[i].name = j.name /\ log[i].role = j.role
              /\ log[i].status = 0 => dir[OutputDir(env[s], Leg(s), j)].st = "done"

(* The artifact directory is a result store: written once, never relabelled.*)
Store == INSTANCE ResultStore WITH slot <- dir
WriteOnce == Store!Spec

(* A script never hangs by itself: it keeps coming back to a running KLEE   *)
(* or to its end.                                                           *)
NeverStuck == \A s \in Shells : []<>(pc[s] \in {"idle", "klee"})

\* The scripts all of whose runs have a time limit.
LimitedScripts ==
  {"run_overhead_fmm", "run_overhead_dsmm", "run_overhead_all",
   "coreutils_run_validation"}

(* The overhead scripts, whose runs have a time limit, come to their end    *)
(* whatever else is started, dies or is killed meanwhile.                   *)
OverheadEnds ==
  \A s \in Shells : pos[s].top \in LimitedScripts ~> pc[s] = "idle"
=============================================================================
