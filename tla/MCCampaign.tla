----------------------------- MODULE MCCampaign -----------------------------
(* Small instances of Campaign: the benchmarks and utilities are the ones   *)
(* whose scripts differ (a template, no arguments, redefined functions, no  *)
(* CACHE_FLAGS, a loop with a log), the plans the scripts operators run.    *)
EXTENDS Campaign

CONSTANTS s1, s2, Plans

VARIABLE plan  \* per shell: the scripts its operator has in mind

QcPlan       == [s \in Shells |-> IF s = s1 THEN {"run_qc_all"} ELSE {}]
OverheadPlan == [s \in Shells |-> IF s = s1 THEN {"run_overhead_all"} ELSE {}]
SharedPlan   == [s \in Shells |->
                   IF s = s1 THEN {"run_qc_all", "run_validation_all"}
                   ELSE {"run_qc_dsmm_all", "run_qc_fmm_all"}]
LimitedPlan  == [s \in Shells |->
                   IF s = s1 THEN {"run_overhead_fmm", "coreutils_run_validation"}
                   ELSE {}]

AlonePlans == {QcPlan, OverheadPlan}
LabelPlans == {SharedPlan, LimitedPlan}
AllScripts == [s \in {s1, s2} |-> DOMAIN Script]

MCInit == Init /\ plan \in Plans
MCNext ==
  /\ Next
  /\ \A s \in Shells : pos'[s].top \in plan[s] \cup {None}
  /\ UNCHANGED plan
MCSpec == MCInit /\ [][MCNext]_<<vars, plan>>
MCFairSpec == MCSpec /\ Fairness

MakeJson     == <<"make", "json">>
Sqlite       == <<"sqlite">>
LibsAndUtils == <<"libosip", "coreutils">>
LibyamlUtils == <<"libyaml", "coreutils">>
Cat          == <<"cat">>
=============================================================================
