---------------------------- MODULE ResultStore ----------------------------
(***************************************************************************)
(* What an experiment campaign promises about its artifact directory: one  *)
(* slot per output directory, filled once and never changed afterwards.    *)
(*                                                                         *)
(* A slot is absent until a KLEE process creates the directory, open while *)
(* that process writes into it, and then either done (the run completed)   *)
(* or dead (the process was killed or gave up).  Nothing reopens, empties  *)
(* or relabels a slot, so whatever a report script reads from a finished   *)
(* slot stays true.  KLEE itself is not part of the repository: the life   *)
(* cycle is the one the run scripts and the report scripts rely on.        *)
(***************************************************************************)

CONSTANT Slots

VARIABLE slot    \* slot[s] = [st, by, res]: state, command line, result

Absent(s) == slot[s].st = "absent"
Open(s)   == slot[s].st = "open"
Settled(s) == slot[s].st \in {"done", "dead"}

Init == \A s \in Slots : slot[s].st = "absent"

(* A KLEE process creates the output directory: by is the command line.    *)
Create(s) ==
  /\ Absent(s)
  /\ slot'[s].st = "open"
  /\ slot' = [slot EXCEPT ![s] = slot'[s]]

(* The process ends: the directory keeps the command line it was opened by.*)
Settle(s) ==
  /\ Open(s)
  /\ slot'[s].st \in {"done", "dead"}
  /\ slot'[s].by = slot[s].by
  /\ slot' = [slot EXCEPT ![s] = slot'[s]]

(* A directory whose process dies before it wrote anything of use: creation *)
(* and death within one observable step.                                    *)
Stillborn(s) ==
  /\ Absent(s)
  /\ slot'[s].st = "dead"
  /\ slot' = [slot EXCEPT ![s] = slot'[s]]

(* The machine goes down: every open slot dies, no other slot changes.      *)
Crash ==
  slot' = [s \in Slots |->
             IF Open(s) THEN [slot[s] EXCEPT !.st = "dead"] ELSE slot[s]]

Next ==
  \/ \E s \in Slots : Create(s) \/ Settle(s) \/ Stillborn(s)
  \/ Crash

Spec == Init /\ [][Next]_slot
=============================================================================
