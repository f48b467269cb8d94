---------------------------- MODULE MCScheduler ----------------------------
(* Instances of Scheduler for TLC.  Tasks are interchangeable: no action   *)
(* and no property names one, and the same holds of the machines when      *)
(* none or all of them may be filtered.                                    *)
EXTENDS Scheduler, TLC

Symmetry == Permutations(Task) \cup Permutations(Machine)
=============================================================================
