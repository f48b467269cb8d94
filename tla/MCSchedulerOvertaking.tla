----------------------- MODULE MCSchedulerOvertaking -----------------------
(* Instances of SchedulerOvertaking for TLC. *)
EXTENDS SchedulerOvertaking, TLC

(* The tasks other than the observed pair are interchangeable. *)
OSymmetry == Permutations(Machine) \cup Permutations(Task \ {Patient, Hasty})
=============================================================================
