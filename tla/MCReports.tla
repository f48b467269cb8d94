----------------------------- MODULE MCReports -----------------------------
(* Instances of Reports for TLC. *)
EXTENDS Reports, TLC

Symmetry == Permutations(Thread) \cup Permutations(Machine)
=============================================================================
