----------------------------- MODULE MCContext -----------------------------
(* Instances of Context for TLC.  Tasks are interchangeable: no action and *)
(* no property names one.                                                  *)
EXTENDS Dump, TLC

Symmetry == Permutations(Task)
=============================================================================
