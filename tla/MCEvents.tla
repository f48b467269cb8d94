----------------------------- MODULE MCEvents ------------------------------
(* Instances of Events for TLC.  Tasks are interchangeable, and so are     *)
(* events.  The callbacks are those that make a difference to what the     *)
(* library does: one that is asked about triggers, one that is not, none.  *)
EXTENDS Events, TLC

Symmetry == Permutations(Task) \cup Permutations(Event)

SomeCallbacks == {NoCallback} \cup
                 [set : {TRUE}, flag : {{"TRIGGER"}, {"REQUEST", "ABORT"}}]
=============================================================================
