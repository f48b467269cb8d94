------------------------------ MODULE MCLocks ------------------------------
(* Instances of Locks for TLC.  The event of the lock has the callback     *)
(* acquirecb, set for triggers.                                            *)
EXTENDS Locks

OneCallback == {[set |-> TRUE, flag |-> {"TRIGGER"}]}
=============================================================================
