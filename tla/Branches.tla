------------------------------- MODULE Branches -------------------------------
(***************************************************************************)
(* What closing promises, without its machinery: the tasks form trees, a   *)
(* close takes a task with all that is below it, nothing grows below a     *)
(* closing task, and closing tasks end from the leaves to the root, each   *)
(* one with no task left below it (MANUAL.md, "Close tasks").              *)
(***************************************************************************)
EXTENDS FiniteSets

CONSTANTS Task, NULL

VARIABLES
    up,        \* the tree: the parent of every task that exists, or NULL
    closing    \* the tasks that close

vars == <<up, closing>>

Tasks == DOMAIN up

Below(S) == {t \in Tasks : up[t] \in S}

Init == up = <<>> /\ closing = {}

Spawn(s, p) ==
    /\ s \notin Tasks
    /\ p \in (Tasks \ closing) \cup {NULL}
    /\ up' = [t \in Tasks \cup {s} |-> IF t = s THEN p ELSE up[t]]
    /\ UNCHANGED closing

(* Some tasks, with their whole branches, begin to close. *)
Close(S) ==
    /\ S \subseteq Tasks \ closing
    /\ S # {}
    /\ Below(closing \cup S) \subseteq closing \cup S
    /\ closing' = closing \cup S
    /\ UNCHANGED up

(* A closing task ends: it is a leaf. *)
End(t) ==
    /\ t \in closing
    /\ Below({t}) = {}
    /\ up'      = [s \in Tasks \ {t} |-> up[s]]
    /\ closing' = closing \ {t}

(* Every step but a stutter changes the trees. *)
Next ==
    /\ vars' # vars
    /\ \/ \E s \in Task, p \in Task \cup {NULL} : Spawn(s, p)
       \/ \E S \in SUBSET Task : Close(S)
       \/ \E t \in Task : End(t)

Spec == Init /\ [][Next]_vars
=============================================================================
