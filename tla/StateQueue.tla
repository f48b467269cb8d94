----------------------------- MODULE StateQueue -----------------------------
(***************************************************************************)
(* The first-in first-out queue of tasks (zm_StateQueue), cell by cell.    *)
(* Nobody puts a task in a queue twice, so a cell (zm_StateList) is named  *)
(* by its task: q.next has the cells that are allocated, and what they     *)
(* lead to; q.first and q.last may refer to one that is not.               *)
(***************************************************************************)
EXTENDS Naturals, Sequences
LOCAL INSTANCE TLC
LOCAL INSTANCE SequencesExt

CONSTANTS Task, NULL

QueueNew == [first |-> NULL, last |-> NULL, next |-> <<>>]

QueueIsEmpty(q) == q.first = NULL

(* Only for a queue from which QueueFindPop has taken nothing. *)
QueueAdd(q, s) ==
    LET linked == IF QueueIsEmpty(q) THEN q.next ELSE [q.next EXCEPT ![q.last] = s]
    IN  [first |-> IF QueueIsEmpty(q) THEN s ELSE q.first,
         last  |-> s,
         next  |-> linked @@ (s :> NULL)]

(* The tasks of the queue from the first on. *)
Elements(q) ==
    LET from[s \in Task \cup {NULL}] ==
            IF s \notin DOMAIN q.next THEN <<>> ELSE <<s>> \o from[q.next[s]]
    IN  from[q.first]

(* The cells that are left when s gives up its own. *)
Released(next, s) == [t \in DOMAIN next \ {s} |-> next[t]]

TakeOut_KeepsLink(q, e, i) ==
    [first |-> q.next[e[i]], last |-> q.last, next |-> Released(q.next, e[i])]

(* The queue q of the tasks e without the i-th.  q.last is left alone,     *)
(* although its cell may be the one that is released.                      *)
TakeOut(q, e, i) ==
    IF i = 1
    THEN [q EXCEPT !.first = q.next[e[i]], !.next = Released(@, e[i])]
    ELSE [q EXCEPT !.next = Released([@ EXCEPT ![e[i - 1]] = q.next[e[i]]], e[i])]

Found(q, e, i) ==
    IF i = 0 THEN [found |-> NULL, queue |-> q]
    ELSE [found |-> e[i], queue |-> TakeOut(q, e, i)]

FindPop(q, e, match) == Found(q, e, SelectInSeq(e, LAMBDA s : s \in match))

(* The first task of the set match, and the queue without it. *)
QueueFindPop(q, match) == FindPop(q, Elements(q), match)
=============================================================================
