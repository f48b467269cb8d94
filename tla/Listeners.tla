------------------------------ MODULE Listeners ------------------------------
(***************************************************************************)
(* What events promise: the tasks that listen to an event form a queue; a  *)
(* trigger offers the event to those that listen when it begins, once each *)
(* and in the order in which they began to listen, until one stops it.     *)
(* Whoever leaves a queue in another way does not disturb the others.      *)
(***************************************************************************)
EXTENDS Naturals, Sequences, SequencesExt

CONSTANTS Task, Event

VARIABLES
    queue,      \* queue[e]: the tasks that listen to e
    offer       \* the tasks that the trigger in progress has still to reach

vars == <<queue, offer>>

Idle == offer = <<>>

Without(e, i) == [queue EXCEPT ![e] = RemoveAt(@, i)]

Join(e, s) ==
    /\ Idle
    /\ \A f \in Event : s \notin ToSet(queue[f])
    /\ queue' = [queue EXCEPT ![e] = Append(@, s)]
    /\ UNCHANGED offer

Leave(e, i) ==
    /\ Idle
    /\ queue' = Without(e, i)
    /\ UNCHANGED offer

Trigger(e) ==
    /\ Idle
    /\ offer' = queue[e]
    /\ UNCHANGED queue

(* The first task that is left is released, or keeps listening. *)
Offer(e, i) ==
    /\ ~Idle
    /\ queue[e][i] = Head(offer)
    /\ queue' \in {queue, Without(e, i)}
    /\ offer' \in {Tail(offer), <<>>}

Init == queue = [e \in Event |-> <<>>] /\ offer = <<>>

Next == \E e \in Event :
            \/ Trigger(e) \/ \E s \in Task : Join(e, s)
            \/ \E i \in DOMAIN queue[e] : Leave(e, i) \/ Offer(e, i)

Spec == Init /\ [][Next]_vars
=============================================================================
