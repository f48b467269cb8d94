----------------------------- MODULE RunQueues -----------------------------
(***************************************************************************)
(* What the scheduler promises, without its pointers.  Each worker runs    *)
(* its tasks in rounds: todo[w] are the tasks of the round that have not   *)
(* run yet, ran[w] those that have, followed by those that were resumed    *)
(* meanwhile, both in the order in which they will run.  ring is the order *)
(* of the workers, the one whose turn it is first.                         *)
(***************************************************************************)
EXTENDS Naturals, Sequences, SequencesExt

CONSTANTS Task, Machine, NULL

VARIABLES
    todo, ran,   \* [Machine -> Seq(Task)]
    ring,        \* the workers that have tasks
    stepping     \* the task whose machine step is open, NULL if none

vars == <<todo, ran, ring, stepping>>

Queued(w) == ToSet(todo[w]) \cup ToSet(ran[w])

Init ==
    /\ todo = [w \in Machine |-> <<>>]
    /\ ran  = [w \in Machine |-> <<>>]
    /\ ring = <<>>
    /\ stepping = NULL

(* The effect of a resume of t on worker w, given the queues after what    *)
(* the same step did before: t runs at the next round, unless w was idle,  *)
(* and an idle w becomes the last worker.                                  *)
Enqueued(w, t, td, rn, rg) ==
    IF td[w] = <<>> /\ rn[w] = <<>>
    THEN /\ todo' = [td EXCEPT ![w] = <<t>>]
         /\ ran'  = rn
         /\ ring' = Append(rg, w)
    ELSE /\ ran'  = [rn EXCEPT ![w] = Append(@, t)]
         /\ todo' = td
         /\ ring' = rg

Resume(t) ==
    /\ UNCHANGED stepping
    /\ \A v \in Machine : t \notin Queued(v)
    /\ \E w \in Machine : Enqueued(w, t, todo, ran, ring)

(* A new round begins for the queues td, rn of w. *)
Todo(w) == IF todo[w] = <<>> THEN ran[w] ELSE todo[w]
Ran(w)  == IF todo[w] = <<>> THEN <<>> ELSE ran[w]

First == Head(ring)

(* The round of the worker whose turn it is is over: next worker. *)
Rotate ==
    /\ stepping = NULL /\ UNCHANGED stepping
    /\ Len(ring) > 1 /\ todo[First] = <<>>
    /\ todo' = [todo EXCEPT ![First] = ran[First]]
    /\ ran'  = [ran EXCEPT ![First] = <<>>]
    /\ ring' = Append(Tail(ring), First)

(* It is the turn of the first worker, which begins a new round at once    *)
(* only when it is alone.                                                  *)
Turn ==
    /\ stepping = NULL
    /\ ring # <<>>
    /\ todo[First] # <<>> \/ Len(ring) = 1

(* The first task to do of the worker begins its step. *)
Pick ==
    /\ Turn
    /\ stepping' = Head(Todo(First))
    /\ todo' = [todo EXCEPT ![First] = Todo(First)]
    /\ ran'  = [ran EXCEPT ![First] = Ran(First)]
    /\ UNCHANGED ring

(* The step that is open ends. *)
Yield == stepping # NULL /\ stepping' = NULL /\ ring # <<>>

(* ... and the task has run in this round, *)
Keep ==
    /\ Yield
    /\ todo' = [todo EXCEPT ![First] = Tail(@)]
    /\ ran'  = [ran EXCEPT ![First] = Append(@, stepping)]
    /\ UNCHANGED ring

WithoutHead == [todo EXCEPT ![First] = Tail(Todo(First))]
RingWithout ==
    IF Tail(Todo(First)) = <<>> /\ Ran(First) = <<>> THEN Tail(ring) ELSE ring

(* or leaves the queues, *)
Drop ==
    /\ Yield
    /\ todo' = WithoutHead
    /\ ring' = RingWithout
    /\ UNCHANGED ran

(* or leaves them and comes back as the last one, to close. *)
DropAndResume ==
    /\ Yield
    /\ Enqueued(First, stepping, WithoutHead, ran, RingWithout)

(* A task that has closed leaves the queues when its turn comes. *)
End ==
    /\ UNCHANGED stepping
    /\ Turn
    /\ todo' = WithoutHead
    /\ ran'  = [ran EXCEPT ![First] = Ran(First)]
    /\ ring' = RingWithout

(* Every step but a stutter changes the queues. *)
Next ==
    /\ vars' # vars
    /\ \/ Rotate
       \/ \E t \in Task : Resume(t)
       \/ Pick \/ Keep \/ Drop \/ DropAndResume \/ End

Spec == Init /\ [][Next]_vars
=============================================================================
