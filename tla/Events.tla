------------------------------- MODULE Events -------------------------------
(***************************************************************************)
(* Virtual events.  A task that listens has a binder, linked in the ring   *)
(* of the binders of its event.  A trigger goes around the ring, releasing *)
(* binders as it goes; zm_unbind, zm_unbindAll and the close of a task     *)
(* release them too.                                                       *)
(*                                                                         *)
(* A task has at most one binder, so a binder is known by its owner.       *)
(* Tasks are ptasks without subtasks; closing branches is the subject of   *)
(* Context.  The loops of zm_trigger and zm_unbindAll make one step per    *)
(* binder; nothing else happens meanwhile, for a callback may not use the  *)
(* library (MANUAL.md:1507).                                               *)
(***************************************************************************)
EXTENDS Naturals, FiniteSets, Sequences, SequencesExt

CONSTANTS
    Task,       \* identities of ptasks
    Event,      \* identities of events
    NULL,       \* the null pointer
    Callbacks   \* the callbacks given to zm_setEventCB, see Callback

Scope == {"TRIGGER", "REQUEST", "ABORT"}

(* Whether zm_Event.evcb is set, and zm_Event.flag. *)
Callback   == [set : BOOLEAN, flag : SUBSET Scope]
NoCallback == [set |-> FALSE, flag |-> {}]

ASSUME NullAssumption     == NULL \notin Task \cup Event
ASSUME TaskAssumption     == IsFiniteSet(Task)
ASSUME CallbackAssumption == Callbacks \subseteq Callback

VARIABLES
    events,     \* the events that exist
    bindlist,   \* zm_Event.bindlist, a task or NULL
    count,      \* zm_Event.count
    evcb,       \* zm_Event.evcb and flag, a Callback
    binder,     \* the binder of each task, or NoBinder
    locked,     \* the tasks with ZM_STATE_EVENTLOCKED
    run,        \* the tasks with ZM_STATE_RUN
    waiting,    \* the tasks with ZM_STATE_WAITING
    tasks,      \* the tasks that exist
    closing,    \* the tasks with ZM_STATE_IMPLOSIONLOCK
    call,       \* the loop in progress
    heard,      \* the callback made in the last step and its answer, or Silence
    fatal       \* the code of the check that failed, if one did

evars == <<events, evcb>>
rings == <<bindlist, count, binder>>
flags == <<locked, run, waiting>>
lives == <<tasks, closing>>
vars  == <<events, bindlist, count, evcb, binder, locked, run, waiting,
           tasks, closing, call, heard, fatal>>

NoBinder == [event |-> NULL, next |-> NULL, prev |-> NULL]
NoCall   == [kind |-> "none", event |-> NULL, evb |-> NULL, n |-> 0]
Silence  == [event |-> NULL, scope |-> NULL, task |-> NULL, answer |-> NULL]

(* The code runs: no check failed and no loop of the library goes on. *)
Ready == fatal = "none" /\ call = NoCall

Heard(e, scope, s, answer) ==
    [event |-> e, scope |-> scope, task |-> s, answer |-> answer]

Quiet == heard' = Silence

(* zm_hasFlag(event, scope) && event->evcb *)
Calls(e, scope) == evcb[e].set /\ scope \in evcb[e].flag
----------------------------------------------------------------------------
(* The ring of binders. *)

BindEvent_First(e, s) ==
    LET first == bindlist[e]
        last  == binder[first].prev
        new   == IF first = NULL THEN [event |-> e, next |-> s, prev |-> s]
                 ELSE [event |-> e, next |-> first, prev |-> last]
    IN  /\ bindlist' = [bindlist EXCEPT ![e] = s]
        /\ count'    = [count EXCEPT ![e] = @ + 1]
        /\ binder'   = IF first = NULL THEN [binder EXCEPT ![s] = new]
                       ELSE [binder EXCEPT ![s] = new, ![last].next = s, ![first].prev = s]

BindEvent_FirstUncounted(e, s) ==
    LET first == bindlist[e]
        last  == binder[first].prev
    IN  IF first = NULL
        THEN /\ bindlist' = [bindlist EXCEPT ![e] = s]
             /\ binder'   = [binder EXCEPT ![s] = [event |-> e, next |-> s, prev |-> s]]
             /\ UNCHANGED count
        ELSE /\ binder'   = [binder EXCEPT
                               ![s]          = [event |-> e, next |-> first, prev |-> last],
                               ![last].next  = s,
                               ![first].prev = s]
             /\ count' = [count EXCEPT ![e] = @ + 1]
             /\ UNCHANGED bindlist

(* A new binder is put last. *)
BindEvent(e, s) ==
    LET first == bindlist[e]
        last  == binder[first].prev
    IN  /\ count' = [count EXCEPT ![e] = @ + 1]
        /\ IF first = NULL
           THEN /\ bindlist' = [bindlist EXCEPT ![e] = s]
                /\ binder'   = [binder EXCEPT ![s] = [event |-> e, next |-> s, prev |-> s]]
           ELSE /\ binder'   = [binder EXCEPT
                                  ![s]          = [event |-> e, next |-> first, prev |-> last],
                                  ![last].next  = s,
                                  ![first].prev = s]
                /\ UNCHANGED bindlist

UnlinkBinder_OneWay(s) ==
    LET b == binder[s]
    IN  /\ bindlist' = [bindlist EXCEPT
                          ![b.event] = IF @ # s THEN @
                                       ELSE IF b.next = s THEN NULL ELSE b.next]
        /\ count'    = [count EXCEPT ![b.event] = @ - 1]
        /\ binder'   = [binder EXCEPT ![b.prev].next = b.next, ![s] = NoBinder]

UnlinkBinder_NoCount(s) ==
    LET b == binder[s]
    IN  /\ bindlist' = [bindlist EXCEPT
                          ![b.event] = IF @ # s THEN @
                                       ELSE IF b.next = s THEN NULL ELSE b.next]
        /\ binder'   = [[binder EXCEPT ![b.prev].next = b.next,
                                       ![b.next].prev = b.prev]
                           EXCEPT ![s] = NoBinder]
        /\ UNCHANGED count

(* The binder of s is released; the one after it takes the head. *)
UnlinkBinder(s) ==
    LET b == binder[s]
    IN  /\ bindlist' = [bindlist EXCEPT
                          ![b.event] = IF @ # s THEN @
                                       ELSE IF b.next = s THEN NULL ELSE b.next]
        /\ count'    = [count EXCEPT ![b.event] = @ - 1]
        /\ binder'   = [[binder EXCEPT ![b.prev].next = b.next,
                                       ![b.next].prev = b.prev]
                           EXCEPT ![s] = NoBinder]

(* zm_unbindEvent, but its callback: s is released and resumed. *)
UnbindEvent(s) ==
    IF s \notin locked \/ binder[s].event = NULL
    THEN /\ fatal' = "UNBNDEV"
         /\ UNCHANGED <<rings, flags>>
    ELSE /\ UnlinkBinder(s)
         /\ locked'  = locked \ {s}
         /\ run'     = run \cup {s}
         /\ waiting' = waiting \ {s}
         /\ fatal'   = IF s \in run THEN "RESST.R" ELSE fatal

(* The callback of zm_unbindEvent; the scope it was set with is not asked, *)
(* whatever MANUAL.md:1473 says.                                           *)
UnbindCallback(s, scope) ==
    LET e == binder[s].event
    IN  IF s \in locked /\ evcb[e].set THEN Heard(e, scope, s, NULL) ELSE Silence
----------------------------------------------------------------------------
(* Events. *)

(* zm_newEvent and zm_setEventCB *)
NewEvent(e, cb) ==
    /\ Ready
    /\ e \notin events
    /\ events' = events \cup {e}
    /\ evcb'   = [evcb EXCEPT ![e] = cb]
    /\ UNCHANGED <<rings, flags, lives, call, fatal>>
    /\ Quiet

SetEventCB(e, cb) ==
    /\ Ready
    /\ e \in events /\ cb # evcb[e]
    /\ evcb' = [evcb EXCEPT ![e] = cb]
    /\ UNCHANGED <<events, rings, flags, lives, call, fatal>>
    /\ Quiet

(* A user error (FREEEV.NE) while somebody listens. *)
FreeEvent(e) ==
    /\ Ready
    /\ e \in events /\ count[e] = 0
    /\ events' = events \ {e}
    /\ heard'  = IF Calls(e, "REQUEST") \/ Calls(e, "ABORT")
                 THEN Heard(e, "REQUEST", NULL, NULL) ELSE Silence
    /\ UNCHANGED <<evcb, rings, flags, lives, call, fatal>>

Answers == {"ACCEPTED", "REFUSED"}

(* zm_trigger up to its loop.  answer is what the callback returns when it *)
(* is asked about the whole trigger.                                       *)
Trigger(e, answer) ==
    /\ Ready
    /\ e \in events
    /\ IF Calls(e, "TRIGGER") THEN heard' = Heard(e, "TRIGGER", NULL, answer)
       ELSE answer = "ACCEPTED" /\ Quiet
    /\ call' = IF answer = "REFUSED" \/ bindlist[e] = NULL THEN NoCall
               ELSE [kind |-> "trigger", event |-> e, evb |-> bindlist[e], n |-> count[e]]
    /\ UNCHANGED <<evars, rings, flags, lives, fatal>>

(* One turn of the loop of zm_trigger: the callback, if there is one for   *)
(* triggers, answers for the task and may stop the loop; the binder after  *)
(* this one is read before this one is released.                           *)
Fetch(answer, stop) ==
    /\ fatal = "none" /\ call.kind = "trigger"
    /\ IF Calls(call.event, "TRIGGER")
       THEN heard' = Heard(call.event, "TRIGGER", call.evb, answer)
       ELSE answer = "ACCEPTED" /\ ~stop /\ Quiet
    /\ UnbindEvent(call.evb)
    /\ call' = IF stop \/ call.n = 1 THEN NoCall
               ELSE [call EXCEPT !.evb = binder[@].next, !.n = @ - 1]
    /\ UNCHANGED <<evars, lives>>

(* zm_unbind of any task that listens: the event e it is given is not      *)
(* looked at, whatever MANUAL.md:1455 says.                                *)
Unbind(e, s) ==
    /\ Ready
    /\ e \in events /\ s \in locked
    /\ heard' = UnbindCallback(s, "REQUEST")
    /\ UnbindEvent(s)
    /\ UNCHANGED <<evars, lives, call>>

(* zm_unbindAll *)
UnbindAll(e) ==
    /\ Ready
    /\ e \in events
    /\ call' = [NoCall EXCEPT !.kind = "unbindAll", !.event = e]
    /\ UNCHANGED <<evars, rings, flags, lives, fatal>>
    /\ Quiet

UnbindFirst_Asks ==
    /\ fatal = "none" /\ call.kind = "unbindAll"
    /\ bindlist[call.event] # NULL
    /\ heard' = UnbindCallback(bindlist[call.event], "REQUEST")
    /\ IF evcb[call.event].set THEN UNCHANGED <<rings, flags, fatal>>
       ELSE UnbindEvent(bindlist[call.event])
    /\ UNCHANGED <<evars, lives, call>>

UnbindFirst ==
    /\ fatal = "none" /\ call.kind = "unbindAll"
    /\ bindlist[call.event] # NULL
    /\ heard' = UnbindCallback(bindlist[call.event], "REQUEST")
    /\ UnbindEvent(bindlist[call.event])
    /\ UNCHANGED <<evars, lives, call>>

UnbindAllEnd ==
    /\ fatal = "none" /\ call.kind = "unbindAll"
    /\ bindlist[call.event] = NULL
    /\ fatal' = IF count[call.event] # 0 THEN "UNBIND.STL" ELSE fatal
    /\ call'  = NoCall
    /\ UNCHANGED <<evars, rings, flags, lives>>
    /\ Quiet
----------------------------------------------------------------------------
(* Tasks. *)

NewTask(s) ==
    /\ Ready
    /\ s \notin tasks
    /\ tasks' = tasks \cup {s}
    /\ UNCHANGED <<evars, rings, flags, closing, call, fatal>>
    /\ Quiet

(* zm_resume; a task that closes cannot be resumed. *)
Resume(s) ==
    /\ Ready
    /\ s \in tasks \ (run \cup waiting \cup closing)
    /\ run' = run \cup {s}
    /\ UNCHANGED <<evars, rings, locked, waiting, lives, call, fatal>>
    /\ Quiet

(* zmEVENT: the binder is linked when the yield is made, and the task is   *)
(* suspended when zm_go receives it.                                       *)
Listen(s, e) ==
    /\ Ready
    /\ s \in run \ closing /\ e \in events
    /\ BindEvent(e, s)
    /\ locked'  = locked \cup {s}
    /\ run'     = run \ {s}
    /\ waiting' = waiting \cup {s}
    /\ UNCHANGED <<evars, lives, call, fatal>>
    /\ Quiet

(* zmSUSPEND *)
Suspend(s) ==
    /\ Ready
    /\ s \in run \ closing
    /\ run' = run \ {s}
    /\ UNCHANGED <<evars, rings, locked, waiting, lives, call, fatal>>
    /\ Quiet

Abort_Resumes(s) ==
    /\ Ready
    /\ s \in tasks \ closing
    /\ run'     = run \cup {s}
    /\ waiting' = waiting \ {s}
    /\ closing' = closing \cup {s}
    /\ UNCHANGED <<evars, rings, locked, tasks, call, fatal>>
    /\ Quiet

(* zm_abort or zmTERM: a task that listens is released first. *)
Abort(s) ==
    /\ Ready
    /\ s \in tasks \ closing
    /\ heard' = IF s \in locked THEN UnbindCallback(s, "ABORT") ELSE Silence
    /\ IF s \in locked THEN UnbindEvent(s)
       ELSE /\ run' = run \cup {s}
            /\ UNCHANGED <<rings, locked, waiting, fatal>>
    /\ closing' = closing \cup {s}
    /\ UNCHANGED <<evars, tasks, call>>

(* The steps of a task that closes, up to its end. *)
End(s) ==
    /\ Ready
    /\ s \in run \cap closing
    /\ run'     = run \ {s}
    /\ tasks'   = tasks \ {s}
    /\ closing' = closing \ {s}
    /\ UNCHANGED <<evars, rings, locked, waiting, call, fatal>>
    /\ Quiet
----------------------------------------------------------------------------
Init ==
    /\ events   = {}
    /\ bindlist = [e \in Event |-> NULL]
    /\ count    = [e \in Event |-> 0]
    /\ evcb     = [e \in Event |-> NoCallback]
    /\ binder   = [s \in Task |-> NoBinder]
    /\ locked = {} /\ run = {} /\ waiting = {} /\ tasks = {} /\ closing = {}
    /\ call = NoCall /\ heard = Silence /\ fatal = "none"

EventCalls(e) ==
    \/ \E cb \in Callbacks : NewEvent(e, cb) \/ SetEventCB(e, cb)
    \/ FreeEvent(e) \/ UnbindAll(e)
    \/ \E answer \in Answers : Trigger(e, answer)
    \/ \E s \in Task : Unbind(e, s) \/ Listen(s, e)

TaskCalls(s) == NewTask(s) \/ Resume(s) \/ Suspend(s) \/ Abort(s) \/ End(s)

Loops ==
    \/ \E answer \in Answers, stop \in BOOLEAN : Fetch(answer, stop)
    \/ UnbindFirst \/ UnbindAllEnd

Next ==
    \/ Loops
    \/ \E e \in Event : EventCalls(e)
    \/ \E s \in Task : TaskCalls(s)

Spec == Init /\ [][Next]_vars
----------------------------------------------------------------------------
(* Properties. *)

(* Type invariant. *)
TypeOK ==
    /\ events \subseteq Event
    /\ bindlist \in [Event -> Task \cup {NULL}]
    /\ count \in [Event -> Nat]
    /\ evcb \in [Event -> Callback]
    /\ binder \in [Task -> [event : Event \cup {NULL}, next : Task \cup {NULL},
                            prev : Task \cup {NULL}]]
    /\ locked \subseteq Task /\ run \subseteq Task /\ waiting \subseteq Task
    /\ tasks \subseteq Task /\ closing \subseteq Task
    /\ call \in [kind : {"none", "trigger", "unbindAll"}, event : Event \cup {NULL},
                 evb : Task \cup {NULL}, n : Nat]
    /\ heard \in [event : Event \cup {NULL}, scope : Scope \cup {NULL},
                  task : Task \cup {NULL}, answer : Answers \cup {NULL}]
    /\ fatal \in {"none", "UNBNDEV", "RESST.R", "UNBIND.STL"}

(* No internal check fails: no task is released or resumed twice, and the  *)
(* count of an event is 0 when zm_unbindAll has emptied its ring.          *)
NoInternalFatal == fatal = "none"

Listening(e) == {s \in Task : binder[s].event = e}

(* ring is the cycle of the binders of e, entered by bindlist. *)
IsRing(e, ring) ==
    LET n == count[e]
    IN  /\ \A i, j \in 1..n : ring[i] = ring[j] => i = j
        /\ {ring[i] : i \in 1..n} = Listening(e)
        /\ bindlist[e] = IF n = 0 THEN NULL ELSE ring[1]
        /\ \A i \in 1..n : /\ binder[ring[i]].next = ring[IF i = n THEN 1 ELSE i + 1]
                           /\ binder[ring[i]].prev = ring[IF i = 1 THEN n ELSE i - 1]

(* The ring of each event is one doubly linked cycle through the binders   *)
(* of that event, count of them, also while a trigger takes them out.      *)
RingsWellFormed == \A e \in Event : \E ring \in [1..count[e] -> Task] : IsRing(e, ring)

(* A task listens, and then waits, or it has no binder: it is never woken  *)
(* with a binder left behind, nor closed or freed with one.                *)
ListenersWait ==
    /\ locked = {s \in Task : binder[s].event # NULL}
    /\ locked = waiting
    /\ locked \subseteq tasks \ (run \cup closing)
    /\ \A s \in locked : binder[s].event \in events

(* The binders met from s on, n of them. *)
Walk(s, n) ==
    CHOOSE q \in [1..n -> Task \cup {NULL}] :
        \A i \in 1..n : q[i] = IF i = 1 THEN s
                               ELSE IF q[i - 1] = NULL THEN NULL ELSE binder[q[i - 1]].next

(* The rings implement queues, of which a trigger makes one round. *)
Queues == INSTANCE Listeners
            WITH queue <- [e \in Event |-> Walk(bindlist[e], count[e])],
                 offer <- IF call.kind = "trigger" THEN Walk(call.evb, call.n) ELSE <<>>

ImplementsListeners == Queues!Spec

(* The loops of the library run without a pause. *)
FairSpec == Spec /\ WF_vars(Loops)

(* zm_trigger and zm_unbindAll return. *)
CallsReturn == call # NoCall ~> call = NoCall

(* "ZM_EVENT_REFUSED: refuse the event for the current task that continue  *)
(* to be binded to the event" (MANUAL.md:1538).                            *)
RefusedStaysBound ==
    [][heard'.answer = "REFUSED" /\ heard'.task # NULL
          => binder'[heard'.task] = binder[heard'.task]]_vars
=============================================================================
