------------------------------ MODULE RunLists ------------------------------
(***************************************************************************)
(* The scheduler's linked structures, pointer by pointer: the list of the  *)
(* running tasks of each worker (zm_Worker.states), the ring of the        *)
(* workers that have one (zm_VM.workercursor) and the session of a step.   *)
(*                                                                         *)
(* A VM has one worker per machine, so a worker is named by its machine.   *)
(* Every operator takes the structures as one record h and returns the     *)
(* record after the C function of the same name ran on it:                 *)
(*                                                                         *)
(*   next[t]     zm_State.next: the following task of the list while t     *)
(*               runs, the worker of t while t is suspended                *)
(*   run         the tasks with ZM_STATE_RUN                               *)
(*   waiting     the tasks with ZM_STATE_WAITING                           *)
(*   first, current, previous, nstate     the list and cursor of a worker  *)
(*   wnext, wprev, cursor, nworker        the ring of the workers          *)
(*   sstate, sworker, suspendop           the session of the current step  *)
(*   fatal       the code of the internal check that failed, if one did    *)
(*                                                                         *)
(* fatal records only the checks the code says cannot fail (ZM_FATAL_U1);  *)
(* what the user of the library may not do is excluded by the guards of    *)
(* the modules that call these operators.                                  *)
(***************************************************************************)
EXTENDS Naturals

CONSTANTS
    Task,      \* identities of zm_State objects
    Machine,   \* task classes, one worker each
    NULL       \* the null pointer

ASSUME NullAssumption == NULL \notin Task \cup Machine
ASSUME KindAssumption == Task \cap Machine = {}

OK == "none"   \* h.fatal while no internal check has failed

(* The cursor of worker w moves past its current task. *)
StateNext(h, w) ==
    [h EXCEPT !.previous[w] = h.current[w],
              !.current[w]  = h.next[h.current[w]]]

(* s becomes the only task of the list of w. *)
StateRewind(h, w, s) ==
    [h EXCEPT !.first[w] = s, !.current[w] = s,
              !.previous[w] = NULL, !.nstate[w] = 1]

StateUnlink_KeepsPrevious(h, w) ==
    IF h.suspendop # 0
    THEN [h EXCEPT !.fatal = "SCURS.RM"]
    ELSE [h EXCEPT !.suspendop   = 1,
                   !.first[w]    = h.next[h.current[w]],
                   !.current[w]  = h.next[h.current[w]]]

(* The current task of w leaves the list and the cursor moves past it.  A  *)
(* step may do this once.                                                  *)
StateUnlink(h, w) ==
    LET succ == h.next[h.current[w]]
        prev == h.previous[w]
    IN  IF h.suspendop # 0
        THEN [h EXCEPT !.fatal = "SCURS.RM"]
        ELSE IF prev # NULL
        THEN [h EXCEPT !.suspendop = 1, !.next[prev] = succ, !.current[w] = succ]
        ELSE [h EXCEPT !.suspendop = 1, !.first[w] = succ, !.current[w] = succ]

AddWorker_AfterCursor(h, w) ==
    LET c == h.cursor
        n == h.wnext[c]
    IN  IF h.nworker = 0
        THEN [h EXCEPT !.cursor = w, !.wnext[w] = w, !.wprev[w] = w,
                       !.nworker = 1]
        ELSE [h EXCEPT !.wnext = [@ EXCEPT ![w] = n, ![c] = w],
                       !.wprev = [@ EXCEPT ![w] = c, ![n] = w],
                       !.nworker = @ + 1]

(* Worker w joins the ring as the last one the cursor will reach. *)
AddWorker(h, w) ==
    LET c    == h.cursor
        last == h.wprev[c]
    IN  IF h.nworker = 0
        THEN [h EXCEPT !.cursor = w, !.wnext[w] = w, !.wprev[w] = w,
                       !.nworker = 1]
        ELSE [h EXCEPT !.wnext = [@ EXCEPT ![w] = c, ![last] = w],
                       !.wprev = [@ EXCEPT ![w] = last, ![c] = w],
                       !.nworker = @ + 1]

UnlinkWorker_StaleCursor(h, w) ==
    LET n == h.wnext[w]
        p == h.wprev[w]
    IN  IF h.nworker = 1
        THEN [h EXCEPT !.cursor = NULL, !.nworker = 0]
        ELSE [h EXCEPT !.wnext[p] = n, !.wprev[n] = p, !.nworker = @ - 1]

(* Worker w leaves the ring; a cursor on w moves to the next worker. *)
UnlinkWorker(h, w) ==
    LET n == h.wnext[w]
        p == h.wprev[w]
    IN  IF h.nworker = 1
        THEN [h EXCEPT !.cursor = NULL, !.nworker = 0]
        ELSE [h EXCEPT !.wnext[p] = n, !.wprev[n] = p, !.nworker = @ - 1,
                       !.cursor = IF @ = w THEN n ELSE @]

(* The cursor of the VM moves to the next worker of the ring. *)
NextWorker(h) == [h EXCEPT !.cursor = h.wnext[h.cursor]]

(* The cursor of w goes back to the head of its list. *)
RewindWorkerStates(h, w) ==
    [h EXCEPT !.previous[w] = NULL,
              !.current[w]  = h.first[w],
              !.fatal = IF h.nstate[w] # 0 /\ h.first[w] \notin h.run
                        THEN "RWINDW.1" ELSE @]

ResumeState_AtCursor(h, s) ==
    LET w == h.next[s]
        p == h.previous[w]
        g == [h EXCEPT !.run = @ \cup {s}, !.waiting = @ \ {s}]
    IN  IF h.nstate[w] = 0
        THEN AddWorker([StateRewind(g, w, s) EXCEPT !.next[s] = NULL], w)
        ELSE IF p # NULL
        THEN [g EXCEPT !.next = [@ EXCEPT ![p] = s, ![s] = h.current[w]],
                       !.current[w] = s, !.nstate[w] = @ + 1]
        ELSE [g EXCEPT !.next[s] = h.current[w], !.first[w] = s,
                       !.current[w] = s, !.nstate[w] = @ + 1]

(* A suspended task s joins the list of its worker, just behind the        *)
(* cursor: it is the last task the worker will reach.                      *)
ResumeState(h, s) ==
    LET w == h.next[s]
        p == h.previous[w]
        g == [h EXCEPT !.run = @ \cup {s}, !.waiting = @ \ {s}]
    IN  IF s \in h.run
        THEN [h EXCEPT !.fatal = "RESST.R"]
        ELSE IF w = NULL
        THEN [h EXCEPT !.fatal = "RESST.NW"]
        ELSE IF h.nstate[w] = 0
        THEN AddWorker([StateRewind(g, w, s) EXCEPT !.next[s] = NULL], w)
        ELSE IF p # NULL
        THEN [g EXCEPT !.next = [@ EXCEPT ![p] = s, ![s] = h.current[w]],
                       !.previous[w] = s, !.nstate[w] = @ + 1]
        ELSE IF h.current[w] # h.first[w]
        THEN [g EXCEPT !.fatal = "WSYLST.1"]
        ELSE [g EXCEPT !.next[s] = h.current[w], !.previous[w] = s,
                       !.first[w] = s, !.nstate[w] = @ + 1]

UnlinkCurrentState_KeepsWorker(h) ==
    [StateUnlink(h, h.sworker) EXCEPT !.nstate[h.sworker] = @ - 1]

(* The task of the session leaves its list, and its worker the ring when   *)
(* the list becomes empty.                                                 *)
UnlinkCurrentState(h) ==
    LET w == h.sworker
        u == StateUnlink(h, w)
        g == [u EXCEPT !.nstate[w] = @ - 1]
    IN  IF u.fatal # OK THEN u
        ELSE IF g.nstate[w] = 0 THEN UnlinkWorker(g, w) ELSE g

(* The task of the session is suspended: unlinked, its worker kept in      *)
(* next, flagged as waiting when it waits for a subtask or an event.       *)
SuspendCurrentState(h, wait) ==
    LET u == UnlinkCurrentState(h)
    IN  [u EXCEPT !.next[h.sstate] = h.sworker,
                  !.run = @ \ {h.sstate},
                  !.waiting = IF wait THEN @ \cup {h.sstate} ELSE @]

(* The structures of a new VM: empty lists, no ring, no session. *)
EmptyLists ==
    [next     |-> [t \in Task |-> NULL],
     run      |-> {},
     waiting  |-> {},
     first    |-> [w \in Machine |-> NULL],
     current  |-> [w \in Machine |-> NULL],
     previous |-> [w \in Machine |-> NULL],
     nstate   |-> [w \in Machine |-> 0],
     wnext    |-> [w \in Machine |-> NULL],
     wprev    |-> [w \in Machine |-> NULL],
     cursor   |-> NULL,
     nworker  |-> 0,
     sstate   |-> NULL,
     sworker  |-> NULL,
     suspendop |-> 0,
     fatal    |-> OK]
----------------------------------------------------------------------------
(* What makes the structures well formed. *)

FatalCode == {OK, "SCURS.RM", "RWINDW.1", "RESST.R", "RESST.NW", "WSYLST.1",
              "PPS.NMTD"}

HeapType ==
    [next      : [Task -> Task \cup Machine \cup {NULL}],
     run       : SUBSET Task,
     waiting   : SUBSET Task,
     first     : [Machine -> Task \cup {NULL}],
     current   : [Machine -> Task \cup {NULL}],
     previous  : [Machine -> Task \cup {NULL}],
     nstate    : [Machine -> Nat],
     wnext     : [Machine -> Machine \cup {NULL}],
     wprev     : [Machine -> Machine \cup {NULL}],
     cursor    : Machine \cup {NULL},
     nworker   : Nat,
     sstate    : Task \cup {NULL},
     sworker   : Machine \cup {NULL},
     suspendop : {0, 1},
     fatal     : FatalCode]

(* The list of worker w is q, its members are the tasks of S, and its      *)
(* cursor has passed the first k of them.                                  *)
IsRunList(h, w, S, q, k) ==
    LET n == h.nstate[w]
    IN  /\ h.first[w]    = IF n = 0 THEN NULL ELSE q[1]
        /\ h.current[w]  = IF k = n THEN NULL ELSE q[k + 1]
        /\ h.previous[w] = IF k = 0 THEN NULL ELSE q[k]
        /\ \A i \in 1..n : h.next[q[i]] = IF i = n THEN NULL ELSE q[i + 1]
        /\ \A i, j \in 1..n : q[i] = q[j] => i = j
        /\ {q[i] : i \in 1..n} = S

HasRunList(h, w, S) ==
    \E q \in [1..h.nstate[w] -> Task], k \in 0..h.nstate[w] :
        IsRunList(h, w, S, q, k)

(* The ring is r from the cursor on, and its members are the workers of M. *)
IsRing(h, M, r) ==
    LET n == h.nworker
        Follow(i) == IF i = n THEN r[1] ELSE r[i + 1]
    IN  /\ h.cursor = IF n = 0 THEN NULL ELSE r[1]
        /\ \A i \in 1..n : /\ h.wnext[r[i]] = Follow(i)
                           /\ h.wprev[Follow(i)] = r[i]
        /\ \A i, j \in 1..n : r[i] = r[j] => i = j
        /\ {r[i] : i \in 1..n} = M

HasRing(h, M) == \E r \in [1..h.nworker -> Machine] : IsRing(h, M, r)

(* The structures hold the tasks of S[w] in the list of each worker w, the *)
(* ring the workers that have any, and no internal check has failed.       *)
WellFormed(h, S) ==
    /\ h \in HeapType
    /\ h.fatal = OK
    /\ \A w \in Machine : HasRunList(h, w, S[w])
    /\ HasRing(h, {w \in Machine : h.nstate[w] > 0})
----------------------------------------------------------------------------
(* What the structures represent: the list of a worker following next, how *)
(* many of its tasks the cursor has passed, so which of them have run in   *)
(* this round and which have not, and the ring from the cursor on.         *)

ListOf(h, w) ==
    LET q[i \in 1..h.nstate[w]] == IF i = 1 THEN h.first[w] ELSE h.next[q[i - 1]]
    IN  q

Passed(h, w) ==
    IF h.current[w] = NULL THEN h.nstate[w]
    ELSE CHOOSE k \in 0..(h.nstate[w] - 1) : ListOf(h, w)[k + 1] = h.current[w]

TodoOf(h, w) ==
    LET k == Passed(h, w)
    IN  [i \in 1..(h.nstate[w] - k) |-> ListOf(h, w)[k + i]]

RanOf(h, w) == [i \in 1..Passed(h, w) |-> ListOf(h, w)[i]]

RingOf(h) ==
    LET r[i \in 1..h.nworker] == IF i = 1 THEN h.cursor ELSE h.wnext[r[i - 1]]
    IN  r
=============================================================================
