------------------------------ MODULE Implosion ------------------------------
(***************************************************************************)
(* The tree of the tasks of a VM and what the library does to it: resuming *)
(* and suspending along the callers, and closing a part of the tree (the   *)
(* "implosion").  Every operator takes the tree as one record c and        *)
(* returns the record after the C function of the same name:               *)
(*                                                                         *)
(*   pmode[t]    zm_State.pmode, "ABSENT" while t is not allocated.  A     *)
(*               task whose pmode is not "NORMAL" has IMPLOSIONLOCK        *)
(*   parent[t]   the last of zm_Parent.stack, NULL for a ptask             *)
(*   ring[p]     the siblings ring of the subtasks of p from p.subtasks    *)
(*               on; ring[NULL] is the ring of the ptasks (zm_VM.ptasks)   *)
(*   caller[t]   zm_Parent.comeback                                        *)
(*   run, waiting, bound, autofree, mark   the tasks with ZM_STATE_RUN,    *)
(*               WAITING, EVENTLOCKED, AUTOFREE and CONTINUEMARK           *)
(*   catch[t]    what t does with exceptions while it is suspended: both   *)
(*               ZM_STATE_CATCH and a point to resume at (on.c4tch) are    *)
(*               "catch", the point alone is "reset", the flag alone, left *)
(*               by an earlier yield, is "stale", neither is "none"        *)
(*   exc[t]      zm_State.exception                                        *)
(*   start[t]    the start of an implosion that t, then running, must      *)
(*               begin (the exception ZM_EXCEPTION_STARTIMPLOSION)         *)
(*   fatal       the code of the check that failed, if one did: one the    *)
(*               code says cannot fail (ZM_FATAL_U1, ZM_FATAL_UP), "FREED" *)
(*               when freed memory is used, "CONTBREAK" for the error of a *)
(*               user who closes a part of a continue block                *)
(*                                                                         *)
(* Which task of those with ZM_STATE_RUN zm_go steps next is the subject   *)
(* of Scheduler; here it may be any of them.                               *)
(***************************************************************************)
EXTENDS Naturals, FiniteSets, Sequences, SequencesExt

CONSTANTS
    Task,   \* identities of zm_State objects
    NULL    \* the null pointer

ASSUME TaskAssumption == NULL \notin Task /\ IsFiniteSet(Task)

OK    == "none"
NoExc == [kind |-> "NONE", raise |-> NULL, before |-> NULL]

Locked(c)    == {t \in Task : c.pmode[t] \in {"CLOSE", "ASYNC", "END", "OFF"}}
Live(c)      == {t \in Task : c.pmode[t] \in {"NORMAL", "CLOSE", "ASYNC", "END"}}
Runnable(c)  == c.run \cap Live(c)
IsTask(c, t) == c.parent[t] = NULL

(* The first failed check ends the process. *)
Fail(c, code) == IF c.fatal = OK THEN [c EXCEPT !.fatal = code] ELSE c

(* The elements of q that are in S. *)
Only(q, S) == FlattenSeq([i \in DOMAIN q |-> IF q[i] \in S THEN <<q[i]>> ELSE <<>>])

(* s, the task that next leads to from it, and so on to NULL. *)
Chain(next, s) ==
    LET chain[n \in Nat] ==
            [q \in Task \cup {NULL} |->
               IF n = 0 \/ q = NULL THEN <<>> ELSE <<q>> \o chain[n - 1][next[q]]]
    IN  chain[Cardinality(Task)][s]

(* s and its callers, the callers of those, ... *)
CallerChain(c, s) == Chain(c.caller, s)

(* The parents of s from the nearest one to the root: zm_Parent.stack. *)
Ancestors(c, s) == Chain(c.parent, c.parent[s])

Deep(c, s) == Len(Ancestors(c, s))

Root(c, s) == IF IsTask(c, s) THEN s ELSE Last(Ancestors(c, s))

Min0(S) == IF S = {} THEN 0 ELSE CHOOSE i \in S : \A j \in S : i <= j
----------------------------------------------------------------------------
(* Resume and suspend. *)

ResumeState_KeepsWaiting(c, s) == [c EXCEPT !.run = @ \cup {s}]

ResumeState(c, s) ==
    IF s = NULL THEN Fail(c, "FREED")
    ELSE IF c.pmode[s] = "ABSENT" THEN Fail(c, "FREED")
    ELSE IF s \in c.run   THEN Fail(c, "RESST.R")
    ELSE IF s \in c.bound THEN Fail(c, "RESST.EV")
    ELSE [c EXCEPT !.run = @ \cup {s}, !.waiting = @ \ {s}]

(* The caller of sub is resumed and forgotten. *)
ResumeCaller(c, sub) ==
    ResumeState([c EXCEPT !.caller[sub] = NULL], c.caller[sub])

SuspendCurrentState(c, t, wait) ==
    [c EXCEPT !.run = @ \ {t},
              !.waiting = IF wait THEN @ \cup {t} ELSE @]

(* A task bound to an event is released from it and resumed. *)
UnbindEvent(c, s) == ResumeState([c EXCEPT !.bound = @ \ {s}], s)
----------------------------------------------------------------------------
(* The tree. *)

(* A new sibling is put second in the ring. *)
AddSibling(r, s) == IF r = <<>> THEN <<s>> ELSE <<Head(r), s>> \o Tail(r)

(* The ring without s, starting from the one before s. *)
RemoveSibling(r, s) ==
    LET i    == Min0({j \in DOMAIN r : r[j] = s})
        rest == SubSeq(r, i + 1, Len(r)) \o SubSeq(r, 1, i - 1)
    IN  IF rest = <<>> THEN rest ELSE <<Last(rest)>> \o Front(rest)

AddTask(c, s, p, auto) ==
    [c EXCEPT !.pmode[s]  = "NORMAL",
              !.parent[s] = p,
              !.ring[p]   = AddSibling(@, s),
              !.autofree  = IF auto THEN @ \cup {s} ELSE @]

(* The memory of s is released, and may become another task. *)
FreeState(c, s) ==
    [c EXCEPT !.pmode[s] = "ABSENT", !.parent[s] = NULL, !.ring[s] = <<>>,
              !.caller[s] = NULL, !.run = @ \ {s}, !.waiting = @ \ {s},
              !.autofree = @ \ {s}, !.mark = @ \ {s}, !.catch[s] = "none",
              !.exc[s] = NoExc]
----------------------------------------------------------------------------
(* Lock: the tasks to close. *)

DeepStack_TwoLevels(c, first) ==
    first \o FlattenSeq([i \in DOMAIN first |->
                           IF first[i] \in Locked(c) THEN <<>> ELSE c.ring[first[i]]])

(* deep-lock takes the tasks of a first-in first-out stack: each one that  *)
(* is not locked yet is locked and its subtasks are put on the stack.      *)
Below(c, q) ==
    FlattenSeq([i \in DOMAIN q |-> IF q[i] \in Locked(c) THEN <<>> ELSE c.ring[q[i]]])

DeepStack(c, first) ==
    LET stack[n \in Nat] ==
            [q \in Seq(Task) |->
               IF n = 0 \/ q = <<>> THEN <<>> ELSE q \o stack[n - 1][Below(c, q)]]
    IN  stack[Cardinality(Task)][first]

(* The waiting tasks of q are followed back to the head of the continue    *)
(* block they belong to; the result holds the marks and the heads found.   *)
CheckBusy(c, q) ==
    LET Stops(t) == t \in c.mark \/ c.exc[t].kind = "HEAD"
        Chased(s) ==
            LET ch == CallerChain(c, s)
            IN  SubSeq(ch, 1, Min0({i \in DOMAIN ch : Stops(ch[i])}))
        found == {Chased(s) : s \in ToSet(q) \cap c.waiting}
    IN  [mark  |-> c.mark \cup UNION {ToSet(p) : p \in found},
         heads |-> {Last(p) : p \in found \ {<<>>}} \ c.mark,
         lost  |-> <<>> \in found]

SetImplodeLock_KeepsBound(c, by, q) ==
    [c EXCEPT !.pmode = [t \in Task |->
                           IF t \in ToSet(q) \cap c.run THEN "ASYNC"
                           ELSE IF t \in ToSet(q) THEN "CLOSE" ELSE @[t]]]

(* The tasks of q, not locked yet, are locked for an implosion of kind by; *)
(* a task that waits for an event is released from it.                     *)
SetImplodeLock(c, by, q) ==
    LET Q       == ToSet(q)
        running == Q \cap (c.run \cup c.bound)
        locked  == [c EXCEPT
                      !.run     = @ \cup (Q \cap c.bound),
                      !.waiting = @ \ (Q \cap c.bound),
                      !.bound   = @ \ Q,
                      !.pmode   = [t \in Task |->
                                     IF t \in running THEN "ASYNC"
                                     ELSE IF t \in Q THEN "CLOSE" ELSE @[t]]]
    IN  IF running # {} /\ by # "ROOT" THEN Fail(locked, "LIUNLN.RUN")
        ELSE IF Cardinality(running) > 1 THEN Fail(locked, "LIUNLN.2R")
        ELSE locked

(* A close may not take a part of a continue block only: the head of each  *)
(* one that is found is to be closed too.                                  *)
CheckContinue(c, busy) ==
    IF busy.lost THEN Fail(c, "ILWCHK.UC")
    ELSE IF busy.heads \subseteq Locked(c) THEN [c EXCEPT !.mark = busy.mark]
    ELSE Fail(c, "CONTBREAK")
----------------------------------------------------------------------------
(* Implode: the closed tasks are chained, the deepest first. *)

ByDeep_LockOrder(c, q) == q

ByDeep(c, q) ==
    FlattenSeq([d \in 1..Cardinality(Task) |->
                  Only(q, {t \in Task : Deep(c, t) = d - 1})])

Serialize_NoTail(c, q, tail) ==
    [c EXCEPT
       !.caller  = [t \in Task |->
                      IF \E i \in 2..Len(q) : q[i] = t
                      THEN q[(CHOOSE i \in DOMAIN q : q[i] = t) - 1] ELSE NULL],
       !.waiting = @ \cup ({q[i] : i \in 2..Len(q)} \ c.run)]

Serialize_TailOnly(c, q, tail) ==
    [c EXCEPT
       !.caller  = [t \in Task |-> IF t \in ToSet(q) /\ tail # NULL THEN tail ELSE @[t]],
       !.waiting = @ \cup (ToSet(q) \ c.run)]

(* Each task of q resumes the one before it when it ends, the first one    *)
(* resumes tail.                                                           *)
Serialize(c, q, tail) ==
    LET Before(i) == IF i = 1 THEN tail ELSE q[i - 1]
        linked    == {i \in DOMAIN q : Before(i) # NULL}
    IN  [c EXCEPT
           !.caller  = [t \in Task |->
                          IF \E i \in linked : q[i] = t
                          THEN Before(CHOOSE i \in linked : q[i] = t) ELSE @[t]],
           !.waiting = @ \cup ({q[i] : i \in linked} \ c.run)]

StartImplosion_AtOnce(c, last, running, justlock) == ResumeState(c, last)

StartImplosion_SkipsJustlock(c, last, running, justlock) ==
    IF running # NULL THEN [c EXCEPT !.start[running] = last]
    ELSE ResumeState(c, last)

(* The implosion that ends with last begins: after the running task has    *)
(* been suspended, after the implosion that is already in progress, or at  *)
(* once.                                                                   *)
StartImplosion(c, last, running, justlock) ==
    IF justlock # <<>>
    THEN LET withexc == {t \in ToSet(justlock) : c.exc[t].kind = "ABORT"}
             s == IF withexc = {} THEN Last(justlock)
                  ELSE c.exc[CHOOSE t \in withexc : TRUE].before
         IN  IF Cardinality(withexc) > 1 THEN Fail(c, "DEEPOV.2E")
             ELSE [c EXCEPT !.caller[s] = last]
    ELSE IF running # NULL THEN [c EXCEPT !.start[running] = last]
    ELSE ResumeState(c, last)

(* lockAndImplodeBy: s and what is below it close.  by is "ROOT" for an    *)
(* abort from outside the context, "SUB" for zmCLOSE, "CUR" for zmTERM.    *)
LockAndImplodeBy(c, s, by) ==
    LET stack    == DeepStack(c, <<s>>)
        new      == Only(stack, Task \ Locked(c))
        justlock == Only(stack, Locked(c))
        locked   == SetImplodeLock(c, by, new)
        busy     == CheckBusy(c, IF by = "CUR" THEN Tail(new) ELSE new)
        checked  == IF by = "ROOT" THEN locked ELSE CheckContinue(locked, busy)
        order    == ByDeep(c, new)
        running  == {t \in ToSet(new) : checked.pmode[t] = "ASYNC"}
    IN  IF by # "ROOT" /\ justlock # <<>> THEN Fail(c, "DEEPOV.ILK")
        ELSE IF checked.fatal # OK THEN checked
        ELSE StartImplosion(Serialize(checked, order, c.caller[s]),
                            Last(order),
                            IF running = {} THEN NULL ELSE CHOOSE t \in running : TRUE,
                            justlock)

(* A ptask without subtasks closes alone, without a chain. *)
ImplodeMonoTask(c, s) ==
    LET b == IF s \in c.bound THEN UnbindEvent(c, s) ELSE c
        l == [b EXCEPT !.pmode[s] = "CLOSE"]
    IN  IF s \in l.run THEN l ELSE ResumeState(l, s)

CloseTask(c, s, by) ==
    IF IsTask(c, s) /\ c.ring[s] = <<>>
    THEN ImplodeMonoTask(c, s)
    ELSE LockAndImplodeBy(c, s, by)

(* A ptask that is closing is not closed again. *)
AbortTask(c, s) == IF s \in Locked(c) THEN c ELSE CloseTask(c, s, "ROOT")

(* The tasks of q, one after the other. *)
AbortAll(c, q) ==
    LET aborted[n \in 0..Len(q)] == IF n = 0 THEN c ELSE AbortTask(aborted[n - 1], q[n])
    IN  aborted[Len(q)]
----------------------------------------------------------------------------
(* Exceptions. *)

(* ZM_STATE_CATCH *)
HasCatch(c, t) == c.catch[t] \in {"catch", "stale"}

(* The tasks an exception of t goes through: t and its callers up to the   *)
(* one before the first that catches; <<>> when none does.                 *)
ExceptionPath(c, t) ==
    LET ch == CallerChain(c, t)
        k  == Min0({i \in 2..Len(ch) : HasCatch(c, ch[i])})
    IN  IF k = 0 THEN <<>> ELSE SubSeq(ch, 1, k - 1)

(* An abort exception of t: the tasks of the path close, with what is      *)
(* below them, but those with a zmRESET, which are suspended; then the     *)
(* catcher is resumed.                                                     *)
LockAndImplodeByException(c, t) ==
    LET path    == ExceptionPath(c, t)
        catcher == c.caller[Last(path)]
        closed  == Only(path, {s \in Task : c.catch[s] # "reset"})
        reset   == ToSet(path) \ ToSet(closed)
        p       == SetImplodeLock(
                     [c EXCEPT
                        !.waiting = @ \ reset,
                        !.caller  = [s \in Task |-> IF s \in reset THEN NULL ELSE @[s]],
                        !.exc[catcher] = [NoExc EXCEPT !.kind = "ABORT"]],
                     "EXCEPTION", closed)
        stack   == DeepStack(p, FlattenSeq([i \in DOMAIN closed |-> c.ring[closed[i]]]))
        below   == Only(stack, Task \ Locked(p))
        checked == CheckContinue(SetImplodeLock(p, "EXCEPTION", below),
                                 CheckBusy(p, below))
        order   == ByDeep(c, closed \o below)
    IN  IF ToSet(path) \cap Locked(c) # {} THEN Fail(c, "LCKBE.IL")
        ELSE IF \E s \in reset : IsTask(c, s) THEN Fail(c, "LCKBE.RS")
        ELSE IF checked.fatal # OK THEN checked
        ELSE IF order = <<>> THEN ResumeState(checked, catcher)
        ELSE ResumeState(
               [Serialize(checked, order, catcher)
                  EXCEPT !.exc[catcher].before = Head(order)],
               Last(order))

(* A continue exception of t: the path becomes a block that waits, headed  *)
(* by the task before the catcher, and the catcher is resumed.             *)
ContinueBlock(c, t) ==
    LET head    == Last(ExceptionPath(c, t))
        catcher == c.caller[head]
        b == [c EXCEPT
                !.exc = [@ EXCEPT
                   ![catcher] = [kind |-> "CONTINUE", raise |-> t, before |-> head],
                   ![head]    = [kind |-> "HEAD", raise |-> t, before |-> head]],
                !.caller[head] = NULL]
    IN  ResumeState(SuspendCurrentState(b, t, TRUE), catcher)

(* The block headed by s runs again where it was left, called by t. *)
Unraise(c, s, t) ==
    [ResumeState(c, c.exc[s].raise)
       EXCEPT !.caller[c.exc[s].before] = t, !.exc[s] = NoExc]
----------------------------------------------------------------------------
(* The tree of a new VM. *)
EmptyTree ==
    [pmode    |-> [t \in Task |-> "ABSENT"],
     parent   |-> [t \in Task |-> NULL],
     ring     |-> [p \in Task \cup {NULL} |-> <<>>],
     caller   |-> [t \in Task |-> NULL],
     run      |-> {},
     waiting  |-> {},
     bound    |-> {},
     autofree |-> {},
     mark     |-> {},
     catch    |-> [t \in Task |-> "none"],
     exc      |-> [t \in Task |-> NoExc],
     start    |-> [t \in Task |-> NULL],
     fatal    |-> OK]
=============================================================================
