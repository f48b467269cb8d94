-------------------------------- MODULE Dump --------------------------------
(***************************************************************************)
(* What zm_printVM prints of the tree of Context, and what it checks while *)
(* it prints (ZM_CHECK_CONSISTENCY): the stacks of the callers, taken out  *)
(* of a queue of all the tasks, and the number of running tasks in each    *)
(* execution context.  A check that fails ends the process; a fatal error  *)
(* prints the same dump, so it must succeed whatever the tasks are doing.  *)
(***************************************************************************)
EXTENDS Context
LOCAL INSTANCE StateQueue

Rounds == Cardinality(Task)   \* no loop has more turns than there are tasks

(* All the tasks, each one before its own subtasks. *)
PushStates(c) ==
    LET under[p \in Task \cup {NULL}] ==
            FlattenSeq([i \in DOMAIN c.ring[p] |-> <<c.ring[p][i]>> \o under[c.ring[p][i]]])
    IN  FoldLeft(QueueAdd, QueueNew, under[NULL])

(* zm_matchCaller *)
Called(c, s) == {t \in Task : c.caller[t] = s}

(* The task that was found is the next one of the stack, and it must be    *)
(* the only one.                                                           *)
PrintFound(c, a, one) ==
    [a EXCEPT !.queue = one.queue,
              !.at    = one.found,
              !.stack = IF one.found = NULL THEN @ ELSE Append(@, one.found),
              !.fatal = IF QueueFindPop(one.queue, Called(c, a.at)).found = NULL
                        THEN @ ELSE "FINDCALL.NN"]

(* From s on, each time the task whose caller is the one found before. *)
PrintCallers(c, d, s) ==
    LET PrintOne(a) == IF a.at = NULL THEN a
                       ELSE PrintFound(c, a, QueueFindPop(a.queue, Called(c, a.at)))
        turn[n \in Nat] ==
            IF n = 0 THEN [queue |-> d.queue, at |-> s, stack |-> <<s>>, fatal |-> d.fatal]
            ELSE PrintOne(turn[n - 1])
        Printed(a) == [queue |-> a.queue, fatal |-> a.fatal, stacks |-> Append(d.stacks, a.stack)]
    IN  Printed(turn[Rounds])

(* The stacks of the callers: each starts from the first task left that    *)
(* has no caller.                                                          *)
PrintCallerStack(c) ==
    LET PrintFrom(d, head) ==
            IF head.found = NULL THEN d
            ELSE PrintCallers(c, [d EXCEPT !.queue = head.queue], head.found)
        PrintStack(d) == IF QueueIsEmpty(d.queue) THEN d
                         ELSE PrintFrom(d, QueueFindPop(d.queue, Called(c, NULL)))
        turn[n \in Nat] ==
            IF n = 0 THEN [queue |-> PushStates(c), fatal |-> OK, stacks |-> <<>>]
            ELSE PrintStack(turn[n - 1])
        Printed(d) == IF d.fatal # OK \/ QueueIsEmpty(d.queue) THEN d
                      ELSE [d EXCEPT !.fatal = "PRNCALSTK.CL"]
    IN  Printed(turn[Rounds])

(* The tasks with ZM_STATE_RUN in the execution context of the ptask s. *)
RunCount(c, s) == Cardinality({t \in Live(c) : t \in c.run /\ Root(c, t) = s})

(* What zm_printVM has printed when it ends with d. *)
CheckConsistency(c, d) ==
    IF d.fatal = OK /\ \E s \in ToSet(c.ring[NULL]) : RunCount(c, s) > 1
    THEN [d EXCEPT !.fatal = "PRNTTASK.RC"] ELSE d

PrintVM(c) == CheckConsistency(c, PrintCallerStack(c))
----------------------------------------------------------------------------
(* Properties. *)

Complete(c, d) ==
    /\ d.fatal = OK
    /\ Len(FlattenSeq(d.stacks)) = Cardinality(Live(c))
    /\ \A t \in Runnable(c) :
          \E i \in DOMAIN d.stacks :
              t \in ToSet(d.stacks[i]) /\ IsTask(c, Head(d.stacks[i]))

(* Whatever the tasks do, the dump of zm_printVM ends, fails no check of   *)
(* its own (FINDCALL.NN, PRNCALSTK.CL, PRNTTASK.RC), shows each task in    *)
(* one stack, and a task that runs in one that starts with a ptask, the    *)
(* one titled "Execution Stack".                                           *)
DumpSucceeds == tree.fatal = OK => Complete(tree, PrintVM(tree))
=============================================================================
