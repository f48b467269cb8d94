------------------------------- MODULE Context -------------------------------
(***************************************************************************)
(* The execution contexts of a VM: ptasks with their subtasks, resumed,    *)
(* suspended, closed and hit by exceptions.                                *)
(*                                                                         *)
(* One action is one machine step with the call or the yield that matters  *)
(* in it: while a task steps no other task of its context can run and no   *)
(* task of another context can be disturbed but by the calls modelled as   *)
(* actions of their own.  zm_go may pick any running task (a host can      *)
(* choose with the machine it gives to zm_go).                             *)
(*                                                                         *)
(* What a user may not do is excluded by guards, CONTBREAK included; a     *)
(* failed internal check is recorded in tree.fatal and ends the process.   *)
(***************************************************************************)
EXTENDS Implosion

CONSTANTS
    Programs,    \* each program is a set of features that its tasks and host use
    MaxDeep      \* bound on the depth of the tree

(* "catch" zmCATCH and zmABORT, "reset" zmRESET, "continue" zmCONTINUE,    *)
(* "sibling" a subtask resumes one that is not its child, "event" zmEVENT, *)
(* "abort" zm_abort, "closeVM" zm_closeVM, "free" zm_freeTask and          *)
(* zm_freeSubTask, "uncaught" zmABORT that nobody catches, "contexts"      *)
(* several ptasks at a time.                                               *)
Feature == {"catch", "reset", "continue", "sibling", "event", "abort",
            "closeVM", "free", "uncaught", "contexts"}

ASSUME ProgramsAssumption == Programs \subseteq SUBSET Feature
ASSUME BoundsAssumption   == MaxDeep \in Nat

VARIABLES
    tree,       \* see Implosion
    uncaught,   \* whether zm_VM.uncaught is set
    uses        \* the features of the program that runs

vars == <<tree, uncaught, uses>>

(* A program that frees its tasks does not create tasklets, any other does *)
(* nothing else.                                                           *)
AutoFree == {"free" \notin uses}

(* The tree after a step or a call; a CONTBREAK is an error of the user. *)
Becomes(c) ==
    /\ c.fatal # "CONTBREAK"
    /\ tree' = c
----------------------------------------------------------------------------
(* The host, and the steps of other contexts. *)

NewTask(s, auto) ==
    /\ tree.pmode[s] = "ABSENT"
    /\ tree.ring[NULL] = <<>> \/ "contexts" \in uses
    /\ Becomes(AddTask(tree, s, NULL, auto))
    /\ UNCHANGED uncaught

(* zm_resume: refused for a subtask, for a task that runs or waits, and    *)
(* for one that closes: it restores the resume point that the lock saved   *)
(* and then fails for not finding ZM_TERM (RESBY.IL).                      *)
Resume(s) ==
    /\ tree.pmode[s] = "NORMAL" /\ IsTask(tree, s)
    /\ s \notin tree.run \cup tree.waiting
    /\ Becomes(ResumeState(tree, s))
    /\ UNCHANGED uncaught

(* zm_abort of a ptask whose context does not step. *)
Abort(s) ==
    /\ "abort" \in uses
    /\ tree.pmode[s] # "ABSENT" /\ IsTask(tree, s)
    /\ Becomes(AbortTask(tree, s))
    /\ UNCHANGED uncaught

(* zm_closeVM *)
CloseVM ==
    /\ "closeVM" \in uses
    /\ Becomes(AbortAll(tree, tree.ring[NULL]))
    /\ UNCHANGED uncaught

RequestFree_AtOnce(s) ==
    /\ "free" \in uses
    /\ s \in Locked(tree) \ tree.autofree
    /\ Becomes(FreeState([tree EXCEPT
                           !.ring[tree.parent[s]] = SelectSeq(@, LAMBDA t : t # s)], s))
    /\ UNCHANGED uncaught

(* zm_freeTask, zm_freeSubTask: at once for a task that has ended, when it *)
(* ends for one that closes; refused for any other.                        *)
RequestFree(s) ==
    /\ "free" \in uses
    /\ s \in Locked(tree) \ tree.autofree
    /\ Becomes(IF tree.pmode[s] = "OFF" THEN FreeState(tree, s)
               ELSE [tree EXCEPT !.autofree = @ \cup {s}])
    /\ UNCHANGED uncaught

(* zm_trigger or zm_unbind, of an event that s is bound to. *)
Trigger(s) ==
    /\ s \in tree.bound
    /\ Becomes(UnbindEvent(tree, s))
    /\ UNCHANGED uncaught

(* zm_uCatch *)
UCatch ==
    /\ uncaught
    /\ uncaught' = FALSE
    /\ UNCHANGED tree
----------------------------------------------------------------------------
(* Steps of a task in normal mode. *)

(* An exception came to t, and its flag says that t catches. *)
Catches(t) == HasCatch(tree, t) /\ tree.exc[t].kind \in {"ABORT", "CONTINUE"}

(* The step of t begins at the point given to zmCATCH, or at ZM_TERM. *)
ResumePoint(t, c) ==
    IF Catches(t) /\ tree.catch[t] = "stale" /\ tree.pmode[t] = "NORMAL"
    THEN Fail(c, "YRES.0") ELSE c

Begun_KeepsCatch(t) ==
    ResumePoint(t, IF Catches(t) THEN [tree EXCEPT !.catch[t] = "none", !.exc[t] = NoExc]
               ELSE tree)

(* zm_runTask: a task that catches takes the pending exception (zmCatch).  *)
(* With or without one it catches no longer.                               *)
Begun(t) ==
    ResumePoint(t, [tree EXCEPT !.catch[t] = "none",
                            !.exc[t]   = IF Catches(t) THEN NoExc ELSE @])

(* The step of t ends with a yield that says mode.  It gives a new point,  *)
(* or none, but takes no flag away.                                        *)
Yield(t, mode) ==
    LET c == Begun(t)
    IN  [c EXCEPT !.catch[t] = IF ~HasCatch(c, t) THEN mode
                               ELSE IF mode = "none" THEN "stale" ELSE "catch"]

Steps(t, mode) == t \in Runnable(tree) /\ tree.pmode[t] = mode

(* zmNewSubTask or zmNewSubTasklet, and a plain yield. *)
NewSubTask(t, s, auto) ==
    /\ Steps(t, "NORMAL")
    /\ tree.pmode[s] = "ABSENT"
    /\ Deep(tree, t) < MaxDeep
    /\ Becomes(AddTask(Begun(t), s, t, auto))
    /\ UNCHANGED uncaught

(* A plain yield. *)
Continue(t) ==
    /\ Steps(t, "NORMAL")
    /\ Becomes(Begun(t))
    /\ UNCHANGED uncaught

(* What a step of t may resume: its children, its siblings, and those of   *)
(* its ancestors.                                                          *)
CanBeContextStackPush(t, s) ==
    /\ ~IsTask(tree, s)
    /\ tree.parent[s] \in {t} \cup ToSet(Ancestors(tree, t))
    /\ tree.parent[s] # t => "sibling" \in uses

CatchModes == {"none"} \cup (uses \cap {"catch", "reset"})

(* A ptask has no zmRESET. *)
Modes(t) == IF IsTask(tree, t) THEN CatchModes \ {"reset"} ELSE CatchModes

(* zmSUB, with or without zmCATCH or zmRESET. *)
Sub(t, s, mode) ==
    /\ Steps(t, "NORMAL")
    /\ tree.pmode[s] = "NORMAL"
    /\ CanBeContextStackPush(t, s)
    /\ s \notin tree.run \cup tree.waiting
    /\ mode \in Modes(t)
    /\ LET c == ResumeState([Yield(t, mode) EXCEPT !.caller[s] = t], s)
       IN  Becomes(SuspendCurrentState(c, t, TRUE))
    /\ UNCHANGED uncaught

(* zmUNRAISE, or zmSSUB, of the head of a continue block. *)
UnraiseHead(t, s, mode) ==
    /\ Steps(t, "NORMAL")
    /\ tree.pmode[s] # "ABSENT"
    /\ CanBeContextStackPush(t, s)
    /\ tree.exc[s].kind = "HEAD"
    /\ tree.exc[s].raise \notin tree.run
    /\ mode \in Modes(t)
    /\ LET c == Unraise(Yield(t, mode), s, t)
       IN  Becomes(SuspendCurrentState(c, t, TRUE))
    /\ UNCHANGED uncaught

(* zmSUSPEND in a ptask. *)
Suspend(t) ==
    /\ Steps(t, "NORMAL") /\ IsTask(tree, t)
    /\ Becomes(SuspendCurrentState(Yield(t, "none"), t, FALSE))
    /\ UNCHANGED uncaught

(* zmCALLER or zmSUSPEND in a subtask; it always has a caller. *)
YieldCaller(t) ==
    /\ Steps(t, "NORMAL") /\ ~IsTask(tree, t)
    /\ LET c == SuspendCurrentState(Yield(t, "none"), t, FALSE)
       IN  Becomes(IF c.caller[t] = NULL THEN Fail(c, "NOCALLER")
                   ELSE ResumeCaller(c, t))
    /\ UNCHANGED uncaught

(* zmEVENT *)
Listen(t) ==
    /\ "event" \in uses
    /\ Steps(t, "NORMAL")
    /\ Becomes([SuspendCurrentState(Yield(t, "none"), t, TRUE) EXCEPT !.bound = @ \cup {t}])
    /\ UNCHANGED uncaught

(* zmTERM *)
Term(t) ==
    /\ Steps(t, "NORMAL")
    /\ Becomes(CloseTask(SuspendCurrentState(Yield(t, "none"), t, TRUE), t, "CUR"))
    /\ UNCHANGED uncaught

(* zmCLOSE of a child. *)
Close(t, s) ==
    /\ Steps(t, "NORMAL")
    /\ tree.parent[s] = t /\ s \in Live(tree)
    /\ LET c == CloseTask([Yield(t, "none") EXCEPT !.caller[s] = t], s, "SUB")
       IN  Becomes(SuspendCurrentState(c, t, TRUE))
    /\ UNCHANGED uncaught

(* zmraise zmABORT, with a reset point or not.  Nobody catches it: the     *)
(* whole context closes, and the host may keep one such exception only.    *)
Raise(t, mode) ==
    /\ Steps(t, "NORMAL") /\ tree.exc[t].kind # "HEAD"
    /\ mode \in Modes(t) \ {"catch"}
    /\ LET c == SuspendCurrentState(Yield(t, mode), t, TRUE)
       IN  IF ExceptionPath(c, t) = <<>>
           THEN /\ "uncaught" \in uses /\ ~uncaught
                /\ uncaught' = TRUE
                /\ Becomes(AbortTask(c, Root(c, t)))
           ELSE /\ Becomes(LockAndImplodeByException(c, t))
                /\ UNCHANGED uncaught

(* zmraise zmCONTINUE, which must be caught. *)
RaiseContinue(t) ==
    /\ "continue" \in uses
    /\ Steps(t, "NORMAL") /\ tree.exc[t].kind # "HEAD"
    /\ ExceptionPath(Yield(t, "none"), t) # <<>>
    /\ Becomes(ContinueBlock(Yield(t, "none"), t))
    /\ UNCHANGED uncaught
----------------------------------------------------------------------------
(* Steps of a task that closes. *)

(* The ZM_TERM step. *)
TermStep(t) ==
    /\ Steps(t, "CLOSE")
    /\ Becomes([Begun(t) EXCEPT !.pmode[t] = "END"])
    /\ UNCHANGED uncaught

(* ZM_PMODE_ASYNCIMPLODE: the task that ran when its context was aborted   *)
(* gives way to the start of the implosion.                                *)
AsyncImplode(t) ==
    /\ Steps(t, "ASYNC")
    /\ LET c == [SuspendCurrentState(tree, t, TRUE)
                   EXCEPT !.pmode[t] = "CLOSE", !.start[t] = NULL]
       IN  Becomes(IF tree.start[t] = NULL THEN Fail(c, "NOSTART")
                   ELSE ResumeState(c, tree.start[t]))
    /\ UNCHANGED uncaught

Leave_ForgetsCaller(t) ==
    LET c == [tree EXCEPT !.pmode[t] = "OFF",
                          !.ring[tree.parent[t]] = RemoveSibling(@, t),
                          !.exc[t] = NoExc]
    IN  IF t \in c.autofree THEN FreeState(c, t) ELSE c

(* ZM_PMODE_END: the caller is resumed and the task leaves the tree.  It   *)
(* keeps ZM_STATE_RUN.                                                     *)
Leave(t) ==
    LET p == tree.parent[t]
        r == IF tree.caller[t] = NULL THEN tree ELSE ResumeCaller(tree, t)
        c == [r EXCEPT !.pmode[t] = "OFF",
                       !.ring[p]  = RemoveSibling(@, t),
                       !.exc[t]   = NoExc]
    IN  IF p # NULL /\ tree.pmode[p] = "ABSENT" THEN Fail(r, "FREED")
        ELSE IF r.exc[t].kind \notin {"NONE", "HEAD"} THEN Fail(c, "PPS.EEN")
        ELSE IF t \in c.autofree THEN FreeState(c, t) ELSE c

End(t) ==
    /\ Steps(t, "END")
    /\ Becomes(Leave(t))
    /\ UNCHANGED uncaught
----------------------------------------------------------------------------
Init == tree = EmptyTree /\ uncaught = FALSE /\ uses \in Programs

Calls(s) ==
    \/ \E auto \in AutoFree : NewTask(s, auto)
    \/ Resume(s) \/ Abort(s) \/ RequestFree(s) \/ Trigger(s)

NormalStep(t) ==
    \/ \E s \in Task :
          \/ \E auto \in AutoFree : NewSubTask(t, s, auto)
          \/ \E mode \in CatchModes : Sub(t, s, mode) \/ UnraiseHead(t, s, mode)
          \/ Close(t, s)
    \/ Continue(t) \/ Suspend(t) \/ YieldCaller(t) \/ Listen(t) \/ Term(t)
    \/ \E mode \in CatchModes : Raise(t, mode)
    \/ RaiseContinue(t)

ClosingStep(t) == TermStep(t) \/ AsyncImplode(t) \/ End(t)

Next ==
    /\ tree.fatal = OK
    /\ uses' = uses
    /\ \/ CloseVM \/ UCatch
       \/ \E t \in Task : Calls(t) \/ NormalStep(t) \/ ClosingStep(t)

Spec == Init /\ [][Next]_vars
----------------------------------------------------------------------------
(* Properties. *)

ExcType == [kind   : {"NONE", "ABORT", "CONTINUE", "HEAD"},
            raise  : Task \cup {NULL},
            before : Task \cup {NULL}]

(* Type invariant. *)
TypeOK ==
    /\ tree.pmode  \in [Task -> {"ABSENT", "NORMAL", "CLOSE", "ASYNC", "END", "OFF"}]
    /\ tree.parent \in [Task -> Task \cup {NULL}]
    /\ \A p \in Task \cup {NULL} : tree.ring[p] \in Seq(Task)
    /\ tree.caller \in [Task -> Task \cup {NULL}]
    /\ tree.catch  \in [Task -> {"none", "catch", "reset", "stale"}]
    /\ tree.exc    \in [Task -> ExcType]
    /\ tree.start  \in [Task -> Task \cup {NULL}]
    /\ {tree.run, tree.waiting, tree.bound, tree.autofree, tree.mark} \subseteq SUBSET Task
    /\ tree.run \cap tree.waiting = {} /\ tree.bound \subseteq tree.waiting
    /\ uncaught \in BOOLEAN /\ uses \in Programs

(* No internal check of the library fails and no freed memory is used.     *)
(* Nor does a task whose yields give their points end up without one       *)
(* (YRES.0), caught by the flag of a zmCATCH it passed long ago.           *)
NoInternalFatal == tree.fatal = OK

(* A task of each context has control: it runs, waits for an event, or the *)
(* context is suspended as a whole.  Never two.                            *)
OneRunner ==
    \A t, u \in Runnable(tree) \cup tree.bound :
        Root(tree, t) = Root(tree, u) => t = u

(* The tasks a running one will wake in turn. *)
WokenBy(t) == ToSet(CallerChain(tree, t)) \cup
              (IF tree.start[t] = NULL THEN {} ELSE ToSet(CallerChain(tree, tree.start[t])))

(* The tasks that a continue block keeps waiting. *)
InBlock == UNION {ToSet(CallerChain(tree, tree.exc[h].raise)) :
                    h \in {t \in Task : tree.exc[t].kind = "HEAD"}}

(* Whoever waits is woken: by a task that runs or listens to an event,     *)
(* along the callers, or it is part of a continue block.                   *)
NobodyForgotten ==
    \A t \in (tree.waiting \cap Live(tree)) \ tree.bound :
        \/ \E u \in Runnable(tree) \cup tree.bound : t \in WokenBy(u)
        \/ t \in InBlock

(* What a closing task would use: its parent and its caller exist. *)
NoDangling ==
    \A t \in Live(tree) :
        /\ ~IsTask(tree, t) => tree.parent[t] \in Live(tree)
        /\ tree.caller[t] # NULL => tree.caller[t] \in Live(tree)
        /\ tree.start[t] # NULL => tree.start[t] \in Live(tree)
        /\ tree.exc[t].kind = "HEAD" /\ t \notin Locked(tree)
              => tree.exc[t].raise \in Live(tree)

(* "The execution of the close is done in a serial way as any other        *)
(* operation in the same execution-context" (MANUAL.md:991): a task in     *)
(* normal mode has control only when nothing in its context closes, so a   *)
(* catcher never sees half of an implosion.                                *)
ClosersFirst ==
    \A t \in (Runnable(tree) \cup tree.bound) \ Locked(tree) :
        \A u \in Live(tree) \cap Locked(tree) : Root(tree, u) # Root(tree, t)

(* "The order of execution of the close is from leaves to root"            *)
(* (MANUAL.md:986): ZM_TERM runs when all the subtasks have ended.         *)
LeavesToRoot ==
    [][\A t \in Task : tree.pmode[t] = "CLOSE" /\ tree'.pmode[t] = "END"
          => tree.ring[t] = <<>>]_vars

(* "The continue-exception must be completely inside the implosion"        *)
(* (zm.c:2440): a close takes all the tasks of a continue block or none.   *)
Block(h) == {h} \cup ToSet(CallerChain(tree, tree.exc[h].raise))
BlocksWhole ==
    [][\A h \in Task :
          tree.exc[h].kind = "HEAD" /\ Block(h) \cap Locked(tree) = {}
             => Block(h) \cap Locked(tree') \in {{}, Block(h)}]_vars
----------------------------------------------------------------------------
(* What closing promises, and the tree that keeps it. *)

Promise == INSTANCE Branches
             WITH up <- [t \in Live(tree) |-> tree.parent[t]],
                  closing <- Live(tree) \cap Locked(tree)

(* Closing tasks end from the leaves to the root, branch by branch.        *)
ImplementsBranches == Promise!Spec

(* zm_go steps every running task: Scheduler, EveryTaskSteps. *)
Fairness == \A t \in Task : WF_vars((NormalStep(t) \/ ClosingStep(t)) /\ uses' = uses)

FairSpec == Spec /\ Fairness

(* Whatever closes a task, and whatever else closes meanwhile, it ends.    *)
ClosingEnds ==
    \A t \in Task : t \in Locked(tree) ~> tree.pmode[t] \in {"OFF", "ABSENT"}

(* An abort exception reaches the task that catches it. *)
CatcherRuns ==
    \A t \in Task : tree.exc[t].kind = "ABORT" ~> tree.exc[t].kind # "ABORT"
=============================================================================
