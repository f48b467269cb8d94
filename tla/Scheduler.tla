----------------------------- MODULE Scheduler -----------------------------
(***************************************************************************)
(* zm_go over a set of ptasks that have no subtasks: a host that creates,  *)
(* resumes, aborts and frees tasks and calls zm_go, and the machine steps  *)
(* that zm_go runs, which may do the same to the other tasks.              *)
(*                                                                         *)
(* The library is single-threaded.  What interleaves is the code of the    *)
(* host, of the machine steps and of the scheduler: go.pc says whose turn  *)
(* it is.  A machine step is open (pc = "step") between the call of the    *)
(* machine function and its yield; while it is open the task may call the  *)
(* library any number of times.                                            *)
(*                                                                         *)
(* What a user of the library may not do (a ZM_FATAL_GCODE, TCODE or YCODE *)
(* exit) is excluded by guards; an exit that the code says cannot happen   *)
(* (ZM_FATAL_U1, ZM_FATAL_UP) is recorded in heap.fatal.                   *)
(***************************************************************************)
EXTENDS RunLists, FiniteSets, Sequences

CONSTANTS
    Filter,      \* the machines the host may give to zm_go
    AutoFree,    \* the kinds of task created: {TRUE} zm_newTasklet only,
                 \* {FALSE} zm_newTask only
    MaxCycle,    \* bound on the ncycle argument of zm_go
    HostBreaks   \* whether zm_break may be called outside a machine step

ASSUME FilterAssumption   == Filter \subseteq Machine
ASSUME MaxCycleAssumption == MaxCycle \in Nat
ASSUME AutoFreeAssumption == AutoFree \subseteq BOOLEAN
ASSUME BreaksAssumption   == HostBreaks \in BOOLEAN

VARIABLES
    heap,      \* the linked structures, see RunLists
    pmode,     \* zm_State.pmode, "ABSENT" while the state is not allocated
    machine,   \* the machine each task was created with (a history variable)
    autofree,  \* the tasks with ZM_STATE_AUTOFREE
    pause,     \* zm_VM.pause
    uncaught,  \* whether zm_VM.uncaught is set
    go,        \* the zm_go call in progress
    ret        \* the flags the last zm_go returned, {} for ZM_RUN_IDLE;
               \* {} also while the next call runs

vars == <<heap, pmode, machine, autofree, pause, uncaught, go, ret>>

Live    == {t \in Task : pmode[t] \in {"NORMAL", "CLOSE", "END"}}
Closing == {t \in Task : pmode[t] \in {"CLOSE", "END", "OFF"}}

(* The tasks that are in the list of their worker.  A task that ended      *)
(* keeps ZM_STATE_RUN although no list holds it.                           *)
Runnable == heap.run \cap Live

Current   == heap.sstate
InStep    == go.pc = "step"
UserCode  == go.pc \in {"host", "step"}
----------------------------------------------------------------------------
(* What the host and the machine steps may call.                           *)

(* The memory of t is released, and may become another task. *)
Released(h, t) == [h EXCEPT !.run = @ \ {t}, !.next[t] = NULL]

(* zm_newTask and zm_newTasklet: the task is created suspended. *)
NewTask(t, m, auto) ==
    /\ UserCode
    /\ pmode[t] = "ABSENT"
    /\ pmode'    = [pmode EXCEPT ![t] = "NORMAL"]
    /\ machine'  = [machine EXCEPT ![t] = m]
    /\ autofree' = IF auto THEN autofree \cup {t} ELSE autofree
    /\ heap'     = [heap EXCEPT !.next[t] = m]
    /\ UNCHANGED <<pause, uncaught, go, ret>>

(* zm_resume: refused for a task that runs or waits. *)
Resume(t) ==
    /\ UserCode
    /\ pmode[t] # "ABSENT"
    /\ t \notin heap.run \cup heap.waiting
    /\ heap' = ResumeState(heap, t)
    /\ UNCHANGED <<pmode, machine, autofree, pause, uncaught, go, ret>>

Abort_ResumesRunning(t) ==
    /\ UserCode
    /\ pmode[t] # "ABSENT"
    /\ InStep => t # Current
    /\ IF t \in Closing
       THEN UNCHANGED <<pmode, heap>>
       ELSE /\ pmode' = [pmode EXCEPT ![t] = "CLOSE"]
            /\ heap'  = ResumeState(heap, t)
    /\ UNCHANGED <<machine, autofree, pause, uncaught, go, ret>>

(* zm_abort of a ptask without children: it is locked, and resumed if it   *)
(* is suspended, so that its next step is ZM_TERM.  Nothing happens to a   *)
(* task that is already closing.                                           *)
Abort(t) ==
    /\ UserCode
    /\ pmode[t] # "ABSENT"
    /\ InStep => t # Current
    /\ IF t \in Closing
       THEN UNCHANGED <<pmode, heap>>
       ELSE /\ pmode' = [pmode EXCEPT ![t] = "CLOSE"]
            /\ heap'  = IF t \in heap.run THEN heap ELSE ResumeState(heap, t)
    /\ UNCHANGED <<machine, autofree, pause, uncaught, go, ret>>

(* zm_freeTask: at once for a task that has ended, when it ends for a task *)
(* that is closing; refused for any other.                                 *)
FreeTask(t) ==
    /\ UserCode
    /\ t \in Closing \ autofree
    /\ IF pmode[t] = "OFF"
       THEN /\ pmode' = [pmode EXCEPT ![t] = "ABSENT"]
            /\ heap'  = Released(heap, t)
            /\ UNCHANGED autofree
       ELSE /\ autofree' = autofree \cup {t}
            /\ UNCHANGED <<pmode, heap>>
    /\ UNCHANGED <<machine, pause, uncaught, go, ret>>

(* zm_break *)
Break ==
    /\ InStep \/ (go.pc = "host" /\ HostBreaks)
    /\ pause' = TRUE
    /\ UNCHANGED <<heap, pmode, machine, autofree, uncaught, go, ret>>

(* zm_uCatch: the host takes the uncaught exception. *)
UCatch ==
    /\ go.pc = "host"
    /\ uncaught
    /\ uncaught' = FALSE
    /\ UNCHANGED <<heap, pmode, machine, autofree, pause, go, ret>>
----------------------------------------------------------------------------
(* zm_go *)

Return(flags) ==
    /\ go'  = [go EXCEPT !.pc = "host"]
    /\ ret' = flags

(* The host calls zm_go(vm, n, NULL). *)
GoCall(n) ==
    /\ go.pc = "host"
    /\ go'  = [pc |-> "loop", left |-> n, fixed |-> FALSE]
    /\ ret' = {}
    /\ UNCHANGED <<heap, pmode, machine, autofree, pause, uncaught>>

(* The host calls zm_go(vm, n, m): only the worker of m will run. *)
GoCallFiltered(n, m) ==
    /\ go.pc = "host"
    /\ go'   = [pc |-> "loop", left |-> n, fixed |-> TRUE]
    /\ heap' = [heap EXCEPT !.sworker = m]
    /\ ret'  = {}
    /\ UNCHANGED <<pmode, machine, autofree, pause, uncaught>>

GoExhausted ==
    /\ go.pc = "loop" /\ go.left = 0
    /\ Return({"AGAIN"})
    /\ UNCHANGED <<heap, pmode, machine, autofree, pause, uncaught>>

Looping_NoLimit == go.pc = "loop"

Looping == go.pc = "loop" /\ go.left > 0

GoPause ==
    /\ Looping /\ pause
    /\ pause' = FALSE
    /\ Return({"AGAIN", "BREAK"})
    /\ UNCHANGED <<heap, pmode, machine, autofree, uncaught>>

(* The worker whose turn it is, NULL if it has nothing to run. *)
GoGetWorker ==
    LET w == IF go.fixed THEN heap.sworker ELSE heap.cursor
    IN  IF w = NULL THEN NULL
        ELSE IF heap.nstate[w] = 0 THEN NULL ELSE w

GoIdle ==
    /\ Looping /\ ~pause
    /\ GoGetWorker = NULL
    /\ Return({})
    /\ UNCHANGED <<heap, pmode, machine, autofree, pause, uncaught>>

GoNextWorker_KeepsRound ==
    LET w == GoGetWorker
    IN  /\ Looping /\ ~pause
        /\ w # NULL
        /\ heap.current[w] = NULL
        /\ ~go.fixed /\ heap.nworker > 1
        /\ heap' = NextWorker(heap)
        /\ UNCHANGED <<pmode, machine, autofree, pause, uncaught, go, ret>>

(* The round of this worker is over: rewind it and go to the next worker   *)
(* without using a cycle.                                                  *)
GoNextWorker ==
    LET w == GoGetWorker
    IN  /\ Looping /\ ~pause
        /\ w # NULL
        /\ heap.current[w] = NULL
        /\ ~go.fixed /\ heap.nworker > 1
        /\ heap' = NextWorker(RewindWorkerStates(heap, w))
        /\ UNCHANGED <<pmode, machine, autofree, pause, uncaught, go, ret>>

(* The structures when zm_goStep begins on worker w. *)
Picked(w) ==
    LET g == IF heap.current[w] = NULL THEN RewindWorkerStates(heap, w) ELSE heap
    IN  [g EXCEPT !.sstate = g.current[w], !.sworker = w, !.suspendop = 0]

CanStep ==
    /\ Looping /\ ~pause
    /\ GoGetWorker # NULL
    /\ (heap.current[GoGetWorker] = NULL) => (go.fixed \/ heap.nworker = 1)

StepReturns_WorkerEmpty(h, exception) ==
    /\ heap' = h
    /\ IF h.nstate[h.sworker] > 0 /\ ~exception
       THEN go' = [go EXCEPT !.pc = "loop", !.left = @ - 1] /\ UNCHANGED ret
       ELSE Return(IF exception THEN {"EXCEPTION"} ELSE {})

(* The end of zm_goStep, h being the structures after the yield: flags are *)
(* what zm_goStep returns, and zm_go goes on only on ZM_RUN_AGAIN.         *)
StepReturns(h, exception) ==
    LET again == ~go.fixed \/ h.nstate[h.sworker] > 0
        flags == (IF again THEN {"AGAIN"} ELSE {})
                   \cup (IF exception THEN {"EXCEPTION"} ELSE {})
    IN  /\ heap' = h
        /\ IF flags = {"AGAIN"}
           THEN go' = [go EXCEPT !.pc = "loop", !.left = @ - 1] /\ UNCHANGED ret
           ELSE Return(flags)

(* zm_go picks a task and calls its machine function: no ended task is     *)
(* ever picked.                                                            *)
StepBegin ==
    LET h == Picked(GoGetWorker)
    IN  /\ CanStep
        /\ pmode[h.sstate] # "END"
        /\ heap' = IF pmode[h.sstate] \in {"NORMAL", "CLOSE"} THEN h
                    ELSE [h EXCEPT !.fatal = "PPS.NMTD"]
        /\ go'   = [go EXCEPT !.pc = "step"]
        /\ UNCHANGED <<pmode, machine, autofree, pause, uncaught, ret>>

(* zm_go picks a task whose ZM_TERM step is done: it leaves the structures *)
(* without running any code of its own.                                    *)
StepEnd ==
    LET h == Picked(GoGetWorker)
        t == h.sstate
        u == UnlinkCurrentState(h)
    IN  /\ CanStep
        /\ pmode[t] = "END"
        /\ IF t \in autofree
           THEN /\ pmode'    = [pmode EXCEPT ![t] = "ABSENT"]
                /\ autofree' = autofree \ {t}
                /\ StepReturns(Released(u, t), FALSE)
           ELSE /\ pmode' = [pmode EXCEPT ![t] = "OFF"]
                /\ StepReturns(u, FALSE)
                /\ UNCHANGED autofree
        /\ UNCHANGED <<machine, pause, uncaught>>

Yields(mode) == InStep /\ pmode[Current] = mode

(* The step ends in a plain yield: the task stays in the list. *)
YieldContinue ==
    /\ Yields("NORMAL")
    /\ StepReturns(StateNext(heap, heap.sworker), FALSE)
    /\ UNCHANGED <<pmode, machine, autofree, pause, uncaught>>

(* zmSUSPEND *)
YieldSuspend ==
    /\ Yields("NORMAL")
    /\ StepReturns(SuspendCurrentState(heap, FALSE), FALSE)
    /\ UNCHANGED <<pmode, machine, autofree, pause, uncaught>>

(* The task of the session closes: suspended, locked and resumed. *)
CloseCurrent ==
    /\ Yields("NORMAL")
    /\ pmode' = [pmode EXCEPT ![Current] = "CLOSE"]
    /\ UNCHANGED <<machine, autofree, pause>>

ImplodeMonoTask_StaysSuspended(h, t) == h

ImplodeMonoTask(h, t) == ResumeState(h, t)

(* zmTERM *)
YieldTerm ==
    /\ CloseCurrent
    /\ StepReturns(ImplodeMonoTask(SuspendCurrentState(heap, TRUE), Current),
                   FALSE)
    /\ UNCHANGED uncaught

(* zmraise zmABORT in a ptask: nobody can catch it, the task closes and    *)
(* the exception is left to the host, who may keep only one.               *)
YieldAbort ==
    /\ CloseCurrent
    /\ ~uncaught
    /\ uncaught' = TRUE
    /\ StepReturns(ImplodeMonoTask(SuspendCurrentState(heap, TRUE), Current),
                   TRUE)

(* zmEND, the end of the ZM_TERM step. *)
YieldEnd ==
    /\ Yields("CLOSE")
    /\ pmode' = [pmode EXCEPT ![Current] = "END"]
    /\ StepReturns(StateNext(heap, heap.sworker), FALSE)
    /\ UNCHANGED <<machine, autofree, pause, uncaught>>
----------------------------------------------------------------------------
Init ==
    /\ heap     = EmptyLists
    /\ pmode    = [t \in Task |-> "ABSENT"]
    /\ machine  = [t \in Task |-> NULL]
    /\ autofree = {}
    /\ pause    = FALSE
    /\ uncaught = FALSE
    /\ go       = [pc |-> "host", left |-> 0, fixed |-> FALSE]
    /\ ret      = {}

Calls ==
    \/ \E t \in Task : \/ \E m \in Machine, auto \in AutoFree : NewTask(t, m, auto)
                       \/ Resume(t)
                       \/ Abort(t)
                       \/ FreeTask(t)
    \/ Break
    \/ UCatch

HostGo ==
    \E n \in 0..MaxCycle : GoCall(n) \/ \E m \in Filter : GoCallFiltered(n, m)

GoLoop == GoExhausted \/ GoPause \/ GoIdle \/ GoNextWorker
            \/ StepBegin \/ StepEnd

Yield == YieldContinue \/ YieldSuspend \/ YieldTerm \/ YieldAbort \/ YieldEnd

(* A failed internal check ends the process. *)
Next == heap.fatal = OK /\ (Calls \/ HostGo \/ GoLoop \/ Yield)

Spec == Init /\ [][Next]_vars
----------------------------------------------------------------------------
(* Properties. *)

(* Type invariant. *)
Flags == {"AGAIN", "BREAK", "EXCEPTION"}
TypeOK ==
    /\ heap \in HeapType
    /\ pmode \in [Task -> {"ABSENT", "NORMAL", "CLOSE", "END", "OFF"}]
    /\ machine \in [Task -> Machine \cup {NULL}]
    /\ autofree \in SUBSET Task
    /\ pause \in BOOLEAN /\ uncaught \in BOOLEAN
    /\ go \in [pc : {"host", "loop", "step"}, left : Nat, fixed : BOOLEAN]
    /\ ret \in SUBSET Flags

(* No internal check of the library fails, whatever the host and the tasks *)
(* call in whatever order: SCURS.RM, RWINDW.1, RESST.*, WSYLST.*, PPS.NMTD.*)
NoInternalFatal == heap.fatal = OK

RunnableOf(w) == {t \in Runnable : machine[t] = w}

(* The list of a worker holds the running tasks of its machine, each once, *)
(* its count is right and its cursor splits it in two, however resumes,    *)
(* suspensions, ends and filtered and unfiltered calls interleave.  A      *)
(* suspended task remembers its own worker.                                *)
ListsWellFormed ==
    /\ \A w \in Machine : HasRunList(heap, w, RunnableOf(w))
    /\ \A t \in Live \ heap.run : heap.next[t] = machine[t]

(* The ring holds the workers with something to run, each once, and the    *)
(* cursor is on one of them.                                               *)
RingWellFormed == HasRing(heap, {w \in Machine : heap.nstate[w] > 0})

(* "In zm_go workercursor and session worker are sync" (zm.c:2069): in an  *)
(* unfiltered call the worker of the open step is the cursor of the VM,    *)
(* and the task of the step is the current one of that worker.             *)
SessionInSync ==
    InStep => /\ ~go.fixed => heap.cursor = heap.sworker
              /\ heap.current[heap.sworker] = Current

(* zm_go reports ZM_RUN_IDLE only when no task it may run is left: a host  *)
(* that stops on it loses no wakeup.                                       *)
IdleMeansIdle ==
    [][(go.pc # "host" /\ go'.pc = "host" /\ ret' = {})
          => {t \in Runnable' : go.fixed => machine[t] = heap'.sworker} = {}]_vars

(* MANUAL.md:1275 and examples/reset.c:101 compare the result of zm_go     *)
(* with ZM_RUN_EXCEPTION.                                                  *)
ExceptionReportedAlone == "EXCEPTION" \in ret => ret = {"EXCEPTION"}
----------------------------------------------------------------------------
(* The queues that the pointers represent, and the promise they keep. *)

Todo == [w \in Machine |-> TodoOf(heap, w)]
Ran  == [w \in Machine |-> RanOf(heap, w)]
Ring == RingOf(heap)
Step == IF InStep THEN Current ELSE NULL

Queues == INSTANCE RunQueues
            WITH todo <- Todo, ran <- Ran, ring <- Ring, stepping <- Step

(* The lists and the ring implement the queues of RunQueues: a task that   *)
(* is resumed runs after all that its worker has still to run, and rounds  *)
(* and turns go in that order.                                             *)
ImplementsQueues == Queues!Spec
----------------------------------------------------------------------------
(* Liveness. *)

(* The host keeps calling zm_go for every task and for at least one cycle, *)
(* whatever else it calls in between (hence the strong form), and every    *)
(* machine step yields.                                                    *)
Fairness ==
    /\ WF_vars(GoLoop)
    /\ WF_vars(Yield)
    /\ SF_vars(\E n \in 1..MaxCycle : GoCall(n))

FairSpec == Spec /\ Fairness

(* No task that runs is forgotten by the rounds and turns of the workers:  *)
(* it takes a step.                                                        *)
EveryTaskSteps ==
    \A t \in Task : t \in Runnable ~> (InStep /\ Current = t) \/ t \notin Runnable

(* A task that closes, by zmTERM, by an exception or by the abort of       *)
(* another one, ends: its memory may be released.                          *)
ClosingEnds == \A t \in Task : t \in Closing ~> pmode[t] \in {"OFF", "ABSENT"}

(* zm_go returns: going from one worker to the next uses no cycle, but     *)
(* cannot go on for ever.                                                  *)
GoReturns == go.pc = "loop" ~> go.pc = "host"
=============================================================================
