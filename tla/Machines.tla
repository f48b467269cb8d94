------------------------------ MODULE Machines ------------------------------
(***************************************************************************)
(* Threads that use the library, each with a VM of its own, and the task   *)
(* classes (zm_Machine) that they share.  A machine gets its id from the   *)
(* counter zmg_mcounter when a thread first needs a worker for it; the id  *)
(* is the place of the worker in a table that each VM has.  Ids are given  *)
(* under the lock of the host (zm_enableMT), but read without it.          *)
(*                                                                         *)
(* zm_getWorker is called to create a task, whose constructor runs at once *)
(* and may create others, and for a zm_go that runs one machine only.      *)
(* pc[v] is the place of thread v in it, "user" outside of the library.    *)
(* Which task zm_go runs is the subject of Scheduler; here it may be any.  *)
(***************************************************************************)
EXTENDS Integers, Sequences, SequencesExt

CONSTANTS
    Thread,
    Machine,
    NULL,
    HlistInc,   \* ZM_MACHINE_HLIST_INC
    MaxTasks,   \* bound on the tasks of all the VMs
    MaxNested   \* bound on the constructors that run one inside the other

ASSUME ThreadAssumption == NULL \notin Thread
ASSUME BoundsAssumption == HlistInc \in Nat \ {0} /\ MaxTasks \in Nat /\ MaxNested \in Nat \ {0}

VARIABLES
    id,        \* zm_Machine.id, -1 until it is given
    mcounter,  \* zmg_mcounter
    lock,      \* the thread that has the lock of the host, NULL if none
    vm,        \* see ClosedVM
    pc,
    call,      \* what zm_getWorker was called for: a machine, a purpose and
               \* the task that is being created
    counted    \* what the thread has read from mcounter

mvars == <<id, mcounter, lock, vm, pc, call, counted>>

Slot == 1..MaxTasks   \* the memory of the tasks
None == 0             \* no task, no worker

NoSession == [state |-> None, worker |-> None]

(* zm_VM.  workers[k] is the machine of the k-th worker allocated, and     *)
(* hlist[i + 1] the worker of the machine with id i.  tasks has the worker *)
(* of each task.  frames are the machine functions that run, innermost     *)
(* last: a step of zm_go, or constructors, with the session that           *)
(* zm_machineStep0 will restore.                                           *)
ClosedVM == [open |-> FALSE, hlist |-> <<>>, workers |-> <<>>, tasks |-> <<>>,
             session |-> NoSession, plock |-> FALSE, frames |-> <<>>]

NoCall == [machine |-> NULL, for |-> "go", task |-> None]

Init ==
    /\ id = [m \in Machine |-> -1] /\ mcounter = 0 /\ lock = NULL
    /\ vm = [v \in Thread |-> ClosedVM]
    /\ pc = [v \in Thread |-> "user"]
    /\ call = [v \in Thread |-> NoCall]
    /\ counted = [v \in Thread |-> 0]

Goto(v, place) == pc' = [pc EXCEPT ![v] = place]
User(v)        == pc[v] = "user" /\ vm[v].open
Idle(v)        == User(v) /\ vm[v].frames = <<>>
Return(v)      == Goto(v, "user") /\ call' = [call EXCEPT ![v] = NoCall]
Free           == Slot \ UNION {DOMAIN vm[v].tasks \cup {call[v].task} : v \in Thread}
----------------------------------------------------------------------------
(* The life of a VM. *)

(* The counter is read without the lock: the table may be too small. *)
NewVM(v) ==
    /\ pc[v] = "user" /\ ~vm[v].open
    /\ vm' = [vm EXCEPT ![v].open  = TRUE,
                        ![v].hlist = [i \in 1..(mcounter + HlistInc) |-> None]]
    /\ UNCHANGED <<id, mcounter, lock, pc, call, counted>>

(* zm_freeVM of a VM without tasks: the workers in the table are freed. *)
FreeVM(v) ==
    /\ Idle(v) /\ DOMAIN vm[v].tasks = {}
    /\ vm' = [vm EXCEPT ![v] = ClosedVM]
    /\ UNCHANGED <<id, mcounter, lock, pc, call, counted>>
----------------------------------------------------------------------------
(* zm_getWorker *)

MwhGet(v, m) ==
    IF id[m] = -1 \/ id[m] >= Len(vm[v].hlist) THEN None ELSE vm[v].hlist[id[m] + 1]

(* The worker of m is looked for, and allocated if there is none. *)
GetWorker(v, m, for, t) ==
    /\ call' = [call EXCEPT ![v] = [machine |-> m, for |-> for, task |-> t]]
    /\ IF MwhGet(v, m) # None
       THEN Goto(v, "found") /\ UNCHANGED vm
       ELSE Goto(v, "set") /\ vm' = [vm EXCEPT ![v].workers = Append(@, m)]
    /\ UNCHANGED <<id, mcounter, lock, counted>>

Wanted(v) == call[v].machine

MwhSet_NoLock(v) ==
    /\ pc[v] = "set"
    /\ Goto(v, IF id[Wanted(v)] = -1 THEN "init" ELSE "store")
    /\ UNCHANGED <<id, mcounter, lock, vm, call, counted>>

(* zm_mwhSet: the id is tested without the lock ... *)
MwhSet(v) ==
    /\ pc[v] = "set"
    /\ Goto(v, IF id[Wanted(v)] = -1 THEN "lock" ELSE "store")
    /\ UNCHANGED <<id, mcounter, lock, vm, call, counted>>

LockOn(v) ==
    /\ pc[v] = "lock" /\ lock = NULL
    /\ lock' = v
    /\ Goto(v, "init")
    /\ UNCHANGED <<id, mcounter, vm, call, counted>>

MachineInit_NoTest(v) ==
    /\ pc[v] = "init"
    /\ counted' = [counted EXCEPT ![v] = mcounter]
    /\ Goto(v, "count")
    /\ UNCHANGED <<id, mcounter, lock, vm, call>>

MachineInit_ReturnsEarly(v) ==
    /\ pc[v] = "init"
    /\ IF id[Wanted(v)] = -1
       THEN Goto(v, "count") /\ counted' = [counted EXCEPT ![v] = mcounter]
       ELSE Goto(v, "store") /\ UNCHANGED counted
    /\ UNCHANGED <<id, mcounter, lock, vm, call>>

(* ... and again with it: another thread may have been faster. *)
MachineInit(v) ==
    /\ pc[v] = "init"
    /\ IF id[Wanted(v)] = -1
       THEN Goto(v, "count") /\ counted' = [counted EXCEPT ![v] = mcounter]
       ELSE Goto(v, "unlock") /\ UNCHANGED counted
    /\ UNCHANGED <<id, mcounter, lock, vm, call>>

(* machine->id = zmg_mcounter++ *)
MachineCount(v) ==
    /\ pc[v] = "count"
    /\ mcounter' = counted[v] + 1
    /\ id' = [id EXCEPT ![Wanted(v)] = counted[v]]
    /\ counted' = [counted EXCEPT ![v] = 0]
    /\ Goto(v, "unlock")
    /\ UNCHANGED <<lock, vm, call>>

LockOff(v) ==
    /\ pc[v] = "unlock"
    /\ lock' = NULL
    /\ Goto(v, "store")
    /\ UNCHANGED <<id, mcounter, vm, call, counted>>

Grown_OneShort(h, i) ==
    IF i > Len(h) THEN h \o [j \in 1..(i + HlistInc - Len(h)) |-> None] ELSE h

(* The table has a place for the id i. *)
Grown(h, i) ==
    IF i >= Len(h) THEN h \o [j \in 1..(i + HlistInc - Len(h)) |-> None] ELSE h

MwhStore(v) ==
    /\ pc[v] = "store"
    /\ LET i == id[Wanted(v)]
       IN  vm' = [vm EXCEPT ![v].hlist =
                    [Grown(@, i) EXCEPT ![i + 1] = Len(vm[v].workers)]]
    /\ Goto(v, "found")
    /\ UNCHANGED <<id, mcounter, lock, call, counted>>
----------------------------------------------------------------------------
(* Tasks, their constructors and their steps. *)

(* izm_addTask, from outside or from inside a machine function. *)
AddTask(v, m) ==
    /\ User(v)
    /\ Free # {} /\ Len(vm[v].frames) < MaxNested
    /\ GetWorker(v, m, "task", CHOOSE s \in Free : TRUE)

Frame(v, t, kind) ==
    [kind |-> kind, task |-> t, session |-> vm[v].session, plock |-> vm[v].plock]

Enter(v, t, w, kind, tasks) ==
    vm' = [vm EXCEPT ![v].tasks = tasks, ![v].plock = TRUE,
                     ![v].session = [state |-> t, worker |-> w],
                     ![v].frames = Append(@, Frame(v, t, kind))]

(* The task is linked and its constructor begins. *)
RunInit(v) ==
    /\ pc[v] = "found" /\ call[v].for = "task"
    /\ LET t == call[v].task
           w == MwhGet(v, Wanted(v))
       IN  Enter(v, t, w, "init",
                 [s \in DOMAIN vm[v].tasks \cup {t} |-> IF s = t THEN w ELSE vm[v].tasks[s]])
    /\ Return(v)
    /\ UNCHANGED <<id, mcounter, lock, counted>>

Running(v) == Last(vm[v].frames)

Restored_KeepsSession(v) ==
    [vm[v] EXCEPT !.plock = Running(v).plock, !.frames = Front(@)]

(* zm_machineStep0 puts the session back. *)
Restored(v) ==
    [vm[v] EXCEPT !.session = Running(v).session,
                  !.plock   = Running(v).plock,
                  !.frames  = Front(@)]

(* The constructor yields zmDONE. *)
InitDone(v) ==
    /\ User(v) /\ ~Idle(v) /\ Running(v).kind = "init"
    /\ vm' = [vm EXCEPT ![v] = Restored(v)]
    /\ UNCHANGED <<id, mcounter, lock, pc, call, counted>>

(* zm_go for all machines runs a step of any task. *)
Go(v, t) ==
    /\ Idle(v) /\ t \in DOMAIN vm[v].tasks
    /\ Enter(v, t, vm[v].tasks[t], "step", vm[v].tasks)
    /\ UNCHANGED <<id, mcounter, lock, pc, call, counted>>

(* zm_go for the machine m alone ... *)
GoMachine(v, m) == Idle(v) /\ GetWorker(v, m, "go", None)

(* ... runs a step of a task of its worker, or returns. *)
GoFound(v) ==
    /\ pc[v] = "found" /\ call[v].for = "go"
    /\ LET w == MwhGet(v, Wanted(v))
       IN  \/ \E t \in DOMAIN vm[v].tasks :
                 /\ vm[v].tasks[t] = w
                 /\ Enter(v, t, w, "step", vm[v].tasks)
           \/ UNCHANGED vm
    /\ Return(v)
    /\ UNCHANGED <<id, mcounter, lock, counted>>

(* The machine function yields.  The session keeps the task, which may end *)
(* and be released, but only the report of an error would read it before   *)
(* the next step or constructor sets it: it is dropped here.               *)
StepEnd(v) ==
    /\ User(v) /\ ~Idle(v) /\ Running(v).kind = "step"
    /\ vm' = [vm EXCEPT ![v].plock = FALSE, ![v].frames = <<>>, ![v].session = NoSession]
    /\ UNCHANGED <<id, mcounter, lock, pc, call, counted>>

(* A task ends in a zm_go and its memory is released. *)
TaskEnds(v, t) ==
    /\ Idle(v) /\ t \in DOMAIN vm[v].tasks
    /\ vm' = [vm EXCEPT ![v].tasks = [s \in DOMAIN @ \ {t} |-> @[s]]]
    /\ UNCHANGED <<id, mcounter, lock, pc, call, counted>>
----------------------------------------------------------------------------
Library(v) ==
    \/ MwhSet(v) \/ LockOn(v) \/ MachineInit(v) \/ MachineCount(v) \/ LockOff(v)
    \/ MwhStore(v) \/ RunInit(v) \/ GoFound(v)

Calls(v) ==
    \/ NewVM(v) \/ FreeVM(v) \/ InitDone(v) \/ StepEnd(v)
    \/ \E m \in Machine : GoMachine(v, m) \/ AddTask(v, m)
    \/ \E t \in Slot : Go(v, t) \/ TaskEnds(v, t)
----------------------------------------------------------------------------
(* Properties. *)

Places == {"user", "set", "lock", "init", "count", "unlock", "store", "found"}

VMTypeOK(x) ==
    /\ x.open \in BOOLEAN /\ x.plock \in BOOLEAN
    /\ x.workers \in Seq(Machine)
    /\ ToSet(x.hlist) \subseteq {None} \cup DOMAIN x.workers
    /\ DOMAIN x.tasks \subseteq Slot
    /\ \A t \in DOMAIN x.tasks :
          x.tasks[t] \in DOMAIN x.workers
    /\ x.session.state \in Slot \cup {None}
    /\ x.session.worker \in {None} \cup DOMAIN x.workers
    /\ Len(x.frames) <= MaxNested

(* Type invariant. *)
MachinesTypeOK ==
    /\ id \in [Machine -> Nat \cup {-1}] /\ mcounter \in Nat
    /\ lock \in Thread \cup {NULL}
    /\ \A v \in Thread : VMTypeOK(vm[v])

(* A machine keeps one id, no other has it, and the counter is ahead of    *)
(* it, whichever threads come first.                                       *)
IdsAreDistinct ==
    /\ \A m \in Machine : id[m] < mcounter
    /\ \A m, n \in Machine : id[m] = id[n] /\ id[m] # -1 => m = n

(* The worker of machine m has been allocated but not stored yet. *)
Storing(v, k) ==
    /\ k = Len(vm[v].workers)
    /\ pc[v] \in {"set", "lock", "init", "count", "unlock", "store"}

(* Each worker that a VM allocated is the one that its table has for the   *)
(* machine: it is found again, by a zm_go that runs this machine alone or  *)
(* for a new task, and freed with the VM.                                  *)
WorkersAreFound ==
    \A v \in Thread : \A k \in DOMAIN vm[v].workers :
        Storing(v, k) \/ MwhGet(v, vm[v].workers[k]) = k

(* While machine functions run, one inside the other, the session is that  *)
(* of the innermost one, with the worker that its task was created for.    *)
SessionIsInnermost ==
    \A v \in Thread :
        /\ vm[v].plock <=> vm[v].frames # <<>>
        /\ vm[v].frames # <<>> =>
              LET t == Running(v).task
              IN  /\ t \in DOMAIN vm[v].tasks
                  /\ vm[v].session = [state |-> t, worker |-> vm[v].tasks[t]]
=============================================================================
