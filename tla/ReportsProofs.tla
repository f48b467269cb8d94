--------------------------- MODULE ReportsProofs ---------------------------
(***************************************************************************)
(* Theorems about Machines and Reports, for any threads and machines.      *)
(* First the ids of the machines, the use of the lock of the host and the  *)
(* reports, then, on top of their invariant, the VMs: the tables of their  *)
(* workers and the sessions.                                               *)
(***************************************************************************)
EXTENDS Reports, TLAPS, SequenceTheorems

(* The places of a thread in zm_getWorker, and those where it has the lock *)
(* of the host.                                                            *)
Inside  == Places \ {"user"}
Holding == {"init", "count", "unlock"} \cup Printing

TypeInv ==
    /\ id \in [Machine -> Nat \cup {-1}] /\ mcounter \in Nat
    /\ lock \in Thread \cup {NULL}
    /\ counted \in [Thread -> Nat]
    /\ pc \in [Thread -> Places \cup Printing \cup {"fatalInit"}]
    /\ call \in [Thread -> [machine : Machine \cup {NULL}, for : {"go", "task"},
                            task : Slot \cup {None}]]
    /\ err \in [vm : Thread \cup {NULL}, first : BOOLEAN, inits : Nat, triggered : Nat]
    /\ kind \in [Thread -> {"none", "user", "internal", "dump"}]
    /\ exited \in BOOLEAN

WantsMachine == \A v \in Thread : pc[v] \in Inside => Wanted(v) \in Machine

LockHeld == \A v \in Thread : pc[v] \in Holding => lock = v

(* The id about to be given is the counter, which nobody else changes.     *)
CountExact ==
    \A v \in Thread : pc[v] = "count" => counted[v] = mcounter /\ id[Wanted(v)] = -1

ReportVM == \A v \in Thread : pc[v] \in Printing => err.vm = v

(* The report that v makes is the first one, or the one its dump led to.   *)
Stage(v) ==
    /\ pc[v] = "fatalDo" => (err.first /\ err.inits = 1) \/ (~err.first /\ err.inits = 2)
    /\ pc[v] = "dump" => ~err.first /\ err.inits = 1
    /\ pc[v] = "fatalInit" /\ lock = v => ~err.first /\ err.inits = 1

(* From the first report on its thread has the lock, until the exit.       *)
Stages ==
    /\ err.triggered = IF err.first THEN 0 ELSE 1
    /\ err.inits <= 2
    /\ err.inits = 0 => err.first
    /\ err.inits # 0 => lock # NULL /\ pc[lock] \in Printing \cup {"fatalInit"}
    /\ ~exited => \A v \in Thread : Stage(v)

IdInv     == WantsMachine /\ LockHeld /\ HolderGoesOn /\ CountExact /\ IdsAreDistinct
ReportInv == ReportVM /\ Stages
IInv      == TypeInv /\ IdInv /\ ReportInv
----------------------------------------------------------------------------
LEMMA InitInv == RInit => IInv
<1> SUFFICES ASSUME RInit PROVE IInv
  OBVIOUS
<1> USE DEF RInit, Init, Places, Printing
<1>1. TypeInv
  BY DEF TypeInv, NoCall, None
<1>2. IdInv
  BY ThreadAssumption
  DEF IdInv, WantsMachine, LockHeld, HolderGoesOn, CountExact, IdsAreDistinct, Holding, Inside
<1>3. ReportInv
  BY DEF ReportInv, ReportVM, Stages, Stage
<1> QED BY <1>1, <1>2, <1>3 DEF IInv

(* A step that leaves all but vm alone. *)
LEMMA StutterInv ==
  ASSUME IInv, UNCHANGED <<id, mcounter, lock, pc, call, counted, err, kind, exited>>
  PROVE  IInv'
  BY DEF IInv, TypeInv, IdInv, ReportInv, WantsMachine, LockHeld, HolderGoesOn, CountExact,
         IdsAreDistinct, ReportVM, Stages, Stage, Wanted

(* zm_getWorker begins and returns, with no lock held. *)
LEMMA MoveInv ==
  ASSUME IInv, NEW v \in Thread, NEW p \in Places \ Holding,
         pc[v] \in Places \ Holding, Goto(v, p),
         call' = [call EXCEPT ![v] = call'[v]],
         call'[v] \in [machine : Machine \cup {NULL}, for : {"go", "task"}, task : Slot \cup {None}],
         p # "user" => call'[v].machine \in Machine,
         UNCHANGED <<id, mcounter, lock, counted, err, kind, exited>>
  PROVE  IInv'
<1> USE DEF Holding, Printing, Places, Inside
<1>1. pc' = [pc EXCEPT ![v] = p] /\ TypeInv
  BY DEF Goto, IInv
<1>2. TypeInv'
  BY <1>1 DEF TypeInv
<1>3. IdInv'
  BY <1>1, ThreadAssumption
  DEF IInv, IdInv, TypeInv, WantsMachine, LockHeld, HolderGoesOn, CountExact, IdsAreDistinct, Wanted
<1>4. ReportInv'
  BY <1>1, ThreadAssumption DEF IInv, ReportInv, TypeInv, ReportVM, Stages, Stage
<1> QED BY <1>2, <1>3, <1>4 DEF IInv
----------------------------------------------------------------------------
(* The steps of zm_getWorker. *)

(* A task is created, or zm_go called for one machine. *)
LEMMA GetWorkerInv ==
  ASSUME IInv, NEW v \in Thread, NEW m \in Machine, User(v), NEW t \in Slot \cup {None},
         NEW f \in {"go", "task"}, GetWorker(v, m, f, t), UNCHANGED <<err, kind, exited>>
  PROVE  IInv'
<1>1. call' = [call EXCEPT ![v] = [machine |-> m, for |-> f, task |-> t]]
      /\ UNCHANGED <<id, mcounter, lock, counted>>
  BY DEF GetWorker
<1>2. call'[v] = [machine |-> m, for |-> f, task |-> t]
  BY <1>1 DEF IInv, TypeInv
<1>3. pc[v] \in Places \ Holding
  BY DEF User, Places, Holding, Printing
<1>4. PICK p \in {"found", "set"} : Goto(v, p)
  BY DEF GetWorker
<1>5. p \in Places \ Holding
  BY DEF Places, Holding, Printing
<1>6. call'[v] \in [machine : Machine \cup {NULL}, for : {"go", "task"}, task : Slot \cup {None}]
      /\ call'[v].machine \in Machine
  BY <1>2
<1>7. call' = [call EXCEPT ![v] = call'[v]]
  BY <1>1, <1>2
<1> QED BY <1>1, <1>3, <1>4, <1>5, <1>6, <1>7, MoveInv

LEMMA AddTaskInv ==
  ASSUME IInv, NEW v \in Thread, NEW m \in Machine, AddTask(v, m), UNCHANGED <<err, kind, exited>>
  PROVE  IInv'
<1>1. (CHOOSE s \in Free : TRUE) \in Slot
  BY DEF AddTask, Free
<1> QED BY <1>1, GetWorkerInv DEF AddTask

LEMMA GoMachineInv ==
  ASSUME IInv, NEW v \in Thread, NEW m \in Machine, GoMachine(v, m), UNCHANGED <<err, kind, exited>>
  PROVE  IInv'
BY GetWorkerInv DEF GoMachine, Idle

(* zm_getWorker goes on without a lock, or returns. *)
LEMMA PassInv ==
  ASSUME IInv, NEW v \in Thread, MwhSet(v) \/ MwhStore(v) \/ RunInit(v) \/ GoFound(v),
         UNCHANGED <<err, kind, exited>>
  PROVE  IInv'
<1>1. UNCHANGED <<id, mcounter, lock, counted>>
  BY DEF MwhSet, MwhStore, RunInit, GoFound
<1>2. pc[v] \in Places \ Holding
  BY DEF MwhSet, MwhStore, RunInit, GoFound, Places, Holding, Printing
<1>3. CASE MwhSet(v) \/ MwhStore(v)
  <2>1. PICK p \in {"lock", "store", "found"} : Goto(v, p)
    BY <1>3 DEF MwhSet, MwhStore
  <2>2. call' = call /\ call[v].machine \in Machine
    BY <1>3 DEF MwhSet, MwhStore, IInv, IdInv, WantsMachine, Wanted, Inside, Places
  <2>3. p \in Places \ Holding
    BY DEF Places, Holding, Printing
  <2> QED BY <1>1, <1>2, <2>1, <2>2, <2>3, MoveInv DEF IInv, TypeInv
<1>4. CASE RunInit(v) \/ GoFound(v)
  <2>1. Goto(v, "user") /\ call' = [call EXCEPT ![v] = NoCall]
    BY <1>4 DEF RunInit, GoFound, Return
  <2>2. "user" \in Places \ Holding
    BY DEF Places, Holding, Printing
  <2>3. call'[v] = NoCall
    BY <2>1 DEF IInv, TypeInv
  <2>4. NoCall \in [machine : Machine \cup {NULL}, for : {"go", "task"}, task : Slot \cup {None}]
    BY DEF NoCall
  <2>5. call' = [call EXCEPT ![v] = call'[v]]
    BY <2>1, <2>3
  <2> QED BY <1>1, <1>2, <2>1, <2>2, <2>3, <2>4, <2>5, MoveInv
<1> QED BY <1>3, <1>4

LEMMA LockOnInv ==
  ASSUME IInv, NEW v \in Thread, LockOn(v), UNCHANGED <<err, kind, exited>>
  PROVE  IInv'
<1> USE DEF Holding, Printing, Places, Inside, LockOn, Goto
<1>1. TypeInv'
  BY DEF IInv, TypeInv
<1>2. IdInv'
  BY ThreadAssumption
  DEF IInv, IdInv, TypeInv, WantsMachine, LockHeld, HolderGoesOn, CountExact, IdsAreDistinct, Wanted
<1>3. ReportInv'
  BY ThreadAssumption DEF IInv, ReportInv, TypeInv, ReportVM, Stages, Stage
<1> QED BY <1>1, <1>2, <1>3 DEF IInv

LEMMA MachineInitInv ==
  ASSUME IInv, NEW v \in Thread, MachineInit(v), UNCHANGED <<err, kind, exited>>
  PROVE  IInv'
<1> USE DEF Holding, Printing, Places, Inside, MachineInit, Goto
<1>1. TypeInv'
  <2>1. counted' \in [Thread -> Nat]
    BY DEF IInv, TypeInv
  <2>2. pc' \in [Thread -> Places \cup Printing \cup {"fatalInit"}]
    BY SMTT(30) DEF IInv, TypeInv
  <2>3. UNCHANGED <<id, mcounter, lock, call>>
    OBVIOUS
  <2> HIDE DEF MachineInit, Goto, Places, Printing
  <2> QED BY <2>1, <2>2, <2>3 DEF IInv, TypeInv
<1>2. IdInv'
  BY ThreadAssumption
  DEF IInv, IdInv, TypeInv, WantsMachine, LockHeld, HolderGoesOn, CountExact, IdsAreDistinct, Wanted
<1>3. ReportInv'
  BY ThreadAssumption DEF IInv, ReportInv, TypeInv, ReportVM, Stages, Stage
<1> QED BY <1>1, <1>2, <1>3 DEF IInv

LEMMA MachineCountInv ==
  ASSUME IInv, NEW v \in Thread, MachineCount(v), UNCHANGED <<err, kind, exited>>
  PROVE  IInv'
<1> USE DEF Holding, Printing, Places, Inside, MachineCount, Goto
<1>1. TypeInv'
  <2>1. counted[v] \in Nat /\ counted[v] + 1 \in Nat
    BY DEF IInv, TypeInv
  <2>2. id' \in [Machine -> Nat \cup {-1}] /\ mcounter' \in Nat
    BY <2>1 DEF IInv, TypeInv
  <2>3. counted' \in [Thread -> Nat]
    BY DEF IInv, TypeInv
  <2>4. pc' \in [Thread -> Places \cup Printing \cup {"fatalInit"}]
    BY DEF IInv, TypeInv
  <2> QED BY <2>2, <2>3, <2>4 DEF IInv, TypeInv
<1>2. WantsMachine' /\ LockHeld' /\ HolderGoesOn'
  BY ThreadAssumption
  DEF IInv, IdInv, TypeInv, WantsMachine, LockHeld, HolderGoesOn, Wanted
<1>3. CountExact'
  <2> SUFFICES ASSUME NEW u \in Thread, pc'[u] = "count" PROVE FALSE
    BY DEF CountExact
  <2> QED BY DEF IInv, IdInv, TypeInv, LockHeld
<1>4. Wanted(v) \in Machine /\ mcounter' = mcounter + 1
      /\ id' = [id EXCEPT ![Wanted(v)] = mcounter]
  BY DEF IInv, IdInv, WantsMachine, CountExact
<1>5. IdsAreDistinct'
  BY <1>4 DEF IInv, IdInv, TypeInv, IdsAreDistinct
<1>6. ReportInv'
  BY ThreadAssumption DEF IInv, ReportInv, TypeInv, ReportVM, Stages, Stage
<1> QED BY <1>1, <1>2, <1>3, <1>5, <1>6 DEF IInv, IdInv

(* Who releases the lock reports nothing. *)
LEMMA LockOffInv ==
  ASSUME IInv, NEW v \in Thread, LockOff(v), UNCHANGED <<err, kind, exited>>
  PROVE  IInv'
<1> USE DEF Holding, Printing, Places, Inside, LockOff, Goto
<1>1. TypeInv'
  BY DEF IInv, TypeInv
<1>2. IdInv'
  BY ThreadAssumption
  DEF IInv, IdInv, TypeInv, WantsMachine, LockHeld, HolderGoesOn, CountExact, IdsAreDistinct, Wanted
<1>3. ReportInv'
  BY ThreadAssumption DEF IInv, IdInv, LockHeld, ReportInv, TypeInv, ReportVM, Stages, Stage
<1> QED BY <1>1, <1>2, <1>3 DEF IInv
----------------------------------------------------------------------------
(* The steps of a report. *)

(* A report begins, by a thread that does not have the lock. *)
LEMMA BeginsInv ==
  ASSUME IInv, NEW v \in Thread, pc[v] = "user", NEW k \in {"user", "internal"}, Reports(v, k),
         UNCHANGED <<id, mcounter, lock, counted, call, err, exited>>
  PROVE  IInv'
<1> USE DEF Holding, Printing, Places, Inside, Reports, Goto
<1>1. TypeInv'
  BY DEF IInv, TypeInv
<1>2. IdInv'
  BY ThreadAssumption
  DEF IInv, IdInv, TypeInv, WantsMachine, LockHeld, HolderGoesOn, CountExact, IdsAreDistinct, Wanted
<1>3. ReportInv'
  BY ThreadAssumption
  DEF IInv, IdInv, HolderGoesOn, ReportInv, TypeInv, ReportVM, Stages, Stage
<1> QED BY <1>1, <1>2, <1>3 DEF IInv

LEMMA FatalInitInv ==
  ASSUME IInv, NEW v \in Thread, FatalInit(v), ~exited
  PROVE  IInv'
<1> USE DEF Holding, Printing, Places, Inside, FatalInit, Goto
<1>1. TypeInv'
  <2>1. err.inits + 1 \in Nat /\ err.triggered + 1 \in Nat
    BY DEF IInv, TypeInv
  <2>2. err' \in [vm : Thread \cup {NULL}, first : BOOLEAN, inits : Nat, triggered : Nat]
    BY <2>1 DEF IInv, TypeInv
  <2>3. pc' \in [Thread -> Places \cup Printing \cup {"fatalInit"}] /\ exited' \in BOOLEAN
    BY DEF IInv, TypeInv
  <2> QED BY <2>2, <2>3 DEF IInv, TypeInv
<1>2. IdInv'
  BY ThreadAssumption
  DEF IInv, IdInv, TypeInv, WantsMachine, LockHeld, HolderGoesOn, CountExact, IdsAreDistinct, Wanted
<1>3. ReportVM'
  BY ThreadAssumption DEF IInv, IdInv, LockHeld, ReportInv, TypeInv, ReportVM
<1>4. err'.inits = err.inits + 1 /\ err'.first = err.first /\ err'.triggered = err.triggered
  BY DEF IInv, TypeInv
<1>5. \/ err.inits = 0 /\ err.first
      \/ err.inits = 1 /\ ~err.first
  BY <1>4 DEF IInv, ReportInv, TypeInv, Stages, Stage
<1>6. Stages'
  BY <1>4, <1>5, ThreadAssumption
  DEF IInv, IdInv, LockHeld, ReportInv, TypeInv, Stages, Stage
<1> QED BY <1>1, <1>2, <1>3, <1>6 DEF IInv, ReportInv

LEMMA FatalDoInv ==
  ASSUME IInv, NEW v \in Thread, FatalDo(v), ~exited
  PROVE  IInv'
<1> USE DEF Holding, Printing, Places, Inside, FatalDo, Goto
<1>1. TypeInv'
  <2>1. err.inits + 1 \in Nat /\ err.triggered + 1 \in Nat
    BY DEF IInv, TypeInv
  <2>2. err' \in [vm : Thread \cup {NULL}, first : BOOLEAN, inits : Nat, triggered : Nat]
    BY <2>1 DEF IInv, TypeInv
  <2>3. pc' \in [Thread -> Places \cup Printing \cup {"fatalInit"}] /\ exited' \in BOOLEAN
    BY DEF IInv, TypeInv
  <2> QED BY <2>2, <2>3 DEF IInv, TypeInv
<1>2. IdInv'
  BY SMTT(30), ThreadAssumption
  DEF IInv, IdInv, TypeInv, WantsMachine, LockHeld, HolderGoesOn, CountExact, IdsAreDistinct, Wanted
<1>3. ReportVM'
  BY DEF IInv, IdInv, LockHeld, ReportInv, TypeInv, ReportVM
<1>4. /\ err'.inits = err.inits /\ err'.first = FALSE
      /\ err'.triggered = IF err.first THEN err.triggered + 1 ELSE err.triggered
  BY DEF IInv, TypeInv
<1>5. Stages'
  BY <1>4, ThreadAssumption DEF IInv, IdInv, LockHeld, ReportInv, TypeInv, Stages, Stage
<1> QED BY <1>1, <1>2, <1>3, <1>5 DEF IInv, ReportInv

LEMMA FatalPrintDumpInv ==
  ASSUME IInv, NEW v \in Thread, FatalPrintDump(v), ~exited
  PROVE  IInv'
<1> USE DEF Holding, Printing, Places, Inside, FatalPrintDump, Reports, Goto
<1>1. TypeInv'
  BY DEF IInv, TypeInv
<1>2. IdInv'
  BY ThreadAssumption
  DEF IInv, IdInv, TypeInv, WantsMachine, LockHeld, HolderGoesOn, CountExact, IdsAreDistinct, Wanted
<1>3. ReportInv'
  BY ThreadAssumption
  DEF IInv, IdInv, LockHeld, ReportInv, TypeInv, ReportVM, Stages, Stage
<1> QED BY <1>1, <1>2, <1>3 DEF IInv
----------------------------------------------------------------------------
LEMMA CallsInv ==
  ASSUME IInv, NEW v \in Thread, Calls(v), UNCHANGED <<err, kind, exited>>
  PROVE  IInv'
<1>1. CASE NewVM(v) \/ FreeVM(v) \/ InitDone(v) \/ StepEnd(v) \/ \E t \in Slot : Go(v, t) \/ TaskEnds(v, t)
  BY <1>1, StutterInv DEF NewVM, FreeVM, InitDone, StepEnd, Go, TaskEnds
<1>2. CASE \E m \in Machine : GoMachine(v, m) \/ AddTask(v, m)
  BY <1>2, GoMachineInv, AddTaskInv
<1> QED BY <1>1, <1>2 DEF Calls

LEMMA LibraryInv ==
  ASSUME IInv, NEW v \in Thread, Library(v), UNCHANGED <<err, kind, exited>>
  PROVE  IInv'
BY PassInv, LockOnInv, MachineInitInv, MachineCountInv, LockOffInv DEF Library

LEMMA ReportStepInv ==
  ASSUME IInv, NEW v \in Thread, ~exited,
         Fatal(v) \/ FreeVMRefused(v) \/ InitRefused(v) \/ Report(v)
  PROVE  IInv'
<1>1. CASE Fatal(v) \/ FreeVMRefused(v) \/ InitRefused(v)
  BY <1>1, BeginsInv DEF Fatal, FreeVMRefused, InitRefused, User, Idle
<1>2. CASE Report(v)
  BY <1>2, FatalInitInv, FatalDoInv, FatalPrintDumpInv DEF Report
<1> QED BY <1>1, <1>2

LEMMA NextInv == IInv /\ [Next]_vars => IInv'
<1> SUFFICES ASSUME IInv, [Next]_vars PROVE IInv'
  OBVIOUS
<1>1. CASE Next
  <2>1. PICK v \in Thread :
          \/ (Calls(v) \/ Library(v)) /\ UNCHANGED <<err, kind, exited>>
          \/ Fatal(v) \/ FreeVMRefused(v) \/ InitRefused(v) \/ Report(v)
    BY <1>1 DEF Next
  <2>2. ~exited
    BY <1>1 DEF Next
  <2> QED BY <2>1, <2>2, CallsInv, LibraryInv, ReportStepInv
<1>2. CASE UNCHANGED vars
  BY <1>2, StutterInv DEF vars, mvars
<1> QED BY <1>1, <1>2

(* The inductive invariant the others follow from. *)
THEOREM Invariance == Spec => []IInv
  BY InitInv, NextInv, PTL DEF Spec

(* No two machines have the same id, and the counter is ahead of every id, *)
(* for any threads that race for ids (zm_machineInit).                     *)
THEOREM DistinctIds == Spec => []IdsAreDistinct
<1>1. IInv => IdsAreDistinct
  BY DEF IInv, IdInv
<1> QED BY <1>1, Invariance, PTL

(* Who has the lock of the host is on its way to release it or to end the  *)
(* process (zm_lockOn, zm_fatalLock).                                      *)
THEOREM LockGoesOn == Spec => []HolderGoesOn
<1>1. IInv => HolderGoesOn
  BY DEF IInv, IdInv
<1> QED BY <1>1, Invariance, PTL

(* One thread prints at a time, and zmg_err is about its VM.               *)
THEOREM WholeReports == Spec => []ReportsAreWhole
<1>1. IInv => ReportsAreWhole
  BY DEF IInv, IdInv, LockHeld, ReportInv, ReportVM, ReportsAreWhole, Holding
<1> QED BY <1>1, Invariance, PTL

(* A dump leads to one more error at most, and the host hears of one       *)
(* (zm_fatalDo).                                                           *)
THEOREM LastError == Spec => []SecondErrorIsLast
<1>1. IInv => SecondErrorIsLast
  BY DEF IInv, ReportInv, TypeInv, Stages, SecondErrorIsLast
<1> QED BY <1>1, Invariance, PTL
----------------------------------------------------------------------------
(* Tables and sessions. *)

Searching == {"set", "lock", "init", "count", "unlock", "store"}

SessionType == [state : Slot \cup {None}, worker : Nat]
FrameType   == [kind : {"init", "step"}, task : Slot, session : SessionType, plock : BOOLEAN]
TasksType   == UNION {[S -> Nat] : S \in SUBSET Slot}
VMType      == [open : BOOLEAN, hlist : Seq(Nat), workers : Seq(Machine), tasks : TasksType,
                session : SessionType, plock : BOOLEAN, frames : Seq(FrameType)]

(* Whoever refers to a worker refers to one that was allocated. *)
WorkersExist(x) ==
    /\ \A i \in DOMAIN x.hlist : x.hlist[i] \in {None} \cup DOMAIN x.workers
    /\ \A t \in DOMAIN x.tasks : x.tasks[t] \in DOMAIN x.workers
    /\ x.session.worker \in {None} \cup DOMAIN x.workers
    /\ \A i \in DOMAIN x.frames : x.frames[i].session.worker \in {None} \cup DOMAIN x.workers

(* A machine has one worker, and an entry of the table the worker of the   *)
(* machine with this id.                                                   *)
EntriesRight(x) ==
    /\ \A j, k \in DOMAIN x.workers : x.workers[j] = x.workers[k] => j = k
    /\ \A i \in DOMAIN x.hlist : x.hlist[i] # None => id[x.workers[x.hlist[i]]] = i - 1

FoundOf(v) == \A k \in DOMAIN vm[v].workers : Storing(v, k) \/ MwhGet(v, vm[v].workers[k]) = k

(* The call of zm_getWorker in progress. *)
CallInv(v) ==
    /\ pc[v] = "found" => MwhGet(v, Wanted(v)) # None
    /\ pc[v] \in Searching => Len(vm[v].workers) > 0 /\ Last(vm[v].workers) = Wanted(v)
    /\ pc[v] \in {"unlock", "store"} => id[Wanted(v)] # -1
    /\ pc[v] \in Inside /\ call[v].for = "task" =>
          call[v].task \in Slot \ DOMAIN vm[v].tasks /\ Len(vm[v].frames) < MaxNested
    /\ pc[v] \in Inside /\ call[v].for = "go" => vm[v].frames = <<>>

SessionOf(x, t) == [state |-> t, worker |-> x.tasks[t]]

(* The frames are a stack of sessions. *)
FramesInv(x) ==
    /\ Len(x.frames) <= MaxNested
    /\ x.plock <=> x.frames # <<>>
    /\ x.frames # <<>> => x.session = SessionOf(x, Last(x.frames).task)
    /\ \A i \in DOMAIN x.frames :
          /\ x.frames[i].task \in DOMAIN x.tasks
          /\ x.frames[i].plock <=> i # 1
          /\ i # 1 => x.frames[i].session = SessionOf(x, x.frames[i - 1].task)

OpenInv(v) == /\ ~vm[v].open => vm[v] = ClosedVM
              /\ pc[v] \in Inside => vm[v].open

VMInv(v) == /\ WorkersExist(vm[v]) /\ EntriesRight(vm[v]) /\ FoundOf(v)
            /\ CallInv(v) /\ FramesInv(vm[v]) /\ OpenInv(v)

WInv == vm \in [Thread -> VMType] /\ \A v \in Thread : VMInv(v)
----------------------------------------------------------------------------
IdsKept == \A m \in Machine : id[m] # -1 => id'[m] = id[m]

(* What the table of v says of ids stays true. *)
LEMMA TableKept ==
  ASSUME IInv, vm \in [Thread -> VMType], NEW v \in Thread, VMInv(v), IdsKept,
         vm'[v] = vm[v], pc[v] \in Searching => pc'[v] \in Searching
  PROVE  WorkersExist(vm[v])' /\ EntriesRight(vm[v])' /\ FoundOf(v)' /\ FramesInv(vm[v])'
<1> DEFINE x == vm[v]
<1>1. x.workers \in Seq(Machine) /\ x.hlist \in Seq(Nat) /\ id \in [Machine -> Nat \cup {-1}]
  BY DEF VMType, IInv, TypeInv
<1>2. EntriesRight(x)'
  <2>1. ASSUME NEW i \in DOMAIN x.hlist, x.hlist[i] # None
        PROVE  id'[x.workers[x.hlist[i]]] = i - 1
    <3>1. x.hlist[i] \in DOMAIN x.workers /\ id[x.workers[x.hlist[i]]] = i - 1 /\ i \in 1..Len(x.hlist)
      BY <1>1, <2>1 DEF VMInv, WorkersExist, EntriesRight, None
    <3>2. x.workers[x.hlist[i]] \in Machine /\ i - 1 # -1
      BY <1>1, <3>1
    <3> QED BY <3>1, <3>2 DEF IdsKept
  <2> QED BY <2>1 DEF VMInv, EntriesRight
<1>3. FoundOf(v)'
  <2> SUFFICES ASSUME NEW k \in DOMAIN x.workers, ~Storing(v, k)'
               PROVE  (MwhGet(v, x.workers[k]))' = k
    BY DEF FoundOf
  <2>1. MwhGet(v, x.workers[k]) = k /\ k # 0 /\ x.workers[k] \in Machine
    BY <1>1 DEF VMInv, FoundOf, Storing, Searching
  <2> QED BY <2>1 DEF MwhGet, IdsKept, None
<1>4. WorkersExist(x)' /\ FramesInv(x)'
  BY SMTT(30) DEF VMInv, WorkersExist, FramesInv, SessionOf
<1> QED BY <1>2, <1>3, <1>4

(* A VM that the step leaves alone. *)
LEMMA OtherKept ==
  ASSUME IInv, vm \in [Thread -> VMType], NEW u \in Thread, VMInv(u), IdsKept,
         vm'[u] = vm[u], pc'[u] = pc[u], call'[u] = call[u]
  PROVE  VMInv(u)'
<1>1. CallInv(u)'
  <2>1. pc[u] \in Inside => Wanted(u) \in Machine
    BY DEF IInv, IdInv, WantsMachine
  <2>2. pc[u] = "found" => MwhGet(u, Wanted(u))' # None
    BY <2>1 DEF VMInv, CallInv, MwhGet, IdsKept, Wanted, Inside, Places, None
  <2>3. pc[u] \in {"unlock", "store"} => id'[Wanted(u)] # -1
    BY <2>1 DEF VMInv, CallInv, IdsKept, Inside, Places
  <2> QED BY <2>2, <2>3 DEF VMInv, CallInv, Wanted, MwhGet
<1>2. OpenInv(u)'
  BY DEF VMInv, OpenInv
<1> QED BY <1>1, <1>2, TableKept DEF VMInv

(* A step of v keeps the invariant when it keeps that of its own VM. *)
LEMMA OneThread ==
  ASSUME IInv, WInv, NEW v \in Thread, IdsKept,
         vm' = [vm EXCEPT ![v] = vm'[v]], vm'[v] \in VMType,
         \A u \in Thread \ {v} : pc'[u] = pc[u] /\ call'[u] = call[u],
         VMInv(v)'
  PROVE  WInv'
<1>1. vm' \in [Thread -> VMType]
  BY DEF WInv
<1>2. ASSUME NEW u \in Thread \ {v} PROVE VMInv(u)'
  <2>1. vm'[u] = vm[u]
    BY DEF WInv
  <2> QED BY <2>1, OtherKept DEF WInv
<1> QED BY <1>1, <1>2 DEF WInv

(* A step of zm_getWorker that leaves the VM alone. *)
LEMMA SameVM ==
  ASSUME IInv, WInv, NEW v \in Thread, NEW p, p \notin {"user", "found"}, Goto(v, p),
         pc[v] \in Searching, p \in Searching, IdsKept, UNCHANGED <<vm, call>>,
         p \in {"unlock", "store"} => id'[Wanted(v)] # -1
  PROVE  WInv'
<1>1. pc'[v] = p /\ \A u \in Thread \ {v} : pc'[u] = pc[u]
  BY DEF Goto, IInv, TypeInv
<1>2. VMInv(v) /\ vm' = [vm EXCEPT ![v] = vm'[v]] /\ vm'[v] \in VMType
  BY DEF WInv
<1>3. CallInv(v)'
  BY <1>1, <1>2 DEF VMInv, CallInv, Wanted, Inside, Places, Searching
<1>4. OpenInv(v)'
  BY <1>1, <1>2 DEF VMInv, OpenInv, Inside, Places, Searching
<1>5. VMInv(v)'
  BY <1>1, <1>2, <1>3, <1>4, TableKept DEF VMInv, WInv
<1> QED BY <1>1, <1>2, <1>5, OneThread

(* The step is one of the code of the user: of the VM only the tasks, the  *)
(* session and the frames may change.                                      *)
LEMMA UserStep ==
  ASSUME IInv, WInv, NEW v \in Thread, pc[v] \notin Searching, pc'[v] \notin Inside,
         \A u \in Thread \ {v} : pc'[u] = pc[u] /\ call'[u] = call[u],
         id' = id, vm[v].open, vm' = [vm EXCEPT ![v] = vm'[v]], vm'[v] \in VMType,
         vm'[v].open, vm'[v].hlist = vm[v].hlist, vm'[v].workers = vm[v].workers,
         WorkersExist(vm[v])', FramesInv(vm[v])'
  PROVE  WInv'
<1>1. VMInv(v)
  BY DEF WInv
<1>2. EntriesRight(vm[v])'
  BY <1>1 DEF VMInv, EntriesRight
<1>3. FoundOf(v)'
  BY <1>1 DEF VMInv, FoundOf, Storing, MwhGet, Searching
<1>4. CallInv(v)' /\ OpenInv(v)'
  BY DEF CallInv, OpenInv, Inside, Places, Searching
<1>5. IdsKept
  BY DEF IdsKept
<1> QED BY <1>2, <1>3, <1>4, <1>5, OneThread DEF VMInv
----------------------------------------------------------------------------
(* The steps of zm_getWorker. *)

LEMMA SearchW ==
  ASSUME IInv, WInv, NEW v \in Thread, MwhSet(v) \/ LockOn(v) \/ MachineInit(v) \/ LockOff(v)
  PROVE  WInv'
<1> USE DEF Searching
<1>1. IdsKept /\ UNCHANGED <<id, vm, call>>
  BY DEF MwhSet, LockOn, MachineInit, LockOff, IdsKept
<1>2. Wanted(v) \in Machine
  BY DEF MwhSet, LockOn, MachineInit, LockOff, IInv, IdInv, WantsMachine, Inside, Places
<1>3. CASE MwhSet(v)
  BY <1>1, <1>3, SameVM DEF MwhSet
<1>4. CASE LockOn(v)
  BY <1>1, <1>4, SameVM DEF LockOn
<1>5. CASE MachineInit(v)
  BY <1>1, <1>5, SameVM DEF MachineInit
<1>6. CASE LockOff(v)
  <2>1. id[Wanted(v)] # -1
    BY <1>6 DEF LockOff, WInv, VMInv, CallInv
  <2> QED BY <1>1, <1>6, <2>1, SameVM DEF LockOff
<1> QED BY <1>3, <1>4, <1>5, <1>6

LEMMA MachineCountW ==
  ASSUME IInv, WInv, NEW v \in Thread, MachineCount(v)
  PROVE  WInv'
<1>1. Wanted(v) \in Machine /\ id[Wanted(v)] = -1 /\ counted[v] \in Nat
  BY DEF MachineCount, IInv, IdInv, TypeInv, WantsMachine, CountExact, Inside, Places
<1>2. id' = [id EXCEPT ![Wanted(v)] = counted[v]] /\ id \in [Machine -> Nat \cup {-1}]
  BY DEF MachineCount, IInv, TypeInv
<1>3. IdsKept /\ id'[Wanted(v)] # -1
  BY <1>1, <1>2 DEF IdsKept
<1>4. Goto(v, "unlock") /\ pc[v] = "count" /\ UNCHANGED <<vm, call>>
  BY DEF MachineCount
<1> QED BY <1>3, <1>4, SameVM DEF Searching

(* A VM of which some fields change. *)
LEMMA WithWorkers ==
  ASSUME NEW x \in VMType, NEW e \in Seq(Machine)
  PROVE  LET y == [x EXCEPT !.workers = e]
         IN  /\ y \in VMType /\ y.workers = e
             /\ y.open = x.open /\ y.hlist = x.hlist /\ y.tasks = x.tasks
             /\ y.session = x.session /\ y.plock = x.plock /\ y.frames = x.frames
  BY DEF VMType

LEMMA WithTable ==
  ASSUME NEW x \in VMType, NEW e \in Seq(Nat)
  PROVE  LET y == [x EXCEPT !.hlist = e]
         IN  /\ y \in VMType /\ y.hlist = e
             /\ y.open = x.open /\ y.workers = x.workers /\ y.tasks = x.tasks
             /\ y.session = x.session /\ y.plock = x.plock /\ y.frames = x.frames
  BY DEF VMType

(* Types of the parts of a VM. *)
LEMMA Parts ==
  ASSUME WInv, NEW v \in Thread
  PROVE  /\ vm[v] \in VMType /\ VMInv(v)
         /\ vm[v].open \in BOOLEAN /\ vm[v].hlist \in Seq(Nat)
         /\ vm[v].workers \in Seq(Machine) /\ vm[v].tasks \in TasksType
         /\ vm[v].session \in SessionType /\ vm[v].plock \in BOOLEAN
         /\ vm[v].frames \in Seq(FrameType)
  BY DEF WInv, VMType

(* A machine whose worker is not found has none. *)
LEMMA NoWorker ==
  ASSUME WInv, NEW v \in Thread, NEW m \in Machine, pc[v] = "user", MwhGet(v, m) = None
  PROVE  \A k \in DOMAIN vm[v].workers : vm[v].workers[k] # m
<1> SUFFICES ASSUME NEW k \in DOMAIN vm[v].workers, vm[v].workers[k] = m PROVE FALSE
  OBVIOUS
<1>1. MwhGet(v, m) = k
  BY Parts DEF VMInv, FoundOf, Storing
<1>2. k # 0
  BY Parts
<1> QED BY <1>1, <1>2 DEF None

(* The worker of m is allocated. *)
LEMMA NewWorker ==
  ASSUME IInv, WInv, NEW v \in Thread, NEW m \in Machine, pc[v] = "user", vm[v].open,
         MwhGet(v, m) = None, Goto(v, "set"),
         vm' = [vm EXCEPT ![v].workers = Append(@, m)], id' = id,
         call' = [call EXCEPT ![v] = call'[v]], call'[v].machine = m,
         call'[v].for = "task" =>
            call'[v].task \in Slot \ DOMAIN vm[v].tasks /\ Len(vm[v].frames) < MaxNested,
         call'[v].for = "go" => vm[v].frames = <<>>
  PROVE  WInv'
<1> DEFINE x == vm[v]
           y == vm'[v]
           n == Len(x.workers)
<1>1. /\ x \in VMType /\ VMInv(v) /\ x.workers \in Seq(Machine) /\ x.hlist \in Seq(Nat) /\ n \in Nat
      /\ x.frames \in Seq(FrameType)
  BY Parts
<1>2. y = [x EXCEPT !.workers = Append(x.workers, m)]
  BY DEF WInv
<1> HIDE DEF x, y, n
<1>3. /\ y.workers = Append(x.workers, m)
      /\ y.hlist = x.hlist /\ y.tasks = x.tasks /\ y.session = x.session /\ y.frames = x.frames
      /\ y.plock = x.plock /\ y.open = x.open
      /\ y \in VMType
  <2>1. Append(x.workers, m) \in Seq(Machine)
    BY <1>1
  <2> QED BY ZenonT(40), <1>1, <1>2, <2>1, WithWorkers
<1>4. vm' = [vm EXCEPT ![v] = y] /\ y = vm'[v] /\ x = vm[v]
  BY DEF WInv, x, y
<1>0. n \in Nat
  BY <1>1 DEF n
<1>5. /\ Len(y.workers) = n + 1 /\ DOMAIN y.workers = 1..(n + 1) /\ DOMAIN x.workers = 1..n
      /\ \A k \in 1..n : y.workers[k] = x.workers[k]
      /\ y.workers[n + 1] = m
  BY <1>1, <1>3 DEF n
<1>6. WorkersExist(y)
  BY SMTT(30), <1>1, <1>3, <1>4, <1>5 DEF VMInv, WorkersExist
<1>7. EntriesRight(vm[v])'
  <2>1. ASSUME NEW j \in 1..(n + 1), NEW k \in 1..(n + 1), y.workers[j] = y.workers[k]
        PROVE  j = k
    <3>1. \A i \in 1..n : x.workers[i] # m
      BY <1>4, <1>5, NoWorker
    <3>2. \A i, l \in 1..n : x.workers[i] = x.workers[l] => i = l
      BY <1>1, <1>4, <1>5 DEF VMInv, EntriesRight
    <3>3. CASE j \in 1..n /\ k \in 1..n
      BY <1>5, <2>1, <3>2, <3>3
    <3>4. CASE j = n + 1 \/ k = n + 1
      <4>1. \A i \in 1..n : y.workers[i] # y.workers[n + 1]
        BY <1>5, <3>1
      <4>2. \A i \in 1..(n + 1) : i \in 1..n \/ i = n + 1
        BY <1>0
      <4> QED BY <2>1, <3>4, <4>1, <4>2
    <3>5. j \in 1..n \/ j = n + 1
      BY <1>0
    <3>6. k \in 1..n \/ k = n + 1
      BY <1>0
    <3> QED BY <3>3, <3>4, <3>5, <3>6
  <2>2. ASSUME NEW i \in DOMAIN x.hlist, x.hlist[i] # None
        PROVE  x.hlist[i] \in 1..n /\ id[x.workers[x.hlist[i]]] = i - 1
    BY <1>1, <1>4, <1>5, <2>2 DEF VMInv, WorkersExist, EntriesRight
  <2> QED BY SMTT(30), <1>1, <1>3, <1>4, <1>5, <2>1, <2>2 DEF EntriesRight
<1>8. pc'[v] = "set" /\ \A u \in Thread \ {v} : pc'[u] = pc[u] /\ call'[u] = call[u]
  BY DEF Goto, IInv, TypeInv
<1>9. FoundOf(v)'
  <2> SUFFICES ASSUME NEW k \in 1..n PROVE MwhGet(v, vm[v].workers[k])' = k
    BY <1>0, <1>4, <1>5, <1>8 DEF FoundOf, Storing
  <2>1. MwhGet(v, x.workers[k]) = k
    BY <1>1, <1>4, <1>5 DEF VMInv, FoundOf, Storing
  <2> QED BY <1>3, <1>4, <1>5, <2>1 DEF MwhGet
<1>10. CallInv(v)'
  <2>1. Last(y.workers) = m
    BY <1>5 DEF Last
  <2> QED BY <1>1, <1>3, <1>4, <1>5, <1>8, <2>1 DEF CallInv, Wanted, Inside, Places
<1>11. FramesInv(y) /\ OpenInv(v)'
  BY SMTT(30), <1>1, <1>3, <1>4 DEF VMInv, FramesInv, OpenInv, SessionOf
<1>12. VMInv(v)'
  BY <1>4, <1>6, <1>7, <1>9, <1>10, <1>11 DEF VMInv, WorkersExist, FramesInv, SessionOf, EntriesRight
<1> QED BY <1>3, <1>4, <1>8, <1>12, OneThread DEF IdsKept

LEMMA GetWorkerW ==
  ASSUME IInv, WInv, NEW v \in Thread, NEW m \in Machine, User(v),
         NEW t \in Slot \cup {None}, NEW f \in {"go", "task"}, GetWorker(v, m, f, t),
         f = "task" => t \in Slot \ DOMAIN vm[v].tasks /\ Len(vm[v].frames) < MaxNested,
         f = "go" => vm[v].frames = <<>>
  PROVE  WInv'
<1>1. call' = [call EXCEPT ![v] = [machine |-> m, for |-> f, task |-> t]] /\ id' = id
  BY DEF GetWorker
<1>2. call'[v] = [machine |-> m, for |-> f, task |-> t]
  BY <1>1 DEF IInv, TypeInv
<1>3. call' = [call EXCEPT ![v] = call'[v]]
  BY <1>1, <1>2
<1>4. CASE MwhGet(v, m) = None
  <2>1. Goto(v, "set") /\ vm' = [vm EXCEPT ![v].workers = Append(@, m)]
    BY <1>4 DEF GetWorker
  <2>2. call'[v].machine = m /\ call'[v].for = f /\ call'[v].task = t
    BY <1>2
  <2>3. pc[v] = "user" /\ vm[v].open
    BY DEF User
  <2>4. /\ call'[v].for = "task" =>
              call'[v].task \in Slot \ DOMAIN vm[v].tasks /\ Len(vm[v].frames) < MaxNested
        /\ call'[v].for = "go" => vm[v].frames = <<>>
    BY <2>2
  <2> QED BY <1>1, <1>3, <1>4, <2>1, <2>2, <2>3, <2>4, NewWorker
<1>5. CASE MwhGet(v, m) # None
  <2>1. Goto(v, "found") /\ vm' = vm
    BY <1>5 DEF GetWorker
  <2>2. pc'[v] = "found" /\ \A u \in Thread \ {v} : pc'[u] = pc[u] /\ call'[u] = call[u]
    BY <1>1, <2>1 DEF Goto, IInv, TypeInv
  <2>3. VMInv(v) /\ vm' = [vm EXCEPT ![v] = vm'[v]] /\ vm'[v] \in VMType /\ IdsKept
    BY <1>1, <2>1 DEF WInv, IdsKept
  <2>4. MwhGet(v, Wanted(v))' # None
    BY <1>1, <1>2, <1>5, <2>1 DEF MwhGet, Wanted
  <2>5. CallInv(v)'
    BY <1>2, <2>1, <2>2, <2>4 DEF CallInv, Inside, Places, Searching
  <2>6. OpenInv(v)'
    BY <2>1, <2>3 DEF VMInv, OpenInv, User
  <2>7. VMInv(v)'
    BY <2>1, <2>3, <2>5, <2>6, TableKept DEF VMInv, WInv, User, Searching
  <2> QED BY <2>2, <2>3, <2>7, OneThread
<1> QED BY <1>4, <1>5

LEMMA AddTaskW ==
  ASSUME IInv, WInv, NEW v \in Thread, NEW m \in Machine, AddTask(v, m)
  PROVE  WInv'
<1> DEFINE t == CHOOSE s \in Free : TRUE
<1>1. t \in Slot /\ t \notin DOMAIN vm[v].tasks
  BY DEF AddTask, Free
<1> QED BY <1>1, GetWorkerW DEF AddTask

LEMMA GoMachineW ==
  ASSUME IInv, WInv, NEW v \in Thread, NEW m \in Machine, GoMachine(v, m)
  PROVE  WInv'
BY GetWorkerW DEF GoMachine, Idle

LEMMA GrownTable ==
  ASSUME NEW h \in Seq(Nat), NEW i \in Nat
  PROVE  /\ Grown(h, i) \in Seq(Nat)
         /\ Len(Grown(h, i)) > i /\ Len(Grown(h, i)) >= Len(h)
         /\ \A j \in 1..Len(h) : Grown(h, i)[j] = h[j]
         /\ \A j \in 1..Len(Grown(h, i)) : j > Len(h) => Grown(h, i)[j] = None
<1>1. CASE i < Len(h)
  BY <1>1 DEF Grown
<1>2. CASE i >= Len(h)
  <2> DEFINE k == i + HlistInc - Len(h)
             new == [j \in 1..k |-> None]
  <2>1. k \in Nat /\ k > 0 /\ Len(h) + k > i
    BY <1>2, BoundsAssumption
  <2>2. new \in Seq(Nat) /\ Len(new) = k /\ \A j \in 1..k : new[j] = None
    BY <2>1 DEF None
  <2>3. Grown(h, i) = h \o new
    BY <1>2 DEF Grown
  <2> HIDE DEF k, new
  <2>4. h \o new \in Seq(Nat) /\ Len(h \o new) = Len(h) + k
    BY <2>1, <2>2
  <2>5. \A j \in 1..(Len(h) + k) : (h \o new)[j] = IF j <= Len(h) THEN h[j] ELSE new[j - Len(h)]
    BY <2>1, <2>2
  <2> QED BY <2>1, <2>2, <2>3, <2>4, <2>5
<1> QED BY <1>1, <1>2

(* The worker is stored in the table. *)
LEMMA MwhStoreW ==
  ASSUME IInv, WInv, NEW v \in Thread, MwhStore(v)
  PROVE  WInv'
<1> DEFINE x == vm[v]
           y == vm'[v]
           n == Len(x.workers)
           m == Wanted(v)
           i == id[m]
           g == Grown(x.hlist, i)
           h == [g EXCEPT ![i + 1] = n]
<1>1. /\ x \in VMType /\ x.workers \in Seq(Machine) /\ x.hlist \in Seq(Nat) /\ n \in Nat
      /\ WorkersExist(x) /\ EntriesRight(x) /\ FramesInv(x) /\ FoundOf(v) /\ CallInv(v) /\ OpenInv(v)
  BY Parts DEF VMInv
<1>2. m \in Machine /\ i \in Nat /\ id \in [Machine -> Nat \cup {-1}] /\ n > 0 /\ Last(x.workers) = m
  BY <1>1 DEF MwhStore, IInv, IdInv, TypeInv, WantsMachine, CallInv, Inside, Places, Searching
<1>3. y = [x EXCEPT !.hlist = h] /\ vm' = [vm EXCEPT ![v] = y]
  BY DEF MwhStore, WInv
<1>4. /\ pc[v] = "store" /\ pc'[v] = "found" /\ UNCHANGED <<id, call>>
      /\ \A u \in Thread \ {v} : pc'[u] = pc[u] /\ call'[u] = call[u]
  BY DEF MwhStore, Goto, IInv, TypeInv
<1>5. x = vm[v] /\ y = vm'[v] /\ m = call[v].machine /\ m = call'[v].machine /\ i = id[m] /\ id[m] = id'[m]
  BY <1>4 DEF Wanted
<1> HIDE DEF m, i, n
<1>6. /\ g \in Seq(Nat) /\ Len(g) > i /\ Len(g) >= Len(x.hlist)
      /\ \A j \in 1..Len(x.hlist) : g[j] = x.hlist[j]
      /\ \A j \in 1..Len(g) : j > Len(x.hlist) => g[j] = None
  BY <1>1, <1>2, GrownTable
<1> HIDE DEF g, x, y
<1>7. h \in Seq(Nat) /\ Len(h) = Len(g) /\ i + 1 \in 1..Len(g)
      /\ \A j \in 1..Len(g) : h[j] = IF j = i + 1 THEN n ELSE g[j]
  BY <1>1, <1>2, <1>6
<1> HIDE DEF h
<1>8. /\ y \in VMType /\ y.hlist = h
      /\ y.open = x.open /\ y.workers = x.workers /\ y.tasks = x.tasks
      /\ y.session = x.session /\ y.plock = x.plock /\ y.frames = x.frames
  BY <1>1, <1>3, <1>7, WithTable
<1>9. /\ DOMAIN x.workers = 1..n /\ x.workers[n] = m
      /\ DOMAIN y.hlist = 1..Len(g) /\ DOMAIN x.hlist = 1..Len(x.hlist)
  BY <1>1, <1>2, <1>7, <1>8 DEF n, Last
<1>0. Len(g) \in Nat /\ Len(x.hlist) \in Nat /\ n \in Nat /\ n \in 1..n
  BY <1>1, <1>2, <1>6
<1>10. ASSUME NEW j \in 1..Len(g), h[j] # None
       PROVE  \/ j = i + 1 /\ h[j] = n
              \/ j # i + 1 /\ j \in 1..Len(x.hlist) /\ h[j] = x.hlist[j] /\ x.hlist[j] # None
  <2>1. CASE j = i + 1
    BY <1>7, <2>1
  <2>2. CASE j # i + 1
    <3>1. h[j] = g[j]
      BY <1>7, <2>2
    <3>2. j <= Len(x.hlist)
      BY <1>0, <1>6, <1>10, <3>1
    <3> QED BY <1>0, <1>6, <1>10, <2>2, <3>1, <3>2
  <2> QED BY <2>1, <2>2
<1>11. WorkersExist(y)
  <2>1. \A j \in DOMAIN y.hlist : y.hlist[j] \in {None} \cup DOMAIN y.workers
    <3> SUFFICES ASSUME NEW j \in 1..Len(g), h[j] # None PROVE h[j] \in 1..n
      BY <1>8, <1>9
    <3> QED BY <1>0, <1>1, <1>9, <1>10 DEF WorkersExist
  <2> QED BY <1>1, <1>8, <2>1 DEF WorkersExist
<1>12. EntriesRight(vm[v])'
  <2>1. ASSUME NEW j \in 1..Len(g), h[j] # None
        PROVE  id[x.workers[h[j]]] = j - 1
    <3>1. CASE j = i + 1 /\ h[j] = n
      BY SMTT(30), <1>2, <1>5, <1>9, <3>1
    <3>2. CASE j \in 1..Len(x.hlist) /\ h[j] = x.hlist[j] /\ x.hlist[j] # None
      BY <1>1, <1>9, <3>2 DEF EntriesRight
    <3> QED BY <1>10, <2>1, <3>1, <3>2
  <2> QED BY <1>1, <1>4, <1>5, <1>8, <1>9, <2>1 DEF EntriesRight
<1>13. FoundOf(v)'
  <2> SUFFICES ASSUME NEW k \in 1..n PROVE MwhGet(v, vm[v].workers[k])' = k
    BY <1>5, <1>8, <1>9 DEF FoundOf
  <2>1. CASE k = n
    <3>1. h[i + 1] = n /\ ~(i = -1 \/ i >= Len(h)) /\ y.workers[n] = m
      BY <1>0, <1>2, <1>6, <1>7, <1>8, <1>9
    <3>2. id'[vm[v].workers[k]'] = i
      BY <1>5, <2>1, <3>1
    <3> QED BY <1>5, <1>8, <2>1, <3>1, <3>2 DEF MwhGet
  <2>2. CASE k # n
    <3>1. MwhGet(v, x.workers[k]) = k /\ k # None
      BY <1>1, <1>5, <1>9, <2>2 DEF FoundOf, Storing, n, None
    <3>2. /\ x.workers[k] \in Machine /\ x.workers[k] # m
      <4>1. k \in DOMAIN x.workers /\ n \in DOMAIN x.workers /\ k # n
        BY <1>0, <1>9, <2>2
      <4>2. x.workers \in Seq(Machine)
        BY <1>1 DEF VMType
      <4>3. x.workers[k] \in Machine
        BY <4>1, <4>2
      <4>4. x.workers[k] # x.workers[n]
        BY <1>1, <4>1 DEF EntriesRight
      <4> QED BY <1>9, <4>3, <4>4
    <3> DEFINE q == id[x.workers[k]]
    <3>3. q \in Nat \cup {-1} /\ q # -1 /\ ~(q >= Len(x.hlist)) /\ x.hlist[q + 1] = k
      BY <1>2, <1>5, <3>1, <3>2 DEF MwhGet, None
    <3>4. q # i
      BY <1>2, <1>5, <3>2, <3>3 DEF IInv, IdInv, IdsAreDistinct
    <3>5. id'[vm[v].workers[k]'] = q
      BY <1>5, <1>4, <1>8
    <3> HIDE DEF q
    <3>6. q \in Nat /\ q + 1 \in 1..Len(x.hlist) /\ q + 1 \in 1..Len(g) /\ q + 1 # i + 1
      BY <1>0, <1>2, <1>6, <3>3, <3>4
    <3>7. h[q + 1] = k /\ ~(q = -1 \/ q >= Len(h))
      <4>1. h[q + 1] = g[q + 1] /\ g[q + 1] = x.hlist[q + 1]
        BY <1>6, <1>7, <3>6
      <4>2. q < Len(h)
        BY <1>0, <1>7, <3>6
      <4> QED BY <1>0, <1>7, <3>3, <3>6, <4>1, <4>2
    <3> QED BY <1>5, <1>8, <3>5, <3>7 DEF MwhGet
  <2> QED BY <2>1, <2>2
<1>14. CallInv(v)'
  <2>1. MwhGet(v, Wanted(v))' # None
    BY SMTT(30), <1>2, <1>4, <1>5, <1>6, <1>7, <1>8 DEF MwhGet, Wanted, None
  <2> QED BY <1>1, <1>4, <1>5, <1>8, <2>1 DEF CallInv, Inside, Places, Searching
<1>15. FramesInv(y) /\ OpenInv(v)'
  BY SMTT(30), <1>1, <1>4, <1>5, <1>8 DEF FramesInv, OpenInv, SessionOf, Inside, Places
<1>16. VMInv(v)'
  BY <1>5, <1>11, <1>12, <1>13, <1>14, <1>15 DEF VMInv, WorkersExist, FramesInv, SessionOf
<1> QED BY <1>3, <1>4, <1>5, <1>8, <1>16, OneThread DEF IdsKept
----------------------------------------------------------------------------
(* The life of a VM. *)

LEMMA ClosedIsRight ==
  /\ ClosedVM \in VMType
  /\ WorkersExist(ClosedVM) /\ EntriesRight(ClosedVM) /\ FramesInv(ClosedVM)
<1>1. <<>> \in TasksType
  <2>1. <<>> \in [{} -> Nat] /\ {} \in SUBSET Slot
    OBVIOUS
  <2> QED BY <2>1 DEF TasksType
<1>2. NoSession \in SessionType /\ NoSession.worker = None
  BY DEF NoSession, SessionType, None
<1>3. ClosedVM \in VMType
  BY <1>1, <1>2 DEF ClosedVM, VMType
<1>4. WorkersExist(ClosedVM) /\ EntriesRight(ClosedVM)
  BY <1>2 DEF ClosedVM, WorkersExist, EntriesRight
<1>5. FramesInv(ClosedVM)
  BY BoundsAssumption DEF ClosedVM, FramesInv
<1> QED BY <1>3, <1>4, <1>5

LEMMA NewVMW ==
  ASSUME IInv, WInv, NEW v \in Thread, NewVM(v)
  PROVE  WInv'
<1> DEFINE h == [i \in 1..(mcounter + HlistInc) |-> None]
           y == [ClosedVM EXCEPT !.open = TRUE, !.hlist = h]
<1>1. h \in Seq(Nat) /\ Len(h) \in Nat /\ \A i \in DOMAIN h : h[i] = None
  <2>1. mcounter + HlistInc \in Nat
    BY BoundsAssumption DEF IInv, TypeInv
  <2> QED BY <2>1 DEF None
<1>2. vm[v] = ClosedVM /\ UNCHANGED <<id, pc, call>> /\ pc[v] = "user"
  BY DEF NewVM, WInv, VMInv, OpenInv
<1>3. vm'[v] = y /\ vm' = [vm EXCEPT ![v] = vm'[v]]
  BY <1>2 DEF NewVM, WInv
<1> HIDE DEF h
<1>4. /\ y \in VMType /\ y.open = TRUE /\ y.hlist = h /\ y.workers = <<>> /\ y.tasks = <<>>
      /\ y.session = NoSession /\ y.plock = FALSE /\ y.frames = <<>>
  BY <1>1, ClosedIsRight DEF ClosedVM, VMType
<1>5. WorkersExist(y) /\ FramesInv(y)
  BY <1>1, <1>4, BoundsAssumption DEF WorkersExist, FramesInv, NoSession
<1> HIDE DEF y
<1>6. EntriesRight(vm[v])' /\ FoundOf(v)'
  BY <1>1, <1>3, <1>4 DEF EntriesRight, FoundOf
<1>7. CallInv(v)' /\ OpenInv(v)'
  BY <1>2, <1>3, <1>4 DEF CallInv, OpenInv, Inside, Places, Searching
<1>8. WorkersExist(vm[v])' /\ FramesInv(vm[v])'
  BY <1>3, <1>5 DEF WorkersExist, FramesInv, SessionOf
<1> QED BY <1>2, <1>3, <1>4, <1>6, <1>7, <1>8, OneThread DEF IdsKept, VMInv

LEMMA FreeVMW ==
  ASSUME IInv, WInv, NEW v \in Thread, FreeVM(v)
  PROVE  WInv'
<1>1. vm'[v] = ClosedVM /\ vm' = [vm EXCEPT ![v] = vm'[v]]
  BY DEF FreeVM, WInv
<1>2. UNCHANGED <<id, pc, call>> /\ pc[v] = "user"
  BY DEF FreeVM, Idle, User
<1>3. EntriesRight(vm[v])' /\ FoundOf(v)'
  BY <1>1 DEF EntriesRight, FoundOf, ClosedVM
<1>4. CallInv(v)' /\ OpenInv(v)'
  BY <1>1, <1>2 DEF CallInv, OpenInv, Inside, Places, Searching
<1>5. WorkersExist(vm[v])' /\ FramesInv(vm[v])'
  BY <1>1, ClosedIsRight DEF WorkersExist, FramesInv, SessionOf
<1> QED BY <1>1, <1>2, <1>3, <1>4, <1>5, ClosedIsRight, OneThread DEF IdsKept, VMInv
----------------------------------------------------------------------------
(* The frames. *)

(* A machine function begins. *)
LEMMA EnterFrame ==
  ASSUME WInv, NEW v \in Thread, NEW t \in Slot, NEW w \in Nat, NEW k \in {"init", "step"},
         NEW ts \in TasksType, Enter(v, t, w, k, ts), Len(vm[v].frames) < MaxNested,
         t \in DOMAIN ts, ts[t] = w,
         \A s \in DOMAIN vm[v].tasks : s \in DOMAIN ts /\ ts[s] = vm[v].tasks[s],
         \A s \in DOMAIN ts : ts[s] \in DOMAIN vm[v].workers
  PROVE  /\ vm' = [vm EXCEPT ![v] = vm'[v]] /\ vm'[v] \in VMType
         /\ vm'[v].open = vm[v].open /\ vm'[v].hlist = vm[v].hlist /\ vm'[v].workers = vm[v].workers
         /\ WorkersExist(vm[v])' /\ FramesInv(vm[v])'
<1> DEFINE x == vm[v]
           f == Frame(v, t, k)
           fr == Append(x.frames, f)
           se == [state |-> t, worker |-> w]
           y == [x EXCEPT !.tasks = ts, !.plock = TRUE, !.session = se, !.frames = fr]
           n == Len(x.frames)
<1>1. /\ x \in VMType /\ WorkersExist(x) /\ FramesInv(x) /\ x.frames \in Seq(FrameType)
      /\ x.plock \in BOOLEAN /\ x.session \in SessionType
  BY Parts DEF VMInv
<1>2. vm'[v] = y /\ vm' = [vm EXCEPT ![v] = vm'[v]]
  BY DEF Enter, WInv
<1>3. /\ f \in FrameType /\ f.task = t /\ f.session = x.session /\ f.plock = x.plock
      /\ fr \in Seq(FrameType) /\ se \in SessionType
  BY <1>1 DEF Frame, FrameType, SessionType
<1> HIDE DEF f
<1>4. n \in Nat /\ Len(fr) = n + 1 /\ fr[n + 1] = f /\ \A i \in 1..n : fr[i] = x.frames[i]
  BY <1>1, <1>3
<1> HIDE DEF x, fr, n
<1>5. /\ y \in VMType /\ y.tasks = ts /\ y.session = se /\ y.plock = TRUE /\ y.frames = fr
      /\ y.open = x.open /\ y.hlist = x.hlist /\ y.workers = x.workers
  BY <1>1, <1>3 DEF VMType
<1> HIDE DEF y
<1>6. /\ DOMAIN fr = 1..(n + 1) /\ DOMAIN x.frames = 1..n /\ Last(fr) = f /\ fr # <<>>
      /\ x.frames # <<>> => n # 0 /\ Last(x.frames) = x.frames[n]
      /\ x.frames = <<>> => n = 0
      /\ \A i \in 1..(n + 1) : i \in 1..n \/ i = n + 1
  BY <1>1, <1>3, <1>4 DEF Last, n
<1>7. WorkersExist(y)
  <2>1. se.worker \in DOMAIN x.workers
    BY DEF x
  <2>2. ASSUME NEW i \in DOMAIN fr PROVE fr[i].session.worker \in {None} \cup DOMAIN x.workers
    <3>1. CASE i \in 1..n
      BY <1>1, <1>4, <1>6, <3>1 DEF WorkersExist
    <3>2. CASE i = n + 1
      BY <1>1, <1>3, <1>4, <3>2 DEF WorkersExist
    <3> QED BY <1>6, <3>1, <3>2
  <2>3. \A s \in DOMAIN ts : ts[s] \in DOMAIN x.workers
    BY DEF x
  <2> QED BY <1>1, <1>5, <2>1, <2>2, <2>3 DEF WorkersExist
<1>8. FramesInv(y)
  <2>1. \A s \in DOMAIN x.tasks : s \in DOMAIN ts /\ SessionOf(y, s) = SessionOf(x, s)
    BY <1>5 DEF x, SessionOf
  <2>2. se = SessionOf(y, t)
    BY <1>5 DEF SessionOf
  <2>3. n + 1 <= MaxNested
    BY <1>4, BoundsAssumption DEF x, n
  <2>4. ASSUME NEW i \in 1..(n + 1)
        PROVE  /\ fr[i].task \in DOMAIN ts
               /\ fr[i].plock <=> i # 1
               /\ i # 1 => fr[i].session = SessionOf(y, fr[i - 1].task)
    <3>1. CASE i \in 1..n
      <4>1. fr[i] = x.frames[i] /\ (i # 1 => i - 1 \in 1..n /\ fr[i - 1] = x.frames[i - 1])
        BY <1>4, <3>1
      <4> QED BY <1>1, <1>6, <2>1, <3>1, <4>1 DEF FramesInv
    <3>2. CASE i = n + 1
      <4>1. fr[i] = f /\ i - 1 = n
        BY <1>4, <3>2
      <4>2. i # 1 <=> x.frames # <<>>
        BY <1>4, <1>6, <3>2
      <4>3. x.frames # <<>> => n \in 1..n /\ fr[n] = x.frames[n]
        BY <1>4, <1>6
      <4> QED BY <1>1, <1>3, <1>6, <2>1, <4>1, <4>2, <4>3 DEF FramesInv
    <3> QED BY <1>6, <3>1, <3>2
  <2> QED BY <1>3, <1>4, <1>5, <1>6, <2>2, <2>3, <2>4 DEF FramesInv
<1> QED BY <1>2, <1>5, <1>7, <1>8 DEF x, WorkersExist, FramesInv, SessionOf

LEMMA RunInitW ==
  ASSUME IInv, WInv, NEW v \in Thread, RunInit(v)
  PROVE  WInv'
<1> DEFINE t  == call[v].task
           w  == MwhGet(v, Wanted(v))
           D  == DOMAIN vm[v].tasks
           ts == [s \in D \cup {t} |-> IF s = t THEN w ELSE vm[v].tasks[s]]
<1>1. pc[v] = "found" /\ Enter(v, t, w, "init", ts) /\ Return(v) /\ id' = id
  BY DEF RunInit
<1>2. VMInv(v) /\ vm[v].tasks \in TasksType /\ vm[v].hlist \in Seq(Nat) /\ vm[v].workers \in Seq(Machine)
  BY Parts
<1>3. t \in Slot \ D /\ Len(vm[v].frames) < MaxNested /\ vm[v].open /\ w # None
  BY <1>1, <1>2 DEF RunInit, VMInv, CallInv, OpenInv, Inside, Places
<1>4. w \in DOMAIN vm[v].workers
  <2>1. Wanted(v) \in Machine
    BY <1>1 DEF IInv, IdInv, WantsMachine, Inside, Places
  <2> DEFINE i == id[Wanted(v)]
  <2>2. i \in Nat /\ i < Len(vm[v].hlist) /\ w = vm[v].hlist[i + 1]
    BY <1>2, <1>3, <2>1 DEF IInv, TypeInv, MwhGet
  <2>3. i + 1 \in DOMAIN vm[v].hlist
    BY <1>2, <2>2
  <2> QED BY <1>2, <1>3, <2>2, <2>3 DEF VMInv, WorkersExist
<1> HIDE DEF w, t
<1>5. D \subseteq Slot /\ vm[v].tasks \in [D -> Nat] /\ w \in Nat
  BY <1>2, <1>4 DEF TasksType
<1>6. ts \in TasksType
  <2>1. ts \in [D \cup {t} -> Nat] /\ D \cup {t} \in SUBSET Slot
    BY <1>3, <1>5
  <2> QED BY <2>1 DEF TasksType
<1>7. \A s \in D \cup {t} : ts[s] \in DOMAIN vm[v].workers
  BY <1>2, <1>4 DEF VMInv, WorkersExist
<1>8. t \in DOMAIN ts /\ ts[t] = w /\ \A s \in D : s \in DOMAIN ts /\ ts[s] = vm[v].tasks[s]
  BY <1>3
<1>9. /\ vm' = [vm EXCEPT ![v] = vm'[v]] /\ vm'[v] \in VMType
      /\ vm'[v].open = vm[v].open /\ vm'[v].hlist = vm[v].hlist /\ vm'[v].workers = vm[v].workers
      /\ WorkersExist(vm[v])' /\ FramesInv(vm[v])'
  <2> HIDE DEF ts
  <2>1. \A s \in DOMAIN ts : ts[s] \in DOMAIN vm[v].workers
    BY <1>7 DEF ts
  <2> QED BY <1>1, <1>3, <1>5, <1>6, <1>8, <2>1, EnterFrame
<1>10. pc'[v] = "user" /\ \A u \in Thread \ {v} : pc'[u] = pc[u] /\ call'[u] = call[u]
  BY <1>1 DEF Return, Goto, IInv, TypeInv
<1> QED BY <1>1, <1>3, <1>9, <1>10, UserStep DEF Inside, Searching

(* A step of zm_go begins. *)
LEMMA StepFrame ==
  ASSUME WInv, NEW v \in Thread, NEW t \in DOMAIN vm[v].tasks, vm[v].frames = <<>>,
         Enter(v, t, vm[v].tasks[t], "step", vm[v].tasks)
  PROVE  /\ vm' = [vm EXCEPT ![v] = vm'[v]] /\ vm'[v] \in VMType
         /\ vm'[v].open = vm[v].open /\ vm'[v].hlist = vm[v].hlist /\ vm'[v].workers = vm[v].workers
         /\ WorkersExist(vm[v])' /\ FramesInv(vm[v])'
<1>1. VMInv(v) /\ vm[v].tasks \in TasksType /\ vm[v].workers \in Seq(Machine)
  BY Parts
<1>2. t \in Slot /\ vm[v].tasks[t] \in Nat
  BY <1>1 DEF TasksType
<1>3. Len(vm[v].frames) < MaxNested
  BY BoundsAssumption
<1>4. \A s \in DOMAIN vm[v].tasks : vm[v].tasks[s] \in DOMAIN vm[v].workers
  BY <1>1 DEF VMInv, WorkersExist
<1> QED BY <1>1, <1>2, <1>3, <1>4, EnterFrame

LEMMA GoW ==
  ASSUME IInv, WInv, NEW v \in Thread, NEW t \in Slot, Go(v, t)
  PROVE  WInv'
<1>1. /\ t \in DOMAIN vm[v].tasks /\ vm[v].frames = <<>> /\ vm[v].open /\ pc[v] = "user"
      /\ Enter(v, t, vm[v].tasks[t], "step", vm[v].tasks) /\ UNCHANGED <<id, pc, call>>
  BY DEF Go, Idle, User
<1>2. /\ vm' = [vm EXCEPT ![v] = vm'[v]] /\ vm'[v] \in VMType
      /\ vm'[v].open = vm[v].open /\ vm'[v].hlist = vm[v].hlist /\ vm'[v].workers = vm[v].workers
      /\ WorkersExist(vm[v])' /\ FramesInv(vm[v])'
  BY <1>1, StepFrame
<1> QED BY <1>1, <1>2, UserStep DEF Inside, Searching

(* A thread is back in the code of the user, or reports an error of it,    *)
(* with the same VM.                                                       *)
LEMMA BackW ==
  ASSUME IInv, WInv, NEW v \in Thread, pc[v] \notin Searching, pc'[v] \notin Inside,
         \A u \in Thread \ {v} : pc'[u] = pc[u] /\ call'[u] = call[u],
         UNCHANGED <<id, vm>>
  PROVE  WInv'
<1>1. VMInv(v) /\ vm' = [vm EXCEPT ![v] = vm'[v]] /\ vm'[v] \in VMType
  BY DEF WInv
<1>2. CallInv(v)' /\ OpenInv(v)'
  BY <1>1 DEF VMInv, CallInv, OpenInv, Inside, Places, Searching
<1>3. IdsKept /\ vm'[v] = vm[v]
  BY DEF IdsKept
<1>4. WorkersExist(vm[v])' /\ EntriesRight(vm[v])' /\ FoundOf(v)' /\ FramesInv(vm[v])'
  BY <1>1, <1>3, TableKept DEF WInv
<1>5. VMInv(v)'
  BY <1>2, <1>4 DEF VMInv
<1> QED BY <1>1, <1>3, <1>5, OneThread

LEMMA GoFoundW ==
  ASSUME IInv, WInv, NEW v \in Thread, GoFound(v)
  PROVE  WInv'
<1>1. VMInv(v) /\ pc[v] = "found" /\ Return(v) /\ id' = id
  BY DEF GoFound, WInv
<1>2. pc'[v] = "user" /\ \A u \in Thread \ {v} : pc'[u] = pc[u] /\ call'[u] = call[u]
  BY <1>1 DEF Return, Goto, IInv, TypeInv
<1>3. vm[v].frames = <<>> /\ vm[v].open
  BY <1>1 DEF GoFound, VMInv, CallInv, OpenInv, Inside, Places
<1>4. pc[v] \notin Searching /\ pc'[v] \notin Inside
  BY <1>1, <1>2 DEF Searching, Inside
<1>5. CASE UNCHANGED vm
  BY <1>1, <1>2, <1>4, <1>5, BackW
<1>6. ASSUME NEW t \in DOMAIN vm[v].tasks, Enter(v, t, vm[v].tasks[t], "step", vm[v].tasks)
      PROVE  WInv'
  <2>1. /\ vm' = [vm EXCEPT ![v] = vm'[v]] /\ vm'[v] \in VMType
        /\ vm'[v].open = vm[v].open /\ vm'[v].hlist = vm[v].hlist /\ vm'[v].workers = vm[v].workers
        /\ WorkersExist(vm[v])' /\ FramesInv(vm[v])'
    BY <1>3, <1>6, StepFrame
  <2> QED BY <1>1, <1>2, <1>3, <1>4, <2>1, UserStep
<1> QED BY <1>5, <1>6 DEF GoFound

(* A machine function yields and who called it goes on. *)
LEMMA YieldFrame ==
  ASSUME WInv, NEW v \in Thread, vm[v].frames # <<>>, vm' = [vm EXCEPT ![v] = Restored(v)]
  PROVE  /\ vm' = [vm EXCEPT ![v] = vm'[v]] /\ vm'[v] \in VMType
         /\ vm'[v].open = vm[v].open /\ vm'[v].hlist = vm[v].hlist /\ vm'[v].workers = vm[v].workers
         /\ WorkersExist(vm[v])' /\ FramesInv(vm[v])'
<1> DEFINE x  == vm[v]
           n  == Len(x.frames)
           f  == x.frames[n]
           fr == Front(x.frames)
           y  == [x EXCEPT !.session = f.session, !.plock = f.plock, !.frames = fr]
<1>1. /\ x \in VMType /\ WorkersExist(x) /\ FramesInv(x) /\ x.frames \in Seq(FrameType) /\ x.frames # <<>>
  BY Parts DEF VMInv
<1>2. vm'[v] = y /\ vm' = [vm EXCEPT ![v] = vm'[v]]
  BY DEF Restored, Running, Last, WInv
<1>3. n \in Nat \ {0} /\ DOMAIN x.frames = 1..n /\ n \in 1..n
  BY <1>1
<1>4. f \in FrameType /\ f.session \in SessionType /\ f.plock \in BOOLEAN
  <2>1. \A i \in 1..n : x.frames[i] \in FrameType
    BY <1>1, <1>3
  <2>2. f \in FrameType
    BY <1>3, <2>1
  <2> HIDE DEF f
  <2> QED BY <2>2 DEF FrameType
<1>5. /\ fr \in Seq(FrameType) /\ Len(fr) = n - 1 /\ DOMAIN fr = 1..(n - 1)
      /\ \A i \in 1..(n - 1) : i \in 1..n /\ fr[i] = x.frames[i]
  BY <1>1, <1>3 DEF Front
<1>6. fr # <<>> <=> n # 1
  <2> HIDE DEF fr, n
  <2>1. fr = <<>> <=> Len(fr) = 0
    BY <1>5, EmptySeq
  <2> QED BY <1>3, <1>5, <2>1
<1> HIDE DEF x, f, fr, n
<1>7. /\ y \in VMType /\ y.tasks = x.tasks /\ y.session = f.session /\ y.plock = f.plock /\ y.frames = fr
      /\ y.open = x.open /\ y.hlist = x.hlist /\ y.workers = x.workers
  BY <1>1, <1>4, <1>5 DEF VMType
<1> HIDE DEF y
<1>8. WorkersExist(y)
  BY <1>1, <1>3, <1>5, <1>7 DEF WorkersExist, f
<1>9. FramesInv(y)
  <2>1. \A s : SessionOf(y, s) = SessionOf(x, s)
    BY <1>7 DEF SessionOf
  <2>2. n <= MaxNested /\ n - 1 <= MaxNested
    BY <1>1, <1>3, BoundsAssumption DEF FramesInv, n
  <2>3. (f.plock <=> n # 1) /\ (n # 1 => f.session = SessionOf(x, x.frames[n - 1].task))
    BY <1>1, <1>3 DEF FramesInv, f
  <2>4. n # 1 => n - 1 \in 1..(n - 1) /\ Last(fr) = x.frames[n - 1]
    BY <1>3, <1>5 DEF Last
  <2>5. \A i \in 1..(n - 1) : i # 1 => i - 1 \in 1..(n - 1)
    BY <1>3
  <2>6. ASSUME NEW i \in 1..(n - 1)
        PROVE  /\ fr[i].task \in DOMAIN y.tasks
               /\ fr[i].plock <=> i # 1
               /\ i # 1 => fr[i].session = SessionOf(y, fr[i - 1].task)
    <3>1. i \in DOMAIN x.frames /\ fr[i] = x.frames[i]
      BY <1>3, <1>5
    <3>2. i # 1 => fr[i - 1] = x.frames[i - 1]
      BY <1>5, <2>5
    <3> QED BY <1>1, <1>7, <2>1, <3>1, <3>2 DEF FramesInv
  <2> QED BY <1>5, <1>6, <1>7, <2>1, <2>2, <2>3, <2>4, <2>6 DEF FramesInv
<1> QED BY SMTT(30), <1>2, <1>7, <1>8, <1>9 DEF x, WorkersExist, FramesInv, SessionOf

LEMMA InitDoneW ==
  ASSUME IInv, WInv, NEW v \in Thread, InitDone(v)
  PROVE  WInv'
<1>1. /\ pc[v] = "user" /\ vm[v].open /\ vm[v].frames # <<>>
      /\ vm' = [vm EXCEPT ![v] = Restored(v)] /\ UNCHANGED <<id, pc, call>>
  BY DEF InitDone, Idle, User
<1>2. /\ vm' = [vm EXCEPT ![v] = vm'[v]] /\ vm'[v] \in VMType
      /\ vm'[v].open = vm[v].open /\ vm'[v].hlist = vm[v].hlist /\ vm'[v].workers = vm[v].workers
      /\ WorkersExist(vm[v])' /\ FramesInv(vm[v])'
  BY <1>1, YieldFrame
<1> QED BY <1>1, <1>2, UserStep DEF Inside, Searching

LEMMA InitRefusedW ==
  ASSUME IInv, WInv, NEW v \in Thread, InitRefused(v)
  PROVE  WInv'
<1>1. /\ pc[v] = "user" /\ vm[v].open /\ vm[v].frames # <<>>
      /\ vm' = [vm EXCEPT ![v] = Restored(v)] /\ UNCHANGED <<id, call>> /\ Goto(v, "fatalInit")
  BY DEF InitRefused, Idle, User, Reports
<1>2. pc'[v] = "fatalInit" /\ \A u \in Thread \ {v} : pc'[u] = pc[u] /\ call'[u] = call[u]
  BY <1>1 DEF Goto, IInv, TypeInv
<1>3. /\ vm' = [vm EXCEPT ![v] = vm'[v]] /\ vm'[v] \in VMType
      /\ vm'[v].open = vm[v].open /\ vm'[v].hlist = vm[v].hlist /\ vm'[v].workers = vm[v].workers
      /\ WorkersExist(vm[v])' /\ FramesInv(vm[v])'
  BY <1>1, YieldFrame
<1> QED BY <1>1, <1>2, <1>3, UserStep DEF Inside, Places, Searching

LEMMA StepEndW ==
  ASSUME IInv, WInv, NEW v \in Thread, StepEnd(v)
  PROVE  WInv'
<1> DEFINE x == vm[v]
           y == [x EXCEPT !.plock = FALSE, !.frames = <<>>, !.session = NoSession]
<1>1. pc[v] = "user" /\ x.open /\ UNCHANGED <<id, pc, call>>
  BY DEF StepEnd, User
<1>2. vm'[v] = y /\ vm' = [vm EXCEPT ![v] = vm'[v]]
  BY DEF StepEnd, WInv
<1>3. x \in VMType /\ WorkersExist(x) /\ NoSession \in SessionType
  BY Parts DEF VMInv, NoSession, SessionType, None
<1>4. <<>> \in Seq(FrameType)
  OBVIOUS
<1> HIDE DEF x
<1>5. /\ y \in VMType /\ y.tasks = x.tasks /\ y.session = NoSession /\ y.plock = FALSE /\ y.frames = <<>>
      /\ y.open = x.open /\ y.hlist = x.hlist /\ y.workers = x.workers
  BY <1>3, <1>4 DEF VMType
<1> HIDE DEF y
<1>6. WorkersExist(y) /\ FramesInv(y)
  BY <1>3, <1>5, BoundsAssumption DEF WorkersExist, FramesInv, NoSession
<1>7. WorkersExist(vm[v])' /\ FramesInv(vm[v])'
  BY <1>2, <1>6 DEF WorkersExist, FramesInv, SessionOf
<1>8. x = vm[v]
  BY DEF x
<1> QED BY <1>1, <1>2, <1>5, <1>7, <1>8, UserStep DEF Inside, Searching

LEMMA TaskEndsW ==
  ASSUME IInv, WInv, NEW v \in Thread, NEW t \in Slot, TaskEnds(v, t)
  PROVE  WInv'
<1> DEFINE x  == vm[v]
           D  == DOMAIN x.tasks \ {t}
           ts == [s \in D |-> x.tasks[s]]
           y  == [x EXCEPT !.tasks = ts]
<1>1. pc[v] = "user" /\ x.open /\ x.frames = <<>> /\ UNCHANGED <<id, pc, call>>
  BY DEF TaskEnds, Idle, User
<1>2. vm'[v] = y /\ vm' = [vm EXCEPT ![v] = vm'[v]]
  BY DEF TaskEnds, WInv
<1>3. x \in VMType /\ WorkersExist(x) /\ FramesInv(x) /\ x.tasks \in TasksType
  BY Parts DEF VMInv
<1>4. ts \in TasksType
  <2>1. x.tasks \in [DOMAIN x.tasks -> Nat] /\ DOMAIN x.tasks \subseteq Slot
    BY <1>3 DEF TasksType
  <2>2. ts \in [D -> Nat] /\ D \in SUBSET Slot
    BY <2>1
  <2> QED BY <2>2 DEF TasksType
<1>5. DOMAIN ts \subseteq DOMAIN x.tasks /\ \A s \in DOMAIN ts : ts[s] = x.tasks[s]
  OBVIOUS
<1>6. x = vm[v]
  OBVIOUS
<1> HIDE DEF x, ts
<1>7. /\ y \in VMType /\ y.tasks = ts /\ y.session = x.session /\ y.plock = x.plock /\ y.frames = x.frames
      /\ y.open = x.open /\ y.hlist = x.hlist /\ y.workers = x.workers
  BY <1>3, <1>4 DEF VMType
<1> HIDE DEF y
<1>8. WorkersExist(y) /\ FramesInv(y)
  BY <1>1, <1>3, <1>5, <1>7 DEF WorkersExist, FramesInv
<1>9. WorkersExist(vm[v])' /\ FramesInv(vm[v])'
  BY <1>2, <1>8 DEF WorkersExist, FramesInv, SessionOf
<1> QED BY <1>1, <1>2, <1>6, <1>7, <1>9, UserStep DEF Inside, Searching
----------------------------------------------------------------------------
LEMMA InitW == RInit => WInv
<1> SUFFICES ASSUME RInit PROVE WInv
  OBVIOUS
<1>1. vm = [v \in Thread |-> ClosedVM] /\ pc = [v \in Thread |-> "user"]
  BY DEF RInit, Init
<1>2. ASSUME NEW v \in Thread PROVE VMInv(v)
  <2>1. vm[v] = ClosedVM /\ pc[v] = "user"
    BY <1>1
  <2>2. FoundOf(v)
    BY <2>1 DEF FoundOf, ClosedVM
  <2>3. CallInv(v) /\ OpenInv(v)
    BY <2>1 DEF CallInv, OpenInv, Inside, Places, Searching
  <2> QED BY <2>1, <2>2, <2>3, ClosedIsRight DEF VMInv
<1> QED BY <1>1, <1>2, ClosedIsRight DEF WInv

(* An error is reported. *)
LEMMA ReportW ==
  ASSUME IInv, WInv, NEW v \in Thread, Fatal(v) \/ FreeVMRefused(v) \/ Report(v)
  PROVE  WInv'
<1> USE DEF Searching, Inside, Places
<1>1. UNCHANGED <<id, vm, call>>
  BY DEF Fatal, FreeVMRefused, Report, FatalInit, FatalDo, FatalPrintDump
<1>2. CASE Fatal(v) \/ FreeVMRefused(v)
  <2>1. pc[v] = "user" /\ Goto(v, "fatalInit")
    BY <1>2 DEF Fatal, FreeVMRefused, Reports, User, Idle
  <2>2. pc'[v] = "fatalInit" /\ \A u \in Thread \ {v} : pc'[u] = pc[u]
    BY <2>1 DEF Goto, IInv, TypeInv
  <2> QED BY <1>1, <2>1, <2>2, BackW
<1>3. CASE Report(v)
  <2>1. pc[v] \in Printing \cup {"fatalInit"}
    BY <1>3 DEF Report, FatalInit, FatalDo, FatalPrintDump, Printing
  <2>2. pc' = pc \/ \E p \in Printing \cup {"fatalInit"} : Goto(v, p)
    BY <1>3 DEF Report, FatalInit, FatalDo, FatalPrintDump, Printing, Reports
  <2>3. pc'[v] \in Printing \cup {"fatalInit"} /\ \A u \in Thread \ {v} : pc'[u] = pc[u]
    BY <2>1, <2>2 DEF Goto, IInv, TypeInv
  <2>4. pc[v] \notin Searching /\ pc'[v] \notin Inside
    BY <2>1, <2>3 DEF Printing
  <2> QED BY <1>1, <2>3, <2>4, BackW
<1> QED BY <1>2, <1>3

LEMMA NextW == IInv /\ WInv /\ [Next]_vars => WInv'
<1> SUFFICES ASSUME IInv, WInv, [Next]_vars PROVE WInv'
  OBVIOUS
<1>1. CASE Next
  <2> PICK v \in Thread :
          \/ (Calls(v) \/ Library(v)) /\ UNCHANGED <<err, kind, exited>>
          \/ Fatal(v) \/ FreeVMRefused(v) \/ InitRefused(v) \/ Report(v)
    BY <1>1 DEF Next
  <2>1. CASE Calls(v)
    BY <2>1, NewVMW, FreeVMW, InitDoneW, StepEndW, GoMachineW, AddTaskW, GoW, TaskEndsW DEF Calls
  <2>2. CASE Library(v)
    BY <2>2, SearchW, MachineCountW, MwhStoreW, RunInitW, GoFoundW DEF Library
  <2>3. CASE InitRefused(v)
    BY <2>3, InitRefusedW
  <2>4. CASE Fatal(v) \/ FreeVMRefused(v) \/ Report(v)
    BY <2>4, ReportW
  <2> QED BY <2>1, <2>2, <2>3, <2>4
<1>2. CASE UNCHANGED vars
  <2>1. IdsKept /\ UNCHANGED <<pc, vm, call>> /\ vm \in [Thread -> VMType]
    BY <1>2 DEF vars, mvars, IdsKept, WInv
  <2> QED BY <2>1, OtherKept DEF WInv
<1> QED BY <1>1, <1>2

(* The inductive invariant: a thread that looks for a worker still finds   *)
(* what it found, although others give ids meanwhile.                      *)
THEOREM WorkersInvariance == Spec => [](IInv /\ WInv)
<1>1. RInit => IInv /\ WInv
  BY InitInv, InitW
<1>2. IInv /\ WInv /\ [Next]_vars => (IInv /\ WInv)'
  BY NextInv, NextW
<1> QED BY <1>1, <1>2, PTL DEF Spec

(* Each worker that a VM allocated is the one its table has for the        *)
(* machine, whichever thread gave the machine its id (zm_mwhSet).          *)
THEOREM AllocatedAreFound == Spec => []WorkersAreFound
<1>1. WInv => WorkersAreFound
  BY DEF WInv, VMInv, FoundOf, WorkersAreFound
<1> QED BY <1>1, WorkersInvariance, PTL

(* The session is that of the innermost machine function, however deep     *)
(* the constructors are nested (zm_machineStep0).                          *)
THEOREM InnermostSession == Spec => []SessionIsInnermost
<1>1. WInv => SessionIsInnermost
  <2> SUFFICES ASSUME WInv, NEW v \in Thread, vm[v].frames # <<>>
               PROVE  Running(v).task \in DOMAIN vm[v].tasks
    BY DEF WInv, VMInv, FramesInv, SessionIsInnermost, SessionOf, Running
  <2>1. FramesInv(vm[v]) /\ vm[v].frames \in Seq(FrameType)
    BY Parts DEF VMInv
  <2>2. Len(vm[v].frames) \in DOMAIN vm[v].frames
    BY <2>1
  <2> QED BY <2>1, <2>2 DEF FramesInv, Running, Last
<1> QED BY <1>1, WorkersInvariance, PTL

(* The types of the variables. *)
THEOREM TypeCorrect == Spec => []TypeOK
<1>1. IInv /\ WInv => TypeOK
  <2> SUFFICES ASSUME IInv, WInv PROVE TypeOK
    OBVIOUS
  <2>1. ASSUME NEW v \in Thread PROVE VMTypeOK(vm[v])
    <3>1. ToSet(vm[v].hlist) \subseteq {None} \cup DOMAIN vm[v].workers
      BY Parts DEF VMInv, WorkersExist, ToSet
    <3>2. DOMAIN vm[v].tasks \subseteq Slot
      BY Parts DEF TasksType
    <3>3. vm[v].session.state \in Slot \cup {None}
      BY Parts DEF SessionType
    <3> QED BY <3>1, <3>2, <3>3, Parts DEF VMTypeOK, VMInv, WorkersExist, FramesInv
  <2>2. err.vm \in Thread \cup {NULL} /\ err.inits \in 0..MaxInits
    <3>1. err.vm \in Thread \cup {NULL} /\ err.inits \in Nat
      BY DEF IInv, TypeInv
    <3>2. err.inits <= 2
      BY DEF IInv, ReportInv, Stages
    <3> QED BY <3>1, <3>2 DEF MaxInits
  <2> QED BY <2>1, <2>2 DEF TypeOK, MachinesTypeOK, IInv, TypeInv
<1> QED BY <1>1, WorkersInvariance, PTL
=============================================================================
