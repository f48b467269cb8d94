# TLA+ models of zm

zm (`src/zm.c`, `src/zm.h`) is a C library of cooperative tasks. A program
defines task classes ("machines") with macros; a task is a state that the
library steps when its turn comes, and that says with the value it yields what
to do next: go on, suspend, resume a subtask, wait for an event, raise an
exception, close. A VM and its tasks belong to one thread; threads share the
task classes and the report of fatal errors. What is hard is therefore mostly
not memory ordering but the order in which tasks, the host and the library's
own bookkeeping meet: a step may resume, abort or close tasks that are in the
lists being traversed, a close takes many steps during which the host may ask
for another close, and an exception cuts through callers that need not follow
the tree of the tasks.

This directory holds TLA+ modules that model that bookkeeping, the TLC runs
that check them on small instances and the proofs, checked by TLAPS, that
carry some of the results to any number of tasks and machines.


## The system: components, state, operations

| component | state | operations | models |
|---|---|---|---|
| Run lists | per worker (a machine in a VM): `states` (a chain through `zm_State.next`), cursor `current`, `previous`, `nstate`; the ring of workers with `vm->workercursor`; the session `vm->session` | `zm_resumeState`, `zm_unlinkCurrentState`, `zm_stateNext`, `zm_stateRewind`, `zm_addWorker`, `zm_unlinkWorker`, `zm_nextWorker` | `RunLists` |
| Scheduler | the above and the pause and result flags of a `zm_go` | `zm_go`, `zm_goStep`, `zm_goGetWorker`, `zm_goGetState`, `zm_processTask`, `zm_break` | `Scheduler` |
| Task tree | per task: `parent`, `comeback` (the caller), siblings ring, flags, process mode | `zm_newTask`, `zmNewSubTask`, `zmSUB`, `zmCALLER`, `zmSUSPEND`, `zmEVENT`, `zm_resume`, `zm_freeTask` | `Implosion`, `Context` |
| Implosion | the lock `ZM_STATE_IMPLOSIONLOCK`, the chain of callers of what closes, the recorded start of an implosion | `zmTERM`, `zmCLOSE`, `zm_abort`, `zm_closeVM`, the end of a task | `Implosion`, `Context`, `Branches` |
| Exceptions | the exception of a task, catch and reset of its last yield, `vm->uncaught` | `zmABORT`, `zmDROP`, `zmCONTINUE`, `zmUNRAISE`, `zmCatch`, `zm_uCatch` | `Implosion`, `Context` |
| Events | per event: the ring of the bound tasks and a count; per bound task its binder | `zmEVENT`, `zm_trigger`, `zm_unbind`, `zm_unbindAll`, `zm_freeEvent`, callbacks | `Events`, `Listeners` |
| State queue | FIFO of `zm_StateQueue`, `last` pointer | `zm_queueAdd`, `zm_queueFindPop` | `StateQueue` |
| Print and dump | the queue while it is printed | `zm_printVM`, `zm_printCallerStack` and the checks they make | `Dump` |
| Machine table | per machine its id, the counter of ids; per VM the table of workers by id, `vm->session`, `vm->plock` | `zm_getWorker`, `zm_mwhSet`, `zm_machineInit`, `zm_machineStep0` | `Machines` |
| VM life | the table, `vm->ptasks` | `zm_newVM`, `zm_freeVM`; `zm_closeVM` | `Machines`; `CloseVM` of `Context`; all three in `Locks` |
| Fatal report | `zmg_err` and the lock of the host (`zm_enableMT`) | `zm_fatalInit`, `zm_fatalDo`, `zm_atFatal`, the dump | `Reports` |
| Examples | a lock with its counter and owner | `acqlck_`, `releaseLock`, `acquirecb` of lock.c and lock2.c | `Locks` |
| Memory, log, macros | none that matters | | not modelled |

They interact by calls only: the host calls `zm_go`, which steps one task by
calling its function; the function calls the library (new subtasks, triggers,
aborts of other contexts) and returns a yield, which `zm_go` carries out. An
event callback is called by the library in the middle of `zm_trigger` and of
an implosion lock. All state is shared through the VM, except the ids of the
machines and `zmg_err`, which are variables of the process.

The behaviours that are hard, and what makes each component correct:

- *Run lists*: a list is changed while its cursor stands in the middle of a
  round. Correct when each runnable task is in exactly one list, once, and the
  cursor cuts the list into what has run in this round and what has not.
- *Scheduler*: filtered and unfiltered calls, pauses in the middle of a round,
  tasks that resume, abort or free others. Correct when the rounds are FIFO,
  no task waits for ever, and the result of `zm_go` tells the truth.
- *Task tree and implosion*: one execution context (a ptask and all below it)
  has one thread of control, that moves along callers. Correct when exactly
  one task of a context has it, whoever waits will be woken, closing goes from
  the leaves to the root and ends, also when the host aborts a context that is
  closing already.
- *Exceptions*: correct when the catcher runs after everything on the path is
  closed and a continue block is kept or closed as a whole.
- *Events*: correct when a bound task is in exactly one ring, is resumed once
  by the trigger that accepts it, and a callback that stops the evaluation or
  refuses the event leaves the others alone.
- *Machine table*: correct when an id is given once, whichever threads need it
  first, and a VM finds the worker it made for a machine again.
- *Fatal report*: correct when reports do not mix, end, and leave no thread
  waiting for a lock. The dump runs in whatever state the error was found in.
- *Locks*: correct when the counter of the lock, which callbacks change, agrees
  with who listens to its event.

`PROJECT.json` lists every hazard at its line with the properties aimed at it.


## Modules

    RunLists            operators on the heap of run lists
      Scheduler         zm_go over ptasks            --implements--> RunQueues
        SchedulerOvertaking  a bound on waiting
        MCScheduler, MCSchedulerOvertaking   instances for TLC
      RunListsProofs    lemmas: what each operator does to well-formed lists
        SchedulerProofs the inductive invariant, the theorems and, for hosts
                        without a filter, that the pointers implement the queues
          OvertakingProofs  (with SchedulerOvertaking) the bound on waiting
    Implosion           operators on the task tree
      Context           execution contexts           --implements--> Branches
        MCContext       instances for TLC
        ContextInvariant  the inductive invariant
          ImplosionProofs what each operator of Implosion does to a good tree
            ContextProofs the actions, the theorems and the refinement
    Events              the rings of bound tasks     --implements--> Listeners
      MCEvents          instances for TLC
      EventsProofs      the inductive invariant, the theorems and that the
                        rings implement the queues
      Locks             a program on top of events: lock.c and lock2.c
        MCLocks         instances for TLC
        LocksProofs     (with EventsProofs) the locks, any number of tasks
    StateQueue          the queue of tasks
      Dump              (with Context) what zm_printVM makes of a tree
    Machines            ids, worker tables, sessions, the life of VMs
      Reports           fatal errors and the lock of the host
        MCReports       instances for TLC
        ReportsProofs   the inductive invariants and the theorems

The groups look at the same tasks from different sides, and each assumes of
the others only what they show:

- `Scheduler` knows which task steps next but its tasks have no subtasks.
- `Context` knows who has control inside a context and lets `zm_go` step any
  runnable task; that each runnable task is stepped is `EveryTaskSteps` of
  `Scheduler`.
- `Events` knows the rings; a task that closes there is one that `Context`
  locks, with its release from the event as the only effect on the ring.
- `Machines` knows which worker a task gets and which session its functions
  see; which task `zm_go` steps may be any.
- `Locks` takes the actions of `Events` for the library, one by one, and runs
  its tasks in any order.

### RunLists and Scheduler

The record `heap` holds the pointers of `zm_Worker` and `zm_VM` under the names
of the C fields, and each operator of `RunLists` returns the record after the C
function of the same name. `zm_State.next` has two meanings in the code (the
next task of the list, or the worker of a suspended task) and keeps both.
`Scheduler` adds the mode of each task (`pmode`), the call of `zm_go` in
progress (`go.pc` is "host" outside zm_go, "loop" between two steps, "step"
while a machine function runs; `go.left` is the rest of `ncycle`, `go.fixed`
says that a machine was given), `pause`, `uncaught` and the flags that the last
call returned (`ret`).

| action | code |
|---|---|
| `NewTask`, `Resume`, `Abort`, `FreeTask`, `Break`, `UCatch` | the API call, from the host or from inside a step |
| `GoCall`, `GoCallFiltered` | entry of `zm_go(vm, n, NULL)` and `zm_go(vm, n, machine)` |
| `GoExhausted`, `GoPause`, `GoIdle` | the three ways `zm_go` returns |
| `GoNextWorker` | the end of a round: rewind, next worker, no cycle used |
| `StepBegin`, `StepEnd` | `zm_goStep` on a task whose function is called, or on one that has ended |
| `YieldContinue`, `YieldSuspend`, `YieldTerm`, `YieldAbort`, `YieldEnd` | what `zm_processTask` does with the yield |

`RunQueues` is the promise without pointers: each worker has the queue of what
is still to run in its round (`todo`) and of what has run or was resumed
meanwhile (`ran`); workers stand in a ring and the first one has the turn.

### Implosion and Context

The record `tree` holds, per task, its mode, parent, children ring, caller
(`comeback`), flags, exception and what its last yield said of exceptions. An
action of `Context` is a machine step together with the one call or yield in it
that matters (`NewSubTask`, `Sub`, `UnraiseHead`, `Close`, `Continue`,
`Suspend`, `YieldCaller`, `Listen`, `Term`, `Raise`, `RaiseContinue`, then
`TermStep`, `AsyncImplode`, `End` in the closing modes), or a call of the host
(`NewTask`, `Resume`, `Abort`, `RequestFree`, `Trigger`, `CloseVM`, `UCatch`).
One step as one action loses nothing: while a task steps, no other task of its
context can run, and calls about other contexts are actions of their own.
`Programs` says which features a program combines; a behaviour keeps to one.
The catch flag of a task outlives the yield that set it until `zm_runTask` clears
it, and every yield replaces the point the flag stands for. So `Yield` takes no
flag away, and `catch` says "stale" of a flag that stands without a point: such a
task is still found by `ExceptionPath`, and fails with YRES.0 when it is resumed
to catch (`ResumePoint`). `Begun` is where the flag goes at the right moment;
`NoInternalFatal` fails when it goes later, or before the exception is there.
A lock and the start of an implosion are functions of the tree (`DeepStack`,
`CheckContinue`, `SetImplodeLock`, `Serialize`, `StartImplosion`) in the order
in which the C code applies them. `Branches` is the promise: closing tasks are
taken out of a forest leaves first, and a task can start to close only with all
that lies below it.

### Events

A task has at most one binder, so `binder[s]` is `zm_State`'s binder with its
ring pointers; `bindlist[e]` and `count[e]` are the fields of `zm_Event`. The
loops of `zm_trigger` and `zm_unbindAll` make one step per binder (`Fetch`,
`UnbindFirst`), so that a property sees the ring in every intermediate state.
Callbacks answer anything the code distinguishes; they may not use the library
(MANUAL.md:1507), so nothing else happens during a loop. `heard` holds the last
callback made and its answer. `Listeners` is the promise: a FIFO queue per
event, and a trigger that offers the event once to each task that listened when
it began.

### StateQueue and Dump

`zm_printCallerStack` puts all the tasks in a queue and takes out one stack of
callers after the other with `zm_queueFindPop`; what is left over, or a task
with two callers, ends the process. `StateQueue` has the cells and the pointers
of the queue, `Dump` the functions on a state of `Context` (`PushStates`,
`PrintCallerStack`, `PrintVM`), and `DumpSucceeds` evaluates them in every state
`Context` reaches: the dump is what a user calls to find out what goes on, and
what a fatal error prints last. These are states between two steps; the dump of a
fatal error in the middle of a step may see a tree that no check covers.

### Machines and Reports

Each thread has a VM of its own, `vm[v]`. `zm_getWorker` is split where another
thread can come between: the unlocked read of `machine->id` (`MwhSet`), the lock
(`LockOn`), the read again (`MachineInit`), the increment (`MachineCount`), the
release (`LockOff`) and the store with the growth of the table (`MwhStore`).
`frames` are the machine functions that run one inside the other: a step, in it
a constructor (`RunInit`), in it another. `Reports` adds what every error does:
`FatalInit` takes the lock of the host for good, `FatalDo` prints,
`FatalPrintDump` prints the VM of an internal error, and may find another error.
The host's lock function is assumed to be one that its owner can take again:
the dump of a broken VM takes it a second time.

### Locks

`kind` is the program. A step of a task is one action, but the release: its
calls of `zm_unbindAll` and `zm_trigger` are the loops of `Events`, and
`stepping` keeps all others out until the task yields. `Acquirecb` is the effect
of the callback on the lock, as a function of the callback that the action of
`Events` made (`heard'`). `main` is where the main function stands.


## Runs

| run | question | bounds |
|---|---|---|
| `Scheduler_safety` | do lists, ring and session stay intact, and is ZM_RUN_IDLE true, for any calls, filtered or not? | 3 tasks, 2 machines, `zm_go` with 0 or 1 cycle |
| `Scheduler_rounds` | do the pointers implement FIFO rounds and turns, and how many steps can another task make before a runnable one has its own? | 3 tasks, 3 machines, unfiltered |
| `Scheduler_liveness` | does every runnable task step, every closing task end, every `zm_go` return? | 2 tasks, 2 machines |
| `Scheduler_exception_flag` | is ZM_RUN_EXCEPTION returned alone, as documents compare it? (no) | 2 tasks, 1 machine |
| `Context_exceptions` | do contexts survive exceptions, blocks, aborts, events and frees at any time, with callers that follow the tree or are siblings, and does the dump succeed all along? | 4 tasks, depth 3, seven programs |
| `Context_liveness` | does what closes end, and does the catcher run? | 3 tasks, depth 2, two programs |
| `Context_block_split` | is a continue block closed as a whole also among siblings? (no) | 3 tasks |
| `Context_abort_over_exception` | does an abort over an exception keep the order? (no, among siblings) | 3 tasks |
| `Events_rings` | do rings, counts and listeners agree during loops, and do loops return? | 3 tasks, 2 events, 3 kinds of callback |
| `Events_refused` | does a refused task stay bound? (no) | 2 tasks, 2 events |
| `Machines_reports` | are ids, worker tables, sessions and reports right when threads race? | 2 threads, 2 machines, 2 tasks, 2 nested functions, tables that grow by 1 |
| `Locks` | do the locks exclude, count and let everybody in, and does main end? | 2 rounds of 3 tasks, the second one unlocks all |

Why the bounds are enough. A list operation looks at the current element, the
one before it and the head; three tasks in one list put the cursor at the head,
in the middle and at the end with a task on each side, and three workers do the
same for the ring. `zm_go` with one cycle returns after each step, and a host
that calls it again makes every longer call; zero cycles is the boundary case.
In a context the smallest trees that tell the orders apart are a chain of three
below the root (depth) and two siblings with a child (breadth): four tasks hold
them. Contexts only meet in the host's calls
and in `vm->uncaught`, so the programs with several of them ("contexts") use
few of the other features; the others have one ptask at a time. The programs
together use each feature; what one feature can do to another is checked where
a program has both. Two threads make every race of two, and a third could only wait
for the lock; two machines are an id that is taken and one that is not; a table
that grows by one (`HlistInc`, 8 in the code) is too short whenever it can be.
`MaxTasks` counts the tasks of all the VMs and `MaxInits` (3) lets one report
more happen than is allowed. In `Locks` three tasks are one that has the lock
and two that wait, which is what a hand-over to the first tells apart; four
tasks and rounds to match were run too (96,123 states). Names are symmetric in
the safety runs of the scheduler, the contexts and the machines; the
runs with liveness properties use none. A freed identity is
used again by a new task, so nothing depends on names running out. In
`Scheduler_safety` tasks are created with `zm_newTask` only (`AutoFree =
{FALSE}`), which includes the behaviours of tasklets: zm_freeTask on a closing
task turns it into one. In `Context` a program with "free" uses `zm_newTask`
and `zmNewSubTask`, any other uses the tasklets.

Each property has a mutant in `PROJECT.json`: a plausible slip in one
definition (a cursor left behind, a binder linked one way, a chain without its
tail) that the run detects. The mutated forms stand before the definitions they
replace, under its name and a suffix.

Checks that the code calls internal errors (`ZM_FATAL_U1`, `ZM_FATAL_UP`) are
recorded in `fatal` and `NoInternalFatal` says that they never fail. What the
library reports as an error of the user (`ZM_FATAL_GCODE`, `TCODE`, `YCODE`) is
excluded by guards: a program that meets one has ended.


## Fairness

- `Scheduler`: weak fairness of the loop of `zm_go` and of the yields (the code
  has no waits, and a machine function is assumed to return), and strong
  fairness of the call `zm_go(vm, n, NULL)` with n > 0: the host may do other
  things in between, but calls it again and again. A host that only makes
  filtered calls, or alternates them with one-cycle calls, can starve a worker;
  no document promises otherwise, and the liveness run has no filter.
- `Context`: weak fairness of the step of each runnable task, which is
  `EveryTaskSteps`.
- `Events`: weak fairness of the loops of the library.
- `Locks`: weak fairness of the next step of the whole program, which runs in
  one thread and has no waits: main calls `zm_go` until nothing is left to do.
- `Machines` and `Reports` have no fairness: a thread that waits for the lock
  waits for what a host's lock promises. `HolderGoesOn` is what the library adds:
  the owner is on its way to release it or to end the process.


## What is proved

TLAPS checks the following for every number of tasks, machines and events. The
assumptions are those stated in the modules: NULL is no task, machine or event,
and constants have their types. Three theorems or groups of them have a
hypothesis besides, which is stated with them: `Filter = {}` for the two that
compare the scheduler with its queues, `NoSiblings` for those about `Context`.

`SchedulerProofs`: `TypeOK`, `NoInternalFatal`, `ListsWellFormed`,
`RingWellFormed` and `SessionInSync` are invariants and `IdleMeansIdle` holds of
every step. None of them is inductive alone. The invariant is

    IInv == TypeOK /\ WellFormed(heap, Lists) /\ ModesAgree
                   /\ SessionOpen /\ SessionInSync

`WellFormed` gives each worker a witness: a sequence of its tasks and the number
of those that its cursor has passed; and the ring a sequence of workers from the
cursor on. It needs `ModesAgree` (who runs, waits or closes, so that a resume is
given a task that is in no list) and `SessionOpen` (the task of an open step is
live, on its own worker, and not unlinked yet, so that the unlink of a yield
takes out the right one). `SessionInSync` is part of it because
`zm_unlinkCurrentState` removes the session's worker from the ring and moves the
cursor of the VM only when the two agree. `RunListsProofs` has, per operator,
the lemma that from well-formed structures over some sets of tasks it makes
well-formed structures over the sets with the task added or removed
(`ResumeWF`, `UnlinkWF`, `SuspendWF`, `NextWF`, `RewindWF`, `NextWorkerWF`); each
names the new witness explicitly. `SchedulerProofs` then has one lemma per action.
`IdleIsIdle` follows from the invariant and a case split on how zm_go returns.

`EventsProofs`: `TypeOK`, `NoInternalFatal`, `RingsWellFormed` and
`ListenersWait` are invariants. The invariant is

    IInv == TypeOK /\ RingsWellFormed /\ ListenersWait /\ RunnersExist
                   /\ CallInv /\ NoInternalFatal

`CallInv` says where a loop stands: a trigger is on the head of the ring, since
it releases all that it passes, and has as many turns left as the event counts.
Without it `Fetch` could be given a released binder. `RunnersExist` is what makes
a task that starts to listen an existing one. `BindEventInv` and
`UnlinkBinderInv` carry the rings: the new ring is the old one with a task
appended, or with the k-th left out (`SkipNeighbours` is the index arithmetic).

`ReportsProofs`: `IdsAreDistinct`, `HolderGoesOn`, `ReportsAreWhole` and
`SecondErrorIsLast` are invariants for any threads and machines. The invariant
is the conjunction of a type invariant and

- `LockHeld`: a thread between `zm_lockOn` and `zm_lockOff`, or printing, is the
  owner of the lock; with `CountExact`, the id about to be given is the counter
  and the machine has none yet, which only the second test under the lock makes
  true;
- `Stages`: from the first `zm_fatalInit` on the lock has an owner that prints,
  and how many errors were begun is known from where it stands.

Its second part: `WorkersAreFound`, `SessionIsInnermost` and the type invariant
of `Reports` are invariants, for any threads and machines, tables that grow by
any amount and constructors nested to any bound. The invariant is the one above
together with `WInv`, which has for each VM

- `WorkersExist` and `EntriesRight`: an entry of the table is a worker that was
  allocated, at the id of its machine, and no machine has two workers. An id
  that was given is never changed, which is `IInv`'s, and keeps the tables of
  the other VMs right while a thread gives a new one;
- `CallInv`: in the middle of `zm_getWorker` the worker to be stored is the last
  one allocated, and from the release of the lock on its machine has an id;
- `FramesInv`: each machine function on the stack saved the session of the one
  below it, and `plock` as it was, so that a return restores the right one. The
  property says it of the innermost only, which a return does not keep.

`LocksProofs`: `MutualExclusion` and `LockedCounts` are invariants of the program
of `Locks`, for any number of tasks, waiters and rounds, on the invariant of
`Events`, which each step of the program keeps because it is made of steps of
`Events`. The invariant is `LInv`: who listens will go on with the lock in hand
(`Whereabouts`), one task at most has it and is the owner of a lock2
(`OneHolder`), and the count in the middle of a release, where nobody has the
lock and the callback takes one off for each task it wakes (`Counts`,
`Unlocking`). The properties speak of the time between steps only. That the
callback hands the lock to one task, and not to all that listen, needs the
fairly precise fact that the trigger stops after its first.

`EventsProofs`, second part: `Spec => ImplementsListeners`. The queue of an event is the walk
of `count[e]` binders from its list, the offer of a trigger the walk of what it
has left. The lemmas of the first part about a step name the ring that comes
after it (`Appended`, `Removed`); `SequenceOfRing` says that the walk of a ring
is this ring, so a step of the pointers is an append, a removal or nothing
(`JoinStep`, `LeaveStep`, `TriggerStep`, `OfferStep`). That two walks agree is a
fact about all lengths; instead of induction, which needs a theorem with an
operator parameter, it is proved from the least place where they would differ
(`Least`, from the library's theorem on minimal elements of well-founded
relations). The queue of a trigger in progress is the rest of its event's queue
only because `CallInv` has it at the head of the ring.

`SchedulerProofs`, second part: `Filter = {} => (Spec => ImplementsQueues)`, the refinement of
`RunQueues`. The assumption is that of the run: a filtered call runs a worker
out of its turn and a part of its round, so the promise is about hosts that make
none. The invariant is `IInv` of the first part with `~go.fixed`. `WellFormed`
says that some witness shows the list; here each witness is the only one
(`Shown`, `RingShown`: what following the pointers gives, by least
counterexample again), so the witness *is* the queue, and what `RunListsProofs`
does to witnesses is what happens to the queues. `ResumeQueues`, `UnlinkQueues`,
`SuspendQueues`, `RewindQueues` and `NextWorkerQueues` say it per operator, and
one lemma per action (`KeepStep`, `DropStep`, `DropAndResumeStep`, ...) composes
them into an action of `RunQueues`. The one place where the pointers and the
queues are at different points is the end of a round, where the cursor may be
at the end of the list until `zm_go` looks at it again (`PickedQueues`).

`OvertakingProofs`: `Filter = {} => (OSpec => []OvertakenAtMostTwice)`, for any two
tasks, because `Patient` and `Hasty` are any constants. The counter alone says
nothing of what Hasty can still do. `Overtaking`, the invariant, says it with the
queues: what Hasty may do before Patient is one step in the round in which
Patient waits for its next one (`Waits`) and one in the round in which Patient
is to run, and each step uses one up. `Ahead` is that Hasty has a step to make
before the turn comes to Patient: it is in an earlier place of the same round, or
to do on a worker that comes earlier in the ring. One overtaking with `Waits` and
`Ahead` together, or two and either of them, are excluded. The steps are those of
`RunQueues`, by the lemmas of `SchedulerProofs`: no resume, rotation, yield or end
puts Hasty ahead of Patient (`ResumeAhead`, `RotateAhead`, `KeepAhead`,
`LeaveAhead`), and when Hasty is the one to step, either it was ahead or the
round of Patient has just begun (`TurnAhead`).

`ImplosionProofs` and `ContextProofs`: `TypeOK`, `NoInternalFatal`, `OneRunner`,
`ClosersFirst`, `NoDangling` and `NobodyForgotten` are invariants of `Context`,
`LeavesToRoot` and `BlocksWhole` hold of every step, and `Spec =>
ImplementsBranches`; for any number of tasks and contexts of any depth and
breadth, exceptions, aborts, blocks, events and frees in any combination. The
hypothesis is `NoSiblings`: no program of `Programs` has the feature "sibling",
a subtask that resumes one which is not its child. With it two of the
properties are false (findings 2 and 3 below), and no invariant of this kind
can tell where they still hold; `Context_exceptions` has two programs with
siblings, for which all nine are model-checked only.

What TLC checks by walking chains of callers and branches an invariant has to say
without. `ContextInv` (in `ContextInvariant`) says that labels fit the tree: `d`
grows from parent to child, `r` is the root, `b` the head of the continue block a
task is in, `p` a time at which what closes will end. That an order or a block is
right is then a comparison of the labels of two neighbours:

- `Tree`, `RootOK`: rings and parents agree, below what closes all closes;
- `RunOK`, `CallOK`, `WakeOK`: one task of a context has control, a caller waits
  and for one task, and whoever waits or closes has somebody to resume it;
- `BlockOK`: the tasks of a block are a path of waiting tasks up to its head,
  which nobody else resumes. It is what makes a test of the heads alone, that of
  `zm_checkContinue`, enough: a closed branch with a part of a block has its head;
- `CloseOK`, `StartOK`: `p` grows along callers and from child to parent, so that
  the chain and the tree agree on who is last; in a context whose root stays,
  what closes hangs on one task, which resumes the catcher; an aborted task that
  runs keeps the start of the implosion, and nobody else resumes it;
- `GoneOK`, `ExcOK`: what ended leaves no reference; exceptions and marks are
  where they are looked for, and who has an exception to catch still has the
  flag and the point of the yield that said so.

None of these is inductive without the others. `CloseOK` for instance needs
`WakeOK` for the one task that an abort finds in control, and `WakeOK` needs
`BlockOK` for those that wait in a block which is about to close.

`ImplosionProofs` has the operators first. What they compute is recursive: a chain
of callers, the stack of `zm_deepLock`, the sequences of `FlattenSeq`. `Recursion`
and `IterationsAgree` prove, from the least number where it fails, that such a
definition has its function, and `ChainIs`, `DeepStackIs`, `ByDeepIs`,
`SerializeIs` say by their elements and their order what the results are. Then,
per change the library makes to a tree, a lemma of the form "from a good tree to
a good tree" with its new labels. `CutKeeps` is the central one: whenever a set of
tasks that is closed under children, that has the whole of each block or nothing
of it, and that nobody outside resumes, closes along a chain with some new `p`,
the tree stays good. zmTERM, zmCLOSE, zm_abort, zm_closeVM and both kinds
of exceptions are shown to be such a cut (`LockAndImplodeIs`, `AbortKeeps`,
`RaisedCut`), by `StartIs` in each of the three ways an implosion can start: at
once, after the task that runs, after what closes already.

`ContextProofs` composes them into the actions. Each is shown to be `Stepped`: the
new tree is good, and the step adds a task, begins to close whole branches and
blocks, takes a leaf out, or does none of these (`Outcome`). The invariant follows
from the first half, `LeavesToRoot`, `BlocksWhole` and the refinement from the
second. `NobodyForgotten` needs one more walk: from a waiting task along whoever
is to resume it one comes to a task in control, because `p` and `d` cannot fall
for ever.

Only model-checked: the liveness properties (out of reach of this prover);
`DumpSucceeds`, because the queue of the dump is a recursive operator that the
prover cannot use; and the programs of `Context` where a subtask resumes a
sibling.


## Where the code and its documents disagree

Four runs look for a violation and find it; `PROJECT.json` has the details.

1. zm_go returns ZM_RUN_EXCEPTION together with ZM_RUN_AGAIN (zm.c:5033), the
   manual compares for equality (`Scheduler_exception_flag`).
2. A continue block among siblings can be closed in part (zm.c:2443,
   `Context_block_split`).
3. An abort of the host over an exception that closes two siblings cuts one of
   them out of the chain (zm.c:2593, `Context_abort_over_exception`).
4. ZM_EVENT_REFUSED is 0 and is tested with `&` (zm.c:3709), so a refused task
   is released all the same (`Events_refused`).

Others need no run: zm_unbind never reads its event (zm.c:3841) though the
manual says that it returns 0 for another one (MANUAL.md:1455), and
zm_unbindEvent calls the callback whatever the scope it was set for (zm.c:3636,
MANUAL.md:1473). `Events` models what the code does. After a task has ended and
its memory is released `vm->session.state` still refers to it, and the report of
an error made then reads it (zm.c:540; AddressSanitizer reports it for a
`zm_freeVM` that is refused after a tasklet has ended). examples/lock2.c returns
from a release that nobody waits for before it resets the counter (lock2.c:87),
so the lock stays taken: of the 16 tasks of the example the last eight wait until
`zm_closeVM`. `LockedCounts` states both programs as they are.

The safety runs of `Context` keep apart the features whose combination leads to
2 and 3: siblings as callers with continue blocks, and siblings with both
exceptions and aborts.


## What is not modelled

- The text of prints and reports, the debug log, the wrappers of malloc: no
  state of the library depends on them. Of the checks of the dump those of the
  worker ring (PRNTVM.1, PRNTVM.2) are left out: `RingWellFormed` implies them.
- The macro language: a task is any sequence of calls and yields; resume points
  (`zmNEXT`), arguments and local data are left out, and with them the checks
  about a resume point that is missing, but for the point of a task that is to
  catch (YRES.0).
- `ZM_INIT` steps outside of `Machines`: the constructor is folded into the
  creation of the task.
- `zmCatch` in ZM_TERM, arguments of exceptions and traces.
- Programs that stop with CONTBREAK: closing a part of a continue block, when
  the library detects it, is an error of the user, excluded by `Becomes`.
- `zm_queuePop0` and the other functions of the queue that only programs use.
- What a report prints of `vm->session` (above): `Machines` drops the session
  after a step.
- The host's lock, which is not part of the library.
- The other examples: search.c, fibonacci.c and those that show one feature.


## Plan

Built so far, in this order: `RunLists`, `Scheduler`, `RunQueues` and their
proofs, because every other part runs inside `zm_go`; `Implosion`, `Context`,
`Branches`, the part with the most intricate control; `Events`, `Listeners`
and their proofs; then `StateQueue`, `Dump`, `Machines`, `Reports` and `Locks`,
and the proofs about reports, worker tables, locks, both kinds of queue and
overtaking; last the invariant of `Context` and its proofs. Next:

1. Scheduler with Context: `zm_go` over trees, so that the order in which a
   context's closing tasks are stepped is the scheduler's.
2. `vm->uncaught`, which belongs to the VM and outlives the exception that set
   it (hazard at zm.c:4745).
3. An invariant for programs where subtasks resume siblings: callers without the
   tree, weak enough for findings 2 and 3.
