------------------------------- MODULE Locks -------------------------------
(***************************************************************************)
(* A program that uses virtual events: the task locks of examples/lock.c   *)
(* and examples/lock2.c.  A task that finds the lock taken listens to the  *)
(* event of the lock; the task that releases it triggers the event, and    *)
(* the callback acquirecb hands the lock to the first that listens.  In    *)
(* lock2.c the lock knows its owner, and the task with id UnlockId unbinds *)
(* all those that wait.                                                    *)
(*                                                                         *)
(* main creates TasksPerRound tasks and runs them until zm_go has nothing  *)
(* to do, for a number of rounds, and then closes and frees the VM.  Tasks *)
(* run in any order: who uses the lock need not rely on zm_go's.           *)
(***************************************************************************)
EXTENDS Events

CONSTANTS
    Kinds,          \* "lock" for lock.c, "lock2" for lock2.c
    Rounds,         \* the rounds of main
    TasksPerRound,  \* NTASKS
    UnlockId        \* the id of the task that unlocks all, 5 in lock2.c

ASSUME KindsAssumption  == Kinds \subseteq {"lock", "lock2"}
ASSUME EventAssumption  == Event # {}
ASSUME RoundsAssumption == {Rounds, TasksPerRound, UnlockId} \subseteq Nat \ {0}

VARIABLES
    kind,       \* the program
    lock,       \* the Lock: how many hold it or wait for it, and its owner
    shared,     \* the resource is open
    at,         \* the resume point of each task, "NONE" while it does not exist
    counter,    \* the id of the next task
    unlocker,   \* the task with UnlockId, or NULL
    stepping,   \* the task in the middle of its step, or NULL
    main,       \* where main is, or how the program exited
    round,      \* the current round
    created     \* the tasks created in this round

ev    == CHOOSE e \in Event : TRUE
lvars == <<kind, lock, shared, at, counter, unlocker, stepping, main, round, created>>
host  == <<main, round, created>>
----------------------------------------------------------------------------
(* The lock. *)

Acquirecb_Stops ==
    lock' = IF heard' # Silence /\ heard'.task = NULL /\ heard'.answer = "REFUSED"
            THEN [lock EXCEPT !.locked = 0]
            ELSE lock

(* acquirecb: asked about a trigger it frees a lock nobody waits for;      *)
(* called for a task, in whatever scope, it gives it the lock.             *)
Acquirecb ==
    IF heard'.task # NULL
    THEN lock' = [locked |-> lock.locked - 1,
                  owner  |-> IF kind = "lock2" THEN heard'.task ELSE NULL]
    ELSE lock' = IF heard' # Silence /\ heard'.answer = "REFUSED"
                 THEN [lock EXCEPT !.locked = 0] ELSE lock

(* A trigger nobody waits for is refused. *)
Answer == IF lock.locked <= 1 THEN "REFUSED" ELSE "ACCEPTED"

Taken(s) == [locked |-> 1, owner |-> IF kind = "lock2" THEN s ELSE NULL]

(* releaseLock *)
ReleaseLock(s) ==
    /\ IF kind = "lock2" /\ lock.locked <= 1
       THEN UNCHANGED <<vars, lock, main>>
       ELSE IF kind = "lock2" /\ s # lock.owner
            THEN main' = "not owner" /\ UNCHANGED <<vars, lock>>
            ELSE Trigger(ev, Answer) /\ Acquirecb /\ UNCHANGED main
    /\ UNCHANGED <<round, created>>
----------------------------------------------------------------------------
(* The steps of a task. *)

Goes(s) == Ready /\ main = "go" /\ stepping = NULL /\ s \in run \ closing

GoesTo(s, p) == at' = [at EXCEPT ![s] = p]

InitStep(s) ==
    /\ Goes(s) /\ at[s] = "INIT"
    /\ GoesTo(s, "ACQUIRE")
    /\ counter'  = counter + 1
    /\ unlocker' = IF counter = UnlockId THEN s ELSE unlocker
    /\ UNCHANGED <<vars, kind, lock, shared, stepping, host>>

AcquireStep_Uncounted(s) ==
    /\ Goes(s) /\ at[s] = "ACQUIRE"
    /\ GoesTo(s, "PROCESS")
    /\ IF lock.locked = 0
       THEN lock' = Taken(s) /\ UNCHANGED vars
       ELSE UNCHANGED lock /\ Listen(s, ev)
    /\ UNCHANGED <<kind, shared, counter, unlocker, stepping, host>>

(* acqlck_, and the yield of taskLOCK *)
AcquireStep(s) ==
    /\ Goes(s) /\ at[s] = "ACQUIRE"
    /\ GoesTo(s, "PROCESS")
    /\ IF lock.locked = 0
       THEN lock' = Taken(s) /\ UNCHANGED vars
       ELSE lock' = [lock EXCEPT !.locked = @ + 1] /\ Listen(s, ev)
    /\ UNCHANGED <<kind, shared, counter, unlocker, stepping, host>>

(* open_resource *)
ProcessStep(s) ==
    /\ Goes(s) /\ at[s] = "PROCESS"
    /\ IF shared THEN main' = "race" /\ UNCHANGED <<shared, at>>
       ELSE shared' = TRUE /\ GoesTo(s, "RELEASE") /\ UNCHANGED main
    /\ UNCHANGED <<vars, kind, lock, counter, unlocker, stepping, round, created>>

(* close_resource, and the unlock of all or the release of the lock. *)
ReleaseStep(s) ==
    /\ Goes(s) /\ at[s] = "RELEASE"
    /\ shared'   = FALSE
    /\ stepping' = s
    /\ IF kind = "lock2" /\ s = unlocker
       THEN UnbindAll(ev) /\ GoesTo(s, "UNLOCK") /\ UNCHANGED <<lock, host>>
       ELSE ReleaseLock(s) /\ GoesTo(s, "TERM")
    /\ UNCHANGED <<kind, counter, unlocker>>

(* The task that unlocked all goes on to release the lock. *)
UnlockStep(s) ==
    /\ Ready /\ main = "go" /\ stepping = s /\ at[s] = "UNLOCK"
    /\ ReleaseLock(s) /\ GoesTo(s, "TERM")
    /\ UNCHANGED <<kind, shared, counter, unlocker, stepping>>

(* zmyield zmTERM, in the step of the release or when it was aborted *)
TermStep(s) ==
    /\ main = "go"
    /\ \/ stepping = s /\ at[s] = "TERM"
       \/ Goes(s) /\ at[s] = "ABORT"
    /\ Abort(s) /\ Acquirecb
    /\ stepping' = NULL
    /\ GoesTo(s, "TERM")
    /\ UNCHANGED <<kind, shared, counter, unlocker, host>>

(* The ZM_TERM step. *)
EndStep(s) ==
    /\ main \in {"go", "drain"} /\ stepping = NULL
    /\ End(s)
    /\ GoesTo(s, "NONE")
    /\ unlocker' = IF s = unlocker THEN NULL ELSE unlocker
    /\ UNCHANGED <<kind, lock, shared, counter, stepping, host>>

FetchTurn_NoStop ==
    /\ Fetch("ACCEPTED", FALSE) /\ Acquirecb
    /\ UNCHANGED <<kind, shared, at, counter, unlocker, stepping, host>>

(* A turn of the loop of zm_trigger, with the callback's answer for a task *)
(* ACCEPTED | STOP.                                                        *)
FetchTurn ==
    /\ Fetch("ACCEPTED", TRUE) /\ Acquirecb
    /\ UNCHANGED <<kind, shared, at, counter, unlocker, stepping, host>>

(* A turn of the loop of zm_unbindAll: the task resumes at ABORT, set with *)
(* zmUNBIND.                                                               *)
UnlockTurn ==
    /\ UnbindFirst /\ Acquirecb
    /\ GoesTo(bindlist[ev], "ABORT")
    /\ UNCHANGED <<kind, shared, counter, unlocker, stepping, host>>

UnlockEnd ==
    /\ UnbindAllEnd
    /\ UNCHANGED lvars
----------------------------------------------------------------------------
(* main. *)

NewLock ==
    /\ main = "new lock"
    /\ NewEvent(ev, [set |-> TRUE, flag |-> {"TRIGGER"}])
    /\ main' = "create"
    /\ UNCHANGED <<kind, lock, shared, at, counter, unlocker, stepping, round, created>>

(* zm_newTasklet, and zm_resume of the last one made. *)
Unborn == CHOOSE s \in Task : s \notin tasks

Create ==
    /\ main = "create" /\ created < TasksPerRound
    /\ tasks # Task /\ NewTask(Unborn)
    /\ GoesTo(Unborn, "NEW")
    /\ created' = created + 1
    /\ UNCHANGED <<kind, lock, shared, counter, unlocker, stepping, main, round>>

Start(s) ==
    /\ main = "create" /\ at[s] = "NEW" /\ Resume(s)
    /\ GoesTo(s, "INIT")
    /\ UNCHANGED <<kind, lock, shared, counter, unlocker, stepping, host>>

Go ==
    /\ main = "create" /\ created = TasksPerRound
    /\ \A s \in Task : at[s] # "NEW"
    /\ main' = "go"
    /\ UNCHANGED <<vars, kind, lock, shared, at, counter, unlocker, stepping, round, created>>

(* zm_go has nothing to do: the next round, or zm_closeVM. *)
Idle ==
    /\ Ready /\ main = "go" /\ stepping = NULL /\ run = {}
    /\ IF round < Rounds THEN main' = "create" /\ round' = round + 1 /\ created' = 0
       ELSE main' = "close" /\ UNCHANGED <<round, created>>
    /\ UNCHANGED <<vars, kind, lock, shared, at, counter, unlocker, stepping>>

Close(s) ==
    /\ main = "close"
    /\ Abort(s) /\ Acquirecb
    /\ GoesTo(s, "TERM")
    /\ UNCHANGED <<kind, shared, counter, unlocker, stepping, host>>

Closed ==
    /\ main = "close" /\ tasks = closing
    /\ main' = "drain"
    /\ UNCHANGED <<vars, kind, lock, shared, at, counter, unlocker, stepping, round, created>>

(* zm_freeVM, which wants all tasks to have ended, and freeLock *)
FreeLock ==
    /\ main = "drain" /\ tasks = {}
    /\ FreeEvent(ev)
    /\ main' = "done"
    /\ UNCHANGED <<kind, lock, shared, at, counter, unlocker, stepping, round, created>>
----------------------------------------------------------------------------
LInit ==
    /\ Init
    /\ kind \in Kinds
    /\ lock = [locked |-> 0, owner |-> NULL]
    /\ shared = FALSE /\ counter = 1 /\ unlocker = NULL /\ stepping = NULL
    /\ at = [s \in Task |-> "NONE"]
    /\ main = "new lock" /\ round = 1 /\ created = 0

TaskStep(s) ==
    \/ InitStep(s) \/ AcquireStep(s) \/ ProcessStep(s) \/ ReleaseStep(s)
    \/ UnlockStep(s) \/ TermStep(s) \/ EndStep(s)

Main ==
    \/ NewLock \/ Create \/ Go \/ Idle \/ Closed \/ FreeLock
    \/ \E s \in Task : Start(s) \/ Close(s)

LNext ==
    \/ FetchTurn \/ UnlockTurn \/ UnlockEnd \/ Main
    \/ \E s \in Task : TaskStep(s)

(* The program runs on until it exits. *)
LSpec == LInit /\ [][LNext]_<<vars, lvars>> /\ WF_<<vars, lvars>>(LNext)
----------------------------------------------------------------------------
(* Properties. *)

Holders == {s \in Task : at[s] \in {"PROCESS", "RELEASE"} /\ s \notin locked}

(* One task at a time has the lock, so that open_resource never finds the  *)
(* resource open, and who releases a lock2 others wait for is its owner,   *)
(* through the hand-overs and the unlock of all.                           *)
MutualExclusion ==
    /\ Cardinality(Holders) <= 1
    /\ main \notin {"race", "not owner"}
    /\ fatal = "none"

(* Between the steps of the tasks a lock counts who holds it and who waits *)
(* for it.  A lock2 counts one more than wait for it from the first time   *)
(* it is taken: released when nobody waits, or unlocked, it stays taken,   *)
(* and no task ever has it again.                                          *)
LockedCounts ==
    Ready /\ stepping = NULL =>
        \/ lock.locked = Cardinality(Holders) + Cardinality(locked)
        \/ kind = "lock2" /\ Holders = {} /\ lock.locked = 1 + Cardinality(locked)

(* Who asks for the lock of lock.c gets it: the callback that hands it     *)
(* over misses nobody, in whatever order they came.                        *)
LockGranted ==
    \A s \in Task : kind = "lock" /\ at[s] = "ACQUIRE" ~> at[s] = "RELEASE"

(* main gets to its end: zm_closeVM brings home those that wait for a lock *)
(* nobody will release, and the event has no binder left when it is freed. *)
ProgramEnds == <>(main = "done")
=============================================================================
