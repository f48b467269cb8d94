----------------------------- MODULE LocksProofs -----------------------------
(***************************************************************************)
(* Theorems about the task locks of Locks, for any number of tasks, rounds *)
(* and waiters, in any order.  They rest on the invariant of Events, which *)
(* every step of the program keeps.                                        *)
(***************************************************************************)
EXTENDS Locks, EventsProofs, FiniteSetTheorems

Points == {"NONE", "NEW", "INIT", "ACQUIRE", "PROCESS", "RELEASE", "UNLOCK", "TERM", "ABORT"}

LockTypes ==
    /\ kind \in {"lock", "lock2"}
    /\ lock \in [locked : Nat, owner : Task \cup {NULL}]
    /\ shared \in BOOLEAN
    /\ at \in [Task -> Points]
    /\ stepping \in Task \cup {NULL}
    /\ main \in {"new lock", "create", "go", "close", "drain", "done"}

LockCallback == [set |-> TRUE, flag |-> {"TRIGGER"}]

(* There is one event, and its loops run in the middle of a step. *)
LockEvent ==
    /\ events \subseteq {ev}
    /\ ev \in events => evcb[ev] = LockCallback
    /\ call.kind # "none" => call.event = ev /\ stepping # NULL
    /\ call.kind = "unbindAll" => kind = "lock2"

(* Who waits for the lock goes on at PROCESS; who has it can run. *)
Whereabouts ==
    /\ \A s \in locked : at[s] = "PROCESS"
    /\ \A s \in closing : s \in tasks /\ at[s] = "TERM"
    /\ \A s \in Holders : s \in run
    /\ stepping # NULL => main = "go" /\ at[stepping] \in {"UNLOCK", "TERM"}

OneHolder ==
    /\ \A s, t \in Holders : s = t
    /\ kind = "lock2" => \A s \in Holders : lock.owner = s
    /\ shared <=> \E s \in Holders : at[s] = "RELEASE"
    /\ main \in {"close", "drain", "done"} => Holders = {}

(* Whoever waits is counted, and so is who has the lock.  While a loop     *)
(* hands the lock over nobody has it, but it is still counted.             *)
Counts ==
    /\ Holders # {} => lock.locked = 1 + Cardinality(locked)
    /\ Holders = {} /\ kind = "lock" /\ call.kind = "none" => lock.locked = Cardinality(locked)
    /\ lock.locked \in {Cardinality(locked), 1 + Cardinality(locked)}
    /\ call.kind # "none" => Holders = {} /\ lock.locked = 1 + Cardinality(locked)

(* After the unlock of all nobody waits, and the lock2 stays taken. *)
Unlocking ==
    \A s \in Task : at[s] = "UNLOCK" =>
        /\ kind = "lock2" /\ stepping = s /\ Holders = {} /\ lock.locked = 1 + Cardinality(locked)
        /\ call.kind # "trigger" /\ (call.kind = "none" => locked = {})

LInv == LockTypes /\ LockEvent /\ Whereabouts /\ OneHolder /\ Counts /\ Unlocking
----------------------------------------------------------------------------
LEMMA EvIsEvent == ev \in Event /\ ev # NULL
  BY EventAssumption, NullAssumption DEF ev

(* What Events says of those that listen. *)
LEMMA Waiters ==
  ASSUME IInv
  PROVE  /\ locked \subseteq Task /\ IsFiniteSet(locked) /\ Cardinality(locked) \in Nat
         /\ Cardinality(locked) = 0 <=> locked = {}
         /\ locked \cap run = {} /\ locked \cap closing = {}
         /\ run \subseteq tasks /\ locked \subseteq tasks /\ tasks \subseteq Task /\ fatal = "none"
<1>1. locked \subseteq Task /\ locked \cap run = {} /\ locked \cap closing = {} /\ run \subseteq tasks
      /\ locked \subseteq tasks /\ tasks \subseteq Task /\ fatal = "none"
  BY DEF IInv, TypeOK, ListenersWait, RunnersExist, NoInternalFatal
<1>2. IsFiniteSet(locked)
  BY <1>1, TaskAssumption, FS_Subset
<1> QED BY <1>1, <1>2, FS_CardinalityType, FS_EmptySet

LEMMA FewerWaiters ==
  ASSUME IInv, NEW s \in locked, locked' = locked \ {s}
  PROVE  Cardinality(locked') = Cardinality(locked) - 1 /\ Cardinality(locked) > 0
<1>1. Cardinality(locked) \in Nat /\ Cardinality(locked) # 0 /\ IsFiniteSet(locked)
  BY Waiters
<1>2. Cardinality(locked \ {s}) = Cardinality(locked) - 1
  BY <1>1, FS_RemoveElement
<1> QED BY <1>1, <1>2

LEMMA MoreWaiters ==
  ASSUME IInv, NEW s, s \notin locked, locked' = locked \cup {s}
  PROVE  Cardinality(locked') = Cardinality(locked) + 1
  BY Waiters, FS_AddElement

(* Who listens listens to the event of the lock, and the first is in the   *)
(* list.                                                                   *)
LEMMA HeadListens ==
  ASSUME IInv, LInv
  PROVE  /\ \A s \in locked : binder[s].event = ev /\ ev \in events /\ evcb[ev] = LockCallback
         /\ bindlist[ev] # NULL => bindlist[ev] \in locked
         /\ bindlist[ev] = NULL => locked = {}
<1>1. \A s \in locked : binder[s].event = ev /\ ev \in events /\ evcb[ev] = LockCallback
  BY DEF IInv, ListenersWait, LInv, LockEvent
<1>2. RingsType /\ RingsWellFormed
  BY DEF IInv, TypeOK, RingsType
<1>3. /\ bindlist[ev] = NULL <=> count[ev] = 0
      /\ count[ev] = 0 => \A t \in Task : binder[t].event # ev
      /\ bindlist[ev] # NULL => bindlist[ev] \in Task /\ binder[bindlist[ev]].event = ev
  BY <1>2, EvIsEvent, EmptyRing
<1>4. bindlist[ev] # NULL => bindlist[ev] \in locked
  BY <1>3, EvIsEvent DEF IInv, ListenersWait
<1>5. bindlist[ev] = NULL => locked = {}
  BY <1>1, <1>3, Waiters
<1> QED BY <1>1, <1>4, <1>5

(* acquirecb is called for a task that is released: the lock is its. *)
LEMMA HandedOver ==
  ASSUME IInv, LInv, NEW s \in locked, UnbindEvent(s), Acquirecb, UNCHANGED <<kind>>,
         NEW scope, NEW answer, heard' = Heard(ev, scope, s, answer)
  PROVE  /\ s \in Task /\ at[s] = "PROCESS"
         /\ lock' = [locked |-> lock.locked - 1, owner |-> IF kind = "lock2" THEN s ELSE NULL]
         /\ locked' = locked \ {s} /\ run' = run \cup {s}
         /\ Cardinality(locked') = Cardinality(locked) - 1
         /\ Cardinality(locked) \in Nat \ {0} /\ lock.locked \in Nat \ {0}
<1>1. s \in Task /\ s # NULL /\ at[s] = "PROCESS"
  BY Waiters, NullAssumption DEF LInv, Whereabouts
<1>2. heard' # Silence /\ heard'.task = s
  BY <1>1, EvIsEvent DEF Heard, Silence
<1>3. lock' = [locked |-> lock.locked - 1, owner |-> IF kind = "lock2" THEN s ELSE NULL]
  BY <1>1, <1>2 DEF Acquirecb
<1>4. locked' = locked \ {s} /\ run' = run \cup {s}
  BY Released
<1>5. /\ Cardinality(locked') = Cardinality(locked) - 1
      /\ Cardinality(locked) \in Nat /\ Cardinality(locked) > 0
  BY <1>4, FewerWaiters, Waiters
<1>6. lock.locked \in {Cardinality(locked), 1 + Cardinality(locked)}
  BY DEF LInv, Counts
<1> QED BY <1>1, <1>3, <1>4, <1>5, <1>6
----------------------------------------------------------------------------
(* The steps of Events that the program makes keep its invariant. *)

LEMMA ReleaseLockEvents ==
  ASSUME IInv, NEW s \in Task, ReleaseLock(s)
  PROVE  IInv'
<1>1. Answer \in Answers
  BY DEF Answer, Answers
<1> QED BY <1>1, EvIsEvent, CallStepInv, StutterInv DEF ReleaseLock

LEMMA EventsKept ==
  ASSUME IInv, [LNext]_<<vars, lvars>>
  PROVE  IInv'
<1>1. CASE FetchTurn \/ UnlockTurn \/ UnlockEnd
  BY <1>1, FetchInv, UnbindFirstInv, UnbindAllEndInv DEF FetchTurn, UnlockTurn, UnlockEnd, Answers
<1>2. CASE NewLock
  <2>1. LockCallback \in Callback /\ NewEvent(ev, LockCallback)
    BY <1>2 DEF NewLock, LockCallback, Callback, Scope
  <2> QED BY <2>1, EvIsEvent, EventStepInv
<1>3. CASE Create
  <2>1. Unborn \in Task /\ NewTask(Unborn)
    BY <1>3 DEF Create, Unborn, IInv, TypeOK
  <2> QED BY <2>1, TaskStepInv
<1>4. CASE Go \/ Idle \/ Closed
  BY <1>4, StutterInv DEF Go, Idle, Closed
<1>5. CASE FreeLock
  BY <1>5, EvIsEvent, FreeEventInv DEF FreeLock
<1>6. ASSUME NEW s \in Task, Start(s) \/ Close(s) PROVE IInv'
  BY <1>6, TaskStepInv, AbortInv DEF Start, Close
<1>7. ASSUME NEW s \in Task, TaskStep(s) PROVE IInv'
  <2>1. CASE InitStep(s) \/ ProcessStep(s)
    BY <2>1, StutterInv DEF InitStep, ProcessStep
  <2>2. CASE AcquireStep(s)
    BY <2>2, StutterInv, ListenInv, EvIsEvent DEF AcquireStep
  <2>3. CASE ReleaseStep(s)
    <3>1. CASE UnbindAll(ev)
      <4>1. PICK answer : answer \in Answers
        BY DEF Answers
      <4> QED BY <3>1, <4>1, CallStepInv, EvIsEvent
    <3>2. CASE ReleaseLock(s)
      BY <3>2, ReleaseLockEvents
    <3> QED BY <2>3, <3>1, <3>2 DEF ReleaseStep
  <2>4. CASE UnlockStep(s)
    BY <2>4, ReleaseLockEvents DEF UnlockStep
  <2>5. CASE TermStep(s)
    BY <2>5, AbortInv DEF TermStep
  <2>6. CASE EndStep(s)
    BY <2>6, TaskStepInv DEF EndStep
  <2> QED BY <1>7, <2>1, <2>2, <2>3, <2>4, <2>5, <2>6 DEF TaskStep
<1>8. CASE UNCHANGED <<vars, lvars>>
  BY <1>8, StutterInv
<1> QED BY <1>1, <1>2, <1>3, <1>4, <1>5, <1>6, <1>7, <1>8 DEF LNext, Main
----------------------------------------------------------------------------
(* The steps that leave the lock alone. *)

(* A task that neither has nor asks for the lock goes on. *)
LEMMA StepAside ==
  ASSUME IInv, LInv, NEW s \in Task, NEW p \in {"NONE", "NEW", "INIT", "ACQUIRE", "TERM"},
         GoesTo(s, p), at[s] \notin {"PROCESS", "RELEASE"},
         call.kind = "none", call'.kind = "none",
         UNCHANGED <<kind, lock, shared, main, events, evcb, locked>>,
         run \ {s} \subseteq run', closing' \subseteq closing \cup {s},
         s \in closing' => p = "TERM", closing' \subseteq tasks',
         \/ stepping' = stepping /\ (stepping = s => p = "TERM")
         \/ stepping \in {s, NULL} /\ stepping' = NULL
  PROVE  LInv'
<1>1. /\ at \in [Task -> Points] /\ at'[s] = p
      /\ \A t \in Task : t # s => at'[t] = at[t]
      /\ at' \in [Task -> Points]
  BY DEF LInv, LockTypes, GoesTo, Points
<1>2. Holders' = Holders
  BY <1>1 DEF Holders
<1>3. s \notin locked /\ locked \subseteq Task
  BY Waiters DEF LInv, Whereabouts
<1>4. LockTypes' /\ LockEvent'
  BY <1>1, NullAssumption DEF LInv, LockTypes, LockEvent
<1>5. Whereabouts'
  <2>1. s \notin Holders
    BY DEF Holders
  <2>2. closing' \subseteq Task
    BY DEF IInv, TypeOK
  <2>3. \A t \in closing' : t \in tasks' /\ at'[t] = "TERM"
    BY <1>1, <2>2 DEF LInv, Whereabouts, IInv, TypeOK
  <2>4. stepping' # NULL => main = "go" /\ at'[stepping'] \in {"UNLOCK", "TERM"}
    BY <1>1 DEF LInv, Whereabouts, LockTypes
  <2> QED BY <1>1, <1>2, <1>3, <2>1, <2>3, <2>4 DEF LInv, Whereabouts
<1>6. OneHolder'
  <2>1. \A t \in Holders : at'[t] = at[t]
    BY <1>1 DEF Holders
  <2> QED BY <1>2, <2>1 DEF LInv, OneHolder
<1>7. Counts' /\ Unlocking'
  BY <1>1, <1>2 DEF LInv, Counts, Unlocking
<1> QED BY <1>4, <1>5, <1>6, <1>7 DEF LInv

(* A step of main. *)
LEMMA MainStep ==
  ASSUME IInv, LInv, call.kind = "none", call'.kind = "none", main # "go" \/ stepping = NULL,
         UNCHANGED <<kind, lock, shared, at, stepping, locked, run, tasks, closing>>,
         main' \in {"new lock", "create", "go", "close", "drain", "done"},
         events' \subseteq {ev}, ev \in events' => evcb'[ev] = LockCallback,
         main' \in {"close", "drain", "done"} => Holders = {}
  PROVE  LInv'
<1>1. Holders' = Holders /\ stepping = NULL
  BY DEF Holders, LInv, Whereabouts
<1> QED BY <1>1 DEF LInv, LockTypes, LockEvent, Whereabouts, OneHolder, Counts, Unlocking

LEMMA IsReady == Ready => call.kind = "none"
  BY DEF Ready, NoCall

LEMMA MainSteps ==
  ASSUME IInv, LInv, NewLock \/ Go \/ Idle \/ Closed \/ FreeLock
  PROVE  LInv'
<1>0. stepping # NULL => main = "go"
  BY DEF LInv, Whereabouts
<1>1. CASE NewLock
  <2>1. /\ main = "new lock" /\ main' = "create" /\ call.kind = "none"
        /\ events' = events \cup {ev} /\ evcb' = [evcb EXCEPT ![ev] = LockCallback]
        /\ UNCHANGED <<kind, lock, shared, at, stepping, locked, run, tasks, closing, call>>
    BY <1>1, IsReady DEF NewLock, NewEvent, LockCallback, flags, lives
  <2>2. evcb'[ev] = LockCallback /\ events' \subseteq {ev}
    BY <2>1, EvIsEvent DEF IInv, TypeOK, LInv, LockEvent
  <2> QED BY <2>1, <2>2, MainStep
<1>2. CASE Go
  <2>1. /\ main = "create" /\ main' = "go" /\ stepping = NULL
        /\ UNCHANGED <<kind, lock, shared, at, stepping, locked, run, tasks, closing, call, events, evcb>>
    BY <1>0, <1>2 DEF Go, vars
  <2>2. call.kind = "none"
    BY <2>1 DEF LInv, LockEvent
  <2> QED BY <2>1, <2>2, MainStep DEF LInv, LockEvent
<1>3. CASE Idle
  <2>1. /\ main' \in {"create", "close"} /\ stepping = NULL /\ run = {} /\ call.kind = "none"
        /\ UNCHANGED <<kind, lock, shared, at, stepping, locked, run, tasks, closing, call, events, evcb>>
    BY <1>3, IsReady DEF Idle, vars
  <2>2. Holders = {}
    BY <2>1 DEF LInv, Whereabouts
  <2> QED BY <2>1, <2>2, MainStep DEF LInv, LockEvent
<1>4. CASE Closed
  <2>1. /\ main = "close" /\ main' = "drain" /\ stepping = NULL
        /\ UNCHANGED <<kind, lock, shared, at, stepping, locked, run, tasks, closing, call, events, evcb>>
    BY <1>0, <1>4 DEF Closed, vars
  <2>2. call.kind = "none" /\ Holders = {}
    BY <2>1 DEF LInv, LockEvent, OneHolder
  <2> QED BY <2>1, <2>2, MainStep DEF LInv, LockEvent
<1>5. CASE FreeLock
  <2>1. /\ main = "drain" /\ main' = "done" /\ call.kind = "none" /\ events' = events \ {ev}
        /\ UNCHANGED <<kind, lock, shared, at, stepping, locked, run, tasks, closing, call, evcb>>
    BY <1>5, IsReady DEF FreeLock, FreeEvent, flags, lives
  <2>2. Holders = {} /\ events' \subseteq {ev}
    BY <2>1 DEF LInv, OneHolder, LockEvent
  <2> QED BY <2>1, <2>2, MainStep DEF LInv, LockEvent
<1> QED BY <1>1, <1>2, <1>3, <1>4, <1>5

LEMMA CreateKept ==
  ASSUME IInv, LInv, Create
  PROVE  LInv'
<1>1. Unborn \in Task /\ Unborn \notin tasks
  BY DEF Create, Unborn, IInv, TypeOK
<1>2. /\ GoesTo(Unborn, "NEW") /\ call.kind = "none" /\ main = "create"
      /\ UNCHANGED <<kind, lock, shared, main, events, evcb, locked, run, closing, call, stepping>>
  BY IsReady DEF Create, NewTask, evars, flags
<1>3. /\ at[Unborn] \notin {"PROCESS", "RELEASE"}
      /\ Unborn \notin closing' /\ closing' \subseteq tasks'
  <2>1. \A t \in closing : t \in tasks
    BY DEF LInv, Whereabouts
  <2>2. Unborn \notin run /\ Unborn \notin locked
    BY <1>1, Waiters
  <2> HIDE DEF Unborn
  <2>3. at[Unborn] \notin {"PROCESS", "RELEASE"}
    BY <1>1, <2>2 DEF LInv, Whereabouts, Holders
  <2> QED BY <1>1, <1>2, <2>1, <2>3 DEF Create, NewTask
<1>4. stepping = NULL
  BY <1>2 DEF LInv, Whereabouts
<1> HIDE DEF Unborn
<1> QED BY <1>1, <1>2, <1>3, <1>4, NullAssumption, StepAside

LEMMA AsideSteps ==
  ASSUME IInv, LInv, NEW s \in Task,
         Start(s) \/ InitStep(s) \/ TermStep(s) \/ EndStep(s)
  PROVE  LInv'
<1>0. s # NULL /\ closing \subseteq tasks
  BY NullAssumption DEF LInv, Whereabouts
<1>1. CASE Start(s)
  <2>1. /\ at[s] = "NEW" /\ GoesTo(s, "INIT") /\ s \notin closing /\ call.kind = "none"
        /\ main = "create" /\ run' = run \cup {s}
        /\ UNCHANGED <<kind, lock, shared, main, events, evcb, locked, tasks, closing, call, stepping>>
    BY <1>1, IsReady DEF Start, Resume, host, evars, lives
  <2>2. stepping = NULL
    BY <2>1 DEF LInv, Whereabouts
  <2> QED BY <1>0, <2>1, <2>2, StepAside
<1>2. CASE InitStep(s)
  <2>1. /\ at[s] = "INIT" /\ GoesTo(s, "ACQUIRE") /\ s \notin closing /\ call.kind = "none"
        /\ stepping = NULL
        /\ UNCHANGED <<kind, lock, shared, main, events, evcb, locked, tasks, closing, call, stepping, run>>
    BY <1>2, IsReady DEF InitStep, Goes, host, vars
  <2> QED BY <1>0, <2>1, StepAside
<1>3. CASE TermStep(s)
  <2>1. /\ at[s] \in {"TERM", "ABORT"} /\ GoesTo(s, "TERM") /\ stepping \in {s, NULL} /\ stepping' = NULL
        /\ Abort(s) /\ Acquirecb /\ UNCHANGED <<kind, shared, main>>
    BY <1>3 DEF TermStep, Goes, host
  <2>2. s \notin locked
    BY <2>1 DEF LInv, Whereabouts
  <2>3. /\ heard' = Silence /\ run' = run \cup {s} /\ closing' = closing \cup {s} /\ call.kind = "none"
        /\ s \in tasks /\ UNCHANGED <<events, evcb, locked, tasks, call>>
    BY <2>1, <2>2, IsReady DEF Abort, evars
  <2>4. lock' = lock
    BY <2>1, <2>3 DEF Acquirecb, Silence
  <2> QED BY <1>0, <2>1, <2>3, <2>4, StepAside
<1>4. CASE EndStep(s)
  <2>1. /\ s \in closing /\ GoesTo(s, "NONE") /\ stepping = NULL /\ call.kind = "none"
        /\ run' = run \ {s} /\ closing' = closing \ {s} /\ tasks' = tasks \ {s}
        /\ UNCHANGED <<kind, lock, shared, main, events, evcb, locked, call, stepping>>
    BY <1>4, IsReady DEF EndStep, End, host, evars
  <2>2. at[s] = "TERM"
    BY <2>1 DEF LInv, Whereabouts
  <2> QED BY <1>0, <2>1, <2>2, StepAside
<1> QED BY <1>1, <1>2, <1>3, <1>4
----------------------------------------------------------------------------
(* The steps of who asks for the lock or has it. *)

LEMMA AtOf ==
  ASSUME LInv, NEW s \in Task, NEW p \in Points, GoesTo(s, p)
  PROVE  /\ at' \in [Task -> Points] /\ at'[s] = p
         /\ \A t \in Task : t # s => at'[t] = at[t]
  BY DEF LInv, LockTypes, GoesTo

LEMMA AcquireKept ==
  ASSUME IInv, LInv, NEW s \in Task, AcquireStep(s)
  PROVE  LInv'
<1>1. /\ s \in run \ closing /\ at[s] = "ACQUIRE" /\ stepping = NULL /\ call.kind = "none" /\ main = "go"
      /\ GoesTo(s, "PROCESS") /\ UNCHANGED <<kind, shared, stepping, main>>
  BY IsReady DEF AcquireStep, Goes, host
<1>2. at' \in [Task -> Points] /\ at'[s] = "PROCESS" /\ \A t \in Task : t # s => at'[t] = at[t]
  BY <1>1, AtOf DEF Points
<1>3. locked \subseteq Task /\ s \notin locked /\ s \notin Holders /\ Holders \subseteq Task
  BY <1>1, Waiters DEF Holders
<1>4. \A t \in Task : at[t] # "UNLOCK"
  BY <1>1, NullAssumption DEF LInv, Unlocking
<1>5. CASE lock.locked = 0
  <2>1. lock' = Taken(s) /\ UNCHANGED <<events, evcb, locked, run, tasks, closing, call>>
    BY <1>5 DEF AcquireStep, vars
  <2>2. Cardinality(locked) = 0 /\ Holders = {} /\ lock.locked = 0
    BY <1>5, Waiters DEF LInv, Counts
  <2>3. Holders' = {s}
    BY <1>1, <1>2, <1>3, <2>1, <2>2 DEF Holders
  <2>4. lock'.locked = 1 /\ (kind = "lock2" => lock'.owner = s)
        /\ lock' \in [locked : Nat, owner : Task \cup {NULL}]
    BY <2>1 DEF Taken
  <2>5. LockTypes' /\ LockEvent'
    BY <1>1, <1>2, <2>1, <2>4 DEF LInv, LockTypes, LockEvent
  <2>6. Whereabouts'
    BY <1>1, <1>2, <1>3, <2>1, <2>2, <2>3, Waiters DEF LInv, Whereabouts
  <2>7. OneHolder'
    BY <1>1, <1>2, <2>2, <2>3, <2>4 DEF LInv, OneHolder
  <2>8. Counts' /\ Unlocking'
    BY <1>1, <1>2, <1>4, <2>1, <2>2, <2>3, <2>4 DEF LInv, Counts, Unlocking
  <2> QED BY <2>5, <2>6, <2>7, <2>8 DEF LInv
<1>6. CASE lock.locked # 0
  <2>1. /\ lock' = [lock EXCEPT !.locked = @ + 1] /\ Listen(s, ev)
    BY <1>6 DEF AcquireStep
  <2>2. /\ locked' = locked \cup {s} /\ run' = run \ {s}
        /\ UNCHANGED <<events, evcb, tasks, closing, call>>
    BY <2>1 DEF Listen, evars, lives
  <2>3. Holders' = Holders
    BY <1>1, <1>2, <1>3, <2>2 DEF Holders
  <2>4. /\ Cardinality(locked') = Cardinality(locked) + 1 /\ Cardinality(locked) \in Nat
        /\ lock.locked \in Nat
    BY <1>3, <2>2, MoreWaiters, Waiters DEF LInv, LockTypes
  <2>5. lock' \in [locked : Nat, owner : Task \cup {NULL}] /\ lock'.locked = lock.locked + 1
        /\ lock'.owner = lock.owner
    <3>1. lock \in [locked : Nat, owner : Task \cup {NULL}]
      BY DEF LInv, LockTypes
    <3> QED BY <2>1, <2>4, <3>1
  <2>6. LockTypes' /\ LockEvent'
    BY <1>1, <1>2, <2>2, <2>5 DEF LInv, LockTypes, LockEvent
  <2>7. Whereabouts'
    BY <1>1, <1>2, <1>3, <2>2, <2>3 DEF LInv, Whereabouts, IInv, TypeOK
  <2>8. OneHolder'
    <3>1. \A t \in Holders : at'[t] = at[t]
      BY <1>2, <1>3
    <3> QED BY <1>1, <2>3, <2>5, <3>1 DEF LInv, OneHolder
  <2>9. lock.locked \in {Cardinality(locked), 1 + Cardinality(locked)}
        /\ (Holders # {} => lock.locked = 1 + Cardinality(locked))
        /\ (Holders = {} /\ kind = "lock" => lock.locked = Cardinality(locked))
    BY <1>1 DEF LInv, Counts
  <2>10. Counts'
    BY <1>1, <2>2, <2>3, <2>4, <2>5, <2>9 DEF Counts
  <2>11. Unlocking'
    BY <1>1, <1>2, <1>4 DEF Unlocking
  <2> QED BY <2>6, <2>7, <2>8, <2>10, <2>11 DEF LInv
<1> QED BY <1>5, <1>6

(* Who gets to the resource finds it closed. *)
LEMMA ProcessKept ==
  ASSUME IInv, LInv, NEW s \in Task, ProcessStep(s)
  PROVE  LInv'
<1>1. /\ s \in run \ closing /\ at[s] = "PROCESS" /\ stepping = NULL /\ call.kind = "none" /\ main = "go"
      /\ UNCHANGED <<kind, lock, stepping, events, evcb, locked, run, tasks, closing, call>>
  BY IsReady DEF ProcessStep, Goes, vars
<1>2. s \in Holders
  BY <1>1, Waiters DEF Holders
<1>3. ~shared
  BY <1>1, <1>2 DEF LInv, OneHolder
<1>4. shared' = TRUE /\ GoesTo(s, "RELEASE") /\ main' = main
  BY <1>3 DEF ProcessStep
<1>5. at' \in [Task -> Points] /\ at'[s] = "RELEASE" /\ \A t \in Task : t # s => at'[t] = at[t]
  BY <1>4, AtOf DEF Points
<1>6. Holders' = Holders
  BY <1>1, <1>2, <1>5 DEF Holders
<1>7. LockTypes' /\ LockEvent'
  BY <1>1, <1>4, <1>5 DEF LInv, LockTypes, LockEvent
<1>8. Whereabouts'
  BY <1>1, <1>5, <1>6, <1>2 DEF LInv, Whereabouts, Holders, IInv, TypeOK
<1>9. OneHolder'
  BY <1>1, <1>2, <1>4, <1>5, <1>6 DEF LInv, OneHolder
<1>10. Counts' /\ Unlocking'
  BY <1>1, <1>5, <1>6 DEF LInv, Counts, Unlocking
<1> QED BY <1>7, <1>8, <1>9, <1>10 DEF LInv

(* Nobody has the lock now, and stepping goes on with the release. *)
LEMMA GivenUp ==
  ASSUME IInv, LInv, NEW s \in Task, NEW p \in {"UNLOCK", "TERM"}, GoesTo(s, p),
         s \in run \ closing, \A t \in Holders : t = s, main = "go",
         lock.locked = 1 + Cardinality(locked), \A t \in Task : at[t] = "UNLOCK" => t = s,
         UNCHANGED <<kind, main, events, evcb, locked, run, tasks, closing>>,
         shared' = FALSE, stepping' = s, call'.kind # "none" => call'.event = ev,
         call'.kind = "unbindAll" => kind = "lock2",
         p = "UNLOCK" => kind = "lock2" /\ call'.kind = "unbindAll",
         \/ lock' = lock /\ (kind = "lock2" \/ call'.kind # "none")
         \/ call'.kind = "none" /\ locked = {} /\ lock' = [lock EXCEPT !.locked = 0]
  PROVE  LInv'
<1>1. at' \in [Task -> Points] /\ at'[s] = p /\ \A t \in Task : t # s => at'[t] = at[t]
  BY AtOf DEF Points
<1>2. s \notin locked /\ locked \subseteq Task /\ s # NULL /\ Cardinality(locked) \in Nat
      /\ (locked = {} => Cardinality(locked) = 0)
  BY Waiters, NullAssumption
<1>3. Holders' = {}
  BY <1>1, <1>2 DEF Holders
<1>4. /\ lock' \in [locked : Nat, owner : Task \cup {NULL}]
      /\ \/ lock' = lock /\ (kind = "lock2" \/ call'.kind # "none")
         \/ call'.kind = "none" /\ Cardinality(locked) = 0 /\ lock'.locked = 0
  BY <1>2 DEF LInv, LockTypes
<1>5. LockTypes' /\ LockEvent'
  BY <1>1, <1>2, <1>4 DEF LInv, LockTypes, LockEvent
<1>6. Whereabouts'
  BY <1>1, <1>2, <1>3 DEF LInv, Whereabouts, IInv, TypeOK
<1>7. OneHolder'
  BY <1>3 DEF OneHolder
<1>8. Counts'
  <2>1. CASE lock' = lock /\ (kind = "lock2" \/ call'.kind # "none")
    BY <1>2, <1>3, <2>1 DEF LInv, LockTypes, Counts
  <2>2. CASE call'.kind = "none" /\ Cardinality(locked) = 0 /\ lock'.locked = 0
    BY <1>3, <2>2 DEF Counts
  <2> QED BY <1>4, <2>1, <2>2
<1>9. Unlocking'
  BY <1>1, <1>2, <1>3, <1>4 DEF Unlocking
<1> QED BY <1>5, <1>6, <1>7, <1>8, <1>9 DEF LInv

(* The release is not refused to who has the lock: nobody waits and it is  *)
(* free, or the trigger begins, or, for a lock2, nothing happens.          *)
LEMMA Releasing ==
  ASSUME IInv, LInv, NEW s \in Task, ReleaseLock(s), call.kind = "none",
         lock.locked = 1 + Cardinality(locked), kind = "lock2" => lock.owner = s \/ locked = {}
  PROVE  /\ UNCHANGED <<main, events, evcb, locked, run, tasks, closing>>
         /\ call'.kind # "none" => call'.event = ev /\ call'.kind = "trigger" /\ locked # {}
         /\ \/ lock' = lock /\ (kind = "lock2" \/ call'.kind # "none")
            \/ call'.kind = "none" /\ locked = {} /\ lock' = [lock EXCEPT !.locked = 0]
<1>1. Cardinality(locked) \in Nat /\ (Cardinality(locked) = 0 <=> locked = {})
  BY Waiters
<1>2. CASE kind = "lock2" /\ lock.locked <= 1
  BY <1>2 DEF ReleaseLock, vars
<1>3. CASE ~(kind = "lock2" /\ lock.locked <= 1)
  <2>1. Trigger(ev, Answer) /\ Acquirecb /\ main' = main
    <3>1. ~(kind = "lock2" /\ s # lock.owner)
      BY <1>1, <1>3
    <3> QED BY <1>3, <3>1 DEF ReleaseLock
  <2>2. /\ ev \in events /\ UNCHANGED <<events, evcb, locked, run, tasks, closing>>
        /\ call' = IF Answer = "REFUSED" \/ bindlist[ev] = NULL THEN NoCall
                   ELSE [kind |-> "trigger", event |-> ev, evb |-> bindlist[ev], n |-> count[ev]]
    BY <2>1 DEF Trigger, evars, flags, lives
  <2>3. evcb[ev] = LockCallback
    BY <2>2 DEF LInv, LockEvent
  <2>4. heard' = Heard(ev, "TRIGGER", NULL, Answer)
    BY <2>1, <2>3 DEF Trigger, Calls, LockCallback
  <2>5. heard'.task = NULL /\ heard' # Silence /\ heard'.answer = Answer
    BY <2>4, EvIsEvent DEF Heard, Silence
  <2>6. CASE lock.locked <= 1
    <3>1. Answer = "REFUSED" /\ locked = {}
      BY <1>1, <2>6 DEF Answer
    <3> QED BY <2>1, <2>2, <2>5, <3>1 DEF Acquirecb, NoCall
  <2>7. CASE lock.locked > 1
    <3>1. Answer = "ACCEPTED" /\ locked # {}
      BY <1>1, <2>7 DEF Answer
    <3>2. bindlist[ev] # NULL
      BY <3>1, HeadListens
    <3> QED BY <2>1, <2>2, <2>5, <3>1, <3>2 DEF Acquirecb
  <2>8. lock.locked <= 1 \/ lock.locked > 1
    BY <1>1
  <2> QED BY <2>6, <2>7, <2>8
<1> QED BY <1>2, <1>3

LEMMA ReleaseKept ==
  ASSUME IInv, LInv, NEW s \in Task, ReleaseStep(s)
  PROVE  LInv'
<1>1. /\ s \in run \ closing /\ at[s] = "RELEASE" /\ stepping = NULL /\ call.kind = "none" /\ main = "go"
      /\ shared' = FALSE /\ stepping' = s /\ kind' = kind
  BY IsReady DEF ReleaseStep, Goes
<1>2. s \in Holders
  BY <1>1, Waiters DEF Holders
<1>3. /\ \A t \in Holders : t = s
      /\ lock.locked = 1 + Cardinality(locked) /\ (kind = "lock2" => lock.owner = s)
  BY <1>2 DEF LInv, OneHolder, Counts
<1>4. \A t \in Task : at[t] = "UNLOCK" => t = s
  BY <1>1, NullAssumption DEF LInv, Unlocking
<1>5. CASE kind = "lock2" /\ s = unlocker
  <2>1. /\ UnbindAll(ev) /\ GoesTo(s, "UNLOCK") /\ UNCHANGED <<lock, main>>
    BY <1>5 DEF ReleaseStep, host
  <2>2. /\ call'.kind = "unbindAll" /\ call'.event = ev
        /\ UNCHANGED <<events, evcb, locked, run, tasks, closing>>
    BY <2>1 DEF UnbindAll, NoCall, evars, flags, lives
  <2> QED BY <1>1, <1>3, <1>4, <1>5, <2>1, <2>2, GivenUp
<1>6. CASE ~(kind = "lock2" /\ s = unlocker)
  <2>1. ReleaseLock(s) /\ GoesTo(s, "TERM")
    BY <1>6 DEF ReleaseStep
  <2>2. /\ UNCHANGED <<main, events, evcb, locked, run, tasks, closing>>
        /\ call'.kind # "none" => call'.event = ev /\ call'.kind = "trigger" /\ locked # {}
        /\ \/ lock' = lock /\ (kind = "lock2" \/ call'.kind # "none")
           \/ call'.kind = "none" /\ locked = {} /\ lock' = [lock EXCEPT !.locked = 0]
    BY <1>1, <1>3, <2>1, Releasing
  <2> QED BY <1>1, <1>3, <1>4, <2>1, <2>2, GivenUp
<1> QED BY <1>5, <1>6

(* After the unlock of all the release finds nobody. *)
LEMMA UnlockKept ==
  ASSUME IInv, LInv, NEW s \in Task, UnlockStep(s)
  PROVE  LInv'
<1>1. /\ stepping = s /\ at[s] = "UNLOCK" /\ ReleaseLock(s) /\ GoesTo(s, "TERM") /\ call.kind = "none"
      /\ UNCHANGED <<kind, shared, stepping>>
  BY IsReady DEF UnlockStep
<1>2. kind = "lock2" /\ Holders = {} /\ lock.locked = 1 + Cardinality(locked) /\ locked = {}
  BY <1>1 DEF LInv, Unlocking
<1>3. lock.locked <= 1
  <2>1. Cardinality(locked) = 0
    BY <1>2, Waiters
  <2> QED BY <1>2, <2>1
<1>4. UNCHANGED <<vars, lock, main>>
  BY <1>1, <1>2, <1>3 DEF ReleaseLock
<1>5. s \notin closing /\ closing \subseteq tasks
  BY <1>1 DEF LInv, Whereabouts
<1> QED BY <1>1, <1>4, <1>5, StepAside DEF vars
----------------------------------------------------------------------------
(* The steps that release those that wait. *)

(* The first of those that wait gets the lock. *)
LEMMA FetchKept ==
  ASSUME IInv, LInv, FetchTurn
  PROVE  LInv'
<1> DEFINE s == call.evb
<1>1. call.kind = "trigger" /\ call.event = ev /\ stepping # NULL /\ Acquirecb
      /\ Fetch("ACCEPTED", TRUE) /\ UNCHANGED <<kind, shared, at, stepping, main>>
  BY DEF FetchTurn, Fetch, LInv, LockEvent, host
<1>2. s = bindlist[ev] /\ s # NULL /\ ev \in events /\ evcb[ev] = LockCallback
  BY <1>1, NullAssumption DEF IInv, CallInv, LInv, LockEvent
<1>3. s \in locked
  BY <1>2, HeadListens
<1>4. /\ UnbindEvent(s) /\ heard' = Heard(ev, "TRIGGER", s, "ACCEPTED") /\ call' = NoCall
      /\ UNCHANGED <<events, evcb, tasks, closing>>
  BY <1>1, <1>2 DEF Fetch, Calls, LockCallback, evars, lives
<1> HIDE DEF s
<1>5. /\ s \in Task /\ at[s] = "PROCESS"
      /\ lock' = [locked |-> lock.locked - 1, owner |-> IF kind = "lock2" THEN s ELSE NULL]
      /\ locked' = locked \ {s} /\ run' = run \cup {s}
      /\ Cardinality(locked') = Cardinality(locked) - 1
      /\ Cardinality(locked) \in Nat \ {0} /\ lock.locked \in Nat \ {0}
  BY <1>1, <1>3, <1>4, HandedOver
<1>6. Holders = {} /\ lock.locked = 1 + Cardinality(locked)
  BY <1>1 DEF LInv, Counts
<1>7. Holders' = {s}
  BY <1>1, <1>5, <1>6 DEF Holders
<1>8. /\ lock'.locked = 1 + Cardinality(locked') /\ (kind = "lock2" => lock'.owner = s)
      /\ lock' \in [locked : Nat, owner : Task \cup {NULL}]
  BY <1>5, <1>6
<1>9. call'.kind = "none"
  BY <1>4 DEF NoCall
<1>10. LockTypes' /\ LockEvent'
  BY <1>1, <1>4, <1>8, <1>9 DEF LInv, LockTypes, LockEvent
<1>11. Whereabouts'
  BY <1>1, <1>4, <1>5, <1>7 DEF LInv, Whereabouts
<1>12. OneHolder'
  BY <1>1, <1>5, <1>6, <1>7, <1>8 DEF LInv, OneHolder, Whereabouts
<1>13. Counts'
  BY <1>7, <1>8, <1>9 DEF Counts
<1>14. Unlocking'
  BY <1>1 DEF LInv, Unlocking
<1> QED BY <1>10, <1>11, <1>12, <1>13, <1>14 DEF LInv

(* The unlock of all: who is released gives the lock2 up. *)
LEMMA UnlockTurnKept ==
  ASSUME IInv, LInv, UnlockTurn
  PROVE  LInv'
<1> DEFINE s == bindlist[ev]
<1>1. /\ call.kind = "unbindAll" /\ call.event = ev /\ stepping # NULL /\ Acquirecb /\ s # NULL
      /\ UnbindEvent(s) /\ heard' = UnbindCallback(s, "REQUEST") /\ GoesTo(s, "ABORT")
      /\ UNCHANGED <<kind, shared, stepping, main, events, evcb, tasks, closing, call>>
  BY DEF UnlockTurn, UnbindFirst, LInv, LockEvent, host, evars, lives
<1>2. s \in locked
  BY <1>1, HeadListens
<1> HIDE DEF s
<1>3. heard' = Heard(ev, "REQUEST", s, NULL)
  <2>1. binder[s].event = ev /\ evcb[ev].set
    BY <1>2, HeadListens DEF LockCallback
  <2> QED BY <1>1, <1>2, <2>1 DEF UnbindCallback
<1>4. /\ s \in Task /\ at[s] = "PROCESS"
      /\ lock' = [locked |-> lock.locked - 1, owner |-> IF kind = "lock2" THEN s ELSE NULL]
      /\ locked' = locked \ {s} /\ run' = run \cup {s}
      /\ Cardinality(locked') = Cardinality(locked) - 1
      /\ Cardinality(locked) \in Nat \ {0} /\ lock.locked \in Nat \ {0}
  BY <1>1, <1>2, <1>3, HandedOver
<1>5. at' \in [Task -> Points] /\ at'[s] = "ABORT" /\ \A t \in Task : t # s => at'[t] = at[t]
  BY <1>1, <1>4, AtOf DEF Points
<1>6. Holders = {} /\ lock.locked = 1 + Cardinality(locked)
  BY <1>1 DEF LInv, Counts
<1>7. Holders' = {}
  BY <1>4, <1>5, <1>6 DEF Holders
<1>8. /\ lock'.locked = 1 + Cardinality(locked')
      /\ lock' \in [locked : Nat, owner : Task \cup {NULL}]
  BY <1>4, <1>6
<1>9. LockTypes' /\ LockEvent'
  BY <1>1, <1>5, <1>8 DEF LInv, LockTypes, LockEvent
<1>10. Whereabouts'
  <2>1. stepping # s /\ s \notin closing /\ locked \subseteq Task /\ closing \subseteq Task
    BY <1>1, <1>2, <1>4, Waiters DEF LInv, Whereabouts
  <2> QED BY <1>1, <1>4, <1>5, <1>7, <2>1 DEF LInv, Whereabouts, LockTypes
<1>11. OneHolder'
  BY <1>1, <1>6, <1>7 DEF LInv, OneHolder
<1>12. Counts'
  BY <1>1, <1>7, <1>8 DEF Counts
<1>13. Unlocking'
  BY <1>1, <1>5, <1>7, <1>8 DEF LInv, Unlocking
<1> QED BY <1>9, <1>10, <1>11, <1>12, <1>13 DEF LInv

LEMMA UnlockEndKept ==
  ASSUME IInv, LInv, UnlockEnd
  PROVE  LInv'
<1>1. /\ call.kind = "unbindAll" /\ call.event = ev /\ bindlist[ev] = NULL /\ call' = NoCall
      /\ UNCHANGED <<kind, lock, shared, at, stepping, main, events, evcb, locked, run, tasks, closing>>
  BY DEF UnlockEnd, UnbindAllEnd, LInv, LockEvent, evars, flags, lives, lvars
<1>2. locked = {} /\ call'.kind = "none" /\ kind = "lock2"
  BY <1>1, HeadListens DEF NoCall, LInv, LockEvent
<1>3. Holders' = Holders
  BY <1>1 DEF Holders
<1>4. LockTypes' /\ LockEvent' /\ Whereabouts' /\ OneHolder'
  BY <1>1, <1>2, <1>3 DEF LInv, LockTypes, LockEvent, Whereabouts, OneHolder
<1>5. Counts' /\ Unlocking'
  BY <1>1, <1>2, <1>3 DEF LInv, Counts, Unlocking
<1> QED BY <1>4, <1>5 DEF LInv

(* zm_closeVM aborts a task, which may wait for the lock. *)
LEMMA CloseKept ==
  ASSUME IInv, LInv, NEW s \in Task, Close(s)
  PROVE  LInv'
<1>1. /\ main = "close" /\ Abort(s) /\ Acquirecb /\ GoesTo(s, "TERM") /\ call.kind = "none"
      /\ closing' = closing \cup {s} /\ s \in tasks
      /\ UNCHANGED <<kind, shared, stepping, main, events, evcb, tasks, call>>
  BY IsReady DEF Close, Abort, host, evars
<1>2. stepping = NULL /\ Holders = {} /\ closing \subseteq tasks /\ s # NULL
  BY <1>1, NullAssumption DEF LInv, Whereabouts, OneHolder
<1>3. CASE s \notin locked
  <2>1. /\ heard' = Silence /\ run' = run \cup {s} /\ UNCHANGED locked
    BY <1>1, <1>3 DEF Abort
  <2>2. lock' = lock
    BY <1>1, <2>1 DEF Acquirecb, Silence
  <2>3. at[s] \notin {"PROCESS", "RELEASE"}
    BY <1>2, <1>3 DEF Holders
  <2> QED BY <1>1, <1>2, <2>1, <2>2, <2>3, StepAside
<1>4. CASE s \in locked
  <2>1. UnbindEvent(s) /\ heard' = Heard(ev, "ABORT", s, NULL)
    <3>1. binder[s].event = ev /\ evcb[ev].set
      BY <1>4, HeadListens DEF LockCallback
    <3> QED BY <1>1, <1>4, <3>1 DEF Abort, UnbindCallback
  <2>2. /\ at[s] = "PROCESS"
        /\ lock' = [locked |-> lock.locked - 1, owner |-> IF kind = "lock2" THEN s ELSE NULL]
        /\ locked' = locked \ {s} /\ run' = run \cup {s}
        /\ Cardinality(locked') = Cardinality(locked) - 1
        /\ Cardinality(locked) \in Nat \ {0} /\ lock.locked \in Nat \ {0}
    BY <1>1, <1>4, <2>1, HandedOver
  <2>3. at' \in [Task -> Points] /\ at'[s] = "TERM" /\ \A t \in Task : t # s => at'[t] = at[t]
    BY <1>1, AtOf DEF Points
  <2>4. Holders' = {}
    BY <1>2, <2>2, <2>3 DEF Holders
  <2>5. /\ lock.locked \in {Cardinality(locked), 1 + Cardinality(locked)}
        /\ kind = "lock" => lock.locked = Cardinality(locked)
    BY <1>1, <1>2 DEF LInv, Counts
  <2>6. /\ lock'.locked = lock.locked - 1
        /\ lock' \in [locked : Nat, owner : Task \cup {NULL}]
    BY <2>2
  <2>7. LockTypes' /\ LockEvent'
    BY <1>1, <2>3, <2>6 DEF LInv, LockTypes, LockEvent
  <2>8. Whereabouts'
    <3>1. locked \subseteq Task /\ closing \subseteq Task
      BY <1>2, Waiters
    <3> QED BY <1>1, <1>2, <2>2, <2>3, <2>4, <3>1 DEF LInv, Whereabouts
  <2>9. OneHolder'
    BY <1>1, <1>2, <2>4 DEF LInv, OneHolder
  <2>10. Counts'
    BY <1>1, <2>2, <2>4, <2>5, <2>6 DEF Counts
  <2>11. Unlocking'
    BY <1>2, <2>3, NullAssumption DEF LInv, Unlocking
  <2> QED BY <2>7, <2>8, <2>9, <2>10, <2>11 DEF LInv
<1> QED BY <1>3, <1>4
----------------------------------------------------------------------------
LEMMA LockInit == LInit => IInv /\ LInv
<1> SUFFICES ASSUME LInit PROVE IInv /\ LInv
  OBVIOUS
<1>1. IInv
  BY InitIInv DEF LInit
<1>2. Holders = {} /\ Cardinality(locked) = 0
  BY FS_EmptySet DEF LInit, Init, Holders
<1>3. LInv
  BY <1>2, KindsAssumption
  DEF LInit, Init, NoCall, LInv, LockTypes, Points, LockEvent, Whereabouts, OneHolder, Counts, Unlocking
<1> QED BY <1>1, <1>3

LEMMA LockNext == IInv /\ LInv /\ [LNext]_<<vars, lvars>> => (IInv /\ LInv)'
<1> SUFFICES ASSUME IInv, LInv, [LNext]_<<vars, lvars>> PROVE LInv'
  BY EventsKept
<1>1. CASE FetchTurn \/ UnlockTurn \/ UnlockEnd
  BY <1>1, FetchKept, UnlockTurnKept, UnlockEndKept
<1>2. CASE Main
  BY <1>2, MainSteps, CreateKept, AsideSteps, CloseKept DEF Main
<1>3. ASSUME NEW s \in Task, TaskStep(s) PROVE LInv'
  BY <1>3, AsideSteps, AcquireKept, ProcessKept, ReleaseKept, UnlockKept DEF TaskStep
<1>4. CASE UNCHANGED <<vars, lvars>>
  <2>1. /\ UNCHANGED <<kind, lock, shared, at, stepping, main, events, evcb, locked, run, tasks>>
        /\ UNCHANGED <<closing, call>>
    BY <1>4 DEF vars, lvars
  <2>2. Holders' = Holders
    BY <2>1 DEF Holders
  <2>3. LockTypes' /\ LockEvent' /\ Whereabouts' /\ OneHolder'
    BY <2>1, <2>2 DEF LInv, LockTypes, LockEvent, Whereabouts, OneHolder
  <2>4. Counts' /\ Unlocking'
    BY <2>1, <2>2 DEF LInv, Counts, Unlocking
  <2> QED BY <2>3, <2>4 DEF LInv
<1> QED BY <1>1, <1>2, <1>3, <1>4 DEF LNext

(* The inductive invariant, over that of Events: the lock counts who has   *)
(* it and who waits, also while a trigger or the unlock of all goes on.    *)
THEOREM LocksInvariance == LSpec => [](IInv /\ LInv)
  BY LockInit, LockNext, PTL DEF LSpec

(* The resource is never opened twice, and only its owner releases a lock2 *)
(* that others wait for (examples/lock.c, examples/lock2.c), for any       *)
(* number of tasks.                                                        *)
THEOREM OneHasTheLock == LSpec => []MutualExclusion
<1>1. IInv /\ LInv => MutualExclusion
  <2> SUFFICES ASSUME IInv, LInv PROVE MutualExclusion
    OBVIOUS
  <2>1. Cardinality(Holders) <= 1
    <3>1. CASE Holders = {}
      BY <3>1, FS_EmptySet
    <3>2. CASE Holders # {}
      <4>1. PICK s \in Holders : Holders = {s}
        BY <3>2 DEF LInv, OneHolder
      <4> QED BY <4>1, FS_Singleton
    <3> QED BY <3>1, <3>2
  <2>2. main \notin {"race", "not owner"} /\ fatal = "none"
    BY Waiters DEF LInv, LockTypes
  <2> QED BY <2>1, <2>2 DEF MutualExclusion
<1> QED BY <1>1, LocksInvariance, PTL

(* What a lock counts between the steps of the tasks. *)
THEOREM LocksCount == LSpec => []LockedCounts
<1>1. IInv /\ LInv => LockedCounts
  <2> SUFFICES ASSUME IInv, LInv, Ready, stepping = NULL PROVE LockedCounts
    BY DEF LockedCounts
  <2>1. /\ call.kind = "none" /\ Cardinality(locked) \in Nat
        /\ lock.locked \in {Cardinality(locked), 1 + Cardinality(locked)}
        /\ kind \in {"lock", "lock2"}
    BY IsReady, Waiters DEF LInv, Counts, LockTypes
  <2>2. CASE Holders = {}
    <3>1. Cardinality(Holders) = 0
      BY <2>2, FS_EmptySet
    <3>2. kind = "lock" => lock.locked = Cardinality(locked)
      BY <2>1, <2>2 DEF LInv, Counts
    <3> QED BY <2>1, <2>2, <3>1, <3>2 DEF LockedCounts
  <2>3. CASE Holders # {}
    <3>1. PICK s \in Holders : Holders = {s}
      BY <2>3 DEF LInv, OneHolder
    <3>2. Cardinality(Holders) = 1
      BY <3>1, FS_Singleton
    <3>3. lock.locked = 1 + Cardinality(locked)
      BY <2>3 DEF LInv, Counts
    <3> QED BY <3>2, <3>3 DEF LockedCounts
  <2> QED BY <2>2, <2>3
<1> QED BY <1>1, LocksInvariance, PTL
=============================================================================
