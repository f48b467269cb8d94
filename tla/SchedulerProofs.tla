--------------------------- MODULE SchedulerProofs ---------------------------
(***************************************************************************)
(* The safety properties of Scheduler hold for any number of tasks and     *)
(* machines, any length of the zm_go calls and any order of the calls; and *)
(* its lists and its ring implement the queues of RunQueues, when the host *)
(* filters no call.                                                        *)
(***************************************************************************)
EXTENDS Scheduler, RunListsProofs, Integers, SequencesExt, SequenceTheorems,
        WellFoundedInduction

Lists == [w \in Machine |-> RunnableOf(w)]

(* The flags and the mode of a task agree. *)
ModesAgree ==
    /\ \A t \in Task : pmode[t] = "ABSENT" => t \notin heap.run
    /\ Closing \subseteq heap.run
    /\ \A t \in Live : machine[t] \in Machine
    /\ \A t \in Live \ heap.run : heap.next[t] = machine[t]

(* The session of an open step names a live task and its worker, and       *)
(* nothing was unlinked in it yet; a filtered call keeps its worker.       *)
SessionOpen ==
    /\ InStep => /\ Current \in Task /\ heap.sworker \in Machine
                 /\ pmode[Current] \in {"NORMAL", "CLOSE"}
                 /\ machine[Current] = heap.sworker
                 /\ heap.suspendop = 0
                 /\ go.left > 0
    /\ go.fixed => heap.sworker \in Machine

(* The inductive invariant. *)
IInv ==
    /\ TypeOK
    /\ WellFormed(heap, Lists)
    /\ ModesAgree
    /\ SessionOpen
    /\ SessionInSync
LEMMA ListsDisjoint == Disjoint(Lists)
  BY DEF Disjoint, Lists, RunnableOf, Runnable, Live

(* A task that is not running is in no list. *)
LEMMA NotListed ==
    ASSUME NEW t \in Task, t \notin Runnable
    PROVE  \A w \in Machine : t \notin Lists[w]
  BY DEF Lists, RunnableOf

LEMMA InitIInv == Init => IInv
  <1> SUFFICES ASSUME Init PROVE IInv
    OBVIOUS
  <1>1. heap \in HeapType
    BY DEF Init, EmptyLists, HeapType, FatalCode
  <1>2. TypeOK
    BY <1>1 DEF Init, TypeOK, Flags
  <1>3. \A w \in Machine : Lists[w] = {}
    BY DEF Init, Lists, RunnableOf, Runnable, Live
  <1>4. ASSUME NEW w \in Machine PROVE HasRunList(heap, w, Lists[w])
    <2> DEFINE q == [i \in 1..0 |-> NULL]
    <2>1. heap.nstate[w] = 0 /\ heap.first[w] = NULL /\ heap.current[w] = NULL
          /\ heap.previous[w] = NULL
      BY DEF Init, EmptyLists
    <2>2. q \in [1..0 -> Task] /\ {q[i] : i \in 1..0} = {}
      OBVIOUS
    <2> HIDE DEF q
    <2>3. IsRunList(heap, w, {}, q, 0)
      BY <2>1, <2>2 DEF IsRunList
    <2>4. Lists[w] = {}
      BY <1>3
    <2>5. /\ q \in [1..heap.nstate[w] -> Task] /\ 0 \in 0..heap.nstate[w]
          /\ IsRunList(heap, w, Lists[w], q, 0)
      BY <2>1, <2>2, <2>3, <2>4
    <2> QED
      BY <2>5 DEF HasRunList
  <1>5. HasRing(heap, {w \in Machine : heap.nstate[w] > 0})
    <2> DEFINE r == [i \in 1..0 |-> NULL]
    <2>1. heap.nworker = 0 /\ heap.cursor = NULL
          /\ {w \in Machine : heap.nstate[w] > 0} = {}
      BY DEF Init, EmptyLists
    <2>2. r \in [1..0 -> Machine] /\ {r[i] : i \in 1..0} = {}
      OBVIOUS
    <2> HIDE DEF r
    <2>3. IsRing(heap, {}, r)
      BY <2>1, <2>2 DEF IsRing
    <2> QED
      BY <2>1, <2>2, <2>3 DEF HasRing
  <1>6. WellFormed(heap, Lists)
    BY <1>1, <1>4, <1>5 DEF Init, EmptyLists, WellFormed
  <1>7. ModesAgree /\ SessionOpen /\ SessionInSync
    BY DEF Init, EmptyLists, ModesAgree, Closing, Live, SessionOpen, SessionInSync, InStep
  <1> QED
    BY <1>2, <1>6, <1>7 DEF IInv
----------------------------------------------------------------------------
(* The calls of the host and of the machine steps. *)

LEMMA NewTaskInv ==
    ASSUME IInv, NEW t \in Task, NEW m \in Machine, NEW auto \in AutoFree,
           NewTask(t, m, auto)
    PROVE  IInv'
  <1>1. /\ heap \in HeapType /\ TypeOK /\ pmode[t] = "ABSENT" /\ t \notin heap.run
        /\ pmode' = [pmode EXCEPT ![t] = "NORMAL"]
        /\ machine' = [machine EXCEPT ![t] = m]
        /\ heap' = [heap EXCEPT !.next[t] = m]
        /\ UNCHANGED <<pause, uncaught, go, ret>>
    BY DEF IInv, TypeOK, ModesAgree, NewTask
  <1>2. /\ heap' \in HeapType
        /\ heap'.run = heap.run /\ heap'.fatal = heap.fatal
        /\ heap'.first = heap.first /\ heap'.current = heap.current
        /\ heap'.previous = heap.previous /\ heap'.nstate = heap.nstate
        /\ heap'.wnext = heap.wnext /\ heap'.wprev = heap.wprev
        /\ heap'.cursor = heap.cursor /\ heap'.nworker = heap.nworker
        /\ heap'.sstate = heap.sstate /\ heap'.sworker = heap.sworker
        /\ heap'.suspendop = heap.suspendop
        /\ heap'.next[t] = m /\ \A s \in Task \ {t} : heap'.next[s] = heap.next[s]
    BY <1>1 DEF HeapType
  <1>3. TypeOK'
    BY <1>1, <1>2 DEF TypeOK, NewTask
  <1>4. Lists' = Lists
    <2>1. ASSUME NEW w \in Machine PROVE RunnableOf(w)' = RunnableOf(w)
      BY <1>1, <1>2 DEF RunnableOf, Runnable, Live, TypeOK
    <2> QED
      BY <2>1 DEF Lists
  <1>5. \A w \in Machine : t \notin Lists[w]
    BY <1>1 DEF Lists, RunnableOf, Runnable
  <1>6. WellFormed(heap, Lists) /\ Disjoint(Lists)
    BY ListsDisjoint DEF IInv
  <1>7. WellFormed(heap', Lists)
    <2>1. \A w \in Machine : \A s \in Lists[w] : heap'.next[s] = heap.next[s]
      BY <1>2, <1>5, <1>6 DEF Disjoint
    <2> QED
      BY <1>2, <1>6, <2>1, FrameWF
  <1>8. ModesAgree'
    BY <1>1, <1>2 DEF IInv, ModesAgree, Closing, Live, TypeOK
  <1>9. SessionOpen' /\ SessionInSync'
    BY <1>1, <1>2 DEF IInv, SessionOpen, SessionInSync, InStep, TypeOK, Current
  <1> QED
    BY <1>3, <1>4, <1>7, <1>8, <1>9 DEF IInv

(* A task that is suspended has the mode NORMAL. *)
LEMMA SuspendedMode ==
    ASSUME IInv, NEW t \in Task, pmode[t] # "ABSENT", t \notin heap.run
    PROVE  pmode[t] = "NORMAL"
  BY DEF IInv, TypeOK, ModesAgree, Closing

(* A suspended task is resumed, and may be locked by the same call. *)
LEMMA ResumedInv ==
    ASSUME IInv, NEW t \in Task, NEW m \in {"NORMAL", "CLOSE"},
           pmode[t] = "NORMAL", t \notin heap.run,
           heap' = ResumeState(heap, t), pmode' = [pmode EXCEPT ![t] = m],
           UNCHANGED <<machine, autofree, pause, uncaught, go, ret>>
    PROVE  IInv'
  <1> DEFINE v == machine[t]
             R == [Lists EXCEPT ![v] = @ \cup {t}]
  <1>1. /\ TypeOK /\ heap \in HeapType
        /\ v \in Machine /\ heap.next[t] = v
        /\ WellFormed(heap, Lists)
    BY DEF IInv, TypeOK, ModesAgree, Live
  <1>2. Disjoint(Lists) /\ \A w \in Machine : t \notin Lists[w]
    BY ListsDisjoint, NotListed DEF Runnable
  <1> HIDE DEF v
  <1>3. /\ WellFormed(heap', R)
        /\ SameSession(heap', heap)
        /\ heap'.run = heap.run \cup {t} /\ heap'.waiting = heap.waiting \ {t}
        /\ heap.cursor # NULL => heap'.cursor = heap.cursor
        /\ \A w \in Machine : heap.current[w] # NULL => heap'.current[w] = heap.current[w]
        /\ \A s \in Task \ {t} : (\A w \in Machine : s \notin Lists[w])
                                  => heap'.next[s] = heap.next[s]
    BY <1>1, <1>2, ResumeWF
  <1>4. Lists' = R
    <2>1. ASSUME NEW w \in Machine PROVE RunnableOf(w)' = R[w]
      BY <1>1, <1>3 DEF Lists, RunnableOf, Runnable, Live, TypeOK, v
    <2>2. R = [w \in Machine |-> R[w]]
      BY DEF Lists
    <2> HIDE DEF R
    <2> QED
      BY <2>1, <2>2 DEF Lists
  <1> HIDE DEF R
  <1>5. TypeOK'
    BY <1>1, <1>3 DEF TypeOK, WellFormed
  <1>6. ModesAgree'
    <2>1. \A s \in (Live \ heap.run)' : s # t /\ s \in Live \ heap.run
      BY <1>1, <1>3 DEF Live, TypeOK
    <2>2. \A s \in (Live \ heap.run)' : heap'.next[s] = heap.next[s]
      BY <1>3, <2>1 DEF Lists, RunnableOf, Runnable, Live
    <2>3. \A s \in (Live \ heap.run)' : heap.next[s] = machine'[s]
      BY <2>1 DEF IInv, ModesAgree
    <2>4. (\A s \in Task : pmode[s] = "ABSENT" => s \notin heap.run)'
      BY <1>1, <1>3 DEF IInv, ModesAgree, TypeOK
    <2>5. (Closing \subseteq heap.run)'
      BY <1>1, <1>3 DEF IInv, ModesAgree, TypeOK, Closing
    <2>6. (\A s \in Live : machine[s] \in Machine)'
      BY <1>1 DEF IInv, ModesAgree, TypeOK, Live
    <2> QED
      BY <2>2, <2>3, <2>4, <2>5, <2>6 DEF ModesAgree
  <1>7. SessionOpen' /\ SessionInSync'
    <2>1. SessionOpen'
      BY <1>1, <1>3 DEF IInv, SessionOpen, InStep, Current, SameSession, TypeOK
    <2>2. CASE InStep
      <3>1. Current \in Task /\ heap.sworker \in Machine
        BY <2>2 DEF IInv, SessionOpen
      <3>2. Current # NULL /\ heap.sworker # NULL
        BY <3>1, NullAssumption
      <3> QED
        BY <1>3, <2>1, <2>2, <3>1, <3>2
           DEF IInv, SessionInSync, InStep, Current, SameSession
    <2>3. CASE ~InStep
      BY <2>1, <2>3 DEF SessionInSync, InStep
    <2> QED
      BY <2>1, <2>2, <2>3
  <1> QED
    BY <1>3, <1>4, <1>5, <1>6, <1>7 DEF IInv

LEMMA ResumeInv ==
    ASSUME IInv, NEW t \in Task, Resume(t)
    PROVE  IInv'
  <1>1. pmode[t] = "NORMAL" /\ t \notin heap.run
    BY SuspendedMode DEF Resume
  <1>2. pmode' = [pmode EXCEPT ![t] = "NORMAL"]
    BY <1>1 DEF Resume, IInv, TypeOK
  <1> QED
    BY <1>1, <1>2, ResumedInv DEF Resume

LEMMA AbortInv ==
    ASSUME IInv, NEW t \in Task, Abort(t)
    PROVE  IInv'
  <1>1. CASE t \in Closing
    <2>1. UNCHANGED vars
      BY <1>1 DEF Abort, vars
    <2> QED
      BY <2>1 DEF vars, IInv, TypeOK, ModesAgree, SessionOpen, SessionInSync,
                  InStep, Current, Closing, Live, Lists, RunnableOf, Runnable
  <1>2. CASE t \notin Closing /\ t \notin heap.run
    <2>1. pmode[t] = "NORMAL"
      BY <1>2, SuspendedMode DEF Abort
    <2> QED
      BY <1>2, <2>1, ResumedInv DEF Abort
  <1>3. CASE t \notin Closing /\ t \in heap.run
    <2>1. /\ heap' = heap /\ pmode' = [pmode EXCEPT ![t] = "CLOSE"]
          /\ TypeOK /\ pmode[t] = "NORMAL"
          /\ UNCHANGED <<machine, autofree, pause, uncaught, go, ret>>
      BY <1>3 DEF Abort, Closing, IInv, TypeOK
    <2>2. TypeOK' /\ Live' = Live /\ Lists' = Lists
      BY <2>1 DEF TypeOK, Live, Lists, RunnableOf, Runnable
    <2>3. ModesAgree'
      BY <1>3, <2>1, <2>2 DEF IInv, ModesAgree, Closing, TypeOK
    <2>4. SessionOpen' /\ SessionInSync'
      BY <2>1 DEF IInv, SessionOpen, SessionInSync, InStep, Current, TypeOK
    <2> QED
      BY <2>1, <2>2, <2>3, <2>4 DEF IInv
  <1> QED
    BY <1>1, <1>2, <1>3

(* What no action but those of the state lists depends on. *)
LEMMA UnchangedInv ==
    ASSUME IInv, UNCHANGED <<heap, pmode, machine, go>>, TypeOK'
    PROVE  IInv'
  BY DEF IInv, ModesAgree, SessionOpen, SessionInSync, InStep, Current, Closing,
         Live, Lists, RunnableOf, Runnable

LEMMA FreeTaskInv ==
    ASSUME IInv, NEW t \in Task, FreeTask(t)
    PROVE  IInv'
  <1>1. /\ heap \in HeapType /\ TypeOK
        /\ WellFormed(heap, Lists) /\ Disjoint(Lists)
    BY ListsDisjoint DEF IInv, TypeOK
  <1>2. CASE pmode[t] # "OFF"
    <2>1. UNCHANGED <<heap, pmode, machine, go>> /\ TypeOK'
      BY <1>1, <1>2 DEF FreeTask, TypeOK
    <2> QED
      BY <2>1, UnchangedInv
  <1>3. CASE pmode[t] = "OFF"
    <2>1. /\ pmode' = [pmode EXCEPT ![t] = "ABSENT"]
          /\ heap' = [heap EXCEPT !.run = @ \ {t}, !.next[t] = NULL]
          /\ UNCHANGED <<machine, autofree, pause, uncaught, go, ret>>
      BY <1>3 DEF FreeTask, Released
    <2>2. /\ heap' \in HeapType
          /\ heap'.run = heap.run \ {t} /\ heap'.fatal = heap.fatal
          /\ heap'.first = heap.first /\ heap'.current = heap.current
          /\ heap'.previous = heap.previous /\ heap'.nstate = heap.nstate
          /\ heap'.wnext = heap.wnext /\ heap'.wprev = heap.wprev
          /\ heap'.cursor = heap.cursor /\ heap'.nworker = heap.nworker
          /\ heap'.sstate = heap.sstate /\ heap'.sworker = heap.sworker
          /\ heap'.suspendop = heap.suspendop
          /\ \A s \in Task \ {t} : heap'.next[s] = heap.next[s]
      BY <1>1, <2>1 DEF HeapType
    <2>3. TypeOK'
      BY <1>1, <2>1, <2>2 DEF TypeOK
    <2>4. Lists' = Lists
      BY <1>1, <1>3, <2>1, <2>2 DEF Lists, RunnableOf, Runnable, Live, TypeOK
    <2>5. \A w \in Machine : t \notin Lists[w]
      BY <1>3 DEF Lists, RunnableOf, Runnable, Live
    <2>6. WellFormed(heap', Lists)
      <3>1. \A w \in Machine : \A s \in Lists[w] : heap'.next[s] = heap.next[s]
        BY <1>1, <2>2, <2>5 DEF Disjoint
      <3> QED
        BY <1>1, <2>2, <3>1, FrameWF
    <2>7. ModesAgree'
      BY <1>1, <1>3, <2>1, <2>2 DEF IInv, ModesAgree, Closing, Live, TypeOK
    <2>8. SessionOpen' /\ SessionInSync'
      BY <1>1, <1>3, <2>1, <2>2 DEF IInv, SessionOpen, SessionInSync, InStep, TypeOK, Current
    <2> QED
      BY <2>3, <2>4, <2>6, <2>7, <2>8 DEF IInv
  <1> QED
    BY <1>2, <1>3

LEMMA BreakInv ==
    ASSUME IInv, Break \/ UCatch
    PROVE  IInv'
  <1>1. UNCHANGED <<heap, pmode, machine, go>> /\ TypeOK'
    BY DEF IInv, TypeOK, Break, UCatch
  <1> QED
    BY <1>1, UnchangedInv
----------------------------------------------------------------------------
(* zm_go *)

(* Outside a step only the lists and the modes matter. *)
LEMMA OutsideStepInv ==
    ASSUME IInv, TypeOK', WellFormed(heap', Lists'), ModesAgree',
           go'.pc # "step",
           go'.fixed => heap'.sworker \in Machine
    PROVE  IInv'
  BY DEF IInv, SessionOpen, SessionInSync, InStep

LEMMA GoCallInv ==
    ASSUME IInv, HostGo
    PROVE  IInv'
  <1>1. /\ heap \in HeapType /\ TypeOK
        /\ WellFormed(heap, Lists) /\ Disjoint(Lists)
    BY ListsDisjoint DEF IInv, TypeOK
  <1>2. PICK n \in 0..MaxCycle : GoCall(n) \/ \E m \in Filter : GoCallFiltered(n, m)
    BY DEF HostGo
  <1>3. n \in Nat
    BY MaxCycleAssumption
  <1>4. CASE GoCall(n)
    <2>1. UNCHANGED <<heap, pmode, machine>> /\ TypeOK'
          /\ go'.pc = "loop" /\ ~go'.fixed
      BY <1>1, <1>3, <1>4 DEF GoCall, TypeOK
    <2>2. Lists' = Lists /\ ModesAgree'
      BY <2>1 DEF IInv, Lists, RunnableOf, Runnable, Live, ModesAgree, Closing
    <2> QED
      BY <1>1, <2>1, <2>2, OutsideStepInv
  <1>5. ASSUME NEW m \in Filter, GoCallFiltered(n, m) PROVE IInv'
    <2>1. m \in Machine
      BY FilterAssumption
    <2>2. /\ heap' = [heap EXCEPT !.sworker = m]
          /\ UNCHANGED <<pmode, machine>>
          /\ go'.pc = "loop"
      BY <1>5 DEF GoCallFiltered
    <2>3. /\ heap' \in HeapType /\ heap'.sworker = m
          /\ heap'.next = heap.next
          /\ heap'.run = heap.run /\ heap'.fatal = heap.fatal
          /\ heap'.first = heap.first /\ heap'.current = heap.current
          /\ heap'.previous = heap.previous /\ heap'.nstate = heap.nstate
          /\ heap'.wnext = heap.wnext /\ heap'.wprev = heap.wprev
          /\ heap'.cursor = heap.cursor /\ heap'.nworker = heap.nworker
      BY <1>1, <2>1, <2>2 DEF HeapType
    <2>4. TypeOK'
      BY <1>1, <1>3, <1>5, <2>3 DEF TypeOK, GoCallFiltered
    <2>5. Lists' = Lists /\ ModesAgree'
      BY <2>2, <2>3 DEF IInv, Lists, RunnableOf, Runnable, Live, ModesAgree, Closing
    <2>6. WellFormed(heap', Lists)
      BY <1>1, <2>3, FrameWF
    <2> QED
      BY <2>1, <2>2, <2>3, <2>4, <2>5, <2>6, OutsideStepInv
  <1> QED
    BY <1>2, <1>4, <1>5

LEMMA GoStopsInv ==
    ASSUME IInv, GoExhausted \/ GoPause \/ GoIdle
    PROVE  IInv'
  <1>1. TypeOK /\ WellFormed(heap, Lists)
    BY DEF IInv
  <1>2. /\ UNCHANGED <<heap, pmode, machine>> /\ TypeOK' /\ go'.pc = "host"
        /\ go'.fixed => heap.sworker \in Machine
    BY <1>1 DEF GoExhausted, GoPause, GoIdle, Return, TypeOK, Flags, IInv, SessionOpen
  <1>3. Lists' = Lists /\ ModesAgree'
    BY <1>2 DEF IInv, Lists, RunnableOf, Runnable, Live, ModesAgree, Closing
  <1> QED
    BY <1>1, <1>2, <1>3, OutsideStepInv

LEMMA GoNextWorkerInv ==
    ASSUME IInv, GoNextWorker
    PROVE  IInv'
  <1> DEFINE w == GoGetWorker
             g == RewindWorkerStates(heap, w)
  <1>1. TypeOK /\ heap \in HeapType /\ WellFormed(heap, Lists) /\ Disjoint(Lists)
    BY ListsDisjoint DEF IInv, TypeOK
  <1>2. w \in Machine /\ w = heap.cursor /\ heap.cursor # NULL
    BY <1>1 DEF GoNextWorker, GoGetWorker, HeapType
  <1>3. Lists[w] \subseteq heap.run
    BY <1>2 DEF Lists, RunnableOf, Runnable
  <1>4. /\ heap' = NextWorker(g)
        /\ UNCHANGED <<pmode, machine, autofree, pause, uncaught, go, ret>>
        /\ go.pc = "loop" /\ ~go.fixed
    BY DEF GoNextWorker, Looping
  <1> HIDE DEF w
  <1>5. /\ WellFormed(g, Lists) /\ g.run = heap.run /\ g.next = heap.next
        /\ g.cursor = heap.cursor
    BY <1>1, <1>2, <1>3, RewindWF
  <1> HIDE DEF g
  <1>6. WellFormed(heap', Lists) /\ SameLists(heap', g)
    BY <1>2, <1>4, <1>5, NextWorkerWF
  <1>7. TypeOK'
    BY <1>1, <1>4, <1>6 DEF TypeOK, WellFormed
  <1>8. heap'.run = heap.run /\ heap'.next = heap.next
    BY <1>5, <1>6 DEF SameLists
  <1>9. Lists' = Lists /\ ModesAgree'
    BY <1>4, <1>8 DEF IInv, Lists, RunnableOf, Runnable, Live, ModesAgree, Closing
  <1> QED
    BY <1>4, <1>6, <1>7, <1>9, OutsideStepInv

(* The task that a step picks is in the list of the worker, and current.   *)
LEMMA PickedWF ==
    ASSUME IInv, CanStep
    PROVE  LET w == GoGetWorker
               h == Picked(w)
           IN  /\ w \in Machine
               /\ WellFormed(h, Lists)
               /\ h.sstate \in Lists[w] /\ h.current[w] = h.sstate
               /\ h.sworker = w /\ h.suspendop = 0
               /\ h.run = heap.run /\ h.next = heap.next
               /\ ~go.fixed => h.cursor = w
  <1> DEFINE w == GoGetWorker
             r == RewindWorkerStates(heap, w)
             g == IF heap.current[w] = NULL THEN r ELSE heap
             h == Picked(w)
  <1>1. TypeOK /\ heap \in HeapType /\ WellFormed(heap, Lists) /\ Disjoint(Lists)
    BY ListsDisjoint DEF IInv, TypeOK
  <1>2. /\ w \in Machine /\ heap.nstate[w] # 0
        /\ ~go.fixed => heap.cursor = w
    BY <1>1 DEF CanStep, Looping, GoGetWorker, HeapType, IInv, SessionOpen
  <1>3. Lists[w] \subseteq heap.run
    BY <1>2 DEF Lists, RunnableOf, Runnable
  <1>4. h = [g EXCEPT !.sstate = g.current[w], !.sworker = w, !.suspendop = 0]
    BY DEF Picked
  <1> HIDE DEF w
  <1>5. /\ WellFormed(r, Lists)
        /\ r.run = heap.run /\ r.next = heap.next /\ r.cursor = heap.cursor
        /\ r.current[w] \in Lists[w]
    BY <1>1, <1>2, <1>3, RewindWF
  <1>6. heap.current[w] # NULL => heap.current[w] \in Lists[w]
    BY <1>1, <1>2, ListEmpty DEF WellFormed
  <1> HIDE DEF r
  <1>7. /\ WellFormed(g, Lists) /\ g \in HeapType
        /\ g.run = heap.run /\ g.next = heap.next /\ g.cursor = heap.cursor
        /\ g.current[w] \in Lists[w]
    BY <1>1, <1>5, <1>6 DEF WellFormed
  <1>8. g.current[w] \in Task
    BY <1>1, <1>2, <1>7 DEF Disjoint
  <1> HIDE DEF g, h
  <1>9. /\ h \in HeapType
        /\ h.sstate = g.current[w] /\ h.sworker = w /\ h.suspendop = 0
        /\ h.next = g.next /\ h.run = g.run /\ h.fatal = g.fatal
        /\ h.first = g.first /\ h.current = g.current
        /\ h.previous = g.previous /\ h.nstate = g.nstate
        /\ h.wnext = g.wnext /\ h.wprev = g.wprev
        /\ h.cursor = g.cursor /\ h.nworker = g.nworker
    BY <1>2, <1>4, <1>7, <1>8 DEF HeapType
  <1>10. WellFormed(h, Lists)
    BY <1>7, <1>9, FrameWF
  <1> QED
    BY <1>2, <1>7, <1>9, <1>10 DEF w, h

(* The end of a step leaves no step open. *)
LEMMA StepReturnsGo ==
    ASSUME TypeOK, go.left > 0, NEW h, NEW e \in BOOLEAN, StepReturns(h, e)
    PROVE  /\ heap' = h
           /\ go' \in [pc : {"host", "loop", "step"}, left : Nat, fixed : BOOLEAN]
           /\ go'.pc # "step"
           /\ ret' \in SUBSET Flags
  <1> DEFINE again == ~go.fixed \/ h.nstate[h.sworker] > 0
             flags == (IF again THEN {"AGAIN"} ELSE {})
                        \cup (IF e THEN {"EXCEPTION"} ELSE {})
  <1>1. flags \in SUBSET Flags
    BY DEF Flags
  <1>2. /\ heap' = h
        /\ \/ go' = [go EXCEPT !.pc = "loop", !.left = @ - 1] /\ ret' = ret
           \/ go' = [go EXCEPT !.pc = "host"] /\ ret' = flags
    BY DEF StepReturns, Return
  <1> HIDE DEF flags
  <1>3. go \in [pc : {"host", "loop", "step"}, left : Nat, fixed : BOOLEAN]
        /\ ret \in SUBSET Flags
    BY DEF TypeOK
  <1>4. CASE go' = [go EXCEPT !.pc = "host"] /\ ret' = flags
    BY <1>1, <1>2, <1>3, <1>4
  <1>5. CASE go' = [go EXCEPT !.pc = "loop", !.left = @ - 1] /\ ret' = ret
    <2> DEFINE n == go.left - 1
    <2>1. n \in Nat
      BY <1>3
    <2> HIDE DEF n
    <2>2. go' = [go EXCEPT !.pc = "loop", !.left = n]
      BY <1>5 DEF n
    <2> QED
      BY <1>2, <1>3, <1>5, <2>1, <2>2
  <1> QED
    BY <1>2, <1>4, <1>5

LEMMA StepBeginInv ==
    ASSUME IInv, StepBegin
    PROVE  IInv'
  <1> DEFINE w == GoGetWorker
             h == Picked(w)
  <1>1. TypeOK /\ CanStep /\ pmode[h.sstate] # "END" /\ go.left > 0
        /\ go' = [go EXCEPT !.pc = "step"]
        /\ UNCHANGED <<pmode, machine, autofree, pause, uncaught, ret>>
    BY DEF StepBegin, IInv, CanStep, Looping
  <1>2. /\ w \in Machine
        /\ WellFormed(h, Lists)
        /\ h.sstate \in Lists[w] /\ h.current[w] = h.sstate
        /\ h.sworker = w /\ h.suspendop = 0
        /\ h.run = heap.run /\ h.next = heap.next
        /\ ~go.fixed => h.cursor = w
    BY <1>1, PickedWF
  <1> HIDE DEF w
  <1>3. /\ h.sstate \in Task /\ machine[h.sstate] = w
        /\ pmode[h.sstate] \in {"NORMAL", "CLOSE"}
    BY <1>1, <1>2 DEF Lists, RunnableOf, Runnable, Live
  <1>4. heap' = h
    BY <1>3 DEF StepBegin, w
  <1> HIDE DEF h
  <1>5. Lists' = Lists /\ ModesAgree'
    BY <1>1, <1>2, <1>4 DEF IInv, Lists, RunnableOf, Runnable, Live, ModesAgree, Closing
  <1>6. TypeOK'
    BY <1>1, <1>2, <1>4 DEF TypeOK, WellFormed
  <1>7. SessionOpen' /\ SessionInSync'
    BY <1>1, <1>2, <1>3, <1>4 DEF SessionOpen, SessionInSync, InStep, Current, TypeOK
  <1> QED
    BY <1>2, <1>4, <1>5, <1>6, <1>7 DEF IInv

LEMMA StepEndInv ==
    ASSUME IInv, StepEnd
    PROVE  IInv'
  <1> DEFINE w == GoGetWorker
             h == Picked(w)
             t == h.sstate
             u == UnlinkCurrentState(h)
             R == [Lists EXCEPT ![w] = @ \ {t}]
  <1>1. TypeOK /\ CanStep /\ pmode[t] = "END" /\ go.left > 0
        /\ UNCHANGED <<machine, pause, uncaught>>
    BY DEF StepEnd, IInv, CanStep, Looping
  <1>2. /\ IF t \in autofree
            THEN /\ pmode'    = [pmode EXCEPT ![t] = "ABSENT"]
                 /\ autofree' = autofree \ {t}
                 /\ StepReturns(Released(u, t), FALSE)
            ELSE /\ pmode' = [pmode EXCEPT ![t] = "OFF"]
                 /\ StepReturns(u, FALSE)
                 /\ UNCHANGED autofree
    BY DEF StepEnd
  <1>3. /\ w \in Machine
        /\ WellFormed(h, Lists)
        /\ t \in Lists[w] /\ h.current[w] = t
        /\ h.sworker = w /\ h.suspendop = 0
        /\ h.run = heap.run /\ h.next = heap.next
    BY <1>1, PickedWF
  <1>4. Disjoint(Lists)
    BY ListsDisjoint
  <1> HIDE DEF w, h
  <1>5. t \in Task /\ t # NULL /\ machine[t] = w /\ t \in heap.run
    BY <1>3, NullAssumption DEF Lists, RunnableOf, Runnable, Live
  <1>6. /\ WellFormed(u, R)
        /\ u.sworker = w /\ u.run = heap.run
        /\ \A s \in Task : (\A m \in Machine : s \notin Lists[m])
                           => u.next[s] = heap.next[s]
    BY <1>3, <1>4, <1>5, UnlinkWF
  <1> HIDE DEF u, t, R
  <1>7. \A m \in Machine : t \notin R[m]
    BY <1>3, <1>4 DEF R, Disjoint
  <1>8. \A m \in Machine : R[m] \in SUBSET Task
    BY <1>4 DEF R, Disjoint
  <1> DEFINE f == Released(u, t)
  <1>9. WellFormed(f, R) /\ f.sworker = w /\ f.run = heap.run \ {t}
        /\ \A s \in Task \ {t} : f.next[s] = u.next[s]
    <2>1. u \in HeapType
      BY <1>6 DEF WellFormed
    <2>2. /\ f \in HeapType
          /\ f.fatal = u.fatal /\ f.first = u.first /\ f.current = u.current
          /\ f.previous = u.previous /\ f.nstate = u.nstate
          /\ f.wnext = u.wnext /\ f.wprev = u.wprev
          /\ f.cursor = u.cursor /\ f.nworker = u.nworker
          /\ f.sworker = u.sworker /\ f.run = u.run \ {t}
          /\ \A s \in Task \ {t} : f.next[s] = u.next[s]
      BY <2>1 DEF Released, HeapType
    <2>3. \A m \in Machine : \A s \in R[m] : f.next[s] = u.next[s]
      BY <1>7, <1>8, <2>2
    <2> HIDE DEF f
    <2> QED
      BY <1>6, <2>2, <2>3, FrameWF
  <1> HIDE DEF f
  <1>10. /\ heap' \in {u, f}
         /\ heap' = f <=> t \in autofree
         /\ pmode' = [pmode EXCEPT ![t] = IF t \in autofree THEN "ABSENT" ELSE "OFF"]
         /\ autofree' \in SUBSET Task
         /\ go' \in [pc : {"host", "loop", "step"}, left : Nat, fixed : BOOLEAN]
         /\ go'.pc # "step"
         /\ ret' \in SUBSET Flags
    <2>1. f # u
      BY <1>5, <1>6, <1>9
    <2>2. CASE t \in autofree
      BY <1>1, <1>2, <2>2, StepReturnsGo DEF f, TypeOK
    <2>3. CASE t \notin autofree
      BY <1>1, <1>2, <2>1, <2>3, StepReturnsGo DEF TypeOK
    <2> QED
      BY <2>2, <2>3
  <1>11. /\ WellFormed(heap', R) /\ heap'.sworker = w
         /\ heap'.run = IF t \in autofree THEN heap.run \ {t} ELSE heap.run
         /\ \A s \in Task \ {t} : (\A m \in Machine : s \notin Lists[m])
                                   => heap'.next[s] = heap.next[s]
    BY <1>6, <1>9, <1>10
  <1>12. Lists' = R
    <2>1. ASSUME NEW m \in Machine PROVE RunnableOf(m)' = R[m]
      BY <1>1, <1>3, <1>5, <1>10, <1>11
         DEF R, Lists, RunnableOf, Runnable, Live, TypeOK
    <2>2. R = [m \in Machine |-> R[m]]
      BY DEF R, Lists
    <2> QED
      BY <2>1, <2>2 DEF Lists
  <1>13. TypeOK'
    BY <1>1, <1>5, <1>10, <1>11 DEF TypeOK, WellFormed
  <1>14. ModesAgree'
    <2>1. Live' = Live \ {t}
      BY <1>1, <1>5, <1>10 DEF Live, TypeOK
    <2>2. \A s \in (Live \ heap.run)' : heap'.next[s] = heap.next[s]
      BY <1>11, <2>1 DEF Lists, RunnableOf, Runnable, Live
    <2>3. \A s \in (Live \ heap.run)' : heap.next[s] = machine'[s]
      BY <1>1, <1>11, <2>1 DEF IInv, ModesAgree
    <2>4. (\A s \in Task : pmode[s] = "ABSENT" => s \notin heap.run)'
      BY <1>1, <1>5, <1>10, <1>11 DEF IInv, ModesAgree, TypeOK
    <2>5. (Closing \subseteq heap.run)'
      BY <1>1, <1>5, <1>10, <1>11 DEF IInv, ModesAgree, TypeOK, Closing
    <2>6. (\A s \in Live : machine[s] \in Machine)'
      BY <1>1, <2>1 DEF IInv, ModesAgree
    <2> QED
      BY <2>2, <2>3, <2>4, <2>5, <2>6 DEF ModesAgree
  <1> QED
    BY <1>3, <1>10, <1>11, <1>12, <1>13, <1>14, OutsideStepInv
----------------------------------------------------------------------------
(* The yields. *)

(* A yield that leaves the task in its list. *)
LEMMA NextInv ==
    ASSUME IInv, NEW m \in {"NORMAL", "CLOSE", "END"}, InStep,
           m = "NORMAL" => pmode[Current] = "NORMAL",
           pmode' = [pmode EXCEPT ![Current] = m],
           StepReturns(StateNext(heap, heap.sworker), FALSE),
           UNCHANGED <<machine, autofree, pause, uncaught>>
    PROVE  IInv'
  <1> DEFINE w == heap.sworker
             c == heap.sstate
             g == StateNext(heap, w)
  <1>1. /\ TypeOK /\ WellFormed(heap, Lists) /\ Disjoint(Lists)
        /\ c \in Task /\ w \in Machine /\ heap.current[w] = c /\ c # NULL
        /\ pmode[c] \in {"NORMAL", "CLOSE"} /\ go.left > 0
    BY ListsDisjoint, NullAssumption DEF IInv, SessionOpen, SessionInSync, Current
  <1>2. /\ WellFormed(g, Lists)
        /\ g.next = heap.next /\ g.run = heap.run
        /\ g.sworker = w
    BY <1>1, NextWF DEF SameSession
  <1>3. c \in heap.run
    BY <1>1, ListEmpty DEF WellFormed, Lists, RunnableOf, Runnable
  <1> HIDE DEF g
  <1>4. /\ heap' = g
        /\ go' \in [pc : {"host", "loop", "step"}, left : Nat, fixed : BOOLEAN]
        /\ go'.pc # "step"
        /\ ret' \in SUBSET Flags
    BY <1>1, StepReturnsGo DEF g
  <1>5. Live' = Live /\ c \in Live
    BY <1>1 DEF Live, TypeOK, Current
  <1>6. Lists' = Lists
    BY <1>2, <1>4, <1>5 DEF Lists, RunnableOf, Runnable
  <1>7. ModesAgree'
    BY <1>1, <1>2, <1>3, <1>4, <1>5 DEF IInv, ModesAgree, Closing, TypeOK, Current
  <1>8. TypeOK'
    BY <1>1, <1>2, <1>4 DEF TypeOK, WellFormed, Current
  <1> QED
    BY <1>1, <1>2, <1>4, <1>6, <1>7, <1>8, OutsideStepInv

LEMMA SuspendInv ==
    ASSUME IInv, YieldSuspend
    PROVE  IInv'
  <1> DEFINE w == heap.sworker
             c == heap.sstate
             g == SuspendCurrentState(heap, FALSE)
             R == [Lists EXCEPT ![w] = @ \ {c}]
  <1>1. /\ TypeOK /\ WellFormed(heap, Lists) /\ Disjoint(Lists)
        /\ c \in Task /\ w \in Machine /\ heap.current[w] = c
        /\ heap.suspendop = 0 /\ machine[c] = w
        /\ pmode[c] = "NORMAL" /\ go.left > 0
        /\ UNCHANGED <<pmode, machine, autofree, pause, uncaught>>
    BY ListsDisjoint
       DEF IInv, SessionOpen, SessionInSync, Current, YieldSuspend, Yields
  <1>2. /\ WellFormed(g, R)
        /\ g.sworker = w /\ g.run = heap.run \ {c} /\ g.next[c] = w
        /\ \A t \in Task \ {c} : (\A m \in Machine : t \notin Lists[m])
                                  => g.next[t] = heap.next[t]
    <2>1. \E wait \in BOOLEAN : g = SuspendCurrentState(heap, wait)
      OBVIOUS
    <2> HIDE DEF g
    <2> QED
      BY <1>1, <2>1, SuspendWF
  <1> HIDE DEF g, R
  <1>3. /\ heap' = g
        /\ go' \in [pc : {"host", "loop", "step"}, left : Nat, fixed : BOOLEAN]
        /\ go'.pc # "step"
        /\ ret' \in SUBSET Flags
    BY <1>1, StepReturnsGo DEF YieldSuspend, g
  <1>4. Lists' = R
    <2>1. ASSUME NEW m \in Machine PROVE RunnableOf(m)' = R[m]
      BY <1>1, <1>2, <1>3 DEF R, Lists, RunnableOf, Runnable, Live, TypeOK
    <2>2. R = [m \in Machine |-> R[m]]
      BY DEF R, Lists
    <2> QED
      BY <2>1, <2>2 DEF Lists
  <1>5. ModesAgree'
    <2>1. ASSUME NEW t \in (Live \ heap.run)' PROVE heap'.next[t] = machine'[t]
      <3>1. CASE t = c
        BY <1>1, <1>2, <1>3, <3>1
      <3>2. CASE t # c
        <4>1. t \in Live \ heap.run
          BY <1>1, <1>2, <1>3, <3>2 DEF Live
        <4> QED
          BY <1>1, <1>2, <1>3, <3>2, <4>1
             DEF Lists, RunnableOf, Runnable, Live, IInv, ModesAgree
      <3> QED
        BY <3>1, <3>2
    <2>2. (Closing \subseteq heap.run)'
      BY <1>1, <1>2, <1>3 DEF IInv, ModesAgree, Closing
    <2>3. (\A t \in Live : machine[t] \in Machine)'
      BY <1>1 DEF IInv, ModesAgree, Live
    <2>4. (\A t \in Task : pmode[t] = "ABSENT" => t \notin heap.run)'
      BY <1>1, <1>2, <1>3 DEF IInv, ModesAgree
    <2> QED
      BY <2>1, <2>2, <2>3, <2>4 DEF ModesAgree
  <1>6. TypeOK'
    BY <1>1, <1>2, <1>3 DEF TypeOK, WellFormed
  <1> QED
    BY <1>1, <1>2, <1>3, <1>4, <1>5, <1>6, OutsideStepInv

(* The task of the session closes: it is suspended and resumed. *)
LEMMA CloseInv ==
    ASSUME IInv, YieldTerm \/ YieldAbort
    PROVE  IInv'
  <1> DEFINE w == heap.sworker
             c == heap.sstate
             g == SuspendCurrentState(heap, TRUE)
             R == [Lists EXCEPT ![w] = @ \ {c}]
             h == ResumeState(g, c)
  <1>1. /\ TypeOK /\ WellFormed(heap, Lists) /\ Disjoint(Lists)
        /\ c \in Task /\ w \in Machine /\ heap.current[w] = c
        /\ heap.suspendop = 0 /\ machine[c] = w
        /\ pmode[c] = "NORMAL" /\ go.left > 0
        /\ pmode' = [pmode EXCEPT ![c] = "CLOSE"]
        /\ UNCHANGED <<machine, autofree, pause>>
        /\ uncaught' \in BOOLEAN
    BY ListsDisjoint
       DEF IInv, SessionOpen, SessionInSync, Current, YieldTerm, YieldAbort,
           CloseCurrent, Yields, TypeOK
  <1>2. /\ WellFormed(g, R) /\ c \in Lists[w]
        /\ g.sworker = w /\ g.run = heap.run \ {c} /\ g.next[c] = w
        /\ \A t \in Task \ {c} : (\A m \in Machine : t \notin Lists[m])
                                  => g.next[t] = heap.next[t]
    <2>1. \E wait \in BOOLEAN : g = SuspendCurrentState(heap, wait)
      OBVIOUS
    <2> HIDE DEF g
    <2> QED
      BY <1>1, <2>1, SuspendWF
  <1> HIDE DEF g
  <1>3. Disjoint(R) /\ \A m \in Machine : c \notin R[m]
    BY <1>1, <1>2 DEF Disjoint
  <1>4. [R EXCEPT ![w] = @ \cup {c}] = Lists
    <2> DEFINE Q == Lists
    <2>1. Q \in [Machine -> SUBSET Task] /\ c \in Q[w] /\ R = [Q EXCEPT ![w] = @ \ {c}]
      BY <1>1, <1>2 DEF Disjoint
    <2> HIDE DEF R, Q
    <2>2. [R EXCEPT ![w] = @ \cup {c}] = Q
      BY <1>1, <2>1
    <2> QED
      BY <2>2 DEF Q
  <1>5. \A t \in Task : (\A m \in Machine : t \notin Lists[m])
                       => \A m \in Machine : t \notin R[m]
    BY <1>1 DEF Disjoint
  <1> HIDE DEF R
  <1>6. /\ WellFormed(h, [R EXCEPT ![w] = @ \cup {c}])
        /\ SameSession(h, g)
        /\ h.run = g.run \cup {c}
        /\ \A t \in Task \ {c} : (\A m \in Machine : t \notin R[m])
                                  => h.next[t] = g.next[t]
    BY <1>1, <1>2, <1>3, ResumeWF
  <1> HIDE DEF h
  <1>7. /\ heap' = h
        /\ go' \in [pc : {"host", "loop", "step"}, left : Nat, fixed : BOOLEAN]
        /\ go'.pc # "step"
        /\ ret' \in SUBSET Flags
    <2>1. \E e \in BOOLEAN : StepReturns(h, e)
      BY DEF YieldTerm, YieldAbort, ImplodeMonoTask, Current, g, h
    <2> QED
      BY <1>1, <2>1, StepReturnsGo
  <1>8. heap'.run = heap.run /\ heap'.sworker = w
    BY <1>1, <1>2, <1>6, <1>7 DEF SameSession, Lists, RunnableOf, Runnable
  <1>9. Live' = Live
    BY <1>1 DEF Live, TypeOK
  <1>10. Lists' = Lists
    BY <1>1, <1>8, <1>9 DEF Lists, RunnableOf, Runnable
  <1>11. ModesAgree'
    <2>1. ASSUME NEW t \in (Live \ heap.run)' PROVE heap'.next[t] = machine'[t]
      <3>1. t \in Live \ heap.run /\ t \in Task /\ t # c
        BY <1>1, <1>2, <1>8, <1>9 DEF Live, Lists, RunnableOf, Runnable
      <3>2. \A m \in Machine : t \notin Lists[m]
        BY <3>1 DEF Lists, RunnableOf, Runnable
      <3>3. heap'.next[t] = heap.next[t]
        BY <1>2, <1>5, <1>6, <1>7, <3>1, <3>2
      <3> QED
        BY <1>1, <3>1, <3>3 DEF IInv, ModesAgree
    <2>2. c \in heap.run
      BY <1>1, <1>2 DEF Lists, RunnableOf, Runnable
    <2>3. (Closing \subseteq heap.run)'
      BY <1>1, <1>8, <2>2 DEF IInv, ModesAgree, Closing, TypeOK
    <2>4. (\A t \in Live : machine[t] \in Machine)'
      BY <1>1, <1>9 DEF IInv, ModesAgree
    <2>5. (\A t \in Task : pmode[t] = "ABSENT" => t \notin heap.run)'
      BY <1>1, <1>8 DEF IInv, ModesAgree, TypeOK
    <2> QED
      BY <2>1, <2>3, <2>4, <2>5 DEF ModesAgree
  <1>12. WellFormed(heap', Lists)
    BY <1>4, <1>6, <1>7
  <1>13. TypeOK'
    BY <1>1, <1>7, <1>12 DEF TypeOK, WellFormed
  <1> QED
    BY <1>1, <1>7, <1>8, <1>10, <1>11, <1>12, <1>13, OutsideStepInv

LEMMA YieldInv ==
    ASSUME IInv, Yield
    PROVE  IInv'
  <1>1. CASE YieldContinue
    <2>1. pmode' = [pmode EXCEPT ![Current] = "NORMAL"]
      BY <1>1 DEF YieldContinue, Yields, IInv, TypeOK, SessionOpen
    <2> QED
      BY <1>1, <2>1, NextInv DEF YieldContinue, Yields
  <1>2. CASE YieldEnd
    BY <1>2, NextInv DEF YieldEnd, Yields
  <1> QED
    BY <1>1, <1>2, SuspendInv, CloseInv DEF Yield
----------------------------------------------------------------------------
LEMMA NextStepInv == IInv /\ [Next]_vars => IInv'
  <1> SUFFICES ASSUME IInv, [Next]_vars PROVE IInv'
    OBVIOUS
  <1>1. CASE Calls
    BY <1>1, NewTaskInv, ResumeInv, AbortInv, FreeTaskInv, BreakInv DEF Calls
  <1>2. CASE HostGo
    BY <1>2, GoCallInv
  <1>3. CASE GoLoop
    BY <1>3, GoStopsInv, GoNextWorkerInv, StepBeginInv, StepEndInv DEF GoLoop
  <1>4. CASE Yield
    BY <1>4, YieldInv
  <1>5. CASE UNCHANGED vars
    BY <1>5, UnchangedInv DEF vars, IInv, TypeOK
  <1> QED
    BY <1>1, <1>2, <1>3, <1>4, <1>5 DEF Next

(* The invariant holds in every reachable state. *)
THEOREM Invariance == Spec => []IInv
  BY InitIInv, NextStepInv, PTL DEF Spec

(* Every pointer of the lists is a task, a worker or null, and every flag  *)
(* of a zm_go is one it may return.                                        *)
THEOREM TypeCorrect == Spec => []TypeOK
  <1>1. IInv => TypeOK
    BY DEF IInv
  <1> QED
    BY <1>1, Invariance, PTL

(* No internal check of the scheduler fails: ZM_FATAL_U1 and ZM_FATAL_UP   *)
(* are unreachable by any order of the calls that the library allows.      *)
THEOREM ChecksHold == Spec => []NoInternalFatal
  <1>1. IInv => NoInternalFatal
    BY DEF IInv, WellFormed, NoInternalFatal
  <1> QED
    BY <1>1, Invariance, PTL

(* The list of each worker is intact and holds its running tasks. *)
THEOREM ListsIntact == Spec => []ListsWellFormed
  <1>1. IInv => ListsWellFormed
    BY DEF IInv, WellFormed, ListsWellFormed, ModesAgree, Lists
  <1> QED
    BY <1>1, Invariance, PTL

(* The ring of the workers is intact and holds those that have tasks. *)
THEOREM RingIntact == Spec => []RingWellFormed
  <1>1. IInv => RingWellFormed
    BY DEF IInv, WellFormed, RingWellFormed
  <1> QED
    BY <1>1, Invariance, PTL

(* The cursor of the VM, the cursor of the worker and the session agree    *)
(* while a step is open.                                                   *)
THEOREM SessionAgrees == Spec => []SessionInSync
  <1>1. IInv => SessionInSync
    BY DEF IInv
  <1> QED
    BY <1>1, Invariance, PTL
----------------------------------------------------------------------------
(* The result of zm_go. *)

(* A worker with no task in its list has no running task. *)
LEMMA NothingToRun ==
    ASSUME IInv, NEW w \in Machine, heap.nstate[w] = 0
    PROVE  {t \in Runnable : machine[t] = w} = {}
  <1>1. heap \in HeapType /\ HasRunList(heap, w, Lists[w])
    BY DEF IInv, WellFormed
  <1>2. Lists[w] = {}
    BY <1>1, ListEmpty
  <1> QED
    BY <1>2 DEF Lists, RunnableOf

(* The cursor of the VM is on a worker that has tasks, if any has. *)
LEMMA CursorHasTasks ==
    ASSUME IInv
    PROVE  IF heap.cursor = NULL
           THEN \A w \in Machine : heap.nstate[w] = 0
           ELSE heap.cursor \in Machine /\ heap.nstate[heap.cursor] > 0
  <1> DEFINE M == {w \in Machine : heap.nstate[w] > 0}
  <1>1. heap \in HeapType /\ HasRing(heap, M)
    BY DEF IInv, WellFormed
  <1>2. PICK r \in [1..heap.nworker -> Machine] : IsRing(heap, M, r)
    BY <1>1 DEF HasRing
  <1>3. heap.nworker \in Nat /\ heap.nstate \in [Machine -> Nat]
    BY <1>1 DEF HeapType
  <1>4. CASE heap.nworker = 0
    BY <1>2, <1>3, <1>4 DEF IsRing
  <1>5. CASE heap.nworker # 0
    <2>1. heap.cursor = r[1] /\ r[1] \in M
      BY <1>2, <1>3, <1>5 DEF IsRing
    <2> QED
      BY <2>1, NullAssumption
  <1> QED
    BY <1>4, <1>5

LEMMA IdleStep ==
    ASSUME IInv, [Next]_vars, go.pc # "host", go'.pc = "host", ret' = {}
    PROVE  {t \in Runnable' : go.fixed => machine[t] = heap'.sworker} = {}
  <1>1. CASE GoIdle
    <2>1. UNCHANGED <<heap, pmode, machine>> /\ GoGetWorker = NULL /\ go.pc = "loop"
      BY <1>1 DEF GoIdle, Looping
    <2>2. Runnable' = Runnable
      BY <2>1 DEF Runnable, Live
    <2>3. CASE go.fixed
      <3>1. heap.sworker \in Machine /\ heap.sworker # NULL
        BY <2>1, <2>3, NullAssumption DEF IInv, SessionOpen
      <3>2. heap.nstate[heap.sworker] = 0
        BY <2>1, <2>3, <3>1 DEF GoGetWorker
      <3> QED
        BY <2>1, <2>2, <2>3, <3>1, <3>2, NothingToRun
    <2>4. CASE ~go.fixed
      <3>1. \A w \in Machine : heap.nstate[w] = 0
        BY <2>1, <2>4, CursorHasTasks DEF GoGetWorker
      <3>2. \A t \in Runnable : machine[t] \in Machine
        BY DEF IInv, ModesAgree, Runnable
      <3> QED
        BY <2>2, <3>1, <3>2, NothingToRun
    <2> QED
      BY <2>3, <2>4
  <1>2. ASSUME NEW h, NEW e \in BOOLEAN, StepReturns(h, e), UNCHANGED machine
        PROVE  {t \in Runnable' : go.fixed => machine[t] = heap'.sworker} = {}
    <2> DEFINE again == ~go.fixed \/ h.nstate[h.sworker] > 0
               flags == (IF again THEN {"AGAIN"} ELSE {})
                          \cup (IF e THEN {"EXCEPTION"} ELSE {})
    <2>1. again => "AGAIN" \in flags
      OBVIOUS
    <2>2. /\ heap' = h
          /\ \/ go' = [go EXCEPT !.pc = "loop", !.left = @ - 1]
             \/ go' = [go EXCEPT !.pc = "host"] /\ ret' = flags
      BY <1>2 DEF StepReturns, Return
    <2> HIDE DEF flags
    <2>3. go \in [pc : {"host", "loop", "step"}, left : Nat, fixed : BOOLEAN]
      BY DEF IInv, TypeOK
    <2>4. ret' = flags /\ go'.fixed = go.fixed
      BY <2>2, <2>3
    <2>5. go.fixed /\ ~(h.nstate[h.sworker] > 0)
      BY <2>1, <2>4
    <2>6. IInv'
      BY NextStepInv
    <2> DEFINE w == heap'.sworker
    <2>7. /\ w \in Machine /\ heap' \in HeapType
          /\ HasRunList(heap', w, Lists'[w])
      BY <2>4, <2>5, <2>6 DEF IInv, SessionOpen, WellFormed
    <2>8. heap'.nstate[w] = 0
      BY <2>2, <2>5, <2>7 DEF HeapType
    <2>9. Lists'[w] = {}
      BY <2>7, <2>8, ListEmpty
    <2>10. Lists'[w] = {t \in Runnable' : machine'[t] = w}
      BY <2>7 DEF Lists, RunnableOf
    <2> QED
      BY <1>2, <2>5, <2>7, <2>9, <2>10
  <1>3. CASE StepEnd
    BY <1>2, <1>3 DEF StepEnd
  <1>4. CASE Yield
    BY <1>2, <1>4 DEF Yield, YieldContinue, YieldSuspend, YieldTerm, YieldAbort,
                      YieldEnd, CloseCurrent
  <1>5. CASE Calls \/ HostGo \/ GoNextWorker \/ UNCHANGED vars
    BY <1>5 DEF Calls, NewTask, Resume, Abort, FreeTask, Break, UCatch, HostGo,
                GoCall, GoCallFiltered, GoNextWorker, vars
  <1>6. CASE GoExhausted \/ GoPause
    <2>1. "AGAIN" \in ret'
      BY <1>6 DEF GoExhausted, GoPause, Return
    <2> QED
      BY <2>1
  <1>7. CASE StepBegin
    <2>1. go'.pc = "step"
      BY <1>7 DEF StepBegin, IInv, TypeOK
    <2> QED
      BY <2>1
  <1> QED
    BY <1>1, <1>3, <1>4, <1>5, <1>6, <1>7 DEF Next, GoLoop

(* ZM_RUN_IDLE means that nothing is left to run for the call. *)
THEOREM IdleIsIdle == Spec => IdleMeansIdle
  <1> DEFINE P == (go.pc # "host" /\ go'.pc = "host" /\ ret' = {})
                    => {t \in Runnable' : go.fixed => machine[t] = heap'.sworker} = {}
  <1>1. IInv /\ [Next]_vars => P
    BY IdleStep
  <1>2. IInv /\ [Next]_vars => [P]_vars
    BY <1>1
  <1> QED
    BY <1>2, Invariance, PTL DEF Spec, IdleMeansIdle

----------------------------------------------------------------------------
(* The lists and the ring implement the queues of RunQueues, when the host *)
(* filters no call.                                                        *)
(*                                                                         *)
(* A well-formed list fixes the sequence that following its pointers       *)
(* gives, and so the queues of its worker; each operator of RunLists is    *)
(* then an operation on the queues.                                        *)

Less == {p \in Nat \X Nat : p[1] < p[2]}

LEMMA LessWellFounded == IsWellFoundedOn(Less, Nat)
  <1>1. Less = OpToRel(<, Nat)
    BY DEF Less, OpToRel
  <1> QED
    BY <1>1, NatLessThanWellFounded

(* A set of numbers that is not empty has a least one. *)
LEMMA Least ==
    ASSUME NEW T \in SUBSET Nat, T # {}
    PROVE  \E m \in T : \A k \in T : m <= k
  <1>1. PICK m \in T : \A k \in T : <<k, m>> \notin Less
    BY LessWellFounded, WFMin
  <1>2. \A k \in T : ~(k < m)
    BY <1>1 DEF Less
  <1> QED
    BY <1>1, <1>2

(* What following the pointers of nx from s gives: at most one sequence. *)
IsWalk(s, nx, n, q) == q = [i \in 1..n |-> IF i = 1 THEN s ELSE nx[q[i - 1]]]

LEMMA WalkUnique ==
    ASSUME NEW n \in Nat, NEW s, NEW nx, NEW q, NEW r,
           IsWalk(s, nx, n, q), IsWalk(s, nx, n, r)
    PROVE  q = r
  <1>1. /\ \A i \in 1..n : q[i] = IF i = 1 THEN s ELSE nx[q[i - 1]]
        /\ \A i \in 1..n : r[i] = IF i = 1 THEN s ELSE nx[r[i - 1]]
        /\ q = [i \in 1..n |-> q[i]] /\ r = [i \in 1..n |-> r[i]]
    BY Zenon DEF IsWalk
  <1> DEFINE D == {i \in 1..n : q[i] # r[i]}
  <1>2. CASE D = {}
    <2>1. \A i \in 1..n : q[i] = r[i]
      BY <1>2
    <2>2. [i \in 1..n |-> q[i]] = [i \in 1..n |-> r[i]]
      BY <2>1
    <2> QED
      BY <1>1, <2>2
  <1>3. CASE D # {}
    <2>1. PICK m \in D : \A k \in D : m <= k
      <3>1. D \in SUBSET Nat
        OBVIOUS
      <3> HIDE DEF D
      <3> QED
        BY <1>3, <3>1, Least
    <2>2. m \in 1..n /\ q[m] # r[m]
      BY <2>1
    <2>3. m # 1
      BY <1>1, <2>2
    <2>4. m - 1 \in 1..n /\ m - 1 \notin D
      BY <2>1, <2>2, <2>3
    <2>5. q[m - 1] = r[m - 1]
      BY <2>4
    <2>6. q[m] = nx[q[m - 1]] /\ r[m] = nx[r[m - 1]]
      BY Zenon, <1>1, <2>2, <2>3
    <2> QED
      BY Zenon, <2>2, <2>5, <2>6
  <1> QED
    BY <1>2, <1>3

(* The list and the ring that the structures show are the ones that the    *)
(* walks find.                                                             *)
LEMMA ListShown ==
    ASSUME NEW h \in HeapType, NEW w \in Machine, NEW S, NEW q, NEW k,
           Shows(h, w, S, q, k)
    PROVE  ListOf(h, w) = q /\ Passed(h, w) = k
  <1> DEFINE n == h.nstate[w]
  <1>1. /\ n \in Nat /\ q \in [1..n -> Task] /\ k \in 0..n
        /\ IsRunList(h, w, S, q, k)
    BY DEF Shows, HeapType
  <1>2. IsWalk(h.first[w], h.next, n, q)
    <2>1. ASSUME NEW i \in 1..n
          PROVE  q[i] = IF i = 1 THEN h.first[w] ELSE h.next[q[i - 1]]
      <3>1. CASE i = 1
        BY <1>1, <3>1 DEF IsRunList
      <3>2. CASE i # 1
        <4>1. i - 1 \in 1..n /\ i - 1 # n /\ (i - 1) + 1 = i
          BY <1>1, <3>2
        <4>2. h.next[q[i - 1]] = q[(i - 1) + 1]
          BY <1>1, <4>1 DEF IsRunList
        <4> QED
          BY <3>2, <4>1, <4>2
      <3> QED
        BY <3>1, <3>2
    <2>2. q = [i \in 1..n |-> q[i]]
      BY <1>1
    <2> HIDE DEF n
    <2> QED
      BY Zenon, <2>1, <2>2 DEF IsWalk
  <1>3. ListOf(h, w) = CHOOSE p : IsWalk(h.first[w], h.next, n, p)
    BY DEF ListOf, IsWalk
  <1>4. ListOf(h, w) = q
    <2> HIDE DEF n
    <2>1. IsWalk(h.first[w], h.next, n, ListOf(h, w))
      BY Zenon, <1>2, <1>3
    <2> QED
      BY <1>1, <1>2, <2>1, WalkUnique
  <1>5. Passed(h, w) = k
    <2>1. CASE k = n
      BY <1>1, <2>1 DEF IsRunList, Passed
    <2>2. CASE k # n
      <3>1. k \in 0..(n - 1) /\ h.current[w] = q[k + 1] /\ q[k + 1] # NULL
        BY <1>1, <2>2, NullAssumption DEF IsRunList
      <3>2. \A j \in 0..(n - 1) : q[j + 1] = q[k + 1] => j = k
        <4> SUFFICES ASSUME NEW j \in 0..(n - 1), q[j + 1] = q[k + 1] PROVE j = k
          OBVIOUS
        <4>1. j + 1 \in 1..n /\ k + 1 \in 1..n
          BY <1>1, <3>1
        <4>2. j + 1 = k + 1
          BY <1>1, <4>1 DEF IsRunList
        <4> QED
          BY <3>1, <4>2
      <3>3. Passed(h, w) = CHOOSE j \in 0..(n - 1) : q[j + 1] = h.current[w]
        BY <1>4, <3>1 DEF Passed
      <3> HIDE DEF n
      <3> QED
        BY <3>1, <3>2, <3>3
    <2> QED
      BY <2>1, <2>2
  <1> QED
    BY <1>4, <1>5

LEMMA RingShown ==
    ASSUME NEW h \in HeapType, NEW M, NEW r, ShowsRing(h, M, r)
    PROVE  RingOf(h) = r
  <1> DEFINE n == h.nworker
  <1>1. n \in Nat /\ r \in [1..n -> Machine] /\ IsRing(h, M, r)
    BY DEF ShowsRing, HeapType
  <1>2. IsWalk(h.cursor, h.wnext, n, r)
    <2>1. ASSUME NEW i \in 1..n
          PROVE  r[i] = IF i = 1 THEN h.cursor ELSE h.wnext[r[i - 1]]
      <3>1. CASE i = 1
        BY <1>1, <3>1 DEF IsRing
      <3>2. CASE i # 1
        <4>1. i - 1 \in 1..n /\ i - 1 # n /\ (i - 1) + 1 = i
          BY <1>1, <3>2
        <4>2. h.wnext[r[i - 1]] = r[(i - 1) + 1]
          BY <1>1, <4>1 DEF IsRing
        <4> QED
          BY <3>2, <4>1, <4>2
      <3> QED
        BY <3>1, <3>2
    <2>2. r = [i \in 1..n |-> r[i]]
      BY <1>1
    <2> HIDE DEF n
    <2> QED
      BY Zenon, <2>1, <2>2 DEF IsWalk
  <1>3. RingOf(h) = CHOOSE p : IsWalk(h.cursor, h.wnext, n, p)
    BY DEF RingOf, IsWalk
  <1> HIDE DEF n
  <1>4. IsWalk(h.cursor, h.wnext, n, RingOf(h))
    BY Zenon, <1>2, <1>3
  <1> QED
    BY <1>1, <1>2, <1>4, WalkUnique
----------------------------------------------------------------------------
(* Functions on 1..n as sequences. *)

LEMMA IsSequence ==
    ASSUME NEW T, NEW n \in Nat, NEW f \in [1..n -> T]
    PROVE  f \in Seq(T) /\ Len(f) = n /\ (f = <<>> <=> n = 0)
  <1>1. f \in Seq(T)
    BY Zenon, SeqDef
  <1>2. Len(f) = n
    BY <1>1
  <1>3. n = 0 => f = <<>>
    BY <1>1, <1>2, EmptySeq
  <1>4. f = <<>> => n = 0
    BY <1>2, EmptySeq
  <1> QED
    BY <1>1, <1>2, <1>3, <1>4

LEMMA SameSequence ==
    ASSUME NEW T, NEW n \in Nat, NEW f \in [1..n -> T], NEW s \in Seq(T),
           Len(s) = n, \A i \in 1..n : s[i] = f[i]
    PROVE  f = s
  <1>1. f \in Seq(T) /\ Len(f) = n
    BY IsSequence
  <1> QED
    BY <1>1, SeqEqual

LEMMA IsAppend ==
    ASSUME NEW T, NEW n \in Nat, NEW f \in [1..n -> T], NEW e \in T,
           NEW g \in [1..(n + 1) -> T], g[n + 1] = e, \A i \in 1..n : g[i] = f[i]
    PROVE  g = Append(f, e)
  <1>1. f \in Seq(T) /\ Len(f) = n
    BY IsSequence
  <1>2. /\ Append(f, e) \in Seq(T) /\ Len(Append(f, e)) = n + 1
        /\ \A i \in 1..n : Append(f, e)[i] = f[i]
        /\ Append(f, e)[n + 1] = e
    BY <1>1, AppendProperties
  <1>3. \A i \in 1..(n + 1) : Append(f, e)[i] = g[i]
    BY <1>2
  <1> QED
    BY <1>2, <1>3, SameSequence

LEMMA IsTail ==
    ASSUME NEW T, NEW n \in Nat \ {0}, NEW f \in [1..n -> T],
           NEW g \in [1..(n - 1) -> T], \A i \in 1..(n - 1) : g[i] = f[i + 1]
    PROVE  g = Tail(f) /\ Head(f) = f[1]
  <1>1. f \in Seq(T) /\ Len(f) = n /\ f # <<>>
    BY IsSequence
  <1>2. /\ Tail(f) \in Seq(T) /\ Len(Tail(f)) = n - 1
        /\ \A i \in 1..(n - 1) : Tail(f)[i] = f[i + 1]
    BY <1>1, HeadTailProperties
  <1>3. \A i \in 1..(n - 1) : Tail(f)[i] = g[i]
    BY <1>2
  <1>4. n - 1 \in Nat
    OBVIOUS
  <1>5. g = Tail(f)
    BY <1>2, <1>3, <1>4, SameSequence
  <1> QED
    BY <1>1, <1>5
----------------------------------------------------------------------------
(* The two halves of a list of n tasks of which k have run. *)

Rest(q, n, k) == [i \in 1..(n - k) |-> q[k + i]]
Past(q, k)   == [i \in 1..k |-> q[i]]

LEMMA Halves ==
    ASSUME NEW n \in Nat, NEW k \in 0..n, NEW q \in [1..n -> Task]
    PROVE  /\ n - k \in Nat /\ k \in Nat
           /\ Rest(q, n, k) \in [1..(n - k) -> Task] /\ Past(q, k) \in [1..k -> Task]
           /\ Rest(q, n, k) \in Seq(Task) /\ Past(q, k) \in Seq(Task)
           /\ Rest(q, n, k) = <<>> <=> k = n
           /\ Past(q, k) = <<>> <=> k = 0
           /\ Len(Rest(q, n, k)) = n - k /\ Len(Past(q, k)) = k
  <1>1. n - k \in Nat /\ k \in Nat
    OBVIOUS
  <1>2. Rest(q, n, k) \in [1..(n - k) -> Task] /\ Past(q, k) \in [1..k -> Task]
    BY DEF Rest, Past
  <1>3. n - k = 0 <=> k = n
    OBVIOUS
  <1> QED
    BY <1>1, <1>2, <1>3, IsSequence

(* The cursor passes a task. *)
LEMMA HalvesNext ==
    ASSUME NEW n \in Nat, NEW k \in 0..n, NEW q \in [1..n -> Task], k # n
    PROVE  /\ Rest(q, n, k + 1) = Tail(Rest(q, n, k))
           /\ Head(Rest(q, n, k)) = q[k + 1]
           /\ Past(q, k + 1) = Append(Past(q, k), q[k + 1])
  <1>1. /\ k + 1 \in 0..n /\ n - k \in Nat \ {0} /\ n - (k + 1) = (n - k) - 1
        /\ k \in Nat /\ q[k + 1] \in Task
    OBVIOUS
  <1>2. /\ Rest(q, n, k) \in [1..(n - k) -> Task]
        /\ Rest(q, n, k + 1) \in [1..((n - k) - 1) -> Task]
        /\ Past(q, k) \in [1..k -> Task] /\ Past(q, k + 1) \in [1..(k + 1) -> Task]
    BY <1>1, Halves
  <1>3. \A i \in 1..((n - k) - 1) : Rest(q, n, k + 1)[i] = Rest(q, n, k)[i + 1]
    <2> SUFFICES ASSUME NEW i \in 1..((n - k) - 1)
                 PROVE  Rest(q, n, k + 1)[i] = Rest(q, n, k)[i + 1]
      OBVIOUS
    <2>1. i \in 1..(n - (k + 1)) /\ i + 1 \in 1..(n - k) /\ (k + 1) + i = k + (i + 1)
      BY <1>1
    <2>2. Rest(q, n, k + 1)[i] = q[(k + 1) + i] /\ Rest(q, n, k)[i + 1] = q[k + (i + 1)]
      BY <2>1 DEF Rest
    <2> QED
      BY <2>1, <2>2
  <1>4. Rest(q, n, k)[1] = q[k + 1]
    BY <1>1 DEF Rest
  <1>5. /\ Past(q, k + 1)[k + 1] = q[k + 1]
        /\ \A i \in 1..k : Past(q, k + 1)[i] = Past(q, k)[i]
    BY <1>1 DEF Past
  <1>6. Past(q, k + 1) = Append(Past(q, k), q[k + 1])
    BY <1>1, <1>2, <1>5, IsAppend
  <1>7. /\ Rest(q, n, k + 1) = Tail(Rest(q, n, k))
        /\ Head(Rest(q, n, k)) = Rest(q, n, k)[1]
    BY <1>1, <1>2, <1>3, IsTail
  <1> QED
    BY <1>4, <1>6, <1>7

(* The cursor goes back to the head. *)
LEMMA HalvesRewind ==
    ASSUME NEW n \in Nat, NEW q \in [1..n -> Task]
    PROVE  /\ Rest(q, n, n) = <<>> /\ Rest(q, n, 0) = Past(q, n)
           /\ Past(q, 0) = <<>>
  <1>1. n \in 0..n /\ 0 \in 0..n
    OBVIOUS
  <1>2. Rest(q, n, 0) = Past(q, n)
    BY DEF Rest, Past
  <1> QED
    BY <1>1, <1>2, Halves

(* A task is inserted behind the cursor. *)
LEMMA HalvesInserted ==
    ASSUME NEW n \in Nat, NEW k \in 0..n, NEW q \in [1..n -> Task], NEW s \in Task
    PROVE  LET p == Inserted(q, n, k, s)
           IN  /\ Rest(p, n + 1, k + 1) = Rest(q, n, k)
               /\ Past(p, k + 1) = Append(Past(q, k), s)
  <1> DEFINE p == Inserted(q, n, k, s)
  <1>1. /\ p \in [1..(n + 1) -> Task] /\ p[k + 1] = s
        /\ \A i \in 1..k : p[i] = q[i]
        /\ \A i \in (k + 1)..n : p[i + 1] = q[i]
    BY DEF Inserted
  <1> HIDE DEF p
  <1>2. Rest(p, n + 1, k + 1) = Rest(q, n, k)
    <2>1. (n + 1) - (k + 1) = n - k
      OBVIOUS
    <2>2. \A i \in 1..(n - k) : p[(k + 1) + i] = q[k + i]
      <3> SUFFICES ASSUME NEW i \in 1..(n - k) PROVE p[(k + 1) + i] = q[k + i]
        OBVIOUS
      <3>1. k + i \in (k + 1)..n /\ (k + 1) + i = (k + i) + 1
        OBVIOUS
      <3> QED
        BY <1>1, <3>1
    <2> QED
      BY <2>1, <2>2 DEF Rest
  <1>3. /\ k \in Nat /\ Past(q, k) \in [1..k -> Task]
        /\ Past(p, k + 1) \in [1..(k + 1) -> Task]
        /\ Past(p, k + 1)[k + 1] = s
        /\ \A i \in 1..k : Past(p, k + 1)[i] = Past(q, k)[i]
    BY <1>1 DEF Past
  <1>4. Past(p, k + 1) = Append(Past(q, k), s)
    BY <1>3, IsAppend
  <1> QED
    BY <1>2, <1>4 DEF p

LEMMA HalvesSingle ==
    ASSUME NEW s \in Task
    PROVE  Rest(Single(s), 1, 0) = <<s>> /\ Past(Single(s), 0) = <<>>
  <1>1. Rest(Single(s), 1, 0) \in [1..1 -> Task] /\ Rest(Single(s), 1, 0)[1] = s
    BY DEF Rest, Single
  <1>2. <<s>> \in Seq(Task) /\ Len(<<s>>) = 1 /\ <<s>>[1] = s
    OBVIOUS
  <1>3. Rest(Single(s), 1, 0) = <<s>>
    BY <1>1, <1>2, SameSequence
  <1>4. Past(Single(s), 0) \in [1..0 -> Task]
    BY DEF Past
  <1> QED
    BY <1>3, <1>4, IsSequence

(* The task at the cursor leaves. *)
LEMMA HalvesWithout ==
    ASSUME NEW n \in Nat, NEW k \in 0..n, NEW q \in [1..n -> Task], k # n
    PROVE  LET p == Without(q, n, k + 1)
           IN  Rest(p, n - 1, k) = Tail(Rest(q, n, k)) /\ Past(p, k) = Past(q, k)
  <1> DEFINE p == Without(q, n, k + 1)
  <1>1. /\ \A i \in 1..k : p[i] = q[i]
        /\ \A i \in (k + 1)..(n - 1) : p[i] = q[i + 1]
    BY DEF Without
  <1> HIDE DEF p
  <1>2. Rest(p, n - 1, k) = Rest(q, n, k + 1)
    <2>1. (n - 1) - k = n - (k + 1)
      OBVIOUS
    <2>2. \A i \in 1..(n - (k + 1)) : p[k + i] = q[(k + 1) + i]
      <3> SUFFICES ASSUME NEW i \in 1..(n - (k + 1)) PROVE p[k + i] = q[(k + 1) + i]
        OBVIOUS
      <3>1. k + i \in (k + 1)..(n - 1) /\ (k + 1) + i = (k + i) + 1
        OBVIOUS
      <3> QED
        BY <1>1, <3>1
    <2> QED
      BY <2>1, <2>2 DEF Rest
  <1>3. Past(p, k) = Past(q, k)
    BY <1>1 DEF Past
  <1> QED
    BY <1>2, <1>3, HalvesNext DEF p

(* The ring turns, grows at its end and loses its first worker. *)
LEMMA RingTurns ==
    ASSUME NEW n \in Nat \ {0}, NEW r \in [1..n -> Machine]
    PROVE  /\ r[1] = Head(r) /\ r # <<>> /\ r \in Seq(Machine) /\ Len(r) = n
           /\ Without(r, n, 1) = Tail(r)
           /\ Rotated(r, n) = Append(Tail(r), Head(r))
           /\ \A w \in Machine : Appended(r, n, w) = Append(r, w)
  <1> DEFINE t == Without(r, n, 1)
  <1>1. n - 1 \in Nat /\ t \in [1..(n - 1) -> Machine] /\ \A i \in 1..(n - 1) : t[i] = r[i + 1]
    BY DEF Without
  <1>2. r \in Seq(Machine) /\ r # <<>> /\ Len(r) = n
    BY IsSequence
  <1> HIDE DEF t
  <1>3. t = Tail(r) /\ Head(r) = r[1]
    BY <1>1, IsTail
  <1>4. /\ Rotated(r, n) \in [1..((n - 1) + 1) -> Machine]
        /\ Rotated(r, n)[(n - 1) + 1] = r[1]
        /\ \A i \in 1..(n - 1) : Rotated(r, n)[i] = t[i]
    BY <1>1 DEF Rotated
  <1>5. Rotated(r, n) = Append(t, r[1])
    BY <1>1, <1>4, IsAppend
  <1>6. ASSUME NEW w \in Machine PROVE Appended(r, n, w) = Append(r, w)
    <2>1. /\ Appended(r, n, w) \in [1..(n + 1) -> Machine]
          /\ Appended(r, n, w)[n + 1] = w
          /\ \A i \in 1..n : Appended(r, n, w)[i] = r[i]
      BY DEF Appended
    <2> QED
      BY <2>1, IsAppend
  <1> QED
    BY <1>2, <1>3, <1>5, <1>6 DEF t

LEMMA RingStarts ==
    ASSUME NEW r \in [1..0 -> Machine], NEW w \in Machine
    PROVE  r = <<>> /\ Appended(r, 0, w) = Append(<<>>, w)
  <1>1. r = <<>>
    BY IsSequence
  <1>2. /\ Appended(r, 0, w) \in [1..(0 + 1) -> Machine]
        /\ Appended(r, 0, w)[0 + 1] = w
        /\ \A i \in 1..0 : Appended(r, 0, w)[i] = r[i]
    BY DEF Appended
  <1>3. Appended(r, 0, w) = Append(r, w)
    BY <1>2, IsAppend
  <1> QED
    BY <1>1, <1>3
----------------------------------------------------------------------------
(* The queues that a heap represents. *)

Todos(h) == [w \in Machine |-> TodoOf(h, w)]
Rans(h)  == [w \in Machine |-> RanOf(h, w)]

LEMMA Shown ==
    ASSUME NEW h \in HeapType, NEW w \in Machine, NEW S, NEW q, NEW k,
           Shows(h, w, S, q, k)
    PROVE  /\ Todos(h)[w] = Rest(q, h.nstate[w], k) /\ Rans(h)[w] = Past(q, k)
           /\ h.nstate[w] \in Nat /\ k \in 0..h.nstate[w]
           /\ q \in [1..h.nstate[w] -> Task]
  <1>1. ListOf(h, w) = q /\ Passed(h, w) = k
    BY ListShown
  <1>2. TodoOf(h, w) = Rest(q, h.nstate[w], k) /\ RanOf(h, w) = Past(q, k)
    BY <1>1 DEF TodoOf, RanOf, Rest, Past
  <1>3. h.nstate[w] \in Nat /\ k \in 0..h.nstate[w] /\ q \in [1..h.nstate[w] -> Task]
    BY DEF Shows, HeapType
  <1> QED
    BY <1>2, <1>3 DEF Todos, Rans

LEMMA ListQueues ==
    ASSUME NEW h, NEW S, WellFormed(h, S), NEW w \in Machine
    PROVE  /\ Todos(h)[w] \in Seq(Task) /\ Rans(h)[w] \in Seq(Task)
           /\ Todos(h)[w] = <<>> <=> h.current[w] = NULL
           /\ Todos(h)[w] = <<>> /\ Rans(h)[w] = <<>> <=> h.nstate[w] = 0
           /\ h.current[w] # NULL => Head(Todos(h)[w]) = h.current[w]
           /\ ToSet(Todos(h)[w]) \cup ToSet(Rans(h)[w]) = S[w]
  <1> DEFINE n == h.nstate[w]
  <1>1. h \in HeapType /\ HasRunList(h, w, S[w])
    BY DEF WellFormed
  <1>2. PICK q, k : Shows(h, w, S[w], q, k)
    BY <1>1 DEF HasRunList, Shows
  <1>3. /\ Todos(h)[w] = Rest(q, n, k) /\ Rans(h)[w] = Past(q, k)
        /\ n \in Nat /\ k \in 0..n /\ q \in [1..n -> Task]
    BY <1>1, <1>2, Shown
  <1>4. IsRunList(h, w, S[w], q, k)
    BY <1>2 DEF Shows
  <1>5. h.current[w] = IF k = n THEN NULL ELSE q[k + 1]
    BY <1>4 DEF IsRunList
  <1>6. k # n => q[k + 1] \in Task /\ q[k + 1] # NULL
    BY <1>3, NullAssumption
  <1> HIDE DEF n
  <1>7. /\ Rest(q, n, k) \in Seq(Task) /\ Past(q, k) \in Seq(Task)
        /\ Rest(q, n, k) = <<>> <=> k = n
        /\ Past(q, k) = <<>> <=> k = 0
        /\ k # n => Head(Rest(q, n, k)) = q[k + 1]
    <2>1. /\ Rest(q, n, k) \in Seq(Task) /\ Past(q, k) \in Seq(Task)
          /\ Rest(q, n, k) = <<>> <=> k = n
          /\ Past(q, k) = <<>> <=> k = 0
      BY <1>3, Halves
    <2>2. k # n => Head(Rest(q, n, k)) = q[k + 1]
      BY <1>3, HalvesNext
    <2> QED
      BY <2>1, <2>2
  <1>8. ToSet(Rest(q, n, k)) \cup ToSet(Past(q, k)) = {q[i] : i \in 1..n}
    <2>1. /\ ToSet(Rest(q, n, k)) = {q[k + i] : i \in 1..(n - k)}
          /\ ToSet(Past(q, k)) = {q[i] : i \in 1..k}
      BY DEF ToSet, Rest, Past
    <2>2. \A i \in 1..(n - k) : k + i \in 1..n
      BY <1>3
    <2>3. \A i \in 1..k : i \in 1..n
      BY <1>3
    <2>4. ASSUME NEW i \in 1..n
          PROVE  q[i] \in {q[k + j] : j \in 1..(n - k)} \cup {q[j] : j \in 1..k}
      <3>1. CASE i <= k
        BY <1>3, <3>1
      <3>2. CASE ~(i <= k)
        <4>1. i - k \in 1..(n - k) /\ k + (i - k) = i
          BY <1>3, <3>2
        <4> QED
          BY <4>1
      <3> QED
        BY <3>1, <3>2
    <2> QED
      BY <2>1, <2>2, <2>3, <2>4
  <1>9. {q[i] : i \in 1..n} = S[w]
    BY <1>4 DEF IsRunList, n
  <1>10. k = n /\ k = 0 <=> n = 0
    BY <1>3
  <1> QED
    BY <1>3, <1>5, <1>6, <1>7, <1>8, <1>9, <1>10 DEF n

LEMMA RingQueue ==
    ASSUME NEW h, NEW S, WellFormed(h, S)
    PROVE  /\ RingOf(h) \in Seq(Machine)
           /\ Len(RingOf(h)) = h.nworker
           /\ RingOf(h) = <<>> <=> h.cursor = NULL
           /\ h.cursor # NULL => Head(RingOf(h)) = h.cursor
  <1> DEFINE M == {w \in Machine : h.nstate[w] > 0}
             n == h.nworker
  <1>1. h \in HeapType /\ HasRing(h, M) /\ n \in Nat
    BY DEF WellFormed, HeapType
  <1>2. PICK r : ShowsRing(h, M, r)
    BY <1>1 DEF HasRing, ShowsRing
  <1>3. RingOf(h) = r
    BY <1>1, <1>2, RingShown
  <1>4. r \in [1..n -> Machine] /\ h.cursor = IF n = 0 THEN NULL ELSE r[1]
    BY <1>2 DEF ShowsRing, IsRing
  <1> HIDE DEF n
  <1>5. n # 0 => Head(r) = r[1] /\ r[1] # NULL
    BY <1>1, <1>4, RingTurns, NullAssumption
  <1>6. r \in Seq(Machine) /\ Len(r) = n /\ (r = <<>> <=> n = 0)
    BY <1>1, <1>4, IsSequence
  <1> QED
    BY <1>3, <1>4, <1>5, <1>6 DEF n

(* The queues of a worker depend on its own list. *)
LEMMA ListKept ==
    ASSUME NEW h, NEW S, WellFormed(h, S), NEW g \in HeapType, NEW w \in Machine,
           g.first[w] = h.first[w], g.current[w] = h.current[w],
           g.previous[w] = h.previous[w], g.nstate[w] = h.nstate[w],
           \A t \in S[w] : g.next[t] = h.next[t]
    PROVE  Todos(g)[w] = Todos(h)[w] /\ Rans(g)[w] = Rans(h)[w]
  <1>1. h \in HeapType /\ HasRunList(h, w, S[w])
    BY DEF WellFormed
  <1>2. PICK q, k : Shows(h, w, S[w], q, k)
    BY <1>1 DEF HasRunList, Shows
  <1>3. Shows(g, w, S[w], q, k)
    <2>1. q \in [1..h.nstate[w] -> Task] /\ k \in 0..h.nstate[w]
          /\ IsRunList(h, w, S[w], q, k)
      BY <1>2 DEF Shows
    <2>2. IsRunList(g, w, S[w], q, k)
      BY <2>1 DEF IsRunList
    <2> QED
      BY <2>1, <2>2 DEF Shows
  <1> QED
    BY <1>1, <1>2, <1>3, Shown

LEMMA RingKept ==
    ASSUME NEW g, NEW h, g.cursor = h.cursor, g.nworker = h.nworker, g.wnext = h.wnext
    PROVE  RingOf(g) = RingOf(h)
  BY DEF RingOf

(* All the queues, when only those of v changed. *)
LEMMA QueuesOf ==
    ASSUME NEW h, NEW g, NEW v \in Machine,
           \A w \in Machine \ {v} : Todos(g)[w] = Todos(h)[w] /\ Rans(g)[w] = Rans(h)[w]
    PROVE  /\ Todos(g) = [Todos(h) EXCEPT ![v] = Todos(g)[v]]
           /\ Rans(g)  = [Rans(h) EXCEPT ![v] = Rans(g)[v]]
  <1>1. /\ Todos(g) = [w \in Machine |-> Todos(g)[w]] /\ Todos(h) = [w \in Machine |-> Todos(h)[w]]
        /\ Rans(g) = [w \in Machine |-> Rans(g)[w]] /\ Rans(h) = [w \in Machine |-> Rans(h)[w]]
    BY DEF Todos, Rans
  <1> QED
    BY <1>1

LEMMA SameQueues ==
    ASSUME NEW h, NEW g,
           \A w \in Machine : Todos(g)[w] = Todos(h)[w] /\ Rans(g)[w] = Rans(h)[w]
    PROVE  Todos(g) = Todos(h) /\ Rans(g) = Rans(h)
  <1>1. /\ Todos(g) = [w \in Machine |-> Todos(g)[w]] /\ Todos(h) = [w \in Machine |-> Todos(h)[w]]
        /\ Rans(g) = [w \in Machine |-> Rans(g)[w]] /\ Rans(h) = [w \in Machine |-> Rans(h)[w]]
    BY DEF Todos, Rans
  <1> QED
    BY <1>1
----------------------------------------------------------------------------
(* What each operator of RunLists does to the queues. *)

LEMMA FrameQueues ==
    ASSUME NEW h, NEW g, NEW S, WellFormed(h, S), g \in HeapType,
           g.first = h.first, g.current = h.current,
           g.previous = h.previous, g.nstate = h.nstate,
           g.wnext = h.wnext, g.cursor = h.cursor, g.nworker = h.nworker,
           \A w \in Machine : \A t \in S[w] : g.next[t] = h.next[t]
    PROVE  Todos(g) = Todos(h) /\ Rans(g) = Rans(h) /\ RingOf(g) = RingOf(h)
  <1>1. \A w \in Machine : Todos(g)[w] = Todos(h)[w] /\ Rans(g)[w] = Rans(h)[w]
    BY ListKept
  <1>2. RingOf(g) = RingOf(h)
    BY RingKept
  <1> QED
    BY <1>1, <1>2, SameQueues

(* The task at the cursor of v has run. *)
LEMMA NextQueues ==
    ASSUME NEW h, NEW S, WellFormed(h, S), NEW v \in Machine, h.current[v] # NULL
    PROVE  LET g == StateNext(h, v)
           IN  /\ Todos(g) = [Todos(h) EXCEPT ![v] = Tail(Todos(h)[v])]
               /\ Rans(g) = [Rans(h) EXCEPT ![v] = Append(Rans(h)[v], h.current[v])]
               /\ RingOf(g) = RingOf(h)
  <1> DEFINE g == StateNext(h, v)
             n == h.nstate[v]
  <1>1. h \in HeapType /\ HasRunList(h, v, S[v]) /\ g \in HeapType
    BY NextWF DEF WellFormed
  <1>2. PICK q, k : Shows(h, v, S[v], q, k)
    BY <1>1 DEF HasRunList, Shows
  <1>3. /\ k + 1 \in 0..n /\ h.current[v] = q[k + 1] /\ g.nstate[v] = n
        /\ IsRunList(g, v, S[v], q, k + 1)
    BY <1>1, <1>2, NextList
  <1>4. /\ Todos(h)[v] = Rest(q, n, k) /\ Rans(h)[v] = Past(q, k)
        /\ n \in Nat /\ k \in 0..n /\ q \in [1..n -> Task]
    BY <1>1, <1>2, Shown
  <1>5. Shows(g, v, S[v], q, k + 1)
    <2> HIDE DEF g, n
    <2> QED
      BY <1>3, <1>4 DEF Shows
  <1>6. Todos(g)[v] = Rest(q, n, k + 1) /\ Rans(g)[v] = Past(q, k + 1)
    <2> HIDE DEF g, n
    <2> QED
      BY <1>1, <1>3, <1>5, Shown
  <1>7. /\ Rest(q, n, k + 1) = Tail(Rest(q, n, k))
        /\ Past(q, k + 1) = Append(Past(q, k), q[k + 1])
    <2> HIDE DEF n
    <2>1. k # n
      BY <1>3, <1>4
    <2> QED
      BY <1>4, <2>1, HalvesNext
  <1>8. ASSUME NEW w \in Machine \ {v}
        PROVE  Todos(g)[w] = Todos(h)[w] /\ Rans(g)[w] = Rans(h)[w]
    <2>1. /\ g.first[w] = h.first[w] /\ g.current[w] = h.current[w]
          /\ g.previous[w] = h.previous[w] /\ g.nstate[w] = h.nstate[w]
          /\ \A t \in S[w] : g.next[t] = h.next[t]
      BY <1>1 DEF StateNext, HeapType
    <2> HIDE DEF g
    <2> QED
      BY <1>1, <2>1, ListKept
  <1>9. g.cursor = h.cursor /\ g.nworker = h.nworker /\ g.wnext = h.wnext
    BY <1>1 DEF StateNext, HeapType
  <1> HIDE DEF g, n
  <1>10. RingOf(g) = RingOf(h)
    BY <1>9, RingKept
  <1>11. /\ Todos(g)[v] = Tail(Todos(h)[v])
         /\ Rans(g)[v] = Append(Rans(h)[v], h.current[v])
    BY <1>3, <1>4, <1>6, <1>7
  <1>12. /\ Todos(g) = [Todos(h) EXCEPT ![v] = Todos(g)[v]]
         /\ Rans(g) = [Rans(h) EXCEPT ![v] = Rans(g)[v]]
    BY <1>8, QueuesOf
  <1> QED
    BY Zenon, <1>10, <1>11, <1>12 DEF g

(* A new round begins for v. *)
LEMMA RewindQueues ==
    ASSUME NEW h, NEW S, WellFormed(h, S), NEW v \in Machine, S[v] \subseteq h.run,
           h.current[v] = NULL
    PROVE  LET g == RewindWorkerStates(h, v)
           IN  /\ Todos(g) = [Todos(h) EXCEPT ![v] = Rans(h)[v]]
               /\ Rans(g) = [Rans(h) EXCEPT ![v] = <<>>]
               /\ RingOf(g) = RingOf(h)
  <1> DEFINE g == RewindWorkerStates(h, v)
             n == h.nstate[v]
  <1>1. h \in HeapType /\ HasRunList(h, v, S[v]) /\ g \in HeapType
    BY RewindWF DEF WellFormed
  <1>2. PICK q, k : Shows(h, v, S[v], q, k)
    BY <1>1 DEF HasRunList, Shows
  <1>3. g.nstate[v] = n /\ 0 \in 0..n /\ IsRunList(g, v, S[v], q, 0)
    BY <1>1, <1>2, RewindList
  <1>4. /\ Todos(h)[v] = Rest(q, n, k) /\ Rans(h)[v] = Past(q, k)
        /\ n \in Nat /\ k \in 0..n /\ q \in [1..n -> Task]
    BY <1>1, <1>2, Shown
  <1>5. k = n
    <2>1. h.current[v] = IF k = n THEN NULL ELSE q[k + 1]
      BY <1>2 DEF Shows, IsRunList
    <2>2. k # n => q[k + 1] \in Task
      BY <1>4
    <2> QED
      BY <2>1, <2>2, NullAssumption
  <1> HIDE DEF n
  <1>6. Shows(g, v, S[v], q, 0)
    <2> HIDE DEF g
    <2> QED
      BY <1>3, <1>4 DEF Shows
  <1>7. Todos(g)[v] = Rest(q, n, 0) /\ Rans(g)[v] = Past(q, 0)
    <2> HIDE DEF g
    <2> QED
      BY <1>1, <1>3, <1>6, Shown
  <1>8. Rest(q, n, 0) = Past(q, n) /\ Past(q, 0) = <<>>
    BY <1>4, HalvesRewind
  <1>9. ASSUME NEW w \in Machine \ {v}
        PROVE  Todos(g)[w] = Todos(h)[w] /\ Rans(g)[w] = Rans(h)[w]
    <2>1. /\ g.first[w] = h.first[w] /\ g.current[w] = h.current[w]
          /\ g.previous[w] = h.previous[w] /\ g.nstate[w] = h.nstate[w]
          /\ \A t \in S[w] : g.next[t] = h.next[t]
      BY <1>1 DEF RewindWorkerStates, HeapType
    <2> HIDE DEF g
    <2> QED
      BY <1>1, <2>1, ListKept
  <1>10. g.cursor = h.cursor /\ g.nworker = h.nworker /\ g.wnext = h.wnext
    BY <1>1 DEF RewindWorkerStates, HeapType
  <1> HIDE DEF g
  <1>11. RingOf(g) = RingOf(h)
    BY <1>10, RingKept
  <1>12. Todos(g)[v] = Rans(h)[v] /\ Rans(g)[v] = <<>>
    BY <1>4, <1>5, <1>7, <1>8
  <1>13. /\ Todos(g) = [Todos(h) EXCEPT ![v] = Rans(h)[v]]
         /\ Rans(g) = [Rans(h) EXCEPT ![v] = <<>>]
    BY <1>9, <1>12, QueuesOf
  <1> QED
    BY <1>11, <1>13 DEF g

(* The next worker has its turn. *)
LEMMA NextWorkerQueues ==
    ASSUME NEW h, NEW S, WellFormed(h, S), h.cursor # NULL
    PROVE  LET g == NextWorker(h)
           IN  /\ Todos(g) = Todos(h) /\ Rans(g) = Rans(h)
               /\ RingOf(g) = Append(Tail(RingOf(h)), Head(RingOf(h)))
  <1> DEFINE g == NextWorker(h)
             M == {w \in Machine : h.nstate[w] > 0}
             n == h.nworker
  <1>1. h \in HeapType /\ HasRing(h, M) /\ n \in Nat
    BY DEF WellFormed, HeapType
  <1>2. g \in HeapType /\ SameLists(g, h)
    BY NextWorkerWF DEF WellFormed
  <1>3. PICK r : ShowsRing(h, M, r)
    BY <1>1 DEF HasRing, ShowsRing
  <1> HIDE DEF M
  <1>4. ShowsRing(g, M, Rotated(r, n))
    BY <1>1, <1>3, NextRing
  <1> HIDE DEF g
  <1>5. RingOf(h) = r /\ RingOf(g) = Rotated(r, n)
    BY <1>1, <1>2, <1>3, <1>4, RingShown
  <1>6. n # 0 /\ r \in [1..n -> Machine]
    BY <1>3 DEF ShowsRing, IsRing
  <1>7. Rotated(r, n) = Append(Tail(r), Head(r))
    <2> HIDE DEF n
    <2> QED
      BY <1>1, <1>6, RingTurns
  <1>8. \A w \in Machine : Todos(g)[w] = Todos(h)[w] /\ Rans(g)[w] = Rans(h)[w]
    BY <1>2, ListKept DEF SameLists
  <1> QED
    BY <1>5, <1>7, <1>8, SameQueues DEF g

(* A task that is resumed is the last one of its worker to run; it is the  *)
(* first one as well when the worker was idle, who joins the ring then.    *)
LEMMA ResumedHalves ==
    ASSUME NEW h \in HeapType, NEW s \in Task, NEW v \in Machine, NEW Q,
           HasRunList(h, v, Q), h.next[s] = v, s \notin h.run, s \notin Q,
           ResumeState(h, s) \in HeapType
    PROVE  LET g == ResumeState(h, s)
           IN  IF h.nstate[v] = 0
               THEN Todos(g)[v] = <<s>> /\ Rans(g)[v] = Rans(h)[v]
               ELSE /\ Todos(g)[v] = Todos(h)[v]
                    /\ Rans(g)[v] = Append(Rans(h)[v], s)
  <1> DEFINE g == ResumeState(h, s)
             n == h.nstate[v]
  <1>1. PICK q, k : Shows(h, v, Q, q, k)
    BY DEF HasRunList, Shows
  <1>2. /\ Todos(h)[v] = Rest(q, n, k) /\ Rans(h)[v] = Past(q, k)
        /\ n \in Nat /\ k \in 0..n /\ q \in [1..n -> Task]
    BY <1>1, Shown
  <1>3. /\ n = 0 => IsRunList(g, v, Q \cup {s}, Single(s), 0)
        /\ n # 0 => IsRunList(g, v, Q \cup {s}, Inserted(q, n, k, s), k + 1)
        /\ g.nstate[v] = n + 1
    BY <1>1, ResumedList
  <1> HIDE DEF g, n
  <1>4. CASE n = 0
    <2>1. g.nstate[v] = 1 /\ Single(s) \in [1..1 -> Task] /\ 0 \in 0..1
      BY <1>3, <1>4 DEF Single
    <2>2. Shows(g, v, Q \cup {s}, Single(s), 0)
      BY Zenon, <1>3, <1>4, <2>1 DEF Shows
    <2>3. Todos(g)[v] = Rest(Single(s), 1, 0) /\ Rans(g)[v] = Past(Single(s), 0)
      BY <2>1, <2>2, Shown DEF g
    <2>4. Todos(g)[v] = <<s>> /\ Rans(g)[v] = <<>>
      BY <2>3, HalvesSingle
    <2>5. k = 0
      BY <1>2, <1>4
    <2>6. Past(q, k) = <<>>
      BY <1>2, <2>5, Halves
    <2> QED
      BY Zenon, <1>2, <1>4, <2>4, <2>6 DEF g, n
  <1>5. CASE n # 0
    <2> DEFINE p == Inserted(q, n, k, s)
    <2>1. p \in [1..(n + 1) -> Task] /\ k + 1 \in 0..(n + 1)
      BY <1>2 DEF Inserted
    <2> HIDE DEF p
    <2>2. Shows(g, v, Q \cup {s}, p, k + 1)
      BY Zenon, <1>3, <1>5, <2>1 DEF Shows, p
    <2>3. Todos(g)[v] = Rest(p, n + 1, k + 1) /\ Rans(g)[v] = Past(p, k + 1)
      BY <1>3, <2>2, Shown DEF g
    <2>4. Rest(p, n + 1, k + 1) = Rest(q, n, k) /\ Past(p, k + 1) = Append(Past(q, k), s)
      BY <1>2, HalvesInserted DEF p
    <2> QED
      BY Zenon, <1>2, <1>5, <2>3, <2>4 DEF g, n
  <1> QED
    BY <1>4, <1>5

LEMMA ResumeQueues ==
    ASSUME NEW h, NEW S, WellFormed(h, S), Disjoint(S),
           NEW s \in Task, NEW v \in Machine,
           h.next[s] = v, s \notin h.run, \A w \in Machine : s \notin S[w]
    PROVE  LET g == ResumeState(h, s)
           IN  IF Todos(h)[v] = <<>> /\ Rans(h)[v] = <<>>
               THEN /\ Todos(g) = [Todos(h) EXCEPT ![v] = <<s>>]
                    /\ Rans(g) = Rans(h)
                    /\ RingOf(g) = Append(RingOf(h), v)
               ELSE /\ Todos(g) = Todos(h)
                    /\ Rans(g) = [Rans(h) EXCEPT ![v] = Append(Rans(h)[v], s)]
                    /\ RingOf(g) = RingOf(h)
  <1> DEFINE g == ResumeState(h, s)
             M == {w \in Machine : h.nstate[w] > 0}
             Q == S[v]
             n == h.nworker
  <1>1. /\ h \in HeapType /\ HasRunList(h, v, Q) /\ HasRing(h, M) /\ h.fatal = OK
        /\ h.nstate \in [Machine -> Nat] /\ n \in Nat /\ s \notin Q
    BY DEF WellFormed, HeapType
  <1>2. g \in HeapType /\ g.fatal = OK
    <2>1. WellFormed(g, [S EXCEPT ![v] = @ \cup {s}])
      BY ResumeWF
    <2> HIDE DEF g
    <2> QED
      BY <2>1 DEF WellFormed
  <1>3. Todos(h)[v] = <<>> /\ Rans(h)[v] = <<>> <=> h.nstate[v] = 0
    BY ListQueues
  <1>4. /\ \A t \in Task \ (Q \cup {s}) : g.next[t] = h.next[t]
        /\ \A w \in Machine \ {v} : SameList(g, h, w)
    <2> HIDE DEF Q
    <2> QED
      BY <1>1, ResumedOthers
  <1>5. ASSUME NEW w \in Machine \ {v}
        PROVE  Todos(g)[w] = Todos(h)[w] /\ Rans(g)[w] = Rans(h)[w]
    <2>1. \A t \in S[w] : g.next[t] = h.next[t]
      BY <1>4 DEF Disjoint
    <2> HIDE DEF g
    <2> QED
      BY <1>2, <1>4, <2>1, ListKept DEF SameList
  <1>7. PICK r : ShowsRing(h, M, r)
    BY <1>1 DEF HasRing, ShowsRing
  <1>8. h.nstate[v] = 0 <=> v \notin M
    BY <1>1
  <1> HIDE DEF M
  <1>9. ShowsRing(g, M \cup {v}, IF h.nstate[v] = 0 THEN Appended(r, n, v) ELSE r)
    BY <1>1, <1>2, <1>7, <1>8, ResumedRing
  <1>10. RingOf(h) = r /\ r \in [1..n -> Machine]
    BY <1>1, <1>7, RingShown DEF ShowsRing
  <1> HIDE DEF n
  <1>11. Appended(r, n, v) = Append(r, v)
    <2>1. CASE n = 0
      BY <1>10, <2>1, RingStarts
    <2>2. CASE n # 0
      BY <1>1, <1>10, <2>2, RingTurns
    <2> QED
      BY <2>1, <2>2
  <1>12. /\ Todos(g) = [Todos(h) EXCEPT ![v] = Todos(g)[v]]
         /\ Rans(g) = [Rans(h) EXCEPT ![v] = Rans(g)[v]]
    <2> HIDE DEF g
    <2> QED
      BY <1>5, QueuesOf
  <1>13. Todos(h) = [Todos(h) EXCEPT ![v] = Todos(h)[v]]
         /\ Rans(h) = [Rans(h) EXCEPT ![v] = Rans(h)[v]]
    BY DEF Todos, Rans
  <1>14. IF h.nstate[v] = 0
         THEN Todos(g)[v] = <<s>> /\ Rans(g)[v] = Rans(h)[v]
         ELSE /\ Todos(g)[v] = Todos(h)[v]
              /\ Rans(g)[v] = Append(Rans(h)[v], s)
    <2> HIDE DEF Q
    <2> QED
      BY <1>1, <1>2, ResumedHalves
  <1> HIDE DEF g
  <1>15. CASE h.nstate[v] = 0
    <2>1. RingOf(g) = Append(RingOf(h), v)
      BY <1>2, <1>9, <1>10, <1>11, <1>15, RingShown
    <2>2. Todos(g) = [Todos(h) EXCEPT ![v] = <<s>>] /\ Rans(g) = Rans(h)
      BY Zenon, <1>12, <1>13, <1>14, <1>15
    <2> QED
      BY Zenon, <1>3, <1>15, <2>1, <2>2 DEF g
  <1>16. CASE h.nstate[v] # 0
    <2>1. RingOf(g) = RingOf(h)
      BY <1>2, <1>9, <1>10, <1>16, RingShown
    <2>2. Todos(g) = Todos(h) /\ Rans(g) = [Rans(h) EXCEPT ![v] = Append(Rans(h)[v], s)]
      BY Zenon, <1>12, <1>13, <1>14, <1>16
    <2> QED
      BY Zenon, <1>3, <1>16, <2>1, <2>2 DEF g
  <1> QED
    BY <1>15, <1>16

(* The current task of the worker whose turn it is leaves; the worker      *)
(* leaves the ring with its last task.                                     *)
LEMMA UnlinkedHalves ==
    ASSUME NEW h \in HeapType, NEW v \in Machine, NEW Q, HasRunList(h, v, Q),
           h.fatal = OK, h.sworker = v, h.suspendop = 0, h.current[v] # NULL,
           UnlinkCurrentState(h) \in HeapType
    PROVE  LET g == UnlinkCurrentState(h)
           IN  /\ Todos(g)[v] = Tail(Todos(h)[v]) /\ Rans(g)[v] = Rans(h)[v]
               /\ g.nstate[v] = 0 <=> Todos(g)[v] = <<>> /\ Rans(g)[v] = <<>>
  <1> DEFINE g == UnlinkCurrentState(h)
             n == h.nstate[v]
             c == h.current[v]
  <1>1. PICK q, k : Shows(h, v, Q, q, k)
    BY DEF HasRunList, Shows
  <1>2. /\ Todos(h)[v] = Rest(q, n, k) /\ Rans(h)[v] = Past(q, k)
        /\ n \in Nat /\ k \in 0..n /\ q \in [1..n -> Task]
    BY <1>1, Shown
  <1>3. /\ k + 1 \in 1..n
        /\ IsRunList(g, v, Q \ {c}, Without(q, n, k + 1), k)
        /\ g.nstate[v] = n - 1
    BY <1>1, UnlinkedList
  <1> DEFINE p == Without(q, n, k + 1)
  <1> HIDE DEF g, n, c
  <1>4. p \in [1..(n - 1) -> Task] /\ k \in 0..(n - 1) /\ k # n /\ n - 1 \in Nat
    BY <1>2, <1>3 DEF Without
  <1> HIDE DEF p
  <1>5. Shows(g, v, Q \ {c}, p, k)
    BY Zenon, <1>3, <1>4 DEF Shows, p
  <1>6. Todos(g)[v] = Rest(p, n - 1, k) /\ Rans(g)[v] = Past(p, k)
    BY <1>3, <1>5, Shown DEF g
  <1>7. Rest(p, n - 1, k) = Tail(Rest(q, n, k)) /\ Past(p, k) = Past(q, k)
    BY <1>2, <1>4, HalvesWithout DEF p
  <1>8. /\ Rest(p, n - 1, k) = <<>> <=> k = n - 1
        /\ Past(p, k) = <<>> <=> k = 0
    BY <1>4, Halves
  <1>9. n - 1 = 0 <=> k = n - 1 /\ k = 0
    BY <1>2, <1>4
  <1> QED
    BY Zenon, <1>2, <1>3, <1>6, <1>7, <1>8, <1>9 DEF g

LEMMA UnlinkQueues ==
    ASSUME NEW h, NEW S, WellFormed(h, S), Disjoint(S), NEW v \in Machine,
           h.sworker = v, h.suspendop = 0, h.current[v] # NULL, h.cursor = v
    PROVE  LET g == UnlinkCurrentState(h)
           IN  /\ Todos(g) = [Todos(h) EXCEPT ![v] = Tail(Todos(h)[v])]
               /\ Rans(g) = Rans(h)
               /\ RingOf(g) = IF Tail(Todos(h)[v]) = <<>> /\ Rans(h)[v] = <<>>
                              THEN Tail(RingOf(h)) ELSE RingOf(h)
  <1> DEFINE g == UnlinkCurrentState(h)
             M == {w \in Machine : h.nstate[w] > 0}
             Q == S[v]
             n == h.nworker
  <1>1. /\ h \in HeapType /\ HasRunList(h, v, Q) /\ HasRing(h, M) /\ h.fatal = OK
        /\ h.nstate \in [Machine -> Nat] /\ n \in Nat
    BY DEF WellFormed, HeapType
  <1>2. g \in HeapType
    BY UnlinkWF DEF WellFormed
  <1>3. /\ \A t \in Task : t \notin Q => g.next[t] = h.next[t]
        /\ \A w \in Machine \ {v} :
              /\ g.first[w] = h.first[w] /\ g.current[w] = h.current[w]
              /\ g.previous[w] = h.previous[w]
              /\ g.nstate[w] = h.nstate[w]
        /\ h.nstate[v] > 0
    <2> HIDE DEF Q
    <2>1. \A t \in Task : t \notin Q \ {h.current[v]} => g.next[t] = h.next[t]
      BY ZenonT(60), <1>1, UnlinkList
    <2>2. /\ \A w \in Machine \ {v} :
                /\ g.first[w] = h.first[w] /\ g.current[w] = h.current[w]
                /\ g.previous[w] = h.previous[w]
                /\ g.nstate[w] = h.nstate[w]
          /\ h.nstate[v] > 0
      BY ZenonT(60), <1>1, UnlinkList
    <2> QED
      BY <2>1, <2>2
  <1>4. ASSUME NEW w \in Machine \ {v}
        PROVE  Todos(g)[w] = Todos(h)[w] /\ Rans(g)[w] = Rans(h)[w]
    <2>1. \A t \in S[w] : g.next[t] = h.next[t]
      BY <1>3 DEF Disjoint
    <2> HIDE DEF g
    <2> QED
      BY <1>2, <1>3, <2>1, ListKept
  <1>5. /\ Todos(g)[v] = Tail(Todos(h)[v]) /\ Rans(g)[v] = Rans(h)[v]
        /\ g.nstate[v] = 0 <=> Todos(g)[v] = <<>> /\ Rans(g)[v] = <<>>
    <2> HIDE DEF Q
    <2> QED
      BY <1>1, <1>2, UnlinkedHalves
  <1>6. PICK r : ShowsRing(h, M, r)
    BY <1>1 DEF HasRing, ShowsRing
  <1>7. v \in M
    BY <1>3
  <1> HIDE DEF M
  <1>8. IF g.nstate[v] = 0
        THEN \E j \in 1..n : r[j] = v /\ ShowsRing(g, M \ {v}, Without(r, n, j))
        ELSE ShowsRing(g, M, r)
    BY <1>1, <1>6, <1>7, UnlinkedRing
  <1>9. /\ RingOf(h) = r /\ r \in [1..n -> Machine] /\ n # 0 /\ r[1] = v
        /\ \A i, j \in 1..n : r[i] = r[j] => i = j
    <2>1. RingOf(h) = r
      BY <1>1, <1>6, RingShown
    <2>2. r \in [1..n -> Machine] /\ IsRing(h, M, r) /\ v # NULL
      BY <1>6, NullAssumption DEF ShowsRing
    <2> QED
      BY <2>1, <2>2 DEF IsRing
  <1> HIDE DEF g, n
  <1>10. RingOf(g) = IF g.nstate[v] = 0 THEN Tail(RingOf(h)) ELSE RingOf(h)
    <2>1. CASE g.nstate[v] = 0
      <3>1. PICK j \in 1..n : r[j] = v /\ ShowsRing(g, M \ {v}, Without(r, n, j))
        BY <1>8, <2>1
      <3>2. j = 1
        BY <1>1, <1>9, <3>1
      <3>3. RingOf(g) = Without(r, n, 1)
        BY <1>2, <3>1, <3>2, RingShown
      <3>4. Without(r, n, 1) = Tail(r)
        BY <1>1, <1>9, RingTurns
      <3> QED
        BY Zenon, <1>9, <2>1, <3>3, <3>4
    <2>2. CASE g.nstate[v] # 0
      BY <1>2, <1>8, <1>9, <2>2, RingShown
    <2> QED
      BY <2>1, <2>2
  <1>11. /\ Todos(g) = [Todos(h) EXCEPT ![v] = Todos(g)[v]]
         /\ Rans(g) = [Rans(h) EXCEPT ![v] = Rans(g)[v]]
    <2>1. /\ Todos(g) = [w \in Machine |-> Todos(g)[w]]
          /\ Todos(h) = [w \in Machine |-> Todos(h)[w]]
          /\ Rans(g) = [w \in Machine |-> Rans(g)[w]]
          /\ Rans(h) = [w \in Machine |-> Rans(h)[w]]
      BY DEF Todos, Rans
    <2> QED
      BY <1>4, <2>1
  <1>12. Rans(h) = [Rans(h) EXCEPT ![v] = Rans(h)[v]]
    BY DEF Rans
  <1> QED
    BY Zenon, <1>5, <1>10, <1>11, <1>12 DEF g

(* The task of the session is suspended. *)
LEMMA SuspendQueues ==
    ASSUME NEW h, NEW S, WellFormed(h, S), Disjoint(S), NEW v \in Machine,
           h.sworker = v, h.suspendop = 0, h.sstate \in Task,
           h.current[v] = h.sstate, h.cursor = v, NEW wait \in BOOLEAN
    PROVE  LET g == SuspendCurrentState(h, wait)
           IN  /\ Todos(g) = [Todos(h) EXCEPT ![v] = Tail(Todos(h)[v])]
               /\ Rans(g) = Rans(h)
               /\ RingOf(g) = IF Tail(Todos(h)[v]) = <<>> /\ Rans(h)[v] = <<>>
                              THEN Tail(RingOf(h)) ELSE RingOf(h)
  <1> DEFINE u == UnlinkCurrentState(h)
             g == SuspendCurrentState(h, wait)
             c == h.sstate
             R == [S EXCEPT ![v] = @ \ {c}]
  <1>1. h.current[v] # NULL
    BY NullAssumption
  <1>2. WellFormed(u, R)
    <2>1. WellFormed(u, [S EXCEPT ![v] = @ \ {h.current[v]}])
      BY <1>1, UnlinkWF
    <2> QED
      BY <2>1
  <1>3. \A w \in Machine : c \notin R[w] /\ R[w] \subseteq Task
    <2>1. c \in S[v]
      BY <1>1, UnlinkWF
    <2> QED
      BY <2>1 DEF Disjoint
  <1> HIDE DEF R
  <1>4. /\ g.first = u.first /\ g.current = u.current
        /\ g.previous = u.previous /\ g.nstate = u.nstate
        /\ g.wnext = u.wnext /\ g.cursor = u.cursor /\ g.nworker = u.nworker
        /\ \A t \in Task \ {c} : g.next[t] = u.next[t]
    <2>1. g = [u EXCEPT !.next[c] = v,
                        !.run = @ \ {c},
                        !.waiting = IF wait THEN @ \cup {c} ELSE @]
      BY DEF SuspendCurrentState
    <2>2. u \in HeapType
      BY <1>2 DEF WellFormed
    <2> HIDE DEF u, g
    <2> QED
      BY <2>1, <2>2 DEF HeapType
  <1>5. g \in HeapType
    <2>1. \E b \in BOOLEAN : g = SuspendCurrentState(h, b)
      OBVIOUS
    <2> HIDE DEF g
    <2>2. WellFormed(g, [S EXCEPT ![v] = @ \ {h.sstate}])
      BY <2>1, SuspendWF
    <2> QED
      BY <2>2 DEF WellFormed
  <1>6. \A w \in Machine : \A t \in R[w] : g.next[t] = u.next[t]
    BY <1>3, <1>4
  <1>7. /\ Todos(u) = [Todos(h) EXCEPT ![v] = Tail(Todos(h)[v])]
        /\ Rans(u) = Rans(h)
        /\ RingOf(u) = IF Tail(Todos(h)[v]) = <<>> /\ Rans(h)[v] = <<>>
                       THEN Tail(RingOf(h)) ELSE RingOf(h)
    BY <1>1, UnlinkQueues
  <1> HIDE DEF g, u
  <1>8. Todos(g) = Todos(u) /\ Rans(g) = Rans(u) /\ RingOf(g) = RingOf(u)
    BY <1>2, <1>4, <1>5, <1>6, FrameQueues
  <1> QED
    BY Zenon, <1>7, <1>8 DEF g
----------------------------------------------------------------------------
(* The steps of Scheduler are steps of RunQueues. *)

LEMMA Mapping ==
    /\ Todo = Todos(heap) /\ Ran = Rans(heap) /\ Ring = RingOf(heap)
    /\ Todo' = Todos(heap') /\ Ran' = Rans(heap') /\ Ring' = RingOf(heap')
  BY DEF Todo, Ran, Ring, Todos, Rans

LEMMA FirstWorker ==
    ASSUME IInv, NEW w \in Machine, heap.cursor = w
    PROVE  /\ Ring # <<>> /\ Head(Ring) = w /\ Len(Ring) = heap.nworker
           /\ Todo[w] = <<>> <=> heap.current[w] = NULL
           /\ heap.current[w] # NULL => Head(Todo[w]) = heap.current[w]
           /\ Todo = [Todo EXCEPT ![w] = Todo[w]] /\ Ran = [Ran EXCEPT ![w] = Ran[w]]
  <1>1. w # NULL /\ WellFormed(heap, Lists)
    BY NullAssumption DEF IInv
  <1>2. Ring # <<>> /\ Head(Ring) = w /\ Len(Ring) = heap.nworker
    BY <1>1, RingQueue DEF Ring
  <1>3. /\ Todo[w] = <<>> <=> heap.current[w] = NULL
        /\ heap.current[w] # NULL => Head(Todo[w]) = heap.current[w]
    BY <1>1, ListQueues, Mapping
  <1>4. Todo = [Todo EXCEPT ![w] = Todo[w]] /\ Ran = [Ran EXCEPT ![w] = Ran[w]]
    BY DEF Todo, Ran
  <1> QED
    BY <1>2, <1>3, <1>4

LEMMA NextOf ==
    ASSUME \/ Queues!Rotate \/ Queues!Pick \/ Queues!Keep \/ Queues!Drop
           \/ Queues!DropAndResume \/ Queues!End
           \/ \E t \in Task : Queues!Resume(t)
           \/ UNCHANGED Queues!vars
    PROVE  [Queues!Next]_(Queues!vars)
  BY Zenon DEF Queues!Next

LEMMA Stutter ==
    ASSUME Todos(heap') = Todos(heap), Rans(heap') = Rans(heap),
           RingOf(heap') = RingOf(heap), Step' = Step
    PROVE  UNCHANGED Queues!vars
  BY Mapping DEF Queues!vars

(* A suspended task is resumed. *)
LEMMA ResumedStep ==
    ASSUME IInv, NEW t \in Task, t \in Live \ heap.run,
           heap' = ResumeState(heap, t), go' = go
    PROVE  \E s \in Task : Queues!Resume(s)
  <1> DEFINE w == machine[t]
             g == ResumeState(heap, t)
  <1>1. /\ w \in Machine /\ heap.next[t] = w /\ t \notin heap.run
        /\ WellFormed(heap, Lists) /\ Disjoint(Lists)
    BY ListsDisjoint DEF IInv, ModesAgree
  <1>2. \A v \in Machine : t \notin Lists[v]
    BY NotListed DEF Runnable
  <1> HIDE DEF w
  <1>3. IF Todos(heap)[w] = <<>> /\ Rans(heap)[w] = <<>>
        THEN /\ Todos(g) = [Todos(heap) EXCEPT ![w] = <<t>>]
             /\ Rans(g) = Rans(heap)
             /\ RingOf(g) = Append(RingOf(heap), w)
        ELSE /\ Todos(g) = Todos(heap)
             /\ Rans(g) = [Rans(heap) EXCEPT ![w] = Append(Rans(heap)[w], t)]
             /\ RingOf(g) = RingOf(heap)
    BY <1>1, <1>2, ResumeQueues
  <1>4. g.sstate = heap.sstate
    <2>1. SameSession(g, heap)
      BY <1>1, <1>2, ResumeWF
    <2> QED
      BY <2>1 DEF SameSession
  <1> HIDE DEF g
  <1>5. heap' = g
    BY DEF g
  <1>6. Step' = Step
    BY <1>4, <1>5 DEF Step, InStep, Current
  <1>7. \A v \in Machine : t \notin ToSet(Todo[v]) \cup ToSet(Ran[v])
    BY <1>1, <1>2, ListQueues, Mapping
  <1>8. IF Todo[w] = <<>> /\ Ran[w] = <<>>
        THEN /\ Todo' = [Todo EXCEPT ![w] = <<t>>]
             /\ Ran' = Ran
             /\ Ring' = Append(Ring, w)
        ELSE /\ Todo' = Todo
             /\ Ran' = [Ran EXCEPT ![w] = Append(Ran[w], t)]
             /\ Ring' = Ring
    BY Zenon, <1>3, <1>5, Mapping
  <1>9. Queues!Enqueued(w, t, Todo, Ran, Ring)
    BY Zenon, <1>8 DEF Queues!Enqueued
  <1>10. \A v \in Machine : t \notin Queues!Queued(v)
    BY <1>7 DEF Queues!Queued, Queues!ToSet, ToSet
  <1>11. Queues!Resume(t)
    BY Zenon, <1>1, <1>6, <1>9, <1>10 DEF Queues!Resume
  <1> QED
    BY <1>11

(* Only the next pointer of a task that no list holds and the flags of the *)
(* tasks differ.                                                           *)
LEMMA OutsideStep ==
    ASSUME IInv, heap' \in HeapType, NEW t \in Task, t \notin Runnable,
           heap'.first = heap.first, heap'.current = heap.current,
           heap'.previous = heap.previous, heap'.nstate = heap.nstate,
           heap'.wnext = heap.wnext, heap'.cursor = heap.cursor,
           heap'.nworker = heap.nworker, heap'.sstate = heap.sstate,
           \A s \in Task \ {t} : heap'.next[s] = heap.next[s],
           go' = go
    PROVE  UNCHANGED Queues!vars
  <1>1. \A w \in Machine : \A s \in Lists[w] : heap'.next[s] = heap.next[s]
    BY NotListed, ListsDisjoint DEF Disjoint
  <1>2. WellFormed(heap, Lists)
    BY DEF IInv
  <1>3. /\ Todos(heap') = Todos(heap) /\ Rans(heap') = Rans(heap)
        /\ RingOf(heap') = RingOf(heap)
    <2> DEFINE h == heap
               g == heap'
    <2>1. /\ WellFormed(h, Lists) /\ g \in HeapType
          /\ g.first = h.first /\ g.current = h.current
          /\ g.previous = h.previous /\ g.nstate = h.nstate
          /\ g.wnext = h.wnext /\ g.cursor = h.cursor /\ g.nworker = h.nworker
          /\ \A w \in Machine : \A s \in Lists[w] : g.next[s] = h.next[s]
      BY <1>1, <1>2
    <2> HIDE DEF h, g
    <2>2. Todos(g) = Todos(h) /\ Rans(g) = Rans(h) /\ RingOf(g) = RingOf(h)
      BY <2>1, FrameQueues
    <2> QED
      BY <2>2 DEF g, h
  <1>4. Step' = Step
    BY DEF Step, InStep, Current
  <1> QED
    BY <1>3, <1>4, Stutter

LEMMA CallsStep ==
    ASSUME IInv, Calls
    PROVE  (\E s \in Task : Queues!Resume(s)) \/ UNCHANGED Queues!vars
  <1>1. TypeOK /\ heap \in HeapType
    BY DEF IInv, TypeOK
  <1>2. ASSUME heap' = heap, go' = go
        PROVE  (\E s \in Task : Queues!Resume(s)) \/ UNCHANGED Queues!vars
    BY <1>2, Stutter DEF Step, InStep, Current
  <1>3. ASSUME NEW t \in Task, NEW m \in Machine, NEW auto, NewTask(t, m, auto)
        PROVE  (\E s \in Task : Queues!Resume(s)) \/ UNCHANGED Queues!vars
    <2>1. /\ t \notin Runnable /\ go' = go
          /\ heap' = [heap EXCEPT !.next[t] = m]
      BY <1>3 DEF NewTask, Runnable, Live
    <2>2. /\ heap' \in HeapType
          /\ heap'.first = heap.first /\ heap'.current = heap.current
          /\ heap'.previous = heap.previous /\ heap'.nstate = heap.nstate
          /\ heap'.wnext = heap.wnext /\ heap'.cursor = heap.cursor
          /\ heap'.nworker = heap.nworker /\ heap'.sstate = heap.sstate
          /\ \A s \in Task \ {t} : heap'.next[s] = heap.next[s]
      BY <1>1, <2>1 DEF HeapType
    <2> QED
      BY <2>1, <2>2, OutsideStep
  <1>4. ASSUME NEW t \in Task, Resume(t)
        PROVE  (\E s \in Task : Queues!Resume(s)) \/ UNCHANGED Queues!vars
    <2>1. t \in Live \ heap.run /\ heap' = ResumeState(heap, t) /\ go' = go
      BY <1>1, <1>4 DEF Resume, IInv, ModesAgree, Live, Closing, TypeOK
    <2> QED
      BY <2>1, ResumedStep
  <1>5. ASSUME NEW t \in Task, Abort(t)
        PROVE  (\E s \in Task : Queues!Resume(s)) \/ UNCHANGED Queues!vars
    <2>1. CASE t \in Closing \/ t \in heap.run
      BY <1>2, <1>5, <2>1 DEF Abort
    <2>2. CASE ~(t \in Closing \/ t \in heap.run)
      <3>1. t \in Live \ heap.run /\ heap' = ResumeState(heap, t) /\ go' = go
        BY <1>1, <1>5, <2>2 DEF Abort, Live, Closing, TypeOK
      <3> QED
        BY <3>1, ResumedStep
    <2> QED
      BY <2>1, <2>2
  <1>6. ASSUME NEW t \in Task, FreeTask(t)
        PROVE  (\E s \in Task : Queues!Resume(s)) \/ UNCHANGED Queues!vars
    <2>1. CASE pmode[t] = "OFF"
      <3>1. /\ t \notin Runnable /\ go' = go /\ heap' = Released(heap, t)
        BY <1>6, <2>1 DEF FreeTask, Runnable, Live
      <3>2. /\ heap' \in HeapType
            /\ heap'.first = heap.first /\ heap'.current = heap.current
            /\ heap'.previous = heap.previous /\ heap'.nstate = heap.nstate
            /\ heap'.wnext = heap.wnext /\ heap'.cursor = heap.cursor
            /\ heap'.nworker = heap.nworker /\ heap'.sstate = heap.sstate
            /\ \A s \in Task \ {t} : heap'.next[s] = heap.next[s]
        BY <1>1, <3>1 DEF HeapType, Released
      <3> QED
        BY <3>1, <3>2, OutsideStep
    <2>2. CASE pmode[t] # "OFF"
      BY <1>2, <1>6, <2>2 DEF FreeTask
    <2> QED
      BY <2>1, <2>2
  <1>7. CASE Break \/ UCatch
    BY <1>2, <1>7 DEF Break, UCatch
  <1> QED
    BY <1>3, <1>4, <1>5, <1>6, <1>7 DEF Calls

LEMMA GoNextWorkerStep ==
    ASSUME IInv, ~go.fixed, GoNextWorker
    PROVE  Queues!Rotate
  <1> DEFINE w == heap.cursor
             r == RewindWorkerStates(heap, w)
             g == NextWorker(r)
  <1>1. /\ w \in Machine /\ heap.nworker > 1 /\ heap.current[w] = NULL
        /\ heap' = g /\ go' = go /\ go.pc = "loop"
    BY DEF GoNextWorker, GoGetWorker, Looping, IInv, TypeOK, HeapType
  <1>2. WellFormed(heap, Lists) /\ Lists[w] \subseteq heap.run
    BY <1>1 DEF IInv, Lists, RunnableOf, Runnable
  <1>3. /\ Ring # <<>> /\ Head(Ring) = w /\ Len(Ring) = heap.nworker
        /\ Todo[w] = <<>>
    BY <1>1, FirstWorker
  <1> HIDE DEF w
  <1>4. /\ Todos(r) = [Todo EXCEPT ![w] = Ran[w]]
        /\ Rans(r) = [Ran EXCEPT ![w] = <<>>]
        /\ RingOf(r) = Ring
    <2>1. /\ Todos(r) = [Todos(heap) EXCEPT ![w] = Rans(heap)[w]]
          /\ Rans(r) = [Rans(heap) EXCEPT ![w] = <<>>]
          /\ RingOf(r) = RingOf(heap)
      BY <1>1, <1>2, RewindQueues
    <2> HIDE DEF r
    <2> QED
      BY Zenon, <2>1, Mapping
  <1>5. WellFormed(r, Lists) /\ r.cursor = heap.cursor
    BY <1>1, <1>2, RewindWF
  <1>6. r.cursor # NULL
    BY <1>1, <1>5, NullAssumption DEF w
  <1> HIDE DEF r
  <1>7. /\ Todos(g) = Todos(r) /\ Rans(g) = Rans(r)
        /\ RingOf(g) = Append(Tail(RingOf(r)), Head(RingOf(r)))
    BY <1>5, <1>6, NextWorkerQueues
  <1> HIDE DEF g
  <1>8. /\ Todo' = [Todo EXCEPT ![w] = Ran[w]]
        /\ Ran' = [Ran EXCEPT ![w] = <<>>]
        /\ Ring' = Append(Tail(Ring), w)
    BY Zenon, <1>1, <1>3, <1>4, <1>7, Mapping
  <1>9. Step = NULL /\ Step' = Step
    BY <1>1 DEF Step, InStep
  <1>10. Len(Ring) > 1
    BY <1>1, <1>3
  <1>11. Queues!First = w
    BY <1>3 DEF Queues!First
  <1> QED
    BY Zenon, <1>3, <1>8, <1>9, <1>10, <1>11 DEF Queues!Rotate

(* A worker has its turn: a new round begins for it when it is alone and   *)
(* has no task left to do.                                                 *)
LEMMA PickedQueues ==
    ASSUME IInv, ~go.fixed, CanStep
    PROVE  LET w == GoGetWorker
               h == Picked(w)
           IN  /\ w \in Machine /\ Queues!First = w /\ Queues!Turn
               /\ Todos(h) = [Todo EXCEPT ![w] = Queues!Todo(w)]
               /\ Rans(h) = [Ran EXCEPT ![w] = Queues!Ran(w)]
               /\ RingOf(h) = Ring
               /\ Todos(h)[w] = Queues!Todo(w) /\ Rans(h)[w] = Queues!Ran(w)
               /\ h.sstate = Head(Queues!Todo(w))
  <1> DEFINE w == GoGetWorker
             h == Picked(w)
             r == RewindWorkerStates(heap, w)
             g == IF heap.current[w] = NULL THEN r ELSE heap
  <1>1. /\ w \in Machine /\ heap.cursor = w /\ go.pc = "loop"
        /\ heap.current[w] = NULL => heap.nworker = 1
    BY DEF CanStep, Looping, GoGetWorker, IInv, TypeOK, HeapType
  <1>2. /\ WellFormed(h, Lists) /\ h.sstate \in Lists[w] /\ h.current[w] = h.sstate
        /\ h.next = heap.next
    BY PickedWF
  <1>3. h = [g EXCEPT !.sstate = g.current[w], !.sworker = w, !.suspendop = 0]
    BY DEF Picked
  <1> HIDE DEF w, h
  <1>4. /\ Ring # <<>> /\ Head(Ring) = w /\ Len(Ring) = heap.nworker
        /\ Todo[w] = <<>> <=> heap.current[w] = NULL
        /\ Todo = [Todo EXCEPT ![w] = Todo[w]] /\ Ran = [Ran EXCEPT ![w] = Ran[w]]
    BY <1>1, FirstWorker
  <1>5. WellFormed(heap, Lists) /\ Lists[w] \subseteq heap.run
    BY <1>1 DEF IInv, Lists, RunnableOf, Runnable
  <1>6. WellFormed(r, Lists) /\ r.next = heap.next
    BY <1>1, <1>5, RewindWF
  <1>7. /\ heap.current[w] = NULL => Todos(r) = [Todos(heap) EXCEPT ![w] = Rans(heap)[w]]
        /\ heap.current[w] = NULL => Rans(r) = [Rans(heap) EXCEPT ![w] = <<>>]
        /\ heap.current[w] = NULL => RingOf(r) = RingOf(heap)
    BY <1>1, <1>5, RewindQueues
  <1> HIDE DEF r
  <1>8. /\ WellFormed(g, Lists) /\ g.next = heap.next
        /\ Todos(g) = [Todo EXCEPT ![w] = Queues!Todo(w)]
        /\ Rans(g) = [Ran EXCEPT ![w] = Queues!Ran(w)]
        /\ RingOf(g) = Ring
    <2>1. CASE heap.current[w] = NULL
      BY Zenon, <1>4, <1>6, <1>7, <2>1, Mapping DEF Queues!Todo, Queues!Ran
    <2>2. CASE heap.current[w] # NULL
      BY Zenon, <1>4, <1>5, <2>2, Mapping DEF Queues!Todo, Queues!Ran
    <2> QED
      BY <2>1, <2>2
  <1> HIDE DEF g
  <1>9. /\ h \in HeapType
        /\ h.first = g.first /\ h.current = g.current
        /\ h.previous = g.previous /\ h.nstate = g.nstate
        /\ h.wnext = g.wnext /\ h.cursor = g.cursor /\ h.nworker = g.nworker
        /\ h.next = g.next
    <2>1. g \in HeapType /\ h \in HeapType
      BY <1>2, <1>8 DEF WellFormed
    <2> QED
      BY <1>3, <2>1 DEF HeapType
  <1>10. Todos(h) = Todos(g) /\ Rans(h) = Rans(g) /\ RingOf(h) = RingOf(g)
    BY <1>8, <1>9, FrameQueues
  <1>11. Queues!First = w /\ Queues!Turn
    BY <1>1, <1>4 DEF Queues!First, Queues!Turn, Step, InStep
  <1>12. Todos(h)[w] = Queues!Todo(w) /\ Rans(h)[w] = Queues!Ran(w)
    BY <1>1, <1>8, <1>10 DEF Todo, Ran
  <1>13. h.sstate # NULL
    BY <1>1, <1>2, ListsDisjoint, NullAssumption DEF Disjoint
  <1>14. h.sstate = Head(Queues!Todo(w))
    <2>1. Head(Todos(h)[w]) = h.current[w]
      BY <1>1, <1>2, <1>13, ListQueues
    <2> QED
      BY Zenon, <1>2, <1>12, <2>1
  <1> QED
    BY Zenon, <1>1, <1>8, <1>10, <1>11, <1>12, <1>14 DEF w, h

LEMMA StepBeginStep ==
    ASSUME IInv, ~go.fixed, StepBegin
    PROVE  Queues!Pick
  <1> DEFINE w == GoGetWorker
             h == Picked(w)
  <1>1. CanStep /\ go' = [go EXCEPT !.pc = "step"] /\ TypeOK
        /\ pmode[h.sstate] # "END"
    BY DEF StepBegin, IInv
  <1>2. h.sstate \in Lists[w] /\ w \in Machine
    BY <1>1, PickedWF
  <1>3. pmode[h.sstate] \in {"NORMAL", "CLOSE"}
    BY <1>1, <1>2 DEF Lists, RunnableOf, Runnable, Live
  <1>4. heap' = h
    BY <1>3 DEF StepBegin
  <1>5. /\ Queues!First = w /\ Queues!Turn
        /\ Todos(h) = [Todo EXCEPT ![w] = Queues!Todo(w)]
        /\ Rans(h) = [Ran EXCEPT ![w] = Queues!Ran(w)]
        /\ RingOf(h) = Ring
        /\ h.sstate = Head(Queues!Todo(w))
    BY Zenon, <1>1, PickedQueues
  <1> HIDE DEF w, h
  <1>6. Step' = h.sstate
    BY <1>1, <1>4 DEF Step, InStep, Current, TypeOK
  <1>7. /\ Todo' = [Todo EXCEPT ![w] = Queues!Todo(w)]
        /\ Ran' = [Ran EXCEPT ![w] = Queues!Ran(w)]
        /\ Ring' = Ring
    BY Zenon, <1>4, <1>5, Mapping
  <1> QED
    BY Zenon, <1>5, <1>6, <1>7 DEF Queues!Pick

LEMMA StepEndStep ==
    ASSUME IInv, ~go.fixed, StepEnd
    PROVE  Queues!End
  <1> DEFINE w == GoGetWorker
             h == Picked(w)
             t == h.sstate
             u == UnlinkCurrentState(h)
             f == Released(u, t)
             R == [Lists EXCEPT ![w] = @ \ {t}]
             td == Tail(Queues!Todo(w))
  <1>1. /\ CanStep /\ TypeOK /\ go.left > 0 /\ go.pc = "loop"
        /\ StepReturns(f, FALSE) \/ StepReturns(u, FALSE)
    BY DEF StepEnd, IInv, CanStep, Looping
  <1>2. /\ w \in Machine
        /\ WellFormed(h, Lists)
        /\ t \in Lists[w] /\ h.current[w] = t
        /\ h.sworker = w /\ h.suspendop = 0
        /\ h.cursor = w
    BY <1>1, PickedWF
  <1>3. /\ Queues!First = w /\ Queues!Turn
        /\ Todos(h) = [Todo EXCEPT ![w] = Queues!Todo(w)]
        /\ Rans(h) = [Ran EXCEPT ![w] = Queues!Ran(w)]
        /\ RingOf(h) = Ring
        /\ Todos(h)[w] = Queues!Todo(w) /\ Rans(h)[w] = Queues!Ran(w)
    BY Zenon, <1>1, PickedQueues
  <1>4. Disjoint(Lists)
    BY ListsDisjoint
  <1> HIDE DEF w, h, td
  <1>5. t \in Task /\ t # NULL
    BY <1>2, <1>4, NullAssumption DEF Disjoint
  <1>6. WellFormed(u, R) /\ \A m \in Machine : t \notin R[m] /\ R[m] \subseteq Task
    <2>1. WellFormed(u, R)
      BY <1>2, <1>4, <1>5, UnlinkWF
    <2> QED
      BY <1>2, <1>4, <2>1 DEF Disjoint
  <1>7. /\ Todos(u) = [Todos(h) EXCEPT ![w] = Tail(Todos(h)[w])]
        /\ Rans(u) = Rans(h)
        /\ RingOf(u) = IF Tail(Todos(h)[w]) = <<>> /\ Rans(h)[w] = <<>>
                       THEN Tail(RingOf(h)) ELSE RingOf(h)
    BY <1>2, <1>4, <1>5, UnlinkQueues
  <1> HIDE DEF u, t, R
  <1>8. Todos(f) = Todos(u) /\ Rans(f) = Rans(u) /\ RingOf(f) = RingOf(u)
    <2>1. u \in HeapType
      BY <1>6 DEF WellFormed
    <2>2. /\ f \in HeapType
          /\ f.first = u.first /\ f.current = u.current
          /\ f.previous = u.previous /\ f.nstate = u.nstate
          /\ f.wnext = u.wnext /\ f.cursor = u.cursor /\ f.nworker = u.nworker
          /\ \A s \in Task \ {t} : f.next[s] = u.next[s]
      BY <2>1 DEF Released, HeapType
    <2>3. \A m \in Machine : \A s \in R[m] : f.next[s] = u.next[s]
      BY <1>6, <2>2
    <2> HIDE DEF f
    <2> QED
      BY <1>6, <2>2, <2>3, FrameQueues
  <1> HIDE DEF f
  <1>9. heap' \in {u, f} /\ go'.pc # "step"
    BY <1>1, StepReturnsGo
  <1>10. /\ Todo' = Todos(u) /\ Ran' = Rans(u) /\ Ring' = RingOf(u)
    BY Zenon, <1>8, <1>9, Mapping
  <1>11. Todos(u) = [Todo EXCEPT ![w] = td]
    <2>1. Todos(u) = [[Todo EXCEPT ![w] = Queues!Todo(w)] EXCEPT ![w] = td]
      BY Zenon, <1>3, <1>7 DEF td
    <2> HIDE DEF td
    <2>2. Todo \in [Machine -> {Todo[m] : m \in Machine}]
      BY DEF Todo
    <2> QED
      BY <1>2, <2>1, <2>2
  <1>12. Step = NULL /\ Step' = Step
    BY <1>1, <1>9 DEF Step, InStep
  <1>13. Todo' = Queues!WithoutHead
    BY Zenon, <1>3, <1>10, <1>11 DEF Queues!WithoutHead, td
  <1>14. Ran' = [Ran EXCEPT ![w] = Queues!Ran(w)]
    BY Zenon, <1>3, <1>7, <1>10
  <1>15. Ring' = Queues!RingWithout
    BY Zenon, <1>3, <1>7, <1>10 DEF Queues!RingWithout
  <1> QED
    BY Zenon, <1>3, <1>12, <1>13, <1>14, <1>15 DEF Queues!End

(* The step that is open is that of the first task to do of the worker     *)
(* whose turn it is.                                                       *)
LEMMA OpenStep ==
    ASSUME IInv, ~go.fixed, InStep
    PROVE  LET w == heap.sworker
           IN  /\ w \in Machine /\ heap.cursor = w /\ heap.suspendop = 0
               /\ heap.sstate \in Task /\ heap.sstate # NULL
               /\ heap.current[w] = heap.sstate /\ Step = heap.sstate
               /\ Queues!First = w /\ Ring # <<>>
               /\ Queues!Todo(w) = Todo[w] /\ Queues!Ran(w) = Ran[w]
               /\ WellFormed(heap, Lists) /\ Disjoint(Lists) /\ TypeOK /\ go.left > 0
  <1> DEFINE w == heap.sworker
  <1>1. /\ w \in Machine /\ heap.cursor = w /\ heap.suspendop = 0
        /\ heap.sstate \in Task /\ heap.sstate # NULL
        /\ heap.current[w] = heap.sstate /\ Step = heap.sstate
        /\ WellFormed(heap, Lists) /\ Disjoint(Lists) /\ TypeOK /\ go.left > 0
    BY ListsDisjoint, NullAssumption DEF IInv, SessionOpen, SessionInSync, Current, Step
  <1> HIDE DEF w
  <1>2. /\ Ring # <<>> /\ Head(Ring) = w
        /\ Todo[w] # <<>>
    BY <1>1, FirstWorker
  <1>3. Queues!First = w /\ Queues!Todo(w) = Todo[w] /\ Queues!Ran(w) = Ran[w]
    BY <1>2 DEF Queues!First, Queues!Todo, Queues!Ran
  <1> QED
    BY Zenon, <1>1, <1>2, <1>3 DEF w

LEMMA KeepStep ==
    ASSUME IInv, ~go.fixed, InStep, StepReturns(StateNext(heap, heap.sworker), FALSE)
    PROVE  Queues!Keep
  <1> DEFINE w == heap.sworker
             g == StateNext(heap, w)
  <1>1. /\ w \in Machine /\ heap.current[w] # NULL /\ heap.current[w] = Step /\ Step # NULL
        /\ Queues!First = w /\ Ring # <<>>
        /\ WellFormed(heap, Lists) /\ TypeOK /\ go.left > 0
    BY OpenStep
  <1>2. /\ Todos(g) = [Todos(heap) EXCEPT ![w] = Tail(Todos(heap)[w])]
        /\ Rans(g) = [Rans(heap) EXCEPT ![w] = Append(Rans(heap)[w], heap.current[w])]
        /\ RingOf(g) = RingOf(heap)
    BY <1>1, NextQueues
  <1> HIDE DEF g
  <1>3. heap' = g /\ go'.pc # "step"
    BY <1>1, StepReturnsGo DEF g
  <1> HIDE DEF w
  <1>4. Step' = NULL
    BY <1>3 DEF Step, InStep
  <1>5. /\ Todo' = [Todo EXCEPT ![w] = Tail(Todo[w])]
        /\ Ran' = [Ran EXCEPT ![w] = Append(Ran[w], Step)]
        /\ Ring' = Ring
    BY Zenon, <1>1, <1>2, <1>3, Mapping
  <1> QED
    BY Zenon, <1>1, <1>4, <1>5 DEF Queues!Keep, Queues!Yield

LEMMA DropStep ==
    ASSUME IInv, ~go.fixed, InStep,
           StepReturns(SuspendCurrentState(heap, FALSE), FALSE)
    PROVE  Queues!Drop
  <1> DEFINE w == heap.sworker
             g == SuspendCurrentState(heap, FALSE)
  <1>1. /\ w \in Machine /\ heap.cursor = w /\ heap.suspendop = 0
        /\ heap.sstate \in Task /\ heap.current[w] = heap.sstate
        /\ Step = heap.sstate /\ Step # NULL
        /\ Queues!First = w /\ Ring # <<>>
        /\ Queues!Todo(w) = Todo[w] /\ Queues!Ran(w) = Ran[w]
        /\ WellFormed(heap, Lists) /\ Disjoint(Lists) /\ TypeOK /\ go.left > 0
    BY OpenStep
  <1>2. /\ Todos(g) = [Todos(heap) EXCEPT ![w] = Tail(Todos(heap)[w])]
        /\ Rans(g) = Rans(heap)
        /\ RingOf(g) = IF Tail(Todos(heap)[w]) = <<>> /\ Rans(heap)[w] = <<>>
                       THEN Tail(RingOf(heap)) ELSE RingOf(heap)
    BY <1>1, SuspendQueues
  <1> HIDE DEF g
  <1>3. heap' = g /\ go'.pc # "step"
    BY <1>1, StepReturnsGo DEF g
  <1> HIDE DEF w
  <1>4. Step' = NULL
    BY <1>3 DEF Step, InStep
  <1>5. Todo' = Queues!WithoutHead /\ Ran' = Ran
    BY Zenon, <1>1, <1>2, <1>3, Mapping DEF Queues!WithoutHead
  <1>6. Ring' = Queues!RingWithout
    BY Zenon, <1>1, <1>2, <1>3, Mapping DEF Queues!RingWithout
  <1> QED
    BY Zenon, <1>1, <1>4, <1>5, <1>6 DEF Queues!Drop, Queues!Yield

LEMMA DropAndResumeStep ==
    ASSUME IInv, ~go.fixed, InStep, NEW e \in BOOLEAN,
           StepReturns(ImplodeMonoTask(SuspendCurrentState(heap, TRUE), Current), e)
    PROVE  Queues!DropAndResume
  <1> DEFINE w == heap.sworker
             c == heap.sstate
             g == SuspendCurrentState(heap, TRUE)
             R == [Lists EXCEPT ![w] = @ \ {c}]
             h == ResumeState(g, c)
  <1>1. /\ w \in Machine /\ heap.cursor = w /\ heap.suspendop = 0
        /\ c \in Task /\ heap.current[w] = c
        /\ Step = c /\ Step # NULL
        /\ Queues!First = w /\ Ring # <<>>
        /\ Queues!Todo(w) = Todo[w] /\ Queues!Ran(w) = Ran[w]
        /\ WellFormed(heap, Lists) /\ Disjoint(Lists) /\ TypeOK /\ go.left > 0
    BY OpenStep
  <1>2. /\ WellFormed(g, R) /\ c \in Lists[w]
        /\ g.run = heap.run \ {c} /\ g.next[c] = w
    <2>1. \E wait \in BOOLEAN : g = SuspendCurrentState(heap, wait)
      OBVIOUS
    <2> HIDE DEF g
    <2> QED
      BY <1>1, <2>1, SuspendWF
  <1>3. /\ Todos(g) = [Todos(heap) EXCEPT ![w] = Tail(Todos(heap)[w])]
        /\ Rans(g) = Rans(heap)
        /\ RingOf(g) = IF Tail(Todos(heap)[w]) = <<>> /\ Rans(heap)[w] = <<>>
                       THEN Tail(RingOf(heap)) ELSE RingOf(heap)
    BY <1>1, SuspendQueues
  <1> HIDE DEF g
  <1>4. Disjoint(R) /\ \A m \in Machine : c \notin R[m]
    BY <1>1, <1>2 DEF Disjoint
  <1> HIDE DEF R
  <1>5. IF Todos(g)[w] = <<>> /\ Rans(g)[w] = <<>>
        THEN /\ Todos(h) = [Todos(g) EXCEPT ![w] = <<c>>]
             /\ Rans(h) = Rans(g)
             /\ RingOf(h) = Append(RingOf(g), w)
        ELSE /\ Todos(h) = Todos(g)
             /\ Rans(h) = [Rans(g) EXCEPT ![w] = Append(Rans(g)[w], c)]
             /\ RingOf(h) = RingOf(g)
    <2>1. /\ w \in Machine /\ c \in Task /\ c \notin g.run /\ g.next[c] = w
          /\ WellFormed(g, R) /\ Disjoint(R) /\ \A m \in Machine : c \notin R[m]
      BY <1>1, <1>2, <1>4
    <2> HIDE DEF w, c
    <2> QED
      BY <2>1, ResumeQueues
  <1> HIDE DEF h
  <1>6. heap' = h /\ go'.pc # "step"
    <2>1. StepReturns(h, e)
      BY DEF ImplodeMonoTask, Current, g, h
    <2> QED
      BY <1>1, <2>1, StepReturnsGo
  <1> HIDE DEF w, c
  <1>7. Step' = NULL
    BY <1>6 DEF Step, InStep
  <1>8. Queues!WithoutHead = Todos(g) /\ Ran = Rans(g)
    BY Zenon, <1>1, <1>3, Mapping DEF Queues!WithoutHead
  <1>9. Queues!RingWithout = RingOf(g)
    BY Zenon, <1>1, <1>3, Mapping DEF Queues!RingWithout
  <1>10. IF Todos(g)[w] = <<>> /\ Rans(g)[w] = <<>>
         THEN /\ Todo' = [Todos(g) EXCEPT ![w] = <<c>>]
              /\ Ran' = Rans(g)
              /\ Ring' = Append(RingOf(g), w)
         ELSE /\ Todo' = Todos(g)
              /\ Ran' = [Rans(g) EXCEPT ![w] = Append(Rans(g)[w], c)]
              /\ Ring' = RingOf(g)
    BY Zenon, <1>5, <1>6, Mapping
  <1>11. Queues!Enqueued(w, c, Todos(g), Rans(g), RingOf(g))
    BY Zenon, <1>10 DEF Queues!Enqueued
  <1>12. Queues!Enqueued(Queues!First, Step, Queues!WithoutHead, Ran, Queues!RingWithout)
    BY <1>1, <1>8, <1>9, <1>11
  <1> QED
    BY Zenon, <1>1, <1>7, <1>12 DEF Queues!DropAndResume, Queues!Yield
----------------------------------------------------------------------------
(* No call is filtered. *)
Unfiltered == IInv /\ ~go.fixed

LEMMA UnfilteredInv ==
    ASSUME Filter = {}, Unfiltered, [Next]_vars
    PROVE  Unfiltered'
  <1>1. IInv' /\ TypeOK
    BY NextStepInv DEF Unfiltered, IInv
  <1> SUFFICES ~go'.fixed
    BY <1>1 DEF Unfiltered
  <1>2. ASSUME NEW h, NEW e, StepReturns(h, e)
        PROVE  go'.fixed = go.fixed
    BY <1>1, <1>2 DEF StepReturns, Return, TypeOK
  <1>3. CASE Calls
    BY <1>3 DEF Calls, NewTask, Resume, Abort, FreeTask, Break, UCatch, Unfiltered
  <1>4. CASE HostGo
    BY <1>4 DEF HostGo, GoCall
  <1>5. CASE GoLoop
    BY <1>1, <1>2, <1>5 DEF GoLoop, GoExhausted, GoPause, GoIdle, GoNextWorker, StepBegin,
                     StepEnd, Return, TypeOK, Unfiltered
  <1>6. CASE Yield
    BY <1>2, <1>6 DEF Yield, YieldContinue, YieldSuspend, YieldTerm, YieldAbort,
                     YieldEnd, Unfiltered
  <1>7. CASE UNCHANGED vars
    BY <1>7 DEF vars, Unfiltered
  <1> QED
    BY <1>3, <1>4, <1>5, <1>6, <1>7 DEF Next

LEMMA InitQueues == Init => Queues!Init
  <1> SUFFICES ASSUME Init PROVE Queues!Init
    OBVIOUS
  <1>1. WellFormed(heap, Lists) /\ heap.cursor = NULL /\ \A w \in Machine : heap.nstate[w] = 0
    BY InitIInv DEF IInv, Init, EmptyLists
  <1>2. \A w \in Machine : Todos(heap)[w] = <<>> /\ Rans(heap)[w] = <<>>
    BY <1>1, ListQueues
  <1>3. Todo = [w \in Machine |-> <<>>] /\ Ran = [w \in Machine |-> <<>>]
    <2>1. /\ Todos(heap) = [w \in Machine |-> Todos(heap)[w]]
          /\ Rans(heap) = [w \in Machine |-> Rans(heap)[w]]
      BY DEF Todos, Rans
    <2> QED
      BY <1>2, <2>1, Mapping
  <1>4. Ring = <<>>
    BY <1>1, RingQueue DEF Ring
  <1>5. Step = NULL
    BY DEF Init, Step, InStep
  <1> QED
    BY <1>3, <1>4, <1>5 DEF Queues!Init

(* What steps other than those that begin or end one of a task do. *)
LEMMA OtherSteps ==
    ASSUME Filter = {}, IInv, ~go.fixed, Next, ~StepBegin, ~StepEnd
    PROVE  \/ \E t \in Task : Queues!Resume(t)
           \/ Queues!Rotate \/ Queues!Keep \/ Queues!Drop \/ Queues!DropAndResume
           \/ UNCHANGED Queues!vars
  <1>1. CASE Calls
    BY <1>1, CallsStep
  <1>2. CASE HostGo \/ GoExhausted \/ GoPause \/ GoIdle
    <2>1. heap' = heap /\ go.pc # "step" /\ go'.pc # "step"
      BY <1>2 DEF HostGo, GoCall, GoExhausted, GoPause, GoIdle, Looping, Return, IInv, TypeOK
    <2>2. UNCHANGED Queues!vars
      BY <2>1, Stutter DEF Step, InStep
    <2> QED
      BY <2>2
  <1>3. CASE GoNextWorker
    BY <1>3, GoNextWorkerStep
  <1>4. CASE YieldContinue \/ YieldEnd
    BY <1>4, KeepStep DEF YieldContinue, YieldEnd, Yields
  <1>5. CASE YieldSuspend
    BY <1>5, DropStep DEF YieldSuspend, Yields
  <1>6. CASE YieldTerm \/ YieldAbort
    BY <1>6, DropAndResumeStep DEF YieldTerm, YieldAbort, CloseCurrent, Yields
  <1> QED
    BY <1>1, <1>2, <1>3, <1>4, <1>5, <1>6 DEF Next, GoLoop, Yield

LEMMA QueuesStep ==
    ASSUME Filter = {}, Unfiltered, [Next]_vars
    PROVE  [Queues!Next]_(Queues!vars)
  <1>1. IInv /\ ~go.fixed
    BY DEF Unfiltered
  <1>2. CASE StepBegin \/ StepEnd
    BY <1>1, <1>2, StepBeginStep, StepEndStep, NextOf
  <1>3. CASE Next /\ ~StepBegin /\ ~StepEnd
    BY <1>1, <1>3, OtherSteps, NextOf
  <1>4. CASE UNCHANGED vars
    BY <1>4, Stutter, NextOf DEF vars, Step, InStep, Current
  <1> QED
    BY <1>2, <1>3, <1>4

(* Whatever the host and the tasks call and in whatever order, as long as  *)
(* the host filters no call of zm_go: the pointers of the lists and of the *)
(* ring implement the rounds and turns of RunQueues.                       *)
THEOREM QueuesImplemented ==
    ASSUME Filter = {}
    PROVE  Spec => ImplementsQueues
  <1>1. Init => Unfiltered
    BY InitIInv DEF Unfiltered, Init
  <1>2. Unfiltered /\ [Next]_vars => Unfiltered'
    BY UnfilteredInv
  <1>3. Unfiltered /\ [Next]_vars => [Queues!Next]_(Queues!vars)
    BY QueuesStep
  <1> QED
    BY <1>1, <1>2, <1>3, InitQueues, PTL DEF Spec, ImplementsQueues, Queues!Spec
=============================================================================
