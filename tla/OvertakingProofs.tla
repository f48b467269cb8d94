--------------------------- MODULE OvertakingProofs ---------------------------
(***************************************************************************)
(* How often a task is overtaken, for any number of tasks and machines: a  *)
(* consequence of the order that the queues of RunQueues keep.             *)
(***************************************************************************)
EXTENDS SchedulerOvertaking, SchedulerProofs

(* a comes before b in s. *)
Before(s, a, b) == \E i, j \in 1..Len(s) : i < j /\ s[i] = a /\ s[j] = b

(* Hasty has a step to make before the worker of Patient comes to Patient, *)
(* or to the end of the round in which Patient waits for the next one.     *)
AheadIn(td, rn, rg) ==
    \E w, v \in Machine :
        /\ Hasty \in ToSet(td[w])
        /\ \/ Patient \in ToSet(rn[v]) /\ (w = v \/ Before(rg, w, v))
           \/ /\ Patient \in ToSet(td[v])
              /\ Before(rg, w, v) \/ (w = v /\ Before(td[v], Hasty, Patient))

Ahead == AheadIn(Todo, Ran, Ring)

(* Patient runs at the next round of its worker only. *)
WaitsIn(rn) == \E v \in Machine : Patient \in ToSet(rn[v])
Waits == WaitsIn(Ran)

(* Each overtaking uses up one of the two chances of Hasty: one in the     *)
(* round in which Patient waits, one in the round in which it runs.        *)
Overtaking ==
    overtaken # 0 =>
        /\ Step # Patient
        /\ overtaken <= 2
        /\ Waits => overtaken <= 1
        /\ Step # Hasty /\ Ahead => overtaken <= 1 /\ ~Waits

OInv ==
    /\ Unfiltered
    /\ overtaken \in Nat
    /\ Overtaking
----------------------------------------------------------------------------
(* Sequences. *)

LEMMA ToSetOf ==
    ASSUME NEW T, NEW s \in Seq(T)
    PROVE  /\ \A x \in T : ToSet(Append(s, x)) = ToSet(s) \cup {x}
           /\ s # <<>> => ToSet(s) = {Head(s)} \cup ToSet(Tail(s))
           /\ s # <<>> => Head(s) \in T /\ Tail(s) \in Seq(T)
           /\ s = <<>> => ToSet(s) = {}
           /\ ToSet(s) \subseteq T
  <1>1. ToSet(s) = {s[i] : i \in 1..Len(s)} /\ Len(s) \in Nat
        /\ \A i \in 1..Len(s) : s[i] \in T
    BY DEF ToSet
  <1>2. ASSUME NEW x \in T PROVE ToSet(Append(s, x)) = ToSet(s) \cup {x}
    <2> DEFINE a == Append(s, x)
               n == Len(s)
    <2>1. /\ a \in Seq(T) /\ Len(a) = n + 1 /\ a[n + 1] = x
          /\ \A i \in 1..n : a[i] = s[i]
      BY AppendProperties
    <2>2. ToSet(a) = {a[i] : i \in 1..(n + 1)}
      BY <2>1 DEF ToSet
    <2> HIDE DEF a, n
    <2>3. n \in Nat /\ ToSet(s) = {s[i] : i \in 1..n}
      BY <1>1 DEF n
    <2>4. \A i \in 1..(n + 1) : i \in 1..n \/ i = n + 1
      BY <2>3
    <2>5. \A i \in 1..n : i \in 1..(n + 1)
      BY <2>3
    <2>6. n + 1 \in 1..(n + 1)
      BY <2>3
    <2>7. ToSet(a) \subseteq ToSet(s) \cup {x}
      BY <2>1, <2>2, <2>3, <2>4
    <2>8. ToSet(s) \cup {x} \subseteq ToSet(a)
      BY <2>1, <2>2, <2>3, <2>5, <2>6
    <2> QED
      BY <2>7, <2>8 DEF a
  <1>3. ASSUME s # <<>>
        PROVE  /\ ToSet(s) = {Head(s)} \cup ToSet(Tail(s))
               /\ Head(s) \in T /\ Tail(s) \in Seq(T)
    <2> DEFINE t == Tail(s)
               n == Len(s)
    <2>1. /\ Head(s) = s[1] /\ t \in Seq(T) /\ Len(t) = n - 1 /\ n # 0
          /\ \A i \in 1..(n - 1) : t[i] = s[i + 1]
      BY <1>3, HeadTailProperties, EmptySeq
    <2> HIDE DEF t
    <2>2. ToSet(t) = {t[i] : i \in 1..(n - 1)}
      <3>1. ToSet(t) = {t[i] : i \in 1..Len(t)}
        BY <2>1 DEF ToSet
      <3> QED
        BY <2>1, <3>1
    <2> HIDE DEF n
    <2>3. n \in Nat \ {0} /\ ToSet(s) = {s[i] : i \in 1..n} /\ \A i \in 1..n : s[i] \in T
      BY <1>1, <2>1 DEF n
    <2>4. \A i \in 1..n : i # 1 => i - 1 \in 1..(n - 1) /\ (i - 1) + 1 = i
      BY <2>3
    <2>5. \A i \in 1..(n - 1) : i + 1 \in 1..n
      BY <2>3
    <2>6. 1 \in 1..n
      BY <2>3
    <2>7. ToSet(s) \subseteq {s[1]} \cup ToSet(t)
      <3> SUFFICES ASSUME NEW i \in 1..n PROVE s[i] \in {s[1]} \cup ToSet(t)
        BY <2>3
      <3>1. CASE i = 1
        BY <3>1
      <3>2. CASE i # 1
        <4>1. i - 1 \in 1..(n - 1) /\ t[i - 1] = s[i]
          BY <2>1, <2>4, <3>2
        <4> QED
          BY <2>2, <4>1
      <3> QED
        BY <3>1, <3>2
    <2>8. {s[1]} \cup ToSet(t) \subseteq ToSet(s)
      BY <2>1, <2>2, <2>3, <2>5, <2>6
    <2> QED
      BY <2>1, <2>3, <2>6, <2>7, <2>8 DEF t
  <1>4. s = <<>> => ToSet(s) = {}
    BY <1>1
  <1> QED
    BY <1>1, <1>2, <1>3, <1>4

LEMMA OneElement ==
    ASSUME NEW T, NEW s \in Seq(T), Len(s) = 1
    PROVE  s # <<>> /\ Tail(s) = <<>>
  <1>1. s # <<>>
    BY EmptySeq
  <1> DEFINE t == Tail(s)
  <1>2. t \in Seq(T) /\ Len(t) = 0
    BY <1>1, HeadTailProperties
  <1> HIDE DEF t
  <1>3. t = <<>>
    BY <1>2, EmptySeq
  <1> QED
    BY <1>1, <1>3 DEF t

LEMMA BeforeIn ==
    ASSUME NEW s, NEW a, NEW b, Before(s, a, b)
    PROVE  a \in ToSet(s) /\ b \in ToSet(s)
  BY DEF Before, ToSet

LEMMA BeforeTail ==
    ASSUME NEW T, NEW s \in Seq(T), s # <<>>, NEW a, NEW b, Before(Tail(s), a, b)
    PROVE  Before(s, a, b)
  <1> DEFINE t == Tail(s)
             n == Len(s)
  <1>1. /\ Len(t) = n - 1 /\ n \in Nat
        /\ \A i \in 1..(n - 1) : t[i] = s[i + 1]
    BY HeadTailProperties
  <1>2. PICK i, j \in 1..(n - 1) : i < j /\ t[i] = a /\ t[j] = b
    BY <1>1 DEF Before
  <1> HIDE DEF t, n
  <1>3. i + 1 \in 1..n /\ j + 1 \in 1..n /\ i + 1 < j + 1 /\ s[i + 1] = a /\ s[j + 1] = b
    BY <1>1, <1>2
  <1> QED
    BY <1>3 DEF Before, n

LEMMA BeforeAppend ==
    ASSUME NEW T, NEW s \in Seq(T), NEW x \in T, NEW a, NEW b, b # x,
           Before(Append(s, x), a, b)
    PROVE  Before(s, a, b)
  <1> DEFINE t == Append(s, x)
             n == Len(s)
  <1>1. /\ Len(t) = n + 1 /\ n \in Nat /\ t[n + 1] = x
        /\ \A i \in 1..n : t[i] = s[i]
    BY AppendProperties
  <1>2. PICK i, j \in 1..(n + 1) : i < j /\ t[i] = a /\ t[j] = b
    BY <1>1 DEF Before
  <1> HIDE DEF t, n
  <1>3. i \in 1..n /\ j \in 1..n
    BY <1>1, <1>2
  <1> QED
    BY <1>1, <1>2, <1>3 DEF Before, n

LEMMA BeforeHead ==
    ASSUME NEW T, NEW s \in Seq(T), NEW b \in ToSet(s), b # Head(s)
    PROVE  Before(s, Head(s), b)
  <1>1. PICK j \in 1..Len(s) : s[j] = b
    BY DEF ToSet
  <1>2. Head(s) = s[1] /\ Len(s) \in Nat
    BY <1>1, HeadTailProperties, EmptySeq
  <1>3. 1 \in 1..Len(s) /\ 1 < j
    BY <1>1, <1>2
  <1> QED
    BY <1>1, <1>2, <1>3 DEF Before
----------------------------------------------------------------------------
(* In the queues of a reachable state a task is in one place, and a worker *)
(* is in the ring, once, while it has tasks.                               *)

Once(s) == \A i, j \in 1..Len(s) : s[i] = s[j] => i = j

LEMMA OnceTail ==
    ASSUME NEW T, NEW s \in Seq(T), s # <<>>, Once(s)
    PROVE  Head(s) \notin ToSet(Tail(s)) /\ Once(Tail(s))
  <1> DEFINE t == Tail(s)
             n == Len(s)
  <1>1. /\ Head(s) = s[1] /\ t \in Seq(T) /\ Len(t) = n - 1 /\ n \in Nat \ {0}
        /\ \A i \in 1..(n - 1) : t[i] = s[i + 1]
    BY HeadTailProperties, EmptySeq
  <1>2. \A i, j \in 1..n : s[i] = s[j] => i = j
    BY DEF Once
  <1> HIDE DEF t, n
  <1>3. ToSet(t) = {t[i] : i \in 1..(n - 1)}
    <2>1. ToSet(t) = {t[i] : i \in 1..Len(t)}
      BY <1>1 DEF ToSet
    <2> QED
      BY <1>1, <2>1
  <1>4. ASSUME NEW i \in 1..(n - 1) PROVE t[i] # s[1]
    <2>1. i + 1 \in 1..n /\ 1 \in 1..n /\ i + 1 # 1
      BY <1>1
    <2> QED
      BY <1>1, <1>2, <2>1
  <1>5. ASSUME NEW i \in 1..(n - 1), NEW j \in 1..(n - 1), t[i] = t[j] PROVE i = j
    <2>1. i + 1 \in 1..n /\ j + 1 \in 1..n /\ s[i + 1] = s[j + 1]
      BY <1>1, <1>5
    <2> QED
      BY <1>2, <2>1
  <1> QED
    BY <1>1, <1>3, <1>4, <1>5 DEF t, Once

Orderly(td, rn, rg) ==
    /\ td = [w \in Machine |-> td[w]] /\ rn = [w \in Machine |-> rn[w]]
    /\ \A w \in Machine :
          /\ td[w] \in Seq(Task) /\ rn[w] \in Seq(Task)
          /\ ToSet(td[w]) \cap ToSet(rn[w]) = {}
          /\ Once(td[w]) /\ Once(rn[w])
    /\ \A v, w \in Machine : \A t \in Task :
          /\ t \in ToSet(td[v]) \cup ToSet(rn[v])
          /\ t \in ToSet(td[w]) \cup ToSet(rn[w])
          => v = w
    /\ rg \in Seq(Machine) /\ Once(rg)
    /\ \A w \in Machine : w \in ToSet(rg) <=> ~(td[w] = <<>> /\ rn[w] = <<>>)

LEMMA ListOnce ==
    ASSUME NEW h, NEW S, WellFormed(h, S), NEW w \in Machine
    PROVE  /\ ToSet(Todos(h)[w]) \cap ToSet(Rans(h)[w]) = {}
           /\ Once(Todos(h)[w]) /\ Once(Rans(h)[w])
  <1> DEFINE n == h.nstate[w]
  <1>1. h \in HeapType /\ HasRunList(h, w, S[w])
    BY DEF WellFormed
  <1>2. PICK q, k : Shows(h, w, S[w], q, k)
    BY <1>1 DEF HasRunList, Shows
  <1>3. /\ Todos(h)[w] = Rest(q, n, k) /\ Rans(h)[w] = Past(q, k)
        /\ n \in Nat /\ k \in 0..n /\ q \in [1..n -> Task]
    BY <1>1, <1>2, Shown
  <1>4. \A i, j \in 1..n : q[i] = q[j] => i = j
    BY <1>2 DEF Shows, IsRunList
  <1> HIDE DEF n
  <1>5. /\ ToSet(Rest(q, n, k)) = {q[k + i] : i \in 1..(n - k)}
        /\ ToSet(Past(q, k)) = {q[i] : i \in 1..k}
    BY DEF ToSet, Rest, Past
  <1>6. ASSUME NEW i \in 1..(n - k), NEW j \in 1..k
        PROVE  q[k + i] # q[j]
    <2>1. k + i \in 1..n /\ j \in 1..n /\ k + i # j
      BY <1>3
    <2> QED
      BY <1>4, <2>1
  <1>7. Len(Rest(q, n, k)) = n - k /\ Len(Past(q, k)) = k
    <2>1. n - k \in Nat /\ k \in Nat
      BY <1>3
    <2>2. Rest(q, n, k) \in [1..(n - k) -> Task] /\ Past(q, k) \in [1..k -> Task]
      BY <1>3 DEF Rest, Past
    <2> QED
      BY <2>1, <2>2, IsSequence
  <1>8. Once(Rest(q, n, k))
    <2> SUFFICES ASSUME NEW i \in 1..(n - k), NEW j \in 1..(n - k), q[k + i] = q[k + j]
                 PROVE  i = j
      BY <1>7 DEF Once, Rest
    <2>1. k + i \in 1..n /\ k + j \in 1..n
      BY <1>3
    <2>2. k + i = k + j
      BY <1>4, <2>1
    <2> QED
      BY <1>3, <2>2
  <1>9. Once(Past(q, k))
    <2> SUFFICES ASSUME NEW i \in 1..k, NEW j \in 1..k, q[i] = q[j]
                 PROVE  i = j
      BY <1>7 DEF Once, Past
    <2>1. i \in 1..n /\ j \in 1..n
      BY <1>3
    <2> QED
      BY <1>4, <2>1
  <1> QED
    BY <1>3, <1>5, <1>6, <1>8, <1>9

LEMMA RingOnce ==
    ASSUME NEW h, NEW S, WellFormed(h, S)
    PROVE  Once(RingOf(h)) /\ ToSet(RingOf(h)) = {w \in Machine : h.nstate[w] > 0}
  <1> DEFINE M == {w \in Machine : h.nstate[w] > 0}
             n == h.nworker
  <1>1. h \in HeapType /\ HasRing(h, M) /\ n \in Nat
    BY DEF WellFormed, HeapType
  <1>2. PICK r : ShowsRing(h, M, r)
    BY <1>1 DEF HasRing, ShowsRing
  <1>3. RingOf(h) = r
    BY <1>1, <1>2, RingShown
  <1>4. /\ r \in [1..n -> Machine] /\ \A i, j \in 1..n : r[i] = r[j] => i = j
        /\ {r[i] : i \in 1..n} = M
    BY <1>2 DEF ShowsRing, IsRing
  <1>5. ToSet(r) = M
    BY <1>4 DEF ToSet
  <1>6. Len(r) = n
    BY <1>1, <1>4, IsSequence
  <1> QED
    BY <1>3, <1>4, <1>5, <1>6 DEF Once

LEMMA QueuesOrderly ==
    ASSUME IInv
    PROVE  /\ Orderly(Todo, Ran, Ring)
           /\ \A w \in Machine : ToSet(Todo[w]) \cup ToSet(Ran[w]) = Lists[w]
  <1>1. WellFormed(heap, Lists)
    BY DEF IInv
  <1>2. \A w \in Machine :
           /\ Todo[w] \in Seq(Task) /\ Ran[w] \in Seq(Task)
           /\ Todo[w] = <<>> /\ Ran[w] = <<>> <=> heap.nstate[w] = 0
           /\ ToSet(Todo[w]) \cup ToSet(Ran[w]) = Lists[w]
    BY <1>1, ListQueues, Mapping
  <1>3. \A w \in Machine :
           /\ ToSet(Todo[w]) \cap ToSet(Ran[w]) = {}
           /\ Once(Todo[w]) /\ Once(Ran[w])
    BY <1>1, ListOnce, Mapping
  <1>4. \A v, w \in Machine : \A t \in Task :
           t \in ToSet(Todo[v]) \cup ToSet(Ran[v]) /\ t \in ToSet(Todo[w]) \cup ToSet(Ran[w])
           => v = w
    BY <1>2, ListsDisjoint DEF Disjoint
  <1>5. /\ Ring \in Seq(Machine) /\ Once(Ring)
        /\ ToSet(Ring) = {w \in Machine : heap.nstate[w] > 0}
    BY <1>1, RingQueue, RingOnce, Mapping
  <1>6. \A w \in Machine : heap.nstate[w] \in Nat
    BY <1>1 DEF WellFormed, HeapType
  <1>7. \A w \in Machine : w \in ToSet(Ring) <=> ~(Todo[w] = <<>> /\ Ran[w] = <<>>)
    BY <1>2, <1>5, <1>6
  <1>8. Todo = [w \in Machine |-> Todo[w]] /\ Ran = [w \in Machine |-> Ran[w]]
    BY DEF Todo, Ran
  <1> QED
    BY Zenon, <1>2, <1>3, <1>4, <1>5, <1>7, <1>8 DEF Orderly
----------------------------------------------------------------------------
(* What each change of the queues does to the place of Hasty relative to   *)
(* that of Patient.                                                        *)

QueuedIn(td, rn, t) == \E v \in Machine : t \in ToSet(td[v]) \cup ToSet(rn[v])

(* Nobody has come before Patient. *)
NoneAhead(td, rn, rg, td2, rn2, rg2) ==
    /\ \A w \in Machine : Hasty \in ToSet(td2[w]) => Hasty \in ToSet(td[w])
    /\ \A v \in Machine : Patient \in ToSet(rn2[v]) => Patient \in ToSet(rn[v])
    /\ \A v \in Machine : Patient \in ToSet(td2[v]) => Patient \in ToSet(td[v])
    /\ \A v \in Machine : Before(td2[v], Hasty, Patient) => Before(td[v], Hasty, Patient)
    /\ \A w, v \in Machine : /\ Patient \in ToSet(td2[v]) \cup ToSet(rn2[v])
                             /\ Before(rg2, w, v)
                             => Before(rg, w, v)

LEMMA AheadFrame ==
    ASSUME NEW td, NEW rn, NEW rg, NEW td2, NEW rn2, NEW rg2,
           NoneAhead(td, rn, rg, td2, rn2, rg2)
    PROVE  /\ AheadIn(td2, rn2, rg2) => AheadIn(td, rn, rg)
           /\ WaitsIn(rn2) => WaitsIn(rn)
  <1>1. WaitsIn(rn2) => WaitsIn(rn)
    BY DEF WaitsIn, NoneAhead
  <1>2. AheadIn(td2, rn2, rg2) => AheadIn(td, rn, rg)
    <2> SUFFICES ASSUME AheadIn(td2, rn2, rg2) PROVE AheadIn(td, rn, rg)
      OBVIOUS
    <2>1. PICK w, v \in Machine :
             /\ Hasty \in ToSet(td2[w])
             /\ \/ Patient \in ToSet(rn2[v]) /\ (w = v \/ Before(rg2, w, v))
                \/ /\ Patient \in ToSet(td2[v])
                   /\ Before(rg2, w, v) \/ (w = v /\ Before(td2[v], Hasty, Patient))
      BY Zenon DEF AheadIn
    <2>2. /\ Hasty \in ToSet(td[w])
          /\ \/ Patient \in ToSet(rn[v]) /\ (w = v \/ Before(rg, w, v))
             \/ /\ Patient \in ToSet(td[v])
                /\ Before(rg, w, v) \/ (w = v /\ Before(td[v], Hasty, Patient))
      BY <2>1 DEF NoneAhead
    <2> QED
      BY Zenon, <2>2 DEF AheadIn
  <1> QED
    BY <1>1, <1>2

(* A resume puts a task behind Patient, or on a worker behind its own. *)
LEMMA ResumeAhead ==
    ASSUME NEW td, NEW rn, NEW rg, Orderly(td, rn, rg), NEW w \in Machine, NEW t \in Task,
           ~QueuedIn(td, rn, t), QueuedIn(td, rn, Patient),
           NEW td2, NEW rn2, NEW rg2,
           IF td[w] = <<>> /\ rn[w] = <<>>
           THEN td2 = [td EXCEPT ![w] = <<t>>] /\ rn2 = rn /\ rg2 = Append(rg, w)
           ELSE td2 = td /\ rn2 = [rn EXCEPT ![w] = Append(rn[w], t)] /\ rg2 = rg
    PROVE  /\ AheadIn(td2, rn2, rg2) => AheadIn(td, rn, rg)
           /\ WaitsIn(rn2) => WaitsIn(rn)
  <1>1. t # Patient
    OBVIOUS
  <1>2. CASE td[w] = <<>> /\ rn[w] = <<>>
    <2>1. /\ td2[w] = <<t>> /\ rn2 = rn /\ rg2 = Append(rg, w) /\ rg \in Seq(Machine)
          /\ \A v \in Machine \ {w} : td2[v] = td[v]
          /\ w \notin ToSet(rg)
      BY <1>2 DEF Orderly
    <2>2. ToSet(td2[w]) = {t} /\ ToSet(rn2[w]) = {}
      BY <1>2, <2>1 DEF ToSet
    <2>3. \A a, b \in Machine : b # w => (Before(rg2, a, b) => Before(rg, a, b))
      BY <2>1, BeforeAppend
    <2>4. ASSUME t = Hasty PROVE ~AheadIn(td2, rn2, rg2)
      <3>1. \A v \in Machine : Hasty \in ToSet(td2[v]) => v = w
        BY <2>1, <2>4 DEF QueuedIn
      <3>2. ~Before(rg, w, w) /\ \A v \in Machine : ~Before(rg, w, v)
        BY <2>1, BeforeIn
      <3> QED
        BY <1>1, <2>2, <2>3, <3>1, <3>2 DEF AheadIn
    <2>5. CASE t # Hasty
      <3>1. \A v \in Machine : Hasty \in ToSet(td2[v]) => Hasty \in ToSet(td[v])
        BY <2>1, <2>2, <2>5
      <3>2. \A v \in Machine : Patient \in ToSet(td2[v]) => Patient \in ToSet(td[v])
        BY <1>1, <2>1, <2>2
      <3>3. \A v \in Machine : Before(td2[v], Hasty, Patient) => Before(td[v], Hasty, Patient)
        BY <1>1, <2>1, <2>2, BeforeIn
      <3>4. \A a, v \in Machine : Patient \in ToSet(td2[v]) \cup ToSet(rn2[v])
                                  => (Before(rg2, a, v) => Before(rg, a, v))
        BY <1>1, <2>2, <2>3
      <3>5. NoneAhead(td, rn, rg, td2, rn2, rg2)
        BY <2>1, <3>1, <3>2, <3>3, <3>4 DEF NoneAhead
      <3> QED
        BY <3>5, AheadFrame
    <2>6. WaitsIn(rn2) => WaitsIn(rn)
      BY <2>1
    <2> QED
      BY <2>4, <2>5, <2>6
  <1>3. CASE ~(td[w] = <<>> /\ rn[w] = <<>>)
    <2>1. /\ td2 = td /\ rg2 = rg /\ rn2[w] = Append(rn[w], t) /\ rn[w] \in Seq(Task)
          /\ \A v \in Machine \ {w} : rn2[v] = rn[v]
      BY <1>3 DEF Orderly
    <2>2. ToSet(rn2[w]) = ToSet(rn[w]) \cup {t}
      BY <2>1, ToSetOf
    <2>3. \A v \in Machine : Patient \in ToSet(rn2[v]) => Patient \in ToSet(rn[v])
      BY <1>1, <2>1, <2>2
    <2>4. NoneAhead(td, rn, rg, td2, rn2, rg2)
      BY <2>1, <2>3 DEF NoneAhead
    <2> QED
      BY <2>4, AheadFrame
  <1> QED
    BY <1>2, <1>3

(* The turn goes to the next worker: Hasty comes behind Patient, unless    *)
(* Patient need not wait for its round any more.                           *)
LEMMA RotateAhead ==
    ASSUME NEW td, NEW rn, NEW rg, Orderly(td, rn, rg), rg # <<>>,
           td[Head(rg)] = <<>>, QueuedIn(td, rn, Patient),
           NEW td2, NEW rn2, NEW rg2,
           td2 = [td EXCEPT ![Head(rg)] = rn[Head(rg)]],
           rn2 = [rn EXCEPT ![Head(rg)] = <<>>],
           rg2 = Append(Tail(rg), Head(rg))
    PROVE  /\ AheadIn(td2, rn2, rg2) => AheadIn(td, rn, rg) \/ (WaitsIn(rn) /\ ~WaitsIn(rn2))
           /\ WaitsIn(rn2) => WaitsIn(rn)
  <1> DEFINE f == Head(rg)
  <1>1. /\ rg \in Seq(Machine) /\ f \in Machine /\ Tail(rg) \in Seq(Machine)
        /\ f \notin ToSet(Tail(rg)) /\ ToSet(rg) = {f} \cup ToSet(Tail(rg))
    BY ToSetOf, OnceTail DEF Orderly
  <1> HIDE DEF f
  <1>2. /\ td2[f] = rn[f] /\ rn2[f] = <<>>
        /\ \A v \in Machine \ {f} : td2[v] = td[v] /\ rn2[v] = rn[v]
        /\ td2 = [w \in Machine |-> td2[w]] /\ rn2 = [w \in Machine |-> rn2[w]]
    BY <1>1 DEF Orderly, f
  <1>3. ToSet(rn2[f]) = {} /\ ToSet(td[f]) = {} /\ td[f] = <<>>
    BY <1>2 DEF ToSet, f
  <1>4. WaitsIn(rn2) => WaitsIn(rn)
    BY <1>2, <1>3 DEF WaitsIn
  <1>5. ASSUME Patient \in ToSet(rn[f]) PROVE WaitsIn(rn) /\ ~WaitsIn(rn2)
    <2>1. \A v \in Machine \ {f} : Patient \notin ToSet(rn[v])
      BY <1>1, <1>5, PairAssumption DEF Orderly
    <2> QED
      BY <1>1, <1>2, <1>3, <1>5, <2>1 DEF WaitsIn
  <1>6. ASSUME Patient \notin ToSet(rn[f])
        PROVE  AheadIn(td2, rn2, rg2) => AheadIn(td, rn, rg)
    <2> SUFFICES ASSUME AheadIn(td2, rn2, rg2) PROVE AheadIn(td, rn, rg)
      OBVIOUS
    <2>1. PICK w, v \in Machine :
             /\ Hasty \in ToSet(td2[w])
             /\ \/ Patient \in ToSet(rn2[v]) /\ (w = v \/ Before(rg2, w, v))
                \/ /\ Patient \in ToSet(td2[v])
                   /\ Before(rg2, w, v) \/ (w = v /\ Before(td2[v], Hasty, Patient))
      BY Zenon DEF AheadIn
    <2>2. v # f
      BY <1>2, <1>3, <1>6, <2>1
    <2>3. Before(rg2, w, v) => Before(Tail(rg), w, v)
      BY <1>1, <2>2, BeforeAppend DEF f
    <2>4. Before(rg2, w, v) => Before(rg, w, v) /\ w # f
      BY <1>1, <2>3, BeforeIn, BeforeTail
    <2>5. w # f
      BY <2>1, <2>2, <2>4
    <2>6. /\ Hasty \in ToSet(td[w])
          /\ \/ Patient \in ToSet(rn[v]) /\ (w = v \/ Before(rg, w, v))
             \/ /\ Patient \in ToSet(td[v])
                /\ Before(rg, w, v) \/ (w = v /\ Before(td[v], Hasty, Patient))
      BY <1>2, <2>1, <2>2, <2>4, <2>5
    <2> QED
      BY Zenon, <2>6 DEF AheadIn
  <1> QED
    BY <1>4, <1>5, <1>6 DEF f

(* A worker that is alone begins a new round. *)
LEMMA RoundAlone ==
    ASSUME NEW td, NEW rn, NEW rg, Orderly(td, rn, rg), Len(rg) = 1,
           td[Head(rg)] = <<>>,
           NEW td2, NEW rn2,
           td2 = [td EXCEPT ![Head(rg)] = rn[Head(rg)]],
           rn2 = [rn EXCEPT ![Head(rg)] = <<>>]
    PROVE  /\ Orderly(td2, rn2, rg)
           /\ \A v \in Machine : rn2[v] = <<>>
           /\ ~WaitsIn(rn2)
           /\ QueuedIn(td, rn, Patient) => WaitsIn(rn)
  <1> DEFINE f == Head(rg)
  <1>1. rg \in Seq(Machine) /\ rg # <<>>
    BY OneElement DEF Orderly
  <1>2. /\ f \in Machine /\ Tail(rg) \in Seq(Machine)
        /\ ToSet(rg) = {f} \cup ToSet(Tail(rg))
    BY <1>1, ToSetOf
  <1>3. Tail(rg) = <<>>
    BY <1>1, OneElement
  <1>4. ToSet(rg) = {f}
    BY <1>2, <1>3, ToSetOf
  <1> HIDE DEF f
  <1>5. /\ td2[f] = rn[f] /\ rn2[f] = <<>>
        /\ \A v \in Machine \ {f} : td2[v] = td[v] /\ rn2[v] = rn[v]
        /\ td2 = [w \in Machine |-> td2[w]] /\ rn2 = [w \in Machine |-> rn2[w]]
        /\ td[f] = <<>>
    BY <1>2 DEF Orderly, f
  <1>6. \A v \in Machine \ {f} : td[v] = <<>> /\ rn[v] = <<>>
    BY <1>4 DEF Orderly
  <1>7. \A s : s = <<>> => s \in Seq(Task) /\ ToSet(s) = {} /\ Once(s)
    BY DEF ToSet, Once
  <1>8. rn[f] \in Seq(Task) /\ Once(rn[f]) /\ Once(rg)
    BY <1>2 DEF Orderly
  <1>9. \A w \in Machine :
           /\ td2[w] \in Seq(Task) /\ rn2[w] \in Seq(Task)
           /\ ToSet(td2[w]) \cap ToSet(rn2[w]) = {}
           /\ Once(td2[w]) /\ Once(rn2[w])
           /\ rn2[w] = <<>> /\ ToSet(rn2[w]) = {}
           /\ w # f => td2[w] = <<>> /\ ToSet(td2[w]) = {}
    <2> TAKE w \in Machine
    <2>1. CASE w = f
      BY <1>5, <1>7, <1>8, <2>1
    <2>2. CASE w # f
      BY <1>5, <1>6, <1>7, <2>2
    <2> QED
      BY <2>1, <2>2
  <1>10. \A w \in Machine : w \in ToSet(rg) <=> ~(td2[w] = <<>> /\ rn2[w] = <<>>)
    <2>1. rn[f] # <<>>
      BY <1>2, <1>4, <1>5 DEF Orderly
    <2> QED
      BY <1>4, <1>5, <1>9, <2>1
  <1>11. \A v, w \in Machine : \A t \in Task :
            t \in ToSet(td2[v]) \cup ToSet(rn2[v]) /\ t \in ToSet(td2[w]) \cup ToSet(rn2[w])
            => v = w
    BY <1>9
  <1>12. Orderly(td2, rn2, rg)
    BY Zenon, <1>1, <1>5, <1>8, <1>9, <1>10, <1>11 DEF Orderly
  <1>13. QueuedIn(td, rn, Patient) => WaitsIn(rn)
    <2>1. \A v \in Machine : ToSet(td[v]) = {}
      BY <1>5, <1>6, <1>7
    <2> QED
      BY <2>1 DEF QueuedIn, WaitsIn
  <1> QED
    BY <1>9, <1>12, <1>13 DEF WaitsIn

(* It is the turn of the first worker, on its first task to do. *)
Turned(td, rn, rg, td2, rn2) ==
    /\ rg # <<>>
    /\ td[Head(rg)] # <<>> \/ Len(rg) = 1
    /\ IF td[Head(rg)] = <<>>
       THEN td2 = [td EXCEPT ![Head(rg)] = rn[Head(rg)]] /\ rn2 = [rn EXCEPT ![Head(rg)] = <<>>]
       ELSE td2 = td /\ rn2 = rn

LEMMA TurnAhead ==
    ASSUME NEW td, NEW rn, NEW rg, NEW td2, NEW rn2, Turned(td, rn, rg, td2, rn2),
           Orderly(td, rn, rg), QueuedIn(td, rn, Patient)
    PROVE  /\ Orderly(td2, rn2, rg)
           /\ td2[Head(rg)] # <<>>
           /\ QueuedIn(td2, rn2, Patient)
           /\ AheadIn(td2, rn2, rg) => AheadIn(td, rn, rg) \/ (WaitsIn(rn) /\ ~WaitsIn(rn2))
           /\ WaitsIn(rn2) => WaitsIn(rn)
           /\ Head(td2[Head(rg)]) = Hasty
              => AheadIn(td, rn, rg) \/ (WaitsIn(rn) /\ ~WaitsIn(rn2))
  <1> USE DEF Turned
  <1> DEFINE f == Head(rg)
  <1>1. rg \in Seq(Machine) /\ f \in Machine /\ f \in ToSet(rg)
    BY ToSetOf DEF Orderly
  <1>2. CASE td[f] = <<>>
    <2>1. /\ Orderly(td2, rn2, rg) /\ \A v \in Machine : rn2[v] = <<>>
          /\ ~WaitsIn(rn2) /\ WaitsIn(rn)
      BY <1>2, RoundAlone
    <2>2. td2[f] = rn[f] /\ \A v \in Machine \ {f} : td2[v] = td[v] /\ rn2[v] = rn[v]
      BY <1>1, <1>2 DEF Orderly
    <2>3. td2[f] # <<>>
      BY <1>1, <1>2, <2>2 DEF Orderly
    <2>4. QueuedIn(td2, rn2, Patient)
      <3>1. PICK v \in Machine : Patient \in ToSet(td[v]) \cup ToSet(rn[v])
        BY DEF QueuedIn
      <3>2. ToSet(td[f]) = {}
        BY <1>2 DEF ToSet
      <3>3. Patient \in ToSet(td2[v]) \cup ToSet(rn2[v])
        BY <2>2, <3>1, <3>2
      <3> QED
        BY <3>3 DEF QueuedIn
    <2> QED
      BY <2>1, <2>3, <2>4
  <1>3. CASE td[f] # <<>>
    <2>1. td2 = td /\ rn2 = rn
      BY <1>3
    <2>2. ASSUME Head(td[f]) = Hasty PROVE AheadIn(td, rn, rg)
      <3>1. td[f] \in Seq(Task) /\ Hasty \in ToSet(td[f]) /\ Hasty # Patient
        BY <1>1, <1>3, <2>2, ToSetOf, PairAssumption DEF Orderly
      <3>2. PICK v \in Machine : Patient \in ToSet(td[v]) \cup ToSet(rn[v])
        BY DEF QueuedIn
      <3>3. CASE v # f
        <4>1. ToSet(td[v]) \cup ToSet(rn[v]) # {}
          BY <3>2
        <4>2. v \in ToSet(rg)
          <5>1. ~(td[v] = <<>> /\ rn[v] = <<>>)
            BY <4>1 DEF ToSet
          <5> QED
            BY <5>1 DEF Orderly
        <4>3. Before(rg, f, v)
          BY <1>1, <3>3, <4>2, BeforeHead
        <4> QED
          BY <1>1, <3>1, <3>2, <4>3 DEF AheadIn
      <3>4. CASE v = f
        <4>1. Patient \in ToSet(td[f]) => Before(td[f], Hasty, Patient)
          BY <2>2, <3>1, BeforeHead
        <4> QED
          BY <1>1, <3>1, <3>2, <3>4, <4>1 DEF AheadIn
      <3> QED
        BY <3>3, <3>4
    <2> QED
      BY <1>3, <2>1, <2>2
  <1> QED
    BY <1>2, <1>3

(* The task that runs has run in this round, ... *)
Kept(td, rn, rg, td2, rn2) ==
    /\ rg # <<>> /\ td[Head(rg)] # <<>>
    /\ td2 = [td EXCEPT ![Head(rg)] = Tail(td[Head(rg)])]
    /\ rn2 = [rn EXCEPT ![Head(rg)] = Append(rn[Head(rg)], Head(td[Head(rg)]))]

LEMMA KeepAhead ==
    ASSUME NEW td, NEW rn, NEW rg, NEW td2, NEW rn2, Kept(td, rn, rg, td2, rn2),
           Orderly(td, rn, rg), Head(td[Head(rg)]) # Patient
    PROVE  /\ AheadIn(td2, rn2, rg) => AheadIn(td, rn, rg)
           /\ WaitsIn(rn2) => WaitsIn(rn)
           /\ Head(td[Head(rg)]) = Hasty => ~AheadIn(td2, rn2, rg)
  <1> USE DEF Kept
  <1> DEFINE f == Head(rg)
             x == Head(td[f])
  <1>1. /\ f \in Machine /\ x \in Task /\ x # Patient
        /\ td[f] \in Seq(Task) /\ rn[f] \in Seq(Task) /\ td[f] # <<>> /\ Once(td[f])
    BY ToSetOf DEF Orderly
  <1> HIDE DEF f
  <1>2. /\ td2[f] = Tail(td[f]) /\ rn2[f] = Append(rn[f], x)
        /\ \A v \in Machine \ {f} : td2[v] = td[v] /\ rn2[v] = rn[v]
    BY <1>1 DEF Orderly, f
  <1> HIDE DEF x
  <1>3. /\ ToSet(td[f]) = {x} \cup ToSet(td2[f]) /\ x \notin ToSet(td2[f])
        /\ ToSet(rn2[f]) = ToSet(rn[f]) \cup {x}
    BY <1>1, <1>2, ToSetOf, OnceTail DEF x
  <1>4. \A v \in Machine : Before(td2[v], Hasty, Patient) => Before(td[v], Hasty, Patient)
    BY <1>1, <1>2, BeforeTail
  <1>5. ASSUME NEW v \in Machine, Patient \in ToSet(rn2[v]) PROVE Patient \in ToSet(rn[v])
    <2>1. CASE v = f
      BY <1>1, <1>3, <1>5, <2>1
    <2>2. CASE v # f
      BY <1>2, <1>5, <2>2
    <2> QED
      BY <2>1, <2>2
  <1>6. \A v \in Machine : \A t : t \in ToSet(td2[v]) => t \in ToSet(td[v])
    BY <1>2, <1>3
  <1>7. /\ AheadIn(td2, rn2, rg) => AheadIn(td, rn, rg)
        /\ WaitsIn(rn2) => WaitsIn(rn)
    <2>1. NoneAhead(td, rn, rg, td2, rn2, rg)
      BY <1>4, <1>5, <1>6 DEF NoneAhead
    <2> QED
      BY <2>1, AheadFrame
  <1>8. ASSUME x = Hasty PROVE ~AheadIn(td2, rn2, rg)
    <2>1. \A w \in Machine : Hasty \notin ToSet(td2[w])
      BY <1>1, <1>2, <1>3, <1>8 DEF Orderly
    <2> QED
      BY <2>1 DEF AheadIn
  <1> QED
    BY <1>7, <1>8 DEF f, x

(* ... or leaves the queues. *)
Left(td, rn, rg, td2, rg2) ==
    /\ rg # <<>> /\ td[Head(rg)] # <<>>
    /\ td2 = [td EXCEPT ![Head(rg)] = Tail(td[Head(rg)])]
    /\ rg2 = IF Tail(td[Head(rg)]) = <<>> /\ rn[Head(rg)] = <<>> THEN Tail(rg) ELSE rg

LEMMA LeaveAhead ==
    ASSUME NEW td, NEW rn, NEW rg, NEW td2, NEW rg2, Left(td, rn, rg, td2, rg2),
           Orderly(td, rn, rg), Head(td[Head(rg)]) # Patient, QueuedIn(td, rn, Patient)
    PROVE  /\ Orderly(td2, rn, rg2)
           /\ QueuedIn(td2, rn, Patient)
           /\ ~QueuedIn(td2, rn, Head(td[Head(rg)]))
           /\ AheadIn(td2, rn, rg2) => AheadIn(td, rn, rg)
           /\ Head(td[Head(rg)]) = Hasty => ~AheadIn(td2, rn, rg2)
  <1> USE DEF Left
  <1> DEFINE f == Head(rg)
             x == Head(td[f])
  <1>1. /\ f \in Machine /\ x \in Task /\ x # Patient
        /\ td[f] \in Seq(Task) /\ td[f] # <<>> /\ Once(td[f])
        /\ rg \in Seq(Machine) /\ Once(rg) /\ Tail(rg) \in Seq(Machine)
        /\ ToSet(rg) = {f} \cup ToSet(Tail(rg))
    BY ToSetOf DEF Orderly
  <1>2. f \notin ToSet(Tail(rg)) /\ Once(Tail(rg))
    BY <1>1, OnceTail
  <1>3. \A a, b : Before(Tail(rg), a, b) => Before(rg, a, b)
    BY <1>1, BeforeTail
  <1> HIDE DEF f
  <1>4. /\ td2[f] = Tail(td[f])
        /\ \A v \in Machine \ {f} : td2[v] = td[v]
        /\ td2 = [w \in Machine |-> td2[w]]
        /\ rg2 = IF td2[f] = <<>> /\ rn[f] = <<>> THEN Tail(rg) ELSE rg
    BY <1>1 DEF Orderly, f
  <1> HIDE DEF x
  <1>5. /\ ToSet(td[f]) = {x} \cup ToSet(td2[f]) /\ x \notin ToSet(td2[f])
        /\ td2[f] \in Seq(Task) /\ Once(td2[f])
    BY <1>1, <1>4, ToSetOf, OnceTail DEF x
  <1>6. \A v \in Machine : \A t : t \in ToSet(td2[v]) => t \in ToSet(td[v])
    BY <1>4, <1>5
  <1>7. /\ rg2 \in Seq(Machine) /\ Once(rg2)
        /\ \A w \in Machine : w \in ToSet(rg2) <=> ~(td2[w] = <<>> /\ rn[w] = <<>>)
    <2>1. CASE td2[f] = <<>> /\ rn[f] = <<>>
      BY <1>1, <1>2, <1>4, <2>1 DEF Orderly
    <2>2. CASE ~(td2[f] = <<>> /\ rn[f] = <<>>)
      BY <1>1, <1>4, <2>2 DEF Orderly
    <2> QED
      BY <2>1, <2>2
  <1>8. \A w \in Machine :
           /\ td2[w] \in Seq(Task) /\ rn[w] \in Seq(Task)
           /\ ToSet(td2[w]) \cap ToSet(rn[w]) = {}
           /\ Once(td2[w]) /\ Once(rn[w])
    BY <1>4, <1>5, <1>6 DEF Orderly
  <1>9. \A v, w \in Machine : \A t \in Task :
           t \in ToSet(td2[v]) \cup ToSet(rn[v]) /\ t \in ToSet(td2[w]) \cup ToSet(rn[w])
           => v = w
    BY <1>6 DEF Orderly
  <1>10. Orderly(td2, rn, rg2)
    <2>1. rn = [w \in Machine |-> rn[w]]
      BY DEF Orderly
    <2> QED
      BY Zenon, <1>4, <1>7, <1>8, <1>9, <2>1 DEF Orderly
  <1>11. QueuedIn(td2, rn, Patient)
    BY <1>1, <1>4, <1>5 DEF QueuedIn
  <1>12. ~QueuedIn(td2, rn, x)
    BY <1>1, <1>4, <1>5 DEF QueuedIn, Orderly
  <1>13. \A v \in Machine : Before(td2[v], Hasty, Patient) => Before(td[v], Hasty, Patient)
    BY <1>1, <1>4, BeforeTail
  <1>14. \A a, b : Before(rg2, a, b) => Before(rg, a, b)
    BY <1>3, <1>4
  <1>15. AheadIn(td2, rn, rg2) => AheadIn(td, rn, rg)
    <2>1. NoneAhead(td, rn, rg, td2, rn, rg2)
      BY <1>6, <1>13, <1>14 DEF NoneAhead
    <2> QED
      BY <2>1, AheadFrame
  <1>16. x = Hasty => ~AheadIn(td2, rn, rg2)
    BY <1>12 DEF QueuedIn, AheadIn
  <1> QED
    BY <1>10, <1>11, <1>12, <1>15, <1>16 DEF f, x
----------------------------------------------------------------------------
(* The same for the steps of the queues. *)

(* Patient needs no more patience than before. *)
Closer ==
    /\ Waits' => Waits
    /\ Step # Hasty /\ Ahead' => Ahead \/ (Waits /\ ~Waits')
    /\ Step = Hasty /\ Step' # Hasty => ~Ahead'

LEMMA Primes ==
    /\ Ahead = AheadIn(Todo, Ran, Ring) /\ Ahead' = AheadIn(Todo', Ran', Ring')
    /\ Waits = WaitsIn(Ran) /\ Waits' = WaitsIn(Ran')
  BY DEF Ahead, AheadIn, Waits, WaitsIn

LEMMA RunnableIsQueued ==
    ASSUME IInv, Patient \in Runnable
    PROVE  QueuedIn(Todo, Ran, Patient)
  <1>1. Patient \in Live /\ machine[Patient] \in Machine
    BY DEF IInv, ModesAgree, Runnable
  <1>2. Patient \in Lists[machine[Patient]]
    BY <1>1, PairAssumption DEF Lists, RunnableOf
  <1> QED
    BY <1>1, <1>2, QueuesOrderly DEF QueuedIn

LEMMA OpenHead ==
    ASSUME Unfiltered, Step # NULL
    PROVE  Ring # <<>> /\ Todo[Head(Ring)] # <<>> /\ Head(Todo[Head(Ring)]) = Step
  <1> DEFINE w == heap.sworker
  <1>1. IInv /\ ~go.fixed /\ InStep
    BY DEF Unfiltered, Step
  <1>2. /\ w \in Machine /\ heap.cursor = w
        /\ heap.sstate # NULL /\ heap.current[w] = heap.sstate /\ Step = heap.sstate
    BY <1>1, OpenStep
  <1> HIDE DEF w
  <1> QED
    BY <1>1, <1>2, FirstWorker

LEMMA RotateCloser ==
    ASSUME Unfiltered, Patient \in Runnable, Queues!Rotate
    PROVE  Closer
  <1>1. Orderly(Todo, Ran, Ring) /\ QueuedIn(Todo, Ran, Patient)
    BY QueuesOrderly, RunnableIsQueued DEF Unfiltered
  <1>2. /\ Ring # <<>> /\ Todo[Head(Ring)] = <<>>
        /\ Todo' = [Todo EXCEPT ![Head(Ring)] = Ran[Head(Ring)]]
        /\ Ran' = [Ran EXCEPT ![Head(Ring)] = <<>>]
        /\ Ring' = Append(Tail(Ring), Head(Ring))
        /\ Step' = NULL /\ Step = NULL
    BY DEF Queues!Rotate, Queues!First
  <1>3. /\ Ahead' => Ahead \/ (Waits /\ ~Waits')
        /\ Waits' => Waits
    BY <1>1, <1>2, RotateAhead, Primes
  <1> QED
    BY <1>2, <1>3, PairAssumption, NullAssumption DEF Closer

LEMMA ResumeCloser ==
    ASSUME Unfiltered, Patient \in Runnable, NEW t \in Task, Queues!Resume(t)
    PROVE  Closer
  <1>1. Orderly(Todo, Ran, Ring) /\ QueuedIn(Todo, Ran, Patient)
    BY QueuesOrderly, RunnableIsQueued DEF Unfiltered
  <1>2. ~QueuedIn(Todo, Ran, t) /\ Step' = Step
    BY DEF Queues!Resume, Queues!Queued, QueuedIn, Queues!ToSet, ToSet
  <1>3. PICK w \in Machine : Queues!Enqueued(w, t, Todo, Ran, Ring)
    BY Zenon DEF Queues!Resume
  <1>4. IF Todo[w] = <<>> /\ Ran[w] = <<>>
        THEN Todo' = [Todo EXCEPT ![w] = <<t>>] /\ Ran' = Ran /\ Ring' = Append(Ring, w)
        ELSE Todo' = Todo /\ Ran' = [Ran EXCEPT ![w] = Append(Ran[w], t)] /\ Ring' = Ring
    BY <1>3 DEF Queues!Enqueued
  <1>5. /\ Ahead' => Ahead
        /\ Waits' => Waits
    BY <1>1, <1>2, <1>4, ResumeAhead, Primes
  <1> QED
    BY <1>2, <1>5 DEF Closer

LEMMA KeepCloser ==
    ASSUME Unfiltered, Step # Patient, Queues!Keep
    PROVE  Closer
  <1>1. Orderly(Todo, Ran, Ring)
    BY QueuesOrderly DEF Unfiltered
  <1>2. /\ Ring # <<>> /\ Todo[Head(Ring)] # <<>> /\ Head(Todo[Head(Ring)]) = Step
    BY OpenHead DEF Queues!Keep, Queues!Yield
  <1>3. Kept(Todo, Ran, Ring, Todo', Ran') /\ Ring' = Ring
    BY <1>2 DEF Kept, Queues!Keep, Queues!First
  <1>4. /\ Ahead' => Ahead
        /\ Waits' => Waits
        /\ Step = Hasty => ~Ahead'
    BY <1>1, <1>2, <1>3, KeepAhead, Primes
  <1> QED
    BY <1>4 DEF Closer

(* Both ways to leave. *)
LEMMA LeaveCloser ==
    ASSUME Unfiltered, Patient \in Runnable, Step # Patient, Queues!Yield,
           NEW td, td = Queues!WithoutHead, NEW rg, rg = Queues!RingWithout
    PROVE  /\ Orderly(td, Ran, rg)
           /\ QueuedIn(td, Ran, Patient)
           /\ ~QueuedIn(td, Ran, Step)
           /\ AheadIn(td, Ran, rg) => Ahead
           /\ Step = Hasty => ~AheadIn(td, Ran, rg)
           /\ Queues!First \in Machine /\ Step \in Task
  <1>1. Orderly(Todo, Ran, Ring) /\ QueuedIn(Todo, Ran, Patient)
    BY QueuesOrderly, RunnableIsQueued DEF Unfiltered
  <1>2. /\ Ring # <<>> /\ Todo[Head(Ring)] # <<>> /\ Head(Todo[Head(Ring)]) = Step
    BY OpenHead DEF Queues!Yield
  <1>3. Left(Todo, Ran, Ring, td, rg)
    BY <1>2 DEF Left, Queues!WithoutHead, Queues!RingWithout, Queues!First, Queues!Todo, Queues!Ran
  <1>4. Queues!First \in Machine /\ Step \in Task
    <2>1. Head(Ring) \in Machine
      BY <1>1, <1>2, ToSetOf DEF Orderly
    <2>2. Todo[Head(Ring)] \in Seq(Task)
      BY <1>1, <2>1 DEF Orderly
    <2>3. Head(Todo[Head(Ring)]) \in Task
      BY <1>2, <2>2, ToSetOf
    <2> QED
      BY <1>2, <2>1, <2>3 DEF Queues!First
  <1> QED
    BY <1>1, <1>2, <1>3, <1>4, LeaveAhead, Primes

LEMMA DropCloser ==
    ASSUME Unfiltered, Patient \in Runnable, Step # Patient, Queues!Drop
    PROVE  Closer
  <1>1. Queues!Yield /\ Todo' = Queues!WithoutHead /\ Ran' = Ran /\ Ring' = Queues!RingWithout
    BY Zenon DEF Queues!Drop
  <1>2. /\ AheadIn(Todo', Ran, Ring') => Ahead
        /\ Step = Hasty => ~AheadIn(Todo', Ran, Ring')
    BY Zenon, <1>1, LeaveCloser
  <1> QED
    BY <1>1, <1>2, Primes DEF Closer

LEMMA DropAndResumeCloser ==
    ASSUME Unfiltered, Patient \in Runnable, Step # Patient, Queues!DropAndResume
    PROVE  Closer
  <1> DEFINE td == Queues!WithoutHead
             rg == Queues!RingWithout
             w == Queues!First
  <1>1. Queues!Yield /\ Queues!Enqueued(w, Step, td, Ran, rg)
    BY Zenon DEF Queues!DropAndResume
  <1> HIDE DEF td, rg, w
  <1>2. /\ Orderly(td, Ran, rg)
        /\ QueuedIn(td, Ran, Patient)
        /\ ~QueuedIn(td, Ran, Step)
        /\ AheadIn(td, Ran, rg) => Ahead
        /\ Step = Hasty => ~AheadIn(td, Ran, rg)
        /\ w \in Machine /\ Step \in Task
    BY Zenon, <1>1, LeaveCloser DEF td, rg, w
  <1>3. IF td[w] = <<>> /\ Ran[w] = <<>>
        THEN Todo' = [td EXCEPT ![w] = <<Step>>] /\ Ran' = Ran /\ Ring' = Append(rg, w)
        ELSE Todo' = td /\ Ran' = [Ran EXCEPT ![w] = Append(Ran[w], Step)] /\ Ring' = rg
    BY <1>1 DEF Queues!Enqueued
  <1>4. /\ Ahead' => AheadIn(td, Ran, rg)
        /\ Waits' => Waits
    BY <1>2, <1>3, ResumeAhead, Primes
  <1> QED
    BY <1>2, <1>4 DEF Closer

(* The queues of the worker whose turn it is. *)
LEMMA TurnOf ==
    ASSUME Orderly(Todo, Ran, Ring), Ring # <<>>, Head(Ring) \in Machine,
           Todo[Head(Ring)] # <<>> \/ Len(Ring) = 1
    PROVE  LET td == [Todo EXCEPT ![Head(Ring)] = Queues!Todo(Head(Ring))]
               rn == [Ran EXCEPT ![Head(Ring)] = Queues!Ran(Head(Ring))]
           IN
           /\ Turned(Todo, Ran, Ring, td, rn)
           /\ td[Head(Ring)] = Queues!Todo(Head(Ring)) /\ rn[Head(Ring)] = Queues!Ran(Head(Ring))
  <1> DEFINE td == [Todo EXCEPT ![Head(Ring)] = Queues!Todo(Head(Ring))]
             rn == [Ran EXCEPT ![Head(Ring)] = Queues!Ran(Head(Ring))]
  <1>1. Todo = [w \in Machine |-> Todo[w]] /\ Ran = [w \in Machine |-> Ran[w]]
    BY DEF Orderly
  <1>2. /\ td[Head(Ring)] = Queues!Todo(Head(Ring)) /\ rn[Head(Ring)] = Queues!Ran(Head(Ring))
        /\ Todo = [Todo EXCEPT ![Head(Ring)] = Todo[Head(Ring)]]
        /\ Ran = [Ran EXCEPT ![Head(Ring)] = Ran[Head(Ring)]]
    BY <1>1
  <1>3. CASE Todo[Head(Ring)] = <<>>
    BY Zenon, <1>2, <1>3 DEF Turned, Queues!Todo, Queues!Ran
  <1>4. CASE Todo[Head(Ring)] # <<>>
    BY Zenon, <1>2, <1>4 DEF Turned, Queues!Todo, Queues!Ran
  <1> QED
    BY <1>3, <1>4

(* The first task to do begins its step, ... *)
LEMMA PickCloser ==
    ASSUME Unfiltered, Patient \in Runnable, Queues!Pick
    PROVE  /\ Closer /\ Step = NULL
           /\ Step' = Hasty => Ahead \/ (Waits /\ ~Waits')
  <1>1. Orderly(Todo, Ran, Ring) /\ QueuedIn(Todo, Ran, Patient)
    BY QueuesOrderly, RunnableIsQueued DEF Unfiltered
  <1>2. /\ Ring # <<>> /\ (Todo[Head(Ring)] # <<>> \/ Len(Ring) = 1)
        /\ Todo' = [Todo EXCEPT ![Head(Ring)] = Queues!Todo(Head(Ring))]
        /\ Ran' = [Ran EXCEPT ![Head(Ring)] = Queues!Ran(Head(Ring))]
        /\ Step' = Head(Queues!Todo(Head(Ring)))
        /\ Ring' = Ring /\ Step = NULL
    BY DEF Queues!Pick, Queues!Turn, Queues!First
  <1>3. Head(Ring) \in Machine
    BY <1>1, <1>2, ToSetOf DEF Orderly
  <1>4. Turned(Todo, Ran, Ring, Todo', Ran') /\ Step' = Head(Todo'[Head(Ring)])
    BY Zenon, <1>1, <1>2, <1>3, TurnOf
  <1>5. /\ AheadIn(Todo', Ran', Ring) => Ahead \/ (Waits /\ ~Waits')
        /\ Waits' => Waits
        /\ Step' = Hasty => Ahead \/ (Waits /\ ~Waits')
    BY <1>1, <1>4, TurnAhead, Primes
  <1> QED
    BY <1>2, <1>5, Primes, PairAssumption, NullAssumption DEF Closer

(* ... or leaves the queues, if it has ended. *)
LEMMA EndCloser ==
    ASSUME Unfiltered, Patient \in Runnable, Queues!End,
           NEW x, x = Head(Queues!Todo(Queues!First)), x # Patient
    PROVE  /\ Closer /\ Step = NULL
           /\ x = Hasty => (Ahead \/ (Waits /\ ~Waits')) /\ ~Ahead'
  <1> DEFINE td == [Todo EXCEPT ![Head(Ring)] = Queues!Todo(Head(Ring))]
             rn == [Ran EXCEPT ![Head(Ring)] = Queues!Ran(Head(Ring))]
  <1>1. Orderly(Todo, Ran, Ring) /\ QueuedIn(Todo, Ran, Patient)
    BY QueuesOrderly, RunnableIsQueued DEF Unfiltered
  <1>2. /\ Ring # <<>> /\ (Todo[Head(Ring)] # <<>> \/ Len(Ring) = 1)
        /\ Todo' = [Todo EXCEPT ![Head(Ring)] = Tail(Queues!Todo(Head(Ring)))]
        /\ Ran' = rn
        /\ Ring' = IF Tail(Queues!Todo(Head(Ring))) = <<>> /\ Queues!Ran(Head(Ring)) = <<>>
                   THEN Tail(Ring) ELSE Ring
        /\ x = Head(Queues!Todo(Head(Ring)))
        /\ Step' = Step /\ Step = NULL
    BY DEF Queues!End, Queues!Turn, Queues!First, Queues!WithoutHead, Queues!RingWithout
  <1>3. Head(Ring) \in Machine
    BY <1>1, <1>2, ToSetOf DEF Orderly
  <1>4. /\ Turned(Todo, Ran, Ring, td, rn)
        /\ td[Head(Ring)] = Queues!Todo(Head(Ring)) /\ rn[Head(Ring)] = Queues!Ran(Head(Ring))
    BY Zenon, <1>1, <1>2, <1>3, TurnOf
  <1>5. [Todo EXCEPT ![Head(Ring)] = Tail(Queues!Todo(Head(Ring)))] = [td EXCEPT ![Head(Ring)] = Tail(td[Head(Ring)])]
    <2>1. Todo = [w \in Machine |-> Todo[w]]
      BY <1>1 DEF Orderly
    <2> QED
      BY <1>3, <1>4, <2>1
  <1>6. /\ Todo' = [td EXCEPT ![Head(Ring)] = Tail(td[Head(Ring)])]
        /\ Ring' = IF Tail(td[Head(Ring)]) = <<>> /\ rn[Head(Ring)] = <<>> THEN Tail(Ring) ELSE Ring
        /\ x = Head(td[Head(Ring)]) /\ Ran' = rn
    BY Zenon, <1>2, <1>4, <1>5
  <1> HIDE DEF td, rn
  <1>7. /\ Orderly(td, rn, Ring)
        /\ td[Head(Ring)] # <<>>
        /\ QueuedIn(td, rn, Patient)
        /\ AheadIn(td, rn, Ring) => Ahead \/ (Waits /\ ~Waits')
        /\ Waits' => Waits
        /\ x = Hasty => Ahead \/ (Waits /\ ~Waits')
    BY <1>1, <1>4, <1>6, TurnAhead, Primes
  <1>8. /\ AheadIn(Todo', rn, Ring') => AheadIn(td, rn, Ring)
        /\ x = Hasty => ~AheadIn(Todo', rn, Ring')
    <2>1. Left(td, rn, Ring, Todo', Ring')
      BY Zenon, <1>2, <1>6, <1>7 DEF Left
    <2>2. Head(td[Head(Ring)]) # Patient
      BY <1>6
    <2>3. /\ AheadIn(Todo', rn, Ring') => AheadIn(td, rn, Ring)
          /\ Head(td[Head(Ring)]) = Hasty => ~AheadIn(Todo', rn, Ring')
      BY <1>7, <2>1, <2>2, LeaveAhead
    <2> QED
      BY <1>6, <2>3
  <1> QED
    BY <1>2, <1>6, <1>7, <1>8, Primes, PairAssumption, NullAssumption DEF Closer

(* Steps other than those that begin or end one of a task. *)
LEMMA OtherCloser ==
    ASSUME Filter = {}, Unfiltered, Next, ~StepBegin, ~StepEnd,
           Patient \in Runnable, Step # Patient
    PROVE  Closer /\ Step' \in {Step, NULL}
  <1>1. IInv /\ ~go.fixed
    BY DEF Unfiltered
  <1>2. \/ \E t \in Task : Queues!Resume(t)
        \/ Queues!Rotate \/ Queues!Keep \/ Queues!Drop \/ Queues!DropAndResume
        \/ UNCHANGED Queues!vars
    BY <1>1, OtherSteps
  <1>3. CASE \E t \in Task : Queues!Resume(t)
    <2>1. PICK t \in Task : Queues!Resume(t)
      BY <1>3
    <2>2. Closer
      BY <2>1, ResumeCloser
    <2> QED
      BY <2>1, <2>2 DEF Queues!Resume
  <1>4. CASE Queues!Rotate
    BY <1>4, RotateCloser DEF Queues!Rotate
  <1>5. CASE Queues!Keep
    BY <1>5, KeepCloser DEF Queues!Keep, Queues!Yield
  <1>6. CASE Queues!Drop
    BY <1>6, DropCloser DEF Queues!Drop, Queues!Yield
  <1>7. CASE Queues!DropAndResume
    BY <1>7, DropAndResumeCloser DEF Queues!DropAndResume, Queues!Yield
  <1>8. CASE UNCHANGED Queues!vars
    <2>1. Todo' = Todo /\ Ran' = Ran /\ Ring' = Ring /\ Step' = Step
      BY <1>8 DEF Queues!vars
    <2>2. (Ahead' <=> Ahead) /\ (Waits' <=> Waits)
      BY <2>1, Primes
    <2> QED
      BY <2>1, <2>2 DEF Closer
  <1> QED
    BY <1>2, <1>3, <1>4, <1>5, <1>6, <1>7, <1>8

LEMMA BeginCloser ==
    ASSUME Unfiltered, StepBegin, Patient \in Runnable, ~Steps(Patient)
    PROVE  /\ Closer /\ Step = NULL /\ Step' # Patient
           /\ Steps(Hasty) => Step' = Hasty /\ (Ahead \/ (Waits /\ ~Waits'))
  <1>1. Queues!Pick
    BY StepBeginStep DEF Unfiltered
  <1>2. /\ Closer /\ Step = NULL
        /\ Step' = Hasty => Ahead \/ (Waits /\ ~Waits')
    BY <1>1, PickCloser
  <1>3. go' = [go EXCEPT !.pc = "step"] /\ TypeOK
    BY DEF StepBegin, Unfiltered, IInv
  <1>4. Step' = heap'.sstate
    BY <1>3 DEF Step, InStep, Current, TypeOK
  <1> QED
    BY <1>2, <1>4 DEF Steps

LEMMA EndCloserStep ==
    ASSUME Unfiltered, StepEnd, Patient \in Runnable, ~Steps(Patient)
    PROVE  /\ Closer /\ Step = NULL /\ Step' = NULL
           /\ Steps(Hasty) => (Ahead \/ (Waits /\ ~Waits')) /\ ~Ahead'
  <1> DEFINE w == GoGetWorker
             h == Picked(w)
             t == h.sstate
             u == UnlinkCurrentState(h)
  <1>1. IInv /\ ~go.fixed /\ CanStep
    BY DEF Unfiltered, StepEnd
  <1>2. Queues!End
    BY <1>1, StepEndStep
  <1>3. heap' = u \/ heap' = Released(u, t)
    BY DEF StepEnd, StepReturns
  <1>4. /\ w \in Machine /\ WellFormed(h, Lists) /\ t \in Lists[w] /\ h.current[w] = t
        /\ h.sworker = w /\ h.suspendop = 0
    BY <1>1, PickedWF
  <1>5. Queues!First = w /\ t = Head(Queues!Todo(w))
    BY Zenon, <1>1, PickedQueues
  <1>6. Disjoint(Lists)
    BY ListsDisjoint
  <1> HIDE DEF w, h
  <1>7. t # NULL
    BY <1>4, <1>6, NullAssumption DEF Disjoint
  <1>8. u.sstate = h.sstate /\ u \in HeapType
    BY <1>4, <1>6, <1>7, UnlinkWF DEF WellFormed
  <1> HIDE DEF u
  <1>9. heap'.sstate = t
    BY <1>3, <1>8 DEF Released, HeapType
  <1>10. t = Head(Queues!Todo(Queues!First)) /\ t # Patient
    BY <1>5, <1>9 DEF Steps
  <1>11. /\ Closer /\ Step = NULL
         /\ t = Hasty => (Ahead \/ (Waits /\ ~Waits')) /\ ~Ahead'
    BY Zenon, <1>2, <1>10, EndCloser
  <1>12. Step' = Step
    BY <1>2 DEF Queues!End
  <1> QED
    BY <1>9, <1>11, <1>12 DEF Steps
----------------------------------------------------------------------------
(* The invariant. *)

LEMMA OvertakingStep ==
    ASSUME Filter = {}, OInv, ONext
    PROVE  Overtaking' /\ overtaken' \in Nat
  <1>1. Unfiltered /\ Next /\ overtaken \in Nat /\ Overtaking
    BY DEF OInv, ONext
  <1>2. overtaken' \in Nat
    BY <1>1 DEF ONext, Observe
  <1> SUFFICES ASSUME overtaken' # 0
               PROVE  /\ Step' # Patient
                      /\ overtaken' <= 2
                      /\ Waits' => overtaken' <= 1
                      /\ Step' # Hasty /\ Ahead' => overtaken' <= 1 /\ ~Waits'
    BY <1>2 DEF Overtaking
  <1>3. /\ Patient \in Runnable /\ ~Steps(Patient)
        /\ overtaken' = IF Steps(Hasty) /\ overtaken < 3 THEN overtaken + 1 ELSE overtaken
    BY DEF ONext, Observe, MaxOvertaken
  <1>4. overtaken # 0 => /\ Step # Patient
                         /\ overtaken <= 2
                         /\ Waits => overtaken <= 1
                         /\ Step # Hasty /\ Ahead => overtaken <= 1 /\ ~Waits
    BY <1>1 DEF Overtaking
  <1>5. NULL # Patient /\ NULL # Hasty /\ Patient # Hasty
    BY PairAssumption, NullAssumption
  <1>6. CASE ~StepBegin /\ ~StepEnd
    <2>1. ~Steps(Hasty) /\ overtaken' = overtaken /\ overtaken # 0
      BY <1>3, <1>6 DEF Steps
    <2>2. Closer /\ Step' \in {Step, NULL}
      BY <1>1, <1>3, <1>4, <1>6, <2>1, OtherCloser
    <2> QED
      BY <1>4, <1>5, <2>1, <2>2 DEF Closer
  <1>7. CASE StepBegin
    <2>1. /\ Closer /\ Step = NULL /\ Step' # Patient
          /\ Steps(Hasty) => Step' = Hasty /\ (Ahead \/ (Waits /\ ~Waits'))
      BY <1>1, <1>3, <1>7, BeginCloser
    <2>2. CASE Steps(Hasty)
      BY <1>1, <1>3, <1>4, <1>5, <2>1, <2>2 DEF Closer
    <2>3. CASE ~Steps(Hasty)
      BY <1>1, <1>3, <1>4, <1>5, <2>1, <2>3 DEF Closer
    <2> QED
      BY <2>2, <2>3
  <1>8. CASE StepEnd
    <2>1. /\ Closer /\ Step = NULL /\ Step' = NULL
          /\ Steps(Hasty) => (Ahead \/ (Waits /\ ~Waits')) /\ ~Ahead'
      BY <1>1, <1>3, <1>8, EndCloserStep
    <2>2. CASE Steps(Hasty)
      BY <1>1, <1>3, <1>4, <1>5, <2>1, <2>2 DEF Closer
    <2>3. CASE ~Steps(Hasty)
      BY <1>1, <1>3, <1>4, <1>5, <2>1, <2>3 DEF Closer
    <2> QED
      BY <2>2, <2>3
  <1> QED
    BY <1>6, <1>7, <1>8

LEMMA OvertakingInv ==
    ASSUME Filter = {}, OInv, [ONext]_ovars
    PROVE  OInv'
  <1>1. CASE ONext
    <2>1. Unfiltered'
      BY <1>1, UnfilteredInv DEF OInv, ONext
    <2> QED
      BY <1>1, <2>1, OvertakingStep DEF OInv
  <1>2. CASE UNCHANGED ovars
    <2>1. UNCHANGED vars /\ overtaken' = overtaken
      BY <1>2 DEF ovars
    <2>2. Unfiltered'
      BY <2>1, UnfilteredInv DEF OInv
    <2>3. UNCHANGED Queues!vars
      BY <2>1, Stutter DEF vars, Step, InStep, Current
    <2>4. (Ahead' <=> Ahead) /\ (Waits' <=> Waits) /\ Step' = Step
      BY <2>3, Primes DEF Queues!vars
    <2> QED
      BY <2>1, <2>2, <2>4 DEF OInv, Overtaking
  <1> QED
    BY <1>1, <1>2

(* Whatever the host calls and whatever the tasks do, as long as no call   *)
(* of zm_go is filtered and the host collects exceptions promptly: while a *)
(* task is runnable and waits for its step, no other one makes more than   *)
(* two (zm_resumeState, zm_nextWorker: behind the cursor, behind the       *)
(* ring).                                                                  *)
THEOREM OvertakingBounded ==
    ASSUME Filter = {}
    PROVE  OSpec => []OvertakenAtMostTwice
  <1>1. OInit => OInv
    <2> SUFFICES ASSUME OInit PROVE OInv
      OBVIOUS
    <2>1. Init /\ overtaken = 0
      BY DEF OInit
    <2>2. Unfiltered
      BY <2>1, InitIInv DEF Unfiltered, Init
    <2> QED
      BY <2>1, <2>2 DEF OInv, Overtaking
  <1>2. OInv /\ [ONext]_ovars => OInv'
    BY OvertakingInv
  <1>3. OInv => OvertakenAtMostTwice
    BY DEF OInv, Overtaking, OvertakenAtMostTwice
  <1> QED
    BY <1>1, <1>2, <1>3, PTL DEF OSpec
=============================================================================
