---------------------------- MODULE EventsProofs -----------------------------
(***************************************************************************)
(* The rings of Events stay whole, and its checks hold, for any number of  *)
(* tasks and events and any callbacks; and they implement the queues of    *)
(* Listeners.                                                              *)
(***************************************************************************)
EXTENDS Events, Integers, SequenceTheorems, WellFoundedInduction, TLAPS

RingsType ==
    /\ bindlist \in [Event -> Task \cup {NULL}]
    /\ count \in [Event -> Nat]
    /\ binder \in [Task -> [event : Event \cup {NULL}, next : Task \cup {NULL},
                            prev : Task \cup {NULL}]]

(* A ring whose binders are not touched stays a ring. *)
LEMMA RingKept ==
    ASSUME NEW f \in Event, NEW q \in [1..count[f] -> Task], IsRing(f, q),
           count'[f] = count[f], bindlist'[f] = bindlist[f],
           Listening(f)' = Listening(f),
           \A i \in 1..count[f] : /\ binder'[q[i]].next = binder[q[i]].next
                                  /\ binder'[q[i]].prev = binder[q[i]].prev
    PROVE  IsRing(f, q)'
  <1>1. /\ \A i, j \in 1..count[f] : q[i] = q[j] => i = j
        /\ {q[i] : i \in 1..count[f]} = Listening(f)
        /\ bindlist[f] = IF count[f] = 0 THEN NULL ELSE q[1]
        /\ \A i \in 1..count[f] :
              /\ binder[q[i]].next = q[IF i = count[f] THEN 1 ELSE i + 1]
              /\ binder[q[i]].prev = q[IF i = 1 THEN count[f] ELSE i - 1]
    BY DEF IsRing
  <1> QED
    BY <1>1 DEF IsRing

(* The events but e keep their rings. *)
OthersKept(e) ==
    \A f \in Event \ {e} : /\ count'[f] = count[f]
                          /\ \A q \in [1..count[f] -> Task] : IsRing(f, q) => IsRing(f, q)'

LEMMA RingsFollow ==
    ASSUME RingsWellFormed, NEW e \in Event, OthersKept(e),
           \E q \in [1..count'[e] -> Task] : IsRing(e, q)'
    PROVE  RingsWellFormed'
  <1> SUFFICES ASSUME NEW f \in Event
               PROVE  \E q \in [1..count'[f] -> Task] : IsRing(f, q)'
    BY DEF RingsWellFormed
  <1>1. CASE f = e
    BY <1>1
  <1>2. CASE f # e
    <2>1. PICK q \in [1..count[f] -> Task] : IsRing(f, q)
      BY DEF RingsWellFormed
    <2>2. count'[f] = count[f] /\ IsRing(f, q)'
      BY <1>2, <2>1 DEF OthersKept
    <2> QED
      BY <2>1, <2>2
  <1> QED
    BY <1>1, <1>2
----------------------------------------------------------------------------
(* Binding appends to the ring. *)

(* The ring q is the ring r with s at its end. *)
Appended(r, s, n, q) == \A i \in 1..(n + 1) : q[i] = IF i = n + 1 THEN s ELSE r[i]

LEMMA BoundFields ==
    ASSUME RingsType, NEW e \in Event, NEW s \in Task, BindEvent(e, s),
           bindlist[e] # NULL, NEW last, last = binder[bindlist[e]].prev, last \in Task,
           s # bindlist[e], s # last,
           NEW t \in Task
    PROVE  /\ binder'[t].event = IF t = s THEN e ELSE binder[t].event
           /\ binder'[t].next  = IF t = s THEN bindlist[e]
                                 ELSE IF t = last THEN s ELSE binder[t].next
           /\ binder'[t].prev  = IF t = s THEN last
                                 ELSE IF t = bindlist[e] THEN s ELSE binder[t].prev
  <1> DEFINE first == bindlist[e]
  <1> DEFINE b0 == [binder EXCEPT ![s] = [event |-> e, next |-> first, prev |-> last]]
  <1> DEFINE b1 == [b0 EXCEPT ![last].next = s]
  <1> DEFINE b2 == [b1 EXCEPT ![first].prev = s]
  <1>0. first \in Task
    BY DEF RingsType
  <1>1. binder' = b2
    BY <1>0 DEF BindEvent
  <1>2. b0 \in [Task -> [event : Event \cup {NULL}, next : Task \cup {NULL},
                         prev : Task \cup {NULL}]]
    BY <1>0 DEF RingsType
  <1>3. \A u \in Task : b0[u] = IF u = s THEN [event |-> e, next |-> first, prev |-> last]
                                ELSE binder[u]
    BY DEF RingsType
  <1> HIDE DEF b0
  <1>4. b1 \in [Task -> [event : Event \cup {NULL}, next : Task \cup {NULL},
                         prev : Task \cup {NULL}]]
    BY <1>2
  <1>5. \A u \in Task : /\ b1[u].event = b0[u].event
                        /\ b1[u].prev = b0[u].prev
                        /\ b1[u].next = IF u = last THEN s ELSE b0[u].next
    BY <1>2
  <1> HIDE DEF b1
  <1>6. \A u \in Task : /\ b2[u].event = b1[u].event
                        /\ b2[u].next = b1[u].next
                        /\ b2[u].prev = IF u = first THEN s ELSE b1[u].prev
    BY <1>4
  <1> HIDE DEF b2
  <1> QED
    BY <1>1, <1>3, <1>5, <1>6

LEMMA BindFirst ==
    ASSUME RingsType, NEW e \in Event, NEW s \in Task,
           binder[s].event = NULL, BindEvent(e, s), bindlist[e] = NULL,
           NEW r \in [1..count[e] -> Task], IsRing(e, r)
    PROVE  /\ OthersKept(e)
           /\ \E q \in [1..count'[e] -> Task] : IsRing(e, q)' /\ Appended(r, s, count[e], q)
  <1>1. /\ binder' = [binder EXCEPT ![s] = [event |-> e, next |-> s, prev |-> s]]
        /\ bindlist' = [bindlist EXCEPT ![e] = s]
        /\ count' = [count EXCEPT ![e] = @ + 1]
    BY DEF BindEvent
  <1>2. \A t \in Task : binder[t].event # e
    <2>1. count[e] = 0
      BY NullAssumption DEF IsRing, RingsType
    <2> QED
      BY <2>1 DEF IsRing, Listening
  <1>3. count[e] = 0
    BY NullAssumption DEF IsRing, RingsType
  <1>4. \E q \in [1..count'[e] -> Task] : IsRing(e, q)' /\ Appended(r, s, count[e], q)
    <2> DEFINE q == [i \in 1..1 |-> s]
    <2>1. count'[e] = 1 /\ bindlist'[e] = s
      BY <1>1, <1>3 DEF RingsType
    <2>2. q \in [1..count'[e] -> Task]
      BY <2>1
    <2>3. binder'[s] = [event |-> e, next |-> s, prev |-> s]
      BY <1>1 DEF RingsType
    <2>4. \A t \in Task : t # s => binder'[t] = binder[t]
      BY <1>1 DEF RingsType
    <2>5. Listening(e)' = {s}
      BY <2>3, <2>4, <1>2 DEF Listening
    <2>6. \A i \in 1..1 : q[i] = s
      OBVIOUS
    <2> HIDE DEF q
    <2>7. {q[i] : i \in 1..1} = {s}
      BY <2>6
    <2>8. IsRing(e, q)'
      BY <2>1, <2>2, <2>3, <2>5, <2>6, <2>7 DEF IsRing
    <2>9. Appended(r, s, count[e], q)
      BY <1>3, <2>6 DEF Appended
    <2> QED
      BY <2>2, <2>8, <2>9
  <1>5. ASSUME NEW f \in Event \ {e}, NEW q \in [1..count[f] -> Task], IsRing(f, q)
        PROVE  IsRing(f, q)'
    <2>2. count'[f] = count[f] /\ bindlist'[f] = bindlist[f]
      BY <1>1 DEF RingsType
    <2>3. \A t \in Task : t # s => binder'[t] = binder[t]
      BY <1>1 DEF RingsType
    <2>4. s \notin Listening(f) /\ binder'[s].event = e
      BY <1>1, NullAssumption DEF Listening, NoBinder, RingsType
    <2>5. Listening(f)' = Listening(f)
      BY <2>3, <2>4 DEF Listening
    <2>6. \A i \in 1..count[f] : binder'[q[i]] = binder[q[i]]
      BY <1>5, <2>3, <2>4 DEF IsRing
    <2> QED
      BY <1>5, <2>2, <2>5, <2>6, RingKept
  <1>6. \A f \in Event \ {e} : count'[f] = count[f]
    BY <1>1 DEF RingsType
  <1> QED
    BY <1>4, <1>5, <1>6 DEF OthersKept

LEMMA BindLast ==
    ASSUME RingsType, NEW e \in Event, NEW s \in Task,
           binder[s].event = NULL, BindEvent(e, s), bindlist[e] # NULL,
           NEW r \in [1..count[e] -> Task], IsRing(e, r)
    PROVE  /\ OthersKept(e)
           /\ \E q \in [1..count'[e] -> Task] : IsRing(e, q)' /\ Appended(r, s, count[e], q)
  <1>1. IsRing(e, r)
    OBVIOUS
  <1> DEFINE n    == count[e]
             last == binder[bindlist[e]].prev
  <1>2. n \in Nat /\ n > 0
    BY <1>1 DEF IsRing, RingsType
  <1>3. bindlist[e] = r[1] /\ last = r[n]
    BY <1>1, <1>2 DEF IsRing
  <1>4. \A i \in 1..n : r[i] \in Task /\ binder[r[i]].event = e
    BY <1>1 DEF IsRing, Listening
  <1>5. \A i \in 1..n : r[i] # s
    BY <1>4, NullAssumption
  <1>6. last \in Task /\ s # bindlist[e] /\ s # last
    BY <1>2, <1>3, <1>4, <1>5
  <1>7. /\ count' = [count EXCEPT ![e] = @ + 1]
        /\ bindlist' = bindlist
    BY DEF BindEvent
  <1> HIDE DEF last
  <1>8. \A t \in Task :
           /\ binder'[t].event = IF t = s THEN e ELSE binder[t].event
           /\ binder'[t].next  = IF t = s THEN bindlist[e]
                                 ELSE IF t = last THEN s ELSE binder[t].next
           /\ binder'[t].prev  = IF t = s THEN last
                                 ELSE IF t = bindlist[e] THEN s ELSE binder[t].prev
    BY <1>6, BoundFields DEF last
  <1>9. \E q \in [1..count'[e] -> Task] : IsRing(e, q)' /\ Appended(r, s, n, q)
    <2>1. count'[e] = n + 1 /\ bindlist'[e] = r[1]
      BY <1>3, <1>7 DEF RingsType
    <2>2. PICK q \in [1..count'[e] -> Task] :
             \A i \in 1..(n + 1) : q[i] = IF i = n + 1 THEN s ELSE r[i]
      <3> DEFINE q == [i \in 1..(n + 1) |-> IF i = n + 1 THEN s ELSE r[i]]
      <3>1. q \in [1..count'[e] -> Task]
        BY <2>1, <1>2, <1>4
      <3>2. \A i \in 1..(n + 1) : q[i] = IF i = n + 1 THEN s ELSE r[i]
        OBVIOUS
      <3> HIDE DEF q
      <3> QED
        BY <3>1, <3>2
    <2>3. q[n + 1] = s /\ \A i \in 1..n : q[i] = r[i] /\ i \in 1..(n + 1) /\ i # n + 1
      BY <1>2, <2>2
    <2>4. q[1] = r[1]
      BY <2>3, <1>2
    <2>5. \A i \in 1..(n + 1) : i \in 1..n \/ i = n + 1
      BY <1>2
    <2>6. ASSUME NEW i \in 1..(n + 1), NEW j \in 1..(n + 1), q[i] = q[j]
          PROVE  i = j
      BY <2>3, <2>5, <2>6, <1>5, <1>1 DEF IsRing
    <2>7. {q[i] : i \in 1..(n + 1)} = Listening(e)'
      <3>1. Listening(e)' = Listening(e) \cup {s}
        BY <1>8 DEF Listening
      <3>2. Listening(e) = {r[i] : i \in 1..n}
        BY <1>1 DEF IsRing
      <3>3. \A t : t \in {q[i] : i \in 1..(n + 1)} <=> t \in {r[i] : i \in 1..n} \cup {s}
        BY <2>3, <2>5, <1>2
      <3> QED
        BY <3>1, <3>2, <3>3
    <2>8. ASSUME NEW i \in 1..(n + 1)
          PROVE  /\ binder'[q[i]].next = q[IF i = n + 1 THEN 1 ELSE i + 1]
                 /\ binder'[q[i]].prev = q[IF i = 1 THEN n + 1 ELSE i - 1]
      <3>1. CASE i = n + 1
        BY <3>1, <2>3, <2>4, <1>2, <1>3, <1>8
      <3>2. CASE i \in 1..n
        <4>1. /\ binder[r[i]].next = r[IF i = n THEN 1 ELSE i + 1]
              /\ binder[r[i]].prev = r[IF i = 1 THEN n ELSE i - 1]
          BY <1>1, <3>2 DEF IsRing
        <4>2. r[i] = last <=> i = n
          BY <1>1, <1>2, <1>3, <3>2 DEF IsRing
        <4>3. r[i] = bindlist[e] <=> i = 1
          BY <1>1, <1>2, <1>3, <3>2 DEF IsRing
        <4>4. q[i] = r[i] /\ r[i] # s /\ r[i] \in Task /\ i # n + 1
          BY <2>3, <3>2, <1>4, <1>5
        <4>5. binder'[q[i]].next = q[IF i = n + 1 THEN 1 ELSE i + 1]
          BY <4>1, <4>2, <4>4, <2>3, <1>2, <1>8, <3>2
        <4>6. binder'[q[i]].prev = q[IF i = 1 THEN n + 1 ELSE i - 1]
          BY <4>1, <4>3, <4>4, <2>3, <1>2, <1>8, <3>2
        <4> QED
          BY <4>5, <4>6
      <3> QED
        BY <3>1, <3>2, <2>5
    <2>9. bindlist'[e] = IF n + 1 = 0 THEN NULL ELSE q[1]
      BY <2>1, <2>4, <1>2
    <2>10. IsRing(e, q)'
      BY <2>1, <2>6, <2>7, <2>8, <2>9 DEF IsRing
    <2> QED
      BY <2>2, <2>10 DEF Appended
  <1>10. ASSUME NEW f \in Event \ {e}, NEW q \in [1..count[f] -> Task], IsRing(f, q)
         PROVE  IsRing(f, q)'
    <2>2. count'[f] = count[f] /\ bindlist'[f] = bindlist[f]
      BY <1>7 DEF RingsType
    <2>3. \A i \in 1..count[f] : q[i] \in Task /\ binder[q[i]].event = f
      BY <1>10 DEF IsRing, Listening
    <2>4. \A i \in 1..count[f] : q[i] # s /\ q[i] # last /\ q[i] # bindlist[e]
      BY <2>3, <1>2, <1>3, <1>4, NullAssumption DEF NoBinder
    <2>5. Listening(f)' = Listening(f)
      BY <1>8, NullAssumption DEF Listening, NoBinder
    <2>6. \A i \in 1..count[f] : /\ binder'[q[i]].next = binder[q[i]].next
                                 /\ binder'[q[i]].prev = binder[q[i]].prev
      BY <2>3, <2>4, <1>8
    <2> QED
      BY <1>10, <2>2, <2>5, <2>6, RingKept
  <1>11. \A f \in Event \ {e} : count'[f] = count[f]
    BY <1>7 DEF RingsType
  <1> QED
    BY <1>9, <1>10, <1>11 DEF OthersKept
----------------------------------------------------------------------------
(* Releasing takes the binder out of the ring. *)

LEMMA UnlinkedFields ==
    ASSUME RingsType, NEW s \in Task, UnlinkBinder(s),
           NEW next \in Task, next = binder[s].next,
           NEW prev \in Task, prev = binder[s].prev,
           NEW t \in Task
    PROVE  /\ t = s => binder'[t] = NoBinder
           /\ t # s => /\ binder'[t].event = binder[t].event
                       /\ binder'[t].next  = IF t = prev THEN next ELSE binder[t].next
                       /\ binder'[t].prev  = IF t = next THEN prev ELSE binder[t].prev
  <1> DEFINE b1 == [binder EXCEPT ![prev].next = next]
  <1> DEFINE b2 == [b1 EXCEPT ![next].prev = prev]
  <1> DEFINE b3 == [b2 EXCEPT ![s] = NoBinder]
  <1>1. binder' = b3
    BY DEF UnlinkBinder
  <1>2. b1 \in [Task -> [event : Event \cup {NULL}, next : Task \cup {NULL},
                         prev : Task \cup {NULL}]]
    BY DEF RingsType
  <1>3. \A u \in Task : /\ b1[u].event = binder[u].event
                        /\ b1[u].prev = binder[u].prev
                        /\ b1[u].next = IF u = prev THEN next ELSE binder[u].next
    BY DEF RingsType
  <1> HIDE DEF b1
  <1>4. b2 \in [Task -> [event : Event \cup {NULL}, next : Task \cup {NULL},
                         prev : Task \cup {NULL}]]
    BY <1>2
  <1>5. \A u \in Task : /\ b2[u].event = b1[u].event
                        /\ b2[u].next = b1[u].next
                        /\ b2[u].prev = IF u = next THEN prev ELSE b1[u].prev
    BY <1>2
  <1> HIDE DEF b2
  <1>6. \A u \in Task : b3[u] = IF u = s THEN NoBinder ELSE b2[u]
    BY <1>4
  <1> HIDE DEF b3
  <1> QED
    BY <1>1, <1>3, <1>5, <1>6

(* The places of a ring of n without the k-th. *)
Skip(k, i) == IF i < k THEN i ELSE i + 1

(* The neighbours of the i-th place of a ring of n. *)
After(n, i)  == IF i = n THEN 1 ELSE i + 1
Before(n, i) == IF i = 1 THEN n ELSE i - 1

LEMMA SkipNeighbours ==
    ASSUME NEW n \in Nat, NEW k \in 1..n, NEW i \in 1..(n - 1)
    PROVE  /\ After(n - 1, i) \in 1..(n - 1) /\ Before(n - 1, i) \in 1..(n - 1)
           /\ Skip(k, After(n - 1, i)) = IF Skip(k, i) = Before(n, k) THEN After(n, k)
                                         ELSE After(n, Skip(k, i))
           /\ Skip(k, Before(n - 1, i)) = IF Skip(k, i) = After(n, k) THEN Before(n, k)
                                          ELSE Before(n, Skip(k, i))
  <1>1. n >= 2
    OBVIOUS
  <1>2. CASE i < k
    <2>1. Skip(k, i) = i
      BY <1>2 DEF Skip
    <2>2. CASE i = 1
      BY <1>1, <1>2, <2>1, <2>2 DEF Skip, After, Before
    <2>3. CASE i # 1
      BY <1>1, <1>2, <2>1, <2>3 DEF Skip, After, Before
    <2> QED
      BY <2>2, <2>3
  <1>3. CASE ~(i < k)
    <2>1. Skip(k, i) = i + 1
      BY <1>3 DEF Skip
    <2>2. CASE i = 1
      BY <1>1, <1>3, <2>1, <2>2 DEF Skip, After, Before
    <2>3. CASE i # 1
      BY <1>1, <1>3, <2>1, <2>3 DEF Skip, After, Before
    <2> QED
      BY <2>2, <2>3
  <1> QED
    BY <1>2, <1>3

(* The ring q is the ring r, of n, without its k-th place. *)
Removed(r, k, n, q) == \A i \in 1..(n - 1) : q[i] = r[Skip(k, i)]

LEMMA UnlinkRings ==
    ASSUME RingsType, NEW s \in Task, NEW e \in Event,
           binder[s].event = e, UnlinkBinder(s),
           NEW r \in [1..count[e] -> Task], IsRing(e, r),
           NEW k \in 1..count[e], r[k] = s
    PROVE  /\ OthersKept(e)
           /\ \E q \in [1..count'[e] -> Task] : IsRing(e, q)' /\ Removed(r, k, count[e], q)
  <1>1. IsRing(e, r)
    OBVIOUS
  <1> DEFINE n    == count[e]
             next == binder[s].next
             prev == binder[s].prev
  <1>2. n \in Nat
    BY DEF RingsType
  <1>3. k \in 1..n /\ r[k] = s
    OBVIOUS
  <1>4. next = r[After(n, k)] /\ prev = r[Before(n, k)]
    BY <1>1, <1>3 DEF IsRing, After, Before
  <1>5. next \in Task /\ prev \in Task
    BY <1>2, <1>3, <1>4 DEF After, Before
  <1>6. /\ count' = [count EXCEPT ![e] = @ - 1]
        /\ bindlist' = [bindlist EXCEPT ![e] = IF @ # s THEN @
                                              ELSE IF next = s THEN NULL ELSE next]
    BY DEF UnlinkBinder
  <1> HIDE DEF next, prev
  <1>7. \A t \in Task :
           /\ t = s => binder'[t] = NoBinder
           /\ t # s => /\ binder'[t].event = binder[t].event
                       /\ binder'[t].next  = IF t = prev THEN next ELSE binder[t].next
                       /\ binder'[t].prev  = IF t = next THEN prev ELSE binder[t].prev
    BY <1>5, UnlinkedFields DEF next, prev
  <1>8. \A i \in 1..n : r[i] \in Task /\ binder[r[i]].event = e
    BY <1>1 DEF IsRing, Listening
  <1>9. \A i, j \in 1..n : r[i] = r[j] => i = j
    BY <1>1 DEF IsRing
  <1>10. \E q \in [1..count'[e] -> Task] : IsRing(e, q)' /\ Removed(r, k, n, q)
    <2>1. count'[e] = n - 1 /\ n - 1 \in Nat
      BY <1>2, <1>3, <1>6 DEF RingsType
    <2>2. \A i \in 1..(n - 1) : Skip(k, i) \in 1..n /\ Skip(k, i) # k
      BY <1>2, <1>3 DEF Skip
    <2>3. PICK q \in [1..count'[e] -> Task] : q = [i \in 1..(n - 1) |-> r[Skip(k, i)]]
      BY <2>1, <2>2, <1>8
    <2>4. \A i \in 1..(n - 1) : q[i] = r[Skip(k, i)]
      BY <2>3
    <2>5. ASSUME NEW i \in 1..(n - 1), NEW j \in 1..(n - 1), q[i] = q[j]
          PROVE  i = j
      BY <2>2, <2>4, <2>5, <1>2, <1>3, <1>9 DEF Skip
    <2>6. {q[i] : i \in 1..(n - 1)} = Listening(e)'
      <3>1. Listening(e)' = Listening(e) \ {s}
        BY <1>7, NullAssumption DEF Listening, NoBinder
      <3>2. Listening(e) = {r[i] : i \in 1..n}
        BY <1>1 DEF IsRing
      <3>3. \A i \in 1..(n - 1) : q[i] \in {r[j] : j \in 1..n} \ {s}
        BY <2>2, <2>4, <1>3, <1>9
      <3>4. ASSUME NEW i \in 1..n, i # k
            PROVE  r[i] \in {q[j] : j \in 1..(n - 1)}
        <4> DEFINE j == IF i < k THEN i ELSE i - 1
        <4>1. j \in 1..(n - 1) /\ Skip(k, j) = i
          BY <3>4, <1>2, <1>3 DEF Skip
        <4> QED
          BY <4>1, <2>4
      <3>5. {r[i] : i \in 1..n} \ {s} \subseteq {q[j] : j \in 1..(n - 1)}
        BY <3>4, <1>3
      <3> QED
        BY <3>1, <3>2, <3>3, <3>5
    <2>7. bindlist'[e] = IF n - 1 = 0 THEN NULL ELSE q[1]
      <3>1. bindlist[e] = r[1]
        BY <1>1, <1>2, <1>3 DEF IsRing
      <3>2. bindlist'[e] = IF r[1] # s THEN r[1] ELSE IF next = s THEN NULL ELSE next
        BY <3>1, <1>6 DEF RingsType
      <3>3. r[1] = s <=> k = 1
        BY <1>2, <1>3, <1>9
      <3>4. CASE k # 1
        <4>1. n - 1 # 0 /\ 1 \in 1..(n - 1) /\ Skip(k, 1) = 1
          BY <1>2, <1>3, <3>4 DEF Skip
        <4> QED
          BY <4>1, <3>2, <3>3, <3>4, <2>4
      <3>5. CASE k = 1 /\ n = 1
        BY <3>5, <3>2, <3>3, <1>3, <1>4 DEF After
      <3>6. CASE k = 1 /\ n # 1
        <4>1. 1 \in 1..(n - 1) /\ Skip(k, 1) = 2 /\ 2 \in 1..n /\ k # n /\ n - 1 # 0
          BY <1>2, <1>3, <3>6 DEF Skip
        <4>2. next = r[2] /\ r[2] # s
          BY <4>1, <3>6, <1>3, <1>4, <1>9 DEF After
        <4> QED
          BY <4>1, <4>2, <3>2, <3>3, <3>6, <2>4
      <3> QED
        BY <3>4, <3>5, <3>6
    <2>8. ASSUME NEW i \in 1..(n - 1)
          PROVE  /\ binder'[q[i]].next = q[IF i = n - 1 THEN 1 ELSE i + 1]
                 /\ binder'[q[i]].prev = q[IF i = 1 THEN n - 1 ELSE i - 1]
      <3> DEFINE a == Skip(k, i)
      <3>1. a \in 1..n /\ a # k /\ q[i] = r[a]
        BY <2>2, <2>4
      <3>2. r[a] \in Task /\ r[a] # s
        BY <3>1, <1>3, <1>8, <1>9
      <3>3. binder[r[a]].next = r[After(n, a)] /\ binder[r[a]].prev = r[Before(n, a)]
        BY <3>1, <1>1 DEF IsRing, After, Before
      <3>4. After(n, k) \in 1..n /\ Before(n, k) \in 1..n
        BY <1>2, <1>3 DEF After, Before
      <3>5. /\ r[a] = prev <=> a = Before(n, k)
            /\ r[a] = next <=> a = After(n, k)
        BY <3>1, <3>4, <1>4, <1>9
      <3>6. /\ binder'[r[a]].next = IF a = Before(n, k) THEN r[After(n, k)] ELSE r[After(n, a)]
            /\ binder'[r[a]].prev = IF a = After(n, k) THEN r[Before(n, k)] ELSE r[Before(n, a)]
        BY <3>2, <3>3, <3>5, <1>4, <1>7
      <3>7. /\ binder'[r[a]].next = r[Skip(k, After(n - 1, i))]
            /\ binder'[r[a]].prev = r[Skip(k, Before(n - 1, i))]
        <4>1. /\ Skip(k, After(n - 1, i)) = IF a = Before(n, k) THEN After(n, k) ELSE After(n, a)
              /\ Skip(k, Before(n - 1, i)) = IF a = After(n, k) THEN Before(n, k) ELSE Before(n, a)
          <5> HIDE DEF n
          <5>1. n \in Nat /\ k \in 1..n /\ i \in 1..(n - 1)
            BY <1>2 DEF n
          <5>2. Skip(k, After(n - 1, i)) = IF Skip(k, i) = Before(n, k) THEN After(n, k)
                                          ELSE After(n, Skip(k, i))
            BY <5>1, SkipNeighbours
          <5>3. Skip(k, Before(n - 1, i)) = IF Skip(k, i) = After(n, k) THEN Before(n, k)
                                           ELSE Before(n, Skip(k, i))
            BY <5>1, SkipNeighbours
          <5> QED
            BY <5>2, <5>3
        <4> HIDE DEF a
        <4>2. binder'[r[a]].next = r[Skip(k, After(n - 1, i))]
          <5>1. CASE a = Before(n, k)
            BY <4>1, <5>1, <3>6
          <5>2. CASE a # Before(n, k)
            BY <4>1, <5>2, <3>6
          <5> QED
            BY <5>1, <5>2
        <4>3. binder'[r[a]].prev = r[Skip(k, Before(n - 1, i))]
          <5>1. CASE a = After(n, k)
            BY <4>1, <5>1, <3>6
          <5>2. CASE a # After(n, k)
            BY <4>1, <5>2, <3>6
          <5> QED
            BY <5>1, <5>2
        <4> QED
          BY <4>2, <4>3
      <3>8. /\ q[After(n - 1, i)] = r[Skip(k, After(n - 1, i))]
            /\ q[Before(n - 1, i)] = r[Skip(k, Before(n - 1, i))]
        BY <2>4, <1>2, <1>3, SkipNeighbours
      <3> QED
        BY <3>1, <3>7, <3>8 DEF After, Before
    <2>10. IsRing(e, q)'
      BY <2>1, <2>5, <2>6, <2>7, <2>8 DEF IsRing
    <2>11. Removed(r, k, n, q)
      BY <2>4 DEF Removed
    <2> QED
      BY <2>10, <2>11
  <1>11. ASSUME NEW f \in Event \ {e}, NEW q \in [1..count[f] -> Task], IsRing(f, q)
         PROVE  IsRing(f, q)'
    <2>2. count'[f] = count[f] /\ bindlist'[f] = bindlist[f]
      BY <1>6 DEF RingsType
    <2>3. \A i \in 1..count[f] : q[i] \in Task /\ binder[q[i]].event = f
      BY <1>11 DEF IsRing, Listening
    <2>4. binder[next].event = e /\ binder[prev].event = e
      BY <1>2, <1>3, <1>4, <1>8 DEF After, Before
    <2>5. Listening(f)' = Listening(f)
      BY <1>7, <1>11, NullAssumption DEF Listening, NoBinder
    <2>6. \A i \in 1..count[f] : /\ binder'[q[i]].next = binder[q[i]].next
                                 /\ binder'[q[i]].prev = binder[q[i]].prev
      BY <2>3, <2>4, <1>7
    <2> QED
      BY <1>11, <2>2, <2>5, <2>6, RingKept
  <1>12. \A f \in Event \ {e} : count'[f] = count[f]
    BY <1>6 DEF RingsType
  <1> QED
    BY <1>10, <1>11, <1>12 DEF OthersKept
----------------------------------------------------------------------------
(* The inductive invariant.  A trigger stands on the head of the ring it   *)
(* goes around, for it releases every binder it has passed, and has as     *)
(* many turns left as there are binders.                                   *)
CallInv ==
    /\ call.kind = "none" => call = NoCall
    /\ call.kind # "none" => call.event \in events
    /\ call.kind = "trigger" => /\ call.evb \in Task
                               /\ call.evb = bindlist[call.event]
                               /\ call.n = count[call.event]

(* Only a task that exists runs. *)
RunnersExist == run \subseteq tasks

IInv == TypeOK /\ RingsWellFormed /\ ListenersWait /\ RunnersExist /\ CallInv /\ NoInternalFatal

(* An event counts 0 exactly when its ring is empty. *)
LEMMA EmptyRing ==
    ASSUME RingsType, RingsWellFormed, NEW e \in Event
    PROVE  /\ bindlist[e] = NULL <=> count[e] = 0
           /\ count[e] = 0 => \A t \in Task : binder[t].event # e
           /\ bindlist[e] # NULL => bindlist[e] \in Task /\ binder[bindlist[e]].event = e
  <1>1. PICK r \in [1..count[e] -> Task] : IsRing(e, r)
    BY DEF RingsWellFormed
  <1>2. count[e] \in Nat
    BY DEF RingsType
  <1>3. \A i \in 1..count[e] : r[i] \in Task /\ binder[r[i]].event = e
    BY <1>1 DEF IsRing, Listening
  <1>4. CASE count[e] = 0
    <2>1. bindlist[e] = NULL /\ Listening(e) = {}
      BY <1>1, <1>4 DEF IsRing
    <2> QED
      BY <2>1, <1>4 DEF Listening
  <1>5. CASE count[e] # 0
    <2>1. 1 \in 1..count[e] /\ bindlist[e] = r[1]
      BY <1>1, <1>2, <1>5 DEF IsRing
    <2> QED
      BY <2>1, <1>3, <1>5, NullAssumption
  <1> QED
    BY <1>4, <1>5

(* The neighbours of a binder, and when it is alone. *)
LEMMA Neighbours ==
    ASSUME RingsType, RingsWellFormed, NEW e \in Event, NEW s \in Task,
           binder[s].event = e
    PROVE  /\ binder[s].next \in Task /\ binder[binder[s].next].event = e
           /\ binder[s].prev \in Task /\ binder[binder[s].prev].event = e
           /\ count[e] > 0
           /\ binder[s].next = s <=> count[e] = 1
  <1>1. PICK r \in [1..count[e] -> Task] : IsRing(e, r)
    BY DEF RingsWellFormed
  <1> DEFINE n == count[e]
  <1>2. n \in Nat
    BY DEF RingsType
  <1>3. PICK k \in 1..n : r[k] = s
    BY <1>1 DEF IsRing, Listening
  <1>4. After(n, k) \in 1..n /\ Before(n, k) \in 1..n /\ (After(n, k) = k <=> n = 1)
    BY <1>2, <1>3 DEF After, Before
  <1>5. binder[s].next = r[After(n, k)] /\ binder[s].prev = r[Before(n, k)]
    BY <1>1, <1>3 DEF IsRing, After, Before
  <1>6. \A i \in 1..n : r[i] \in Task /\ binder[r[i]].event = e
    BY <1>1 DEF IsRing, Listening
  <1>7. n > 0
    BY <1>2, <1>3
  <1>8. r[After(n, k)] = s <=> After(n, k) = k
    BY <1>1, <1>3, <1>4 DEF IsRing
  <1> HIDE DEF n
  <1>9. binder[s].next = s <=> n = 1
    BY <1>4, <1>5, <1>8
  <1> QED
    BY <1>4, <1>5, <1>6, <1>7, <1>9 DEF n

LEMMA BoundRings ==
    ASSUME RingsType, NEW e \in Event, NEW s \in Task,
           binder[s].event = NULL, BindEvent(e, s),
           NEW r \in [1..count[e] -> Task], IsRing(e, r)
    PROVE  /\ OthersKept(e)
           /\ \E q \in [1..count'[e] -> Task] : IsRing(e, q)' /\ Appended(r, s, count[e], q)
  BY BindFirst, BindLast

LEMMA BindEventInv ==
    ASSUME RingsType, RingsWellFormed, NEW e \in Event, NEW s \in Task,
           binder[s].event = NULL, BindEvent(e, s)
    PROVE  /\ RingsType' /\ RingsWellFormed'
           /\ \A t \in Task : binder'[t].event = IF t = s THEN e ELSE binder[t].event
  <1> DEFINE Binders == [event : Event \cup {NULL}, next : Task \cup {NULL},
                         prev : Task \cup {NULL}]
  <1>1. count' \in [Event -> Nat]
    BY DEF BindEvent, RingsType
  <1>4. RingsWellFormed'
    BY BoundRings, RingsFollow DEF RingsWellFormed
  <1>2. CASE bindlist[e] = NULL
    <2>1. /\ binder' = [binder EXCEPT ![s] = [event |-> e, next |-> s, prev |-> s]]
          /\ bindlist' = [bindlist EXCEPT ![e] = s]
      BY <1>2 DEF BindEvent
    <2> QED
      BY <1>1, <1>2, <1>4, <2>1 DEF RingsType
  <1>3. CASE bindlist[e] # NULL
    <2> DEFINE first == bindlist[e]
               last  == binder[first].prev
    <2>1. first \in Task /\ binder[first].event = e
      BY <1>3, EmptyRing
    <2>2. last \in Task /\ binder[last].event = e
      BY <2>1, Neighbours
    <2>3. s # first /\ s # last
      BY <2>1, <2>2, NullAssumption
    <2>4. binder' = [[[binder EXCEPT ![s] = [event |-> e, next |-> first, prev |-> last]]
                        EXCEPT ![last].next = s] EXCEPT ![first].prev = s]
      BY <1>3 DEF BindEvent
    <2>5. bindlist' = bindlist
      BY <1>3 DEF BindEvent
    <2> DEFINE b0 == [binder EXCEPT ![s] = [event |-> e, next |-> first, prev |-> last]]
               b1 == [b0 EXCEPT ![last].next = s]
    <2>6. b0 \in [Task -> Binders]
      BY <2>1, <2>2 DEF RingsType
    <2>7. binder' = [b1 EXCEPT ![first].prev = s]
      BY <2>4
    <2> HIDE DEF b0
    <2>8. b1 \in [Task -> Binders]
      BY ZenonT(60), <2>6
    <2> HIDE DEF b1
    <2>9. binder' \in [Task -> Binders]
      BY ZenonT(60), <2>7, <2>8
    <2>10. RingsType'
      BY <1>1, <2>5, <2>9 DEF RingsType
    <2>11. \A t \in Task : binder'[t].event = IF t = s THEN e ELSE binder[t].event
      BY <1>3, <2>2, <2>3, BoundFields
    <2> QED
      BY <1>4, <2>10, <2>11
  <1> QED
    BY <1>2, <1>3

LEMMA UnlinkBinderInv ==
    ASSUME RingsType, RingsWellFormed, NEW e \in Event, NEW s \in Task,
           binder[s].event = e, UnlinkBinder(s)
    PROVE  /\ RingsType' /\ RingsWellFormed'
           /\ \A t \in Task : binder'[t].event = IF t = s THEN NULL ELSE binder[t].event
           /\ count'[e] = count[e] - 1
           /\ bindlist[e] = s => bindlist'[e] = IF count[e] = 1 THEN NULL ELSE binder[s].next
  <1> DEFINE Binders == [event : Event \cup {NULL}, next : Task \cup {NULL},
                         prev : Task \cup {NULL}]
             next == binder[s].next
             prev == binder[s].prev
  <1>1. next \in Task /\ prev \in Task /\ count[e] > 0 /\ (next = s <=> count[e] = 1)
    BY Neighbours
  <1>2. /\ count' = [count EXCEPT ![e] = @ - 1]
        /\ bindlist' = [bindlist EXCEPT ![e] = IF @ # s THEN @
                                              ELSE IF next = s THEN NULL ELSE next]
        /\ binder' = [[[binder EXCEPT ![prev].next = next] EXCEPT ![next].prev = prev]
                         EXCEPT ![s] = NoBinder]
    BY DEF UnlinkBinder
  <1> DEFINE b1 == [binder EXCEPT ![prev].next = next]
             b2 == [b1 EXCEPT ![next].prev = prev]
  <1>3. count[e] - 1 \in Nat
    BY <1>1 DEF RingsType
  <1>4. count' \in [Event -> Nat] /\ bindlist' \in [Event -> Task \cup {NULL}]
    BY <1>1, <1>2, <1>3 DEF RingsType
  <1>5. b1 \in [Task -> Binders]
    BY <1>1 DEF RingsType
  <1>6. binder' = [b2 EXCEPT ![s] = NoBinder]
    BY <1>2
  <1> HIDE DEF b1
  <1>7. b2 \in [Task -> Binders]
    BY <1>5, <1>1
  <1> HIDE DEF b2
  <1>8. binder' \in [Task -> Binders]
    BY <1>6, <1>7 DEF NoBinder
  <1>9. \A t \in Task : binder'[t].event = IF t = s THEN NULL ELSE binder[t].event
    <2> SUFFICES ASSUME NEW t \in Task
                 PROVE  binder'[t].event = IF t = s THEN NULL ELSE binder[t].event
      OBVIOUS
    <2>1. /\ t = s => binder'[t] = NoBinder
          /\ t # s => binder'[t].event = binder[t].event
      BY <1>1, UnlinkedFields
    <2> QED
      BY <2>1 DEF NoBinder
  <1>10. count'[e] = count[e] - 1
    BY <1>2 DEF RingsType
  <1>11. bindlist[e] = s => bindlist'[e] = IF count[e] = 1 THEN NULL ELSE next
    BY <1>1, <1>2 DEF RingsType
  <1>12. RingsWellFormed'
    <2>1. PICK r \in [1..count[e] -> Task] : IsRing(e, r)
      BY DEF RingsWellFormed
    <2>2. PICK k \in 1..count[e] : r[k] = s
      BY <2>1 DEF IsRing, Listening
    <2> QED
      BY <2>1, <2>2, UnlinkRings, RingsFollow
  <1> HIDE DEF next, prev
  <1> QED
    BY <1>4, <1>8, <1>9, <1>10, <1>11, <1>12 DEF RingsType, next
----------------------------------------------------------------------------
(* What the steps have in common. *)

HeardType == [event : Event \cup {NULL}, scope : Scope \cup {NULL},
              task : Task \cup {NULL}, answer : Answers \cup {NULL}]

LEMMA SilenceTyped == Silence \in HeardType
  BY DEF Silence, HeardType

LEMMA HeardTyped ==
    ASSUME NEW e \in Event, NEW scope \in Scope, NEW s \in Task \cup {NULL},
           NEW answer \in Answers \cup {NULL}
    PROVE  Heard(e, scope, s, answer) \in HeardType
  BY DEF Heard, Silence, HeardType

LEMMA CallbackTyped ==
    ASSUME RingsType, NEW s \in Task, NEW scope \in Scope,
           s \in locked => binder[s].event \in Event
    PROVE  UnbindCallback(s, scope) \in HeardType
  <1>1. CASE s \in locked /\ evcb[binder[s].event].set
    <2>1. UnbindCallback(s, scope) = Heard(binder[s].event, scope, s, NULL)
      BY <1>1 DEF UnbindCallback
    <2> QED
      BY <1>1, <2>1, HeardTyped
  <1>2. CASE ~(s \in locked /\ evcb[binder[s].event].set)
    BY <1>2, SilenceTyped DEF UnbindCallback
  <1> QED
    BY <1>1, <1>2

LEMMA RingsUnchanged ==
    ASSUME RingsWellFormed, UNCHANGED rings
    PROVE  RingsWellFormed'
  BY DEF RingsWellFormed, IsRing, Listening, rings

(* The parts of ListenersWait, for a task that listens. *)
LEMMA ListenerState ==
    ASSUME IInv, NEW s \in locked
    PROVE  /\ s \in Task /\ s \in waiting /\ s \in tasks
           /\ s \notin run /\ s \notin closing
           /\ binder[s].event \in events /\ binder[s].event \in Event
  BY DEF IInv, TypeOK, ListenersWait

(* The release of a task that listens. *)
LEMMA Released ==
    ASSUME IInv, NEW s \in locked, UnbindEvent(s)
    PROVE  /\ RingsType' /\ RingsWellFormed'
           /\ locked' = locked \ {s} /\ run' = run \cup {s}
           /\ waiting' = waiting \ {s} /\ fatal' = "none"
           /\ locked' = {t \in Task : binder'[t].event # NULL}
           /\ \A t \in locked' : binder'[t].event \in events
           /\ count'[binder[s].event] = count[binder[s].event] - 1
           /\ bindlist[binder[s].event] = s =>
                 bindlist'[binder[s].event] =
                    IF count[binder[s].event] = 1 THEN NULL ELSE binder[s].next
  <1> DEFINE e == binder[s].event
  <1>1. /\ s \in Task /\ e \in Event /\ e # NULL /\ s \notin run
        /\ RingsType /\ RingsWellFormed /\ fatal = "none"
        /\ locked = {t \in Task : binder[t].event # NULL}
        /\ \A t \in locked : binder[t].event \in events
    BY ListenerState, NullAssumption
       DEF IInv, TypeOK, RingsType, NoInternalFatal, ListenersWait
  <1>2. /\ UnlinkBinder(s) /\ locked' = locked \ {s} /\ run' = run \cup {s}
        /\ waiting' = waiting \ {s} /\ fatal' = "none"
    BY <1>1 DEF UnbindEvent
  <1>3. /\ RingsType' /\ RingsWellFormed'
        /\ \A t \in Task : binder'[t].event = IF t = s THEN NULL ELSE binder[t].event
        /\ count'[e] = count[e] - 1
        /\ bindlist[e] = s => bindlist'[e] = IF count[e] = 1 THEN NULL ELSE binder[s].next
    <2> HIDE DEF e
    <2>1. binder[s].event = e
      BY DEF e
    <2> QED
      BY <1>1, <1>2, <2>1, UnlinkBinderInv
  <1> HIDE DEF e
  <1>4. locked' = {t \in Task : binder'[t].event # NULL}
    BY <1>1, <1>2, <1>3
  <1>5. \A t \in locked' : binder'[t].event \in events
    BY <1>1, <1>2, <1>3
  <1> QED
    BY <1>2, <1>3, <1>4, <1>5 DEF e

(* Nothing but the release happens, but that the task may start to close. *)
LEMMA ReleaseInv ==
    ASSUME IInv, NEW s \in locked, UnbindEvent(s), UNCHANGED <<events, evcb, tasks>>,
           closing' = closing \/ closing' = closing \cup {s},
           heard' \in HeardType
    PROVE  /\ ListenersWait' /\ RunnersExist' /\ NoInternalFatal' /\ RingsWellFormed'
           /\ call' \in [kind : {"none", "trigger", "unbindAll"}, event : Event \cup {NULL},
                          evb : Task \cup {NULL}, n : Nat] => TypeOK'
  <1>1. /\ RingsType' /\ RingsWellFormed'
        /\ locked' = locked \ {s} /\ run' = run \cup {s}
        /\ waiting' = waiting \ {s} /\ fatal' = "none"
        /\ locked' = {t \in Task : binder'[t].event # NULL}
        /\ \A t \in locked' : binder'[t].event \in events
    BY Released
  <1>2. ListenersWait'
    BY <1>1 DEF IInv, ListenersWait
  <1>3. call' \in [kind : {"none", "trigger", "unbindAll"}, event : Event \cup {NULL},
                   evb : Task \cup {NULL}, n : Nat] => TypeOK'
    BY <1>1, ListenerState DEF IInv, TypeOK, RingsType, HeardType
  <1>4. RunnersExist'
    BY <1>1, ListenerState DEF IInv, RunnersExist
  <1> QED
    BY <1>1, <1>2, <1>3, <1>4 DEF NoInternalFatal
----------------------------------------------------------------------------
(* The invariant holds at first, and every step keeps it. *)

LEMMA InitIInv == Init => IInv
  <1> SUFFICES ASSUME Init PROVE IInv
    OBVIOUS
  <1>1. TypeOK
    BY DEF Init, TypeOK, NoCallback, Callback, NoBinder, NoCall, Silence
  <1>2. RingsWellFormed
    <2> SUFFICES ASSUME NEW e \in Event
                 PROVE  \E ring \in [1..count[e] -> Task] : IsRing(e, ring)
      BY DEF RingsWellFormed
    <2>1. PICK ring : ring = [i \in 1..0 |-> NULL]
      OBVIOUS
    <2>2. count[e] = 0 /\ bindlist[e] = NULL /\ \A t \in Task : binder[t].event = NULL
      BY DEF Init, NoBinder
    <2>3. Listening(e) = {}
      BY <2>2, NullAssumption DEF Listening
    <2>4. IsRing(e, ring)
      BY <2>2, <2>3 DEF IsRing
    <2>5. ring \in [1..count[e] -> Task]
      BY <2>1, <2>2
    <2> QED
      BY <2>4, <2>5
  <1>3. ListenersWait
    BY DEF Init, ListenersWait, NoBinder
  <1> QED
    BY <1>1, <1>2, <1>3 DEF IInv, Init, RunnersExist, CallInv, NoInternalFatal, NoCall

LEMMA FetchInv ==
    ASSUME IInv, NEW answer \in Answers, NEW stop \in BOOLEAN, Fetch(answer, stop)
    PROVE  IInv'
  <1> DEFINE e == call.event
             s == call.evb
  <1>1. /\ e \in events /\ e \in Event /\ s \in Task
        /\ s = bindlist[e] /\ call.n = count[e]
    BY DEF Fetch, IInv, CallInv, TypeOK
  <1>2. RingsType /\ RingsWellFormed
    BY DEF IInv, TypeOK, RingsType
  <1>3. binder[s].event = e /\ s \in locked /\ count[e] # 0
    <2>1. bindlist[e] # NULL
      BY <1>1, NullAssumption
    <2>2. binder[s].event = e /\ count[e] # 0
      <3> HIDE DEF e, s
      <3> QED
        BY <1>1, <1>2, <2>1, EmptyRing
    <2> QED
      BY <1>1, <2>2, NullAssumption DEF IInv, ListenersWait
  <1>4. /\ UnbindEvent(s) /\ UNCHANGED <<events, evcb, tasks, closing>>
        /\ call' = IF stop \/ call.n = 1 THEN NoCall
                   ELSE [call EXCEPT !.evb = binder[s].next, !.n = @ - 1]
    BY DEF Fetch, evars, lives
  <1>5. heard' \in HeardType
    <2>1. CASE Calls(e, "TRIGGER")
      BY <2>1, <1>1, HeardTyped DEF Fetch, Scope
    <2>2. CASE ~Calls(e, "TRIGGER")
      BY <2>2, SilenceTyped DEF Fetch, Quiet
    <2> QED
      BY <2>1, <2>2
  <1>6. binder[s].next \in Task /\ count[e] - 1 \in Nat
    <2> HIDE DEF e, s
    <2>1. binder[s].next \in Task /\ count[e] > 0
      BY <1>1, <1>2, <1>3, Neighbours
    <2> QED
      BY <1>1, <1>2, <2>1 DEF RingsType
  <1>7. /\ bindlist'[e] = IF count[e] = 1 THEN NULL ELSE binder[s].next
        /\ count'[e] = count[e] - 1
    BY <1>1, <1>3, <1>4, Released
  <1>8. call' \in [kind : {"none", "trigger", "unbindAll"}, event : Event \cup {NULL},
                   evb : Task \cup {NULL}, n : Nat]
    BY <1>1, <1>4, <1>6 DEF IInv, TypeOK, NoCall
  <1>9. CallInv'
    <2>1. CASE stop \/ call.n = 1
      BY <2>1, <1>4 DEF CallInv, NoCall
    <2>2. CASE ~(stop \/ call.n = 1)
      <3>1. /\ call'.kind = "trigger" /\ call'.event = e
            /\ call'.evb = binder[s].next /\ call'.n = count[e] - 1
        BY <2>2, <1>1, <1>4 DEF Fetch, IInv, TypeOK
      <3>2. count[e] # 1
        BY <2>2, <1>1
      <3> HIDE DEF e, s
      <3> QED
        BY <3>1, <3>2, <1>1, <1>4, <1>6, <1>7 DEF CallInv
    <2> QED
      BY <2>1, <2>2
  <1> HIDE DEF e, s
  <1> QED
    BY <1>3, <1>4, <1>5, <1>8, <1>9, ReleaseInv DEF IInv

LEMMA UnbindInv ==
    ASSUME IInv, NEW e \in Event, NEW s \in Task, Unbind(e, s)
    PROVE  IInv'
  <1>1. /\ s \in locked /\ UnbindEvent(s) /\ UNCHANGED <<events, evcb, tasks, closing, call>>
        /\ heard' = UnbindCallback(s, "REQUEST")
    BY DEF Unbind, evars, lives
  <1>2. heard' \in HeardType
    BY <1>1, ListenerState, CallbackTyped DEF Scope, IInv, TypeOK, RingsType
  <1>3. /\ ListenersWait' /\ RunnersExist' /\ NoInternalFatal' /\ RingsWellFormed'
        /\ TypeOK'
    BY <1>1, <1>2, ReleaseInv DEF IInv, TypeOK
  <1>4. CallInv'
    BY <1>1 DEF IInv, CallInv, Unbind, Ready, NoCall
  <1> QED
    BY <1>3, <1>4 DEF IInv

LEMMA UnbindFirstInv ==
    ASSUME IInv, UnbindFirst
    PROVE  IInv'
  <1> DEFINE e == call.event
             s == bindlist[e]
  <1>1. e \in Event /\ s # NULL /\ RingsType /\ RingsWellFormed
    BY DEF UnbindFirst, IInv, CallInv, TypeOK, RingsType
  <1>2. s \in Task /\ binder[s].event = e
    <2> HIDE DEF e
    <2> QED
      BY <1>1, EmptyRing
  <1>3. s \in locked
    BY <1>1, <1>2, NullAssumption DEF IInv, ListenersWait
  <1>4. /\ UnbindEvent(s) /\ UNCHANGED <<events, evcb, tasks, closing, call>>
        /\ heard' = UnbindCallback(s, "REQUEST") /\ call.kind = "unbindAll"
    BY DEF UnbindFirst, evars, lives
  <1>5. heard' \in HeardType
    <2> HIDE DEF e, s
    <2> QED
      BY <1>1, <1>2, <1>4, CallbackTyped DEF Scope
  <1> HIDE DEF e, s
  <1>6. /\ ListenersWait' /\ RunnersExist' /\ NoInternalFatal' /\ RingsWellFormed'
        /\ TypeOK'
    BY <1>3, <1>4, <1>5, ReleaseInv DEF IInv, TypeOK
  <1>7. CallInv'
    BY <1>4 DEF IInv, CallInv
  <1> QED
    BY <1>6, <1>7 DEF IInv

LEMMA AbortInv ==
    ASSUME IInv, NEW s \in Task, Abort(s)
    PROVE  IInv'
  <1>1. /\ UNCHANGED <<events, evcb, tasks, call>> /\ closing' = closing \cup {s}
        /\ s \in tasks \ closing /\ call = NoCall
    BY DEF Abort, evars, Ready
  <1>2. CallInv'
    BY <1>1 DEF CallInv, NoCall
  <1>3. CASE s \in locked
    <2>1. UnbindEvent(s) /\ heard' = UnbindCallback(s, "ABORT")
      BY <1>3 DEF Abort
    <2>2. heard' \in HeardType
      BY <1>3, <2>1, ListenerState, CallbackTyped DEF Scope, IInv, TypeOK, RingsType
    <2>3. /\ ListenersWait' /\ RunnersExist' /\ NoInternalFatal' /\ RingsWellFormed'
          /\ TypeOK'
      BY <1>1, <1>3, <2>1, <2>2, ReleaseInv DEF IInv, TypeOK
    <2> QED
      BY <1>2, <2>3 DEF IInv
  <1>4. CASE s \notin locked
    <2>1. /\ run' = run \cup {s} /\ heard' = Silence
          /\ UNCHANGED <<bindlist, count, binder, locked, waiting, fatal>>
      BY <1>4 DEF Abort, rings
    <2>2. RingsWellFormed'
      BY <2>1, RingsUnchanged DEF IInv, rings
    <2>3. TypeOK'
      BY <1>1, <2>1, SilenceTyped DEF IInv, TypeOK, HeardType
    <2>4. ListenersWait'
      BY <1>1, <1>4, <2>1 DEF IInv, ListenersWait
    <2>5. RunnersExist'
      BY <1>1, <2>1 DEF IInv, RunnersExist
    <2> QED
      BY <1>2, <2>1, <2>2, <2>3, <2>4, <2>5 DEF IInv, NoInternalFatal
  <1> QED
    BY <1>3, <1>4

LEMMA ListenInv ==
    ASSUME IInv, NEW e \in Event, NEW s \in Task, Listen(s, e)
    PROVE  IInv'
  <1>1. /\ s \in run \ closing /\ e \in events /\ BindEvent(e, s)
        /\ locked' = locked \cup {s} /\ run' = run \ {s} /\ waiting' = waiting \cup {s}
        /\ UNCHANGED <<events, evcb, tasks, closing, call, fatal>>
        /\ heard' = Silence /\ call = NoCall
    BY DEF Listen, evars, lives, Quiet, Ready
  <1>2. binder[s].event = NULL /\ e # NULL
    BY <1>1, NullAssumption DEF IInv, ListenersWait
  <1>3. RingsType /\ RingsWellFormed
    BY DEF IInv, TypeOK, RingsType
  <1>4. /\ RingsType' /\ RingsWellFormed'
        /\ \A t \in Task : binder'[t].event = IF t = s THEN e ELSE binder[t].event
    BY <1>1, <1>2, <1>3, BindEventInv
  <1>5. TypeOK'
    BY <1>1, <1>4, SilenceTyped DEF IInv, TypeOK, RingsType, HeardType
  <1>6. s \in tasks
    BY <1>1 DEF IInv, RunnersExist
  <1>7. ListenersWait'
    BY <1>1, <1>2, <1>4, <1>6 DEF IInv, ListenersWait
  <1>8. CallInv'
    BY <1>1 DEF CallInv, NoCall
  <1> QED
    BY <1>1, <1>4, <1>5, <1>7, <1>8 DEF IInv, RunnersExist, NoInternalFatal

(* zm_unbindAll finds the count at 0 when it has emptied the ring. *)
LEMMA UnbindAllEndInv ==
    ASSUME IInv, UnbindAllEnd
    PROVE  IInv'
  <1>1. call.event \in Event /\ bindlist[call.event] = NULL /\ RingsType /\ RingsWellFormed
    BY DEF UnbindAllEnd, IInv, CallInv, TypeOK, RingsType
  <1>2. count[call.event] = 0
    BY <1>1, EmptyRing
  <1>3. /\ fatal' = fatal /\ call' = NoCall /\ heard' = Silence
        /\ UNCHANGED <<events, evcb, bindlist, count, binder, locked, run, waiting,
                       tasks, closing>>
    BY <1>2 DEF UnbindAllEnd, evars, rings, flags, lives, Quiet
  <1>4. RingsWellFormed'
    BY <1>1, <1>3, RingsUnchanged DEF rings
  <1>5. TypeOK'
    BY <1>3, SilenceTyped DEF IInv, TypeOK, HeardType, NoCall
  <1> QED
    BY <1>3, <1>4, <1>5 DEF IInv, ListenersWait, RunnersExist, CallInv, NoCall, NoInternalFatal

(* The steps that leave the rings and the listeners alone. *)
LEMMA EventStepInv ==
    ASSUME IInv, NEW e \in Event, NEW cb \in Callback,
           NewEvent(e, cb) \/ SetEventCB(e, cb)
    PROVE  IInv'
  <1>1. /\ events' = events \/ events' = events \cup {e}
        /\ evcb' = [evcb EXCEPT ![e] = cb] /\ heard' = Silence /\ call = NoCall
        /\ UNCHANGED <<bindlist, count, binder, locked, run, waiting, tasks, closing,
                       call, fatal>>
    BY DEF NewEvent, SetEventCB, rings, flags, lives, Quiet, Ready
  <1>2. RingsWellFormed'
    BY <1>1, RingsUnchanged DEF IInv, rings
  <1>4. TypeOK'
    BY <1>1, SilenceTyped DEF IInv, TypeOK, HeardType
  <1>5. ListenersWait'
    BY <1>1 DEF IInv, ListenersWait
  <1> QED
    BY <1>1, <1>2, <1>4, <1>5 DEF IInv, RunnersExist, CallInv, NoCall, NoInternalFatal

(* Nobody listens to an event that is freed. *)
LEMMA FreeEventInv ==
    ASSUME IInv, NEW e \in Event, FreeEvent(e)
    PROVE  IInv'
  <1>1. /\ events' = events \ {e} /\ count[e] = 0 /\ call = NoCall
        /\ UNCHANGED <<evcb, bindlist, count, binder, locked, run, waiting, tasks, closing,
                       call, fatal>>
    BY DEF FreeEvent, rings, flags, lives, Ready
  <1>2. RingsWellFormed'
    BY <1>1, RingsUnchanged DEF IInv, rings
  <1>3. heard' \in HeardType
    BY HeardTyped, SilenceTyped DEF FreeEvent, Scope
  <1>4. TypeOK'
    BY <1>1, <1>3 DEF IInv, TypeOK, HeardType
  <1>5. \A t \in Task : binder[t].event # e
    BY <1>1, EmptyRing DEF IInv, TypeOK, RingsType
  <1>6. ListenersWait'
    BY <1>1, <1>5 DEF IInv, ListenersWait, TypeOK
  <1> QED
    BY <1>1, <1>2, <1>4, <1>6 DEF IInv, RunnersExist, CallInv, NoCall, NoInternalFatal

LEMMA CallStepInv ==
    ASSUME IInv, NEW e \in Event, NEW answer \in Answers,
           Trigger(e, answer) \/ UnbindAll(e)
    PROVE  IInv'
  <1>1. /\ e \in events
        /\ UNCHANGED <<events, evcb, bindlist, count, binder, locked, run, waiting,
                       tasks, closing, fatal>>
    BY DEF Trigger, UnbindAll, evars, rings, flags, lives
  <1>2. RingsWellFormed'
    BY <1>1, RingsUnchanged DEF IInv, rings
  <1>3. heard' \in HeardType
    BY HeardTyped, SilenceTyped DEF Trigger, UnbindAll, Quiet, Scope
  <1>4. \/ call' = NoCall
        \/ call' = [kind |-> "trigger", event |-> e, evb |-> bindlist[e], n |-> count[e]]
             /\ bindlist[e] # NULL
        \/ call' = [kind |-> "unbindAll", event |-> e, evb |-> NULL, n |-> 0]
    BY DEF Trigger, UnbindAll, NoCall
  <1>5. bindlist[e] \in Task \cup {NULL} /\ count[e] \in Nat
    BY DEF IInv, TypeOK
  <1>6. TypeOK'
    BY <1>1, <1>3, <1>4, <1>5 DEF IInv, TypeOK, HeardType, NoCall
  <1>7. CallInv'
    BY <1>1, <1>4, <1>5 DEF CallInv, NoCall
  <1>8. ListenersWait'
    BY <1>1 DEF IInv, ListenersWait
  <1> QED
    BY <1>1, <1>2, <1>6, <1>7, <1>8 DEF IInv, RunnersExist, NoInternalFatal

LEMMA TaskStepInv ==
    ASSUME IInv, NEW s \in Task, NewTask(s) \/ Resume(s) \/ Suspend(s) \/ End(s)
    PROVE  IInv'
  <1>1. /\ UNCHANGED <<events, evcb, bindlist, count, binder, locked, waiting, call, fatal>>
        /\ heard' = Silence
    BY DEF NewTask, Resume, Suspend, End, evars, rings, flags, lives, Quiet
  <1>2. /\ run' \subseteq run \cup {s} /\ closing' \subseteq closing
        /\ tasks' \subseteq tasks \cup {s} /\ tasks \ {s} \subseteq tasks'
        /\ s \in locked => s \notin run' /\ s \in tasks'
        /\ run' \subseteq tasks'
    BY DEF NewTask, Resume, Suspend, End, IInv, RunnersExist, ListenersWait, evars, rings, flags, lives
  <1>3. RingsWellFormed'
    BY <1>1, RingsUnchanged DEF IInv, rings
  <1>4. TypeOK'
    BY <1>1, <1>2, SilenceTyped DEF IInv, TypeOK, HeardType
  <1>5. ListenersWait'
    BY <1>1, <1>2 DEF IInv, ListenersWait
  <1> QED
    BY <1>1, <1>2, <1>3, <1>4, <1>5 DEF IInv, RunnersExist, CallInv, NoInternalFatal

LEMMA StutterInv ==
    ASSUME IInv, UNCHANGED vars
    PROVE  IInv'
  <1>1. RingsWellFormed'
    BY RingsUnchanged DEF IInv, vars, rings
  <1> QED
    BY <1>1 DEF IInv, TypeOK, ListenersWait, RunnersExist, CallInv, NoInternalFatal, vars

LEMMA NextInv == IInv /\ [Next]_vars => IInv'
  <1> SUFFICES ASSUME IInv, [Next]_vars PROVE IInv'
    OBVIOUS
  <1>1. CASE Loops
    BY <1>1, FetchInv, UnbindFirstInv, UnbindAllEndInv DEF Loops
  <1>2. ASSUME NEW e \in Event, EventCalls(e) PROVE IInv'
    <2>1. ASSUME NEW cb \in Callbacks, NewEvent(e, cb) \/ SetEventCB(e, cb) PROVE IInv'
      BY <2>1, CallbackAssumption, EventStepInv
    <2>2. CASE FreeEvent(e)
      BY <2>2, FreeEventInv
    <2>3. CASE UnbindAll(e)
      <3>1. PICK answer : answer \in Answers
        BY DEF Answers
      <3> QED
        BY <2>3, <3>1, CallStepInv
    <2>4. ASSUME NEW answer \in Answers, Trigger(e, answer) PROVE IInv'
      BY <2>4, CallStepInv
    <2>5. ASSUME NEW s \in Task, Unbind(e, s) PROVE IInv'
      BY <2>5, UnbindInv
    <2>6. ASSUME NEW s \in Task, Listen(s, e) PROVE IInv'
      BY <2>6, ListenInv
    <2> QED
      BY <1>2, <2>1, <2>2, <2>3, <2>4, <2>5, <2>6 DEF EventCalls
  <1>3. ASSUME NEW s \in Task, TaskCalls(s) PROVE IInv'
    BY <1>3, AbortInv, TaskStepInv DEF TaskCalls
  <1>4. CASE UNCHANGED vars
    BY <1>4, StutterInv
  <1> QED
    BY <1>1, <1>2, <1>3, <1>4 DEF Next

(* The invariant of Events. *)
THEOREM Invariance == Spec => []IInv
  BY InitIInv, NextInv, PTL DEF Spec

(* Every variable keeps its type. *)
THEOREM TypeCorrect == Spec => []TypeOK
  <1>1. IInv => TypeOK
    BY DEF IInv
  <1> QED
    BY <1>1, Invariance, PTL

(* No task is released or resumed twice by the loops of zm_trigger and     *)
(* zm_unbindAll, by zm_unbind or by the close of a task, and the count of  *)
(* an event is 0 when its ring is empty.                                   *)
THEOREM NoCheckFails == Spec => []NoInternalFatal
  <1>1. IInv => NoInternalFatal
    BY DEF IInv
  <1> QED
    BY <1>1, Invariance, PTL

(* The binders of an event are one doubly linked cycle, count of them,     *)
(* whatever the order in which they are linked and released.               *)
THEOREM RingsStayWhole == Spec => []RingsWellFormed
  <1>1. IInv => RingsWellFormed
    BY DEF IInv
  <1> QED
    BY <1>1, Invariance, PTL

(* A task has a binder as long as it waits for an event, and only then. *)
THEOREM ListenersAlwaysWait == Spec => []ListenersWait
  <1>1. IInv => ListenersWait
    BY DEF IInv
  <1> QED
    BY <1>1, Invariance, PTL

----------------------------------------------------------------------------
(* The rings implement the queues of Listeners. The queue of an event is   *)
(* what a walk around its ring meets. That a walk can meet nothing else is *)
(* proved from the least place where two walks would differ.               *)

Less == {p \in Nat \X Nat : p[1] < p[2]}

LEMMA LessWellFounded == IsWellFoundedOn(Less, Nat)
  <1>1. Less = OpToRel(<, Nat)
    BY DEF Less, OpToRel
  <1> QED
    BY <1>1, NatLessThanWellFounded

(* A set of numbers that is not empty has a least one. *)
LEMMA Least ==
    ASSUME NEW T \in SUBSET Nat, T # {}
    PROVE  \E m \in T : \A k \in T : m <= k
  <1>1. PICK m \in T : \A k \in T : <<k, m>> \notin Less
    BY LessWellFounded, WFMin
  <1>2. \A k \in T : ~(k < m)
    BY <1>1 DEF Less
  <1> QED
    BY <1>1, <1>2

(* q is a walk of n binders from s. *)
IsWalk(s, n, q) ==
    \A i \in 1..n : q[i] = IF i = 1 THEN s
                           ELSE IF q[i - 1] = NULL THEN NULL ELSE binder[q[i - 1]].next

LEMMA WalkUnique ==
    ASSUME NEW n \in Nat, NEW s, NEW A, NEW B, NEW q \in [1..n -> A], NEW r \in [1..n -> B],
           IsWalk(s, n, q), IsWalk(s, n, r)
    PROVE  q = r
  <1> DEFINE D == {i \in 1..n : q[i] # r[i]}
  <1>1. CASE D = {}
    <2>1. \A i \in 1..n : q[i] = r[i]
      BY <1>1
    <2>2. q \in [1..n -> A \cup B] /\ r \in [1..n -> A \cup B]
      OBVIOUS
    <2> QED
      BY <2>1, <2>2
  <1>2. CASE D # {}
    <2>1. PICK m \in D : \A k \in D : m <= k
      <3>1. D \in SUBSET Nat
        OBVIOUS
      <3> HIDE DEF D
      <3> QED
        BY <1>2, <3>1, Least
    <2>2. m \in 1..n /\ q[m] # r[m]
      BY <2>1
    <2>3. CASE m = 1
      BY <2>2, <2>3 DEF IsWalk
    <2>4. CASE m # 1
      <3>1. m - 1 \in 1..n /\ m - 1 \notin D
        BY <2>1, <2>2, <2>4
      <3>2. q[m - 1] = r[m - 1]
        BY <3>1
      <3> QED
        BY ZenonT(40), <2>2, <2>4, <3>2 DEF IsWalk
    <2> QED
      BY <2>3, <2>4
  <1> QED
    BY <1>1, <1>2

LEMMA WalkIsRing ==
    ASSUME RingsType, NEW e \in Event, NEW r \in [1..count[e] -> Task], IsRing(e, r)
    PROVE  Walk(bindlist[e], count[e]) = r
  <1> DEFINE n == count[e]
             s == bindlist[e]
  <1>1. n \in Nat
    BY DEF RingsType
  <1>2. IsWalk(s, n, r)
    <2> SUFFICES ASSUME NEW i \in 1..n
                 PROVE  r[i] = IF i = 1 THEN s
                               ELSE IF r[i - 1] = NULL THEN NULL ELSE binder[r[i - 1]].next
      BY DEF IsWalk
    <2>1. CASE i = 1
      BY <1>1, <2>1 DEF IsRing
    <2>2. CASE i # 1
      <3>1. i - 1 \in 1..n /\ i - 1 # n /\ (i - 1) + 1 = i
        BY <1>1, <2>2
      <3>2. r[i - 1] # NULL
        BY <3>1, NullAssumption
      <3>3. binder[r[i - 1]].next = r[(i - 1) + 1]
        BY <3>1 DEF IsRing
      <3> QED
        BY <2>2, <3>1, <3>2, <3>3
    <2> QED
      BY <2>1, <2>2
  <1>3. Walk(s, n) = CHOOSE q \in [1..n -> Task \cup {NULL}] : IsWalk(s, n, q)
    BY DEF Walk, IsWalk
  <1>4. r \in [1..n -> Task \cup {NULL}]
    OBVIOUS
  <1> HIDE DEF n, s
  <1>5. Walk(s, n) \in [1..n -> Task \cup {NULL}] /\ IsWalk(s, n, Walk(s, n))
    BY <1>2, <1>3, <1>4
  <1>6. Walk(s, n) = r
    BY <1>1, <1>2, <1>4, <1>5, WalkUnique
  <1> QED
    BY <1>6 DEF n, s
----------------------------------------------------------------------------
(* The refinement mapping. *)

queue == [e \in Event |-> Walk(bindlist[e], count[e])]
offer == IF call.kind = "trigger" THEN Walk(call.evb, call.n) ELSE <<>>

(* The queue of an event is its ring, and a trigger offers the event to    *)
(* all the tasks that are left in its queue.                               *)
Mapped ==
    /\ \A e \in Event : \A r \in [1..count[e] -> Task] : IsRing(e, r) => queue[e] = r
    /\ call.kind # "trigger" => offer = <<>>
    /\ call.kind = "trigger" => offer = queue[call.event]

LEMMA IsMapped == IInv => Mapped
  <1> SUFFICES ASSUME IInv PROVE Mapped
    OBVIOUS
  <1>1. ASSUME NEW e \in Event, NEW r \in [1..count[e] -> Task], IsRing(e, r)
        PROVE  queue[e] = r
    BY <1>1, WalkIsRing DEF IInv, TypeOK, RingsType, queue
  <1>2. ASSUME call.kind = "trigger" PROVE offer = queue[call.event]
    BY <1>2 DEF IInv, CallInv, TypeOK, offer, queue
  <1> QED
    BY <1>1, <1>2 DEF Mapped, offer

LEMMA IsMappedNext == IInv' => Mapped'
  BY IsMapped, PTL

(* The queues and the rings, as functions on 1..n. *)
LEMMA SequenceOfRing ==
    ASSUME NEW n \in Nat, NEW r \in [1..n -> Task]
    PROVE  r \in Seq(Task) /\ Len(r) = n /\ DOMAIN r = 1..n
  <1>1. r \in Seq(Task)
    BY Zenon, SeqDef
  <1> QED
    BY <1>1

LEMMA AppendedIs ==
    ASSUME NEW n \in Nat, NEW r \in [1..n -> Task], NEW s \in Task,
           NEW q \in [1..(n + 1) -> Task], Appended(r, s, n, q)
    PROVE  q = Append(r, s)
  <1>1. /\ Append(r, s) \in Seq(Task) /\ Len(Append(r, s)) = n + 1
        /\ \A i \in 1..(n + 1) : Append(r, s)[i] = IF i = n + 1 THEN s ELSE r[i]
    BY SequenceOfRing, AppendProperties
  <1>2. q \in Seq(Task) /\ Len(q) = n + 1
    BY SequenceOfRing
  <1> QED
    BY <1>1, <1>2, SeqEqual DEF Appended

LEMMA RemovedIs ==
    ASSUME NEW n \in Nat, NEW k \in 1..n, NEW r \in [1..n -> Task],
           NEW q \in [1..(n - 1) -> Task], Removed(r, k, n, q)
    PROVE  q = RemoveAt(r, k)
  <1>1. r \in Seq(Task) /\ Len(r) = n /\ q \in Seq(Task) /\ Len(q) = n - 1
    BY SequenceOfRing
  <1> DEFINE front == SubSeq(r, 1, k - 1)
             back  == SubSeq(r, k + 1, n)
  <1>2. /\ front \in Seq(Task) /\ Len(front) = k - 1
        /\ \A i \in 1..(k - 1) : front[i] = r[i]
    <2>1. k - 1 \in Int /\ 1 \in Int /\ \A i \in 1..(k - 1) : r[i] \in Task
      OBVIOUS
    <2>2. /\ front \in Seq(Task) /\ Len(front) = IF 1 <= k - 1 THEN (k - 1) - 1 + 1 ELSE 0
          /\ \A i \in 1..((k - 1) - 1 + 1) : front[i] = r[1 + i - 1]
      BY <2>1, SubSeqProperties
    <2> HIDE DEF front
    <2>3. (k - 1) - 1 + 1 = k - 1 /\ \A i \in 1..(k - 1) : 1 + i - 1 = i
      OBVIOUS
    <2> QED
      BY <2>2, <2>3
  <1>3. /\ back \in Seq(Task) /\ Len(back) = n - k
        /\ \A i \in 1..(n - k) : back[i] = r[k + i]
    <2>1. k + 1 \in Int /\ n \in Int /\ \A i \in (k + 1)..n : r[i] \in Task
      OBVIOUS
    <2>2. /\ back \in Seq(Task) /\ Len(back) = IF k + 1 <= n THEN n - (k + 1) + 1 ELSE 0
          /\ \A i \in 1..(n - (k + 1) + 1) : back[i] = r[(k + 1) + i - 1]
      BY <2>1, SubSeqProperties
    <2> HIDE DEF back
    <2>3. n - (k + 1) + 1 = n - k /\ \A i \in 1..(n - k) : (k + 1) + i - 1 = k + i
      OBVIOUS
    <2> QED
      BY <2>2, <2>3
  <1>4. RemoveAt(r, k) = front \o back
    BY <1>1 DEF RemoveAt
  <1> HIDE DEF front, back
  <1>5. /\ front \o back \in Seq(Task) /\ Len(front \o back) = n - 1
        /\ \A i \in 1..(n - 1) : (front \o back)[i] = IF i <= k - 1 THEN front[i]
                                                       ELSE back[i - (k - 1)]
    <2>1. /\ front \o back \in Seq(Task) /\ Len(front \o back) = Len(front) + Len(back)
          /\ \A i \in 1..(Len(front) + Len(back)) :
                (front \o back)[i] = IF i <= Len(front) THEN front[i] ELSE back[i - Len(front)]
      BY <1>2, <1>3, ConcatProperties
    <2>2. Len(front) = k - 1 /\ Len(front) + Len(back) = n - 1
      BY <1>2, <1>3
    <2> QED
      BY <2>1, <2>2
  <1>6. ASSUME NEW i \in 1..(n - 1)
        PROVE  (front \o back)[i] = q[i]
    <2>1. CASE i < k
      <3>1. i \in 1..(k - 1) /\ i <= k - 1 /\ q[i] = r[i]
        BY <2>1 DEF Removed, Skip
      <3> QED
        BY <3>1, <1>2, <1>5
    <2>2. CASE ~(i < k)
      <3>1. q[i] = r[i + 1] /\ ~(i <= k - 1)
        BY <2>2 DEF Removed, Skip
      <3>2. i - (k - 1) \in 1..(n - k) /\ k + (i - (k - 1)) = i + 1
        BY <2>2
      <3>3. back[i - (k - 1)] = r[i + 1]
        BY <1>3, <3>2
      <3>4. (front \o back)[i] = back[i - (k - 1)]
        BY <1>5, <3>1
      <3> QED
        BY <3>1, <3>3, <3>4
    <2> QED
      BY <2>1, <2>2
  <1> QED
    BY <1>1, <1>4, <1>5, <1>6, SeqEqual
LEMMA FirstRemoved ==
    ASSUME NEW r \in Seq(Task), r # <<>>
    PROVE  RemoveAt(r, 1) = Tail(r)
  <1>1. SubSeq(r, 1, 1 - 1) = <<>>
    BY SubSeqEmpty
  <1>2. SubSeq(r, 1 + 1, Len(r)) = Tail(r) /\ Tail(r) \in Seq(Task)
    BY TailIsSubSeq, HeadTailProperties
  <1>3. RemoveAt(r, 1) = <<>> \o Tail(r)
    BY <1>1, <1>2 DEF RemoveAt
  <1> QED
    BY <1>2, <1>3, ConcatEmptySeq
----------------------------------------------------------------------------
(* What the operations on the rings do to the queues. *)

LEMMA QueuesFollow ==
    ASSUME IInv, IInv', NEW e \in Event, OthersKept(e), NEW v, queue'[e] = v
    PROVE  queue' = [queue EXCEPT ![e] = v]
  <1>1. ASSUME NEW f \in Event, f # e
        PROVE  queue'[f] = queue[f]
    <2>1. PICK r \in [1..count[f] -> Task] : IsRing(f, r)
      BY DEF IInv, RingsWellFormed
    <2>2. count'[f] = count[f] /\ IsRing(f, r)'
      BY <1>1, <2>1 DEF OthersKept
    <2>3. queue[f] = r
      BY <2>1, IsMapped DEF Mapped
    <2>4. queue'[f] = r
      BY <2>2, IsMappedNext DEF Mapped
    <2> QED
      BY <2>3, <2>4
  <1>2. queue = [f \in Event |-> queue[f]] /\ queue' = [f \in Event |-> queue'[f]]
    BY DEF queue
  <1> HIDE DEF queue
  <1> QED
    BY <1>1, <1>2

LEMMA QueuesBound ==
    ASSUME IInv, IInv', NEW e \in Event, NEW s \in Task,
           binder[s].event = NULL, BindEvent(e, s)
    PROVE  queue' = [queue EXCEPT ![e] = Append(queue[e], s)]
  <1>1. PICK r \in [1..count[e] -> Task] : IsRing(e, r)
    BY DEF IInv, RingsWellFormed
  <1>2. RingsType /\ count[e] \in Nat
    BY DEF IInv, TypeOK, RingsType
  <1>3. OthersKept(e)
    BY <1>1, <1>2, BoundRings
  <1>4. PICK q \in [1..count'[e] -> Task] : IsRing(e, q)' /\ Appended(r, s, count[e], q)
    BY <1>1, <1>2, BoundRings
  <1>5. count'[e] = count[e] + 1
    BY <1>2 DEF BindEvent, RingsType
  <1>6. q = Append(r, s)
    BY <1>2, <1>4, <1>5, AppendedIs
  <1>7. queue[e] = r
    BY <1>1, IsMapped DEF Mapped
  <1>8. queue'[e] = q
    BY <1>4, IsMappedNext DEF Mapped
  <1> HIDE DEF queue
  <1> QED
    BY <1>3, <1>6, <1>7, <1>8, QueuesFollow

(* The first of a queue is the task that the event's bindlist refers to. *)
LEMMA QueuesUnlinked ==
    ASSUME IInv, IInv', NEW e \in Event, NEW s \in Task,
           binder[s].event = e, UnlinkBinder(s)
    PROVE  \E k \in DOMAIN queue[e] :
              /\ queue[e][k] = s
              /\ queue' = [queue EXCEPT ![e] = RemoveAt(queue[e], k)]
              /\ bindlist[e] = s => k = 1
              /\ queue[e] \in Seq(Task)
  <1>1. PICK r \in [1..count[e] -> Task] : IsRing(e, r)
    BY DEF IInv, RingsWellFormed
  <1>2. RingsType /\ count[e] \in Nat
    BY DEF IInv, TypeOK, RingsType
  <1>3. PICK k \in 1..count[e] : r[k] = s
    BY <1>1 DEF IsRing, Listening
  <1>4. OthersKept(e)
    BY <1>1, <1>2, <1>3, UnlinkRings
  <1>5. PICK q \in [1..count'[e] -> Task] : IsRing(e, q)' /\ Removed(r, k, count[e], q)
    BY <1>1, <1>2, <1>3, UnlinkRings
  <1>6. count'[e] = count[e] - 1
    BY <1>2 DEF UnlinkBinder, RingsType
  <1>7. q = RemoveAt(r, k)
    BY <1>2, <1>5, <1>6, RemovedIs
  <1>8. queue[e] = r
    BY <1>1, IsMapped DEF Mapped
  <1>9. queue'[e] = q
    BY <1>5, IsMappedNext DEF Mapped
  <1>10. r \in Seq(Task) /\ DOMAIN r = 1..count[e]
    BY <1>2, SequenceOfRing
  <1>11. bindlist[e] = s => k = 1
    <2>1. 1 \in 1..count[e] /\ bindlist[e] = r[1]
      BY <1>1, <1>2, <1>3 DEF IsRing
    <2> QED
      BY <2>1, <1>1, <1>3 DEF IsRing
  <1> HIDE DEF queue
  <1>12. queue' = [queue EXCEPT ![e] = RemoveAt(queue[e], k)]
    BY <1>4, <1>7, <1>8, <1>9, QueuesFollow
  <1> QED
    BY <1>3, <1>8, <1>10, <1>11, <1>12

LEMMA QueuesUnchanged ==
    ASSUME UNCHANGED rings
    PROVE  UNCHANGED queue
  BY DEF queue, Walk, rings
----------------------------------------------------------------------------
(* The steps of Listeners, in the terms of queue and offer. *)

LEMMA StutterStep ==
    ASSUME queue' = queue, offer' = offer
    PROVE  UNCHANGED Queues!vars
  BY DEF Queues!vars, queue, offer

LEMMA JoinStep ==
    ASSUME NEW e \in Event, NEW s \in Task, offer = <<>>, offer' = offer,
           \A f \in Event : s \notin ToSet(queue[f]),
           queue' = [queue EXCEPT ![e] = Append(queue[e], s)]
    PROVE  Queues!Next
  <1>1. Queues!Join(e, s)
    BY DEF Queues!Join, Queues!Idle, Queues!ToSet, ToSet, queue, offer
  <1> QED
    BY <1>1 DEF Queues!Next

LEMMA LeaveStep ==
    ASSUME NEW e \in Event, offer = <<>>, offer' = offer, NEW k \in DOMAIN queue[e],
           queue' = [queue EXCEPT ![e] = RemoveAt(queue[e], k)]
    PROVE  Queues!Next
  <1>1. Queues!Leave(e, k)
    BY DEF Queues!Leave, Queues!Idle, Queues!Without, Queues!RemoveAt, RemoveAt,
           queue, offer
  <1>2. k \in DOMAIN [f \in Event |-> Walk(bindlist[f], count[f])][e]
    BY DEF queue
  <1> QED
    BY <1>1, <1>2 DEF Queues!Next

LEMMA TriggerStep ==
    ASSUME NEW e \in Event, offer = <<>>, offer' = queue[e], queue' = queue
    PROVE  Queues!Next
  BY DEF Queues!Next, Queues!Trigger, Queues!Idle, queue, offer

LEMMA OfferStep ==
    ASSUME NEW e \in Event, offer # <<>>, NEW k \in DOMAIN queue[e],
           queue[e][k] = Head(offer),
           queue' = [queue EXCEPT ![e] = RemoveAt(queue[e], k)],
           offer' = Tail(offer) \/ offer' = <<>>
    PROVE  Queues!Next
  <1>1. Queues!Offer(e, k)
    BY DEF Queues!Offer, Queues!Idle, Queues!Without, Queues!RemoveAt, RemoveAt,
           queue, offer
  <1>2. k \in DOMAIN [f \in Event |-> Walk(bindlist[f], count[f])][e]
    BY DEF queue
  <1> QED
    BY <1>1, <1>2 DEF Queues!Next
----------------------------------------------------------------------------
(* Every step of Events is one of Listeners, or changes no queue. *)

LEMMA InitRefines == Init => Queues!Init
  <1> SUFFICES ASSUME Init PROVE Queues!Init
    OBVIOUS
  <1>1. ASSUME NEW e \in Event PROVE queue[e] = <<>>
    <2>1. Walk(bindlist[e], count[e]) =
            CHOOSE q \in [1..0 -> Task \cup {NULL}] : IsWalk(bindlist[e], 0, q)
      BY DEF Init, Walk, IsWalk
    <2>2. <<>> \in [1..0 -> Task \cup {NULL}] /\ IsWalk(bindlist[e], 0, <<>>)
      BY DEF IsWalk
    <2>3. Walk(bindlist[e], count[e]) \in [1..0 -> Task \cup {NULL}]
      BY <2>1, <2>2
    <2>4. Walk(bindlist[e], count[e]) = <<>>
      BY <2>3
    <2> QED
      BY <2>4 DEF queue
  <1>2. offer = <<>>
    BY DEF Init, NoCall, offer
  <1>3. queue = [e \in Event |-> <<>>]
    BY <1>1 DEF queue
  <1> QED
    BY <1>2, <1>3 DEF Queues!Init, queue, offer

LEMMA KeptStep ==
    ASSUME IInv, IInv', UNCHANGED rings,
           \/ call' = call
           \/ call.kind # "trigger" /\ call'.kind # "trigger"
    PROVE  UNCHANGED Queues!vars
  <1>1. queue' = queue
    BY QueuesUnchanged
  <1>2. CASE call' = call
    <2>1. offer' = offer
      BY <1>2 DEF offer, Walk, rings
    <2> QED
      BY <1>1, <2>1, StutterStep
  <1>3. CASE call.kind # "trigger" /\ call'.kind # "trigger"
    <2>1. offer = <<>> /\ offer' = <<>>
      BY <1>3, IsMapped, IsMappedNext DEF Mapped
    <2> QED
      BY <1>1, <2>1, StutterStep
  <1> QED
    BY <1>2, <1>3

LEMMA QuitStep ==
    ASSUME IInv, IInv', NEW s \in locked, UnbindEvent(s), call' = call,
           call.kind # "trigger"
    PROVE  Queues!Next
  <1> DEFINE e == binder[s].event
  <1>1. s \in Task /\ e \in Event /\ e # NULL
    BY ListenerState, NullAssumption
  <1>2. UnlinkBinder(s)
    BY <1>1 DEF UnbindEvent
  <1>3. offer = <<>> /\ offer' = offer
    BY IsMapped, IsMappedNext DEF Mapped
  <1>4. PICK k \in DOMAIN queue[e] : queue' = [queue EXCEPT ![e] = RemoveAt(queue[e], k)]
    <2> HIDE DEF queue, offer
    <2> QED
      BY <1>1, <1>2, QueuesUnlinked
  <1> HIDE DEF queue, offer, e
  <1> QED
    BY <1>1, <1>3, <1>4, LeaveStep

LEMMA ListenStep ==
    ASSUME IInv, IInv', NEW e \in Event, NEW s \in Task, Listen(s, e)
    PROVE  Queues!Next
  <1>1. /\ BindEvent(e, s) /\ s \in run /\ call = NoCall /\ call' = call
    BY DEF Listen, Ready
  <1>2. binder[s].event = NULL
    BY <1>1 DEF IInv, ListenersWait
  <1>3. offer = <<>> /\ offer' = offer
    BY <1>1, IsMapped, IsMappedNext DEF Mapped, NoCall
  <1>4. ASSUME NEW f \in Event PROVE s \notin ToSet(queue[f])
    <2>1. PICK r \in [1..count[f] -> Task] : IsRing(f, r)
      BY DEF IInv, RingsWellFormed
    <2>2. queue[f] = r
      BY <2>1, IsMapped DEF Mapped
    <2>3. \A i \in 1..count[f] : binder[r[i]].event = f
      BY <2>1 DEF IsRing, Listening
    <2>4. f # NULL
      BY NullAssumption
    <2> HIDE DEF queue
    <2> QED
      BY <1>2, <2>2, <2>3, <2>4 DEF ToSet
  <1>5. queue' = [queue EXCEPT ![e] = Append(queue[e], s)]
    BY <1>1, <1>2, QueuesBound
  <1> HIDE DEF queue, offer
  <1> QED
    BY <1>3, <1>4, <1>5, JoinStep

LEMMA TriggerCallStep ==
    ASSUME IInv, IInv', NEW e \in Event, NEW answer \in Answers, Trigger(e, answer)
    PROVE  [Queues!Next]_(Queues!vars)
  <1>1. UNCHANGED rings /\ call = NoCall
    BY DEF Trigger, Ready
  <1>2. CASE call' = NoCall
    BY <1>1, <1>2, KeptStep
  <1>3. CASE call' # NoCall
    <2>1. call' = [kind |-> "trigger", event |-> e, evb |-> bindlist[e], n |-> count[e]]
      BY <1>3 DEF Trigger
    <2>2. offer = <<>>
      BY <1>1, IsMapped DEF Mapped, NoCall
    <2>3. queue' = queue
      BY <1>1, QueuesUnchanged
    <2>4. offer' = queue'[e]
      BY <2>1, IsMappedNext DEF Mapped
    <2> HIDE DEF queue, offer
    <2>5. offer' = queue[e]
      BY <2>3, <2>4
    <2> QED
      BY <2>2, <2>3, <2>5, TriggerStep
  <1> QED
    BY <1>2, <1>3

(* The task that a trigger reaches is the first of the queue. *)
LEMMA FetchStep ==
    ASSUME IInv, IInv', NEW answer \in Answers, NEW stop \in BOOLEAN, Fetch(answer, stop)
    PROVE  Queues!Next
  <1> DEFINE e == call.event
             s == call.evb
  <1>1. /\ e \in Event /\ s \in Task /\ s = bindlist[e] /\ call.kind = "trigger"
        /\ RingsType /\ RingsWellFormed
    BY DEF Fetch, IInv, CallInv, TypeOK, RingsType
  <1>2. binder[s].event = e /\ e # NULL
    <2>1. bindlist[e] # NULL /\ e # NULL
      BY <1>1, NullAssumption
    <2> HIDE DEF e, s
    <2> QED
      BY <1>1, <2>1, EmptyRing
  <1>3. UnlinkBinder(s) /\ s \in locked
    BY <1>1, <1>2 DEF Fetch, UnbindEvent, IInv, ListenersWait
  <1>4. PICK k \in DOMAIN queue[e] :
           /\ queue[e][k] = s
           /\ queue' = [queue EXCEPT ![e] = RemoveAt(queue[e], k)]
           /\ k = 1 /\ queue[e] \in Seq(Task)
    <2> HIDE DEF e, s, queue
    <2> QED
      BY <1>1, <1>2, <1>3, QueuesUnlinked
  <1>5. offer = queue[e] /\ offer # <<>> /\ queue[e][k] = Head(offer)
    <2>1. offer = queue[e]
      BY <1>1, IsMapped DEF Mapped
    <2> HIDE DEF e, queue, offer
    <2>2. queue[e] # <<>>
      BY <1>4
    <2>3. Head(queue[e]) = queue[e][1]
      BY <1>4, <2>2
    <2> QED
      BY <1>4, <2>1, <2>2, <2>3
  <1>6. offer' = Tail(offer) \/ offer' = <<>>
    <2>1. CASE stop \/ call.n = 1
      <3>1. call'.kind # "trigger"
        BY <2>1 DEF Fetch, NoCall
      <3> QED
        BY <3>1, IsMappedNext DEF Mapped
    <2>2. CASE ~(stop \/ call.n = 1)
      <3>1. call'.kind = "trigger" /\ call'.event = e
        BY <2>2, <1>1 DEF Fetch, IInv, TypeOK
      <3>2. offer' = queue'[e]
        BY <3>1, IsMappedNext DEF Mapped
      <3>3. DOMAIN queue = Event
        BY DEF queue
      <3> HIDE DEF e, s, queue, offer
      <3>4. offer' = RemoveAt(queue[e], 1)
        BY <1>1, <1>4, <3>2, <3>3
      <3>5. RemoveAt(queue[e], 1) = Tail(queue[e])
        BY <1>4, <1>5, FirstRemoved
      <3> QED
        BY <1>5, <3>4, <3>5
    <2> QED
      BY <2>1, <2>2
  <1> HIDE DEF e, queue, offer
  <1> QED
    BY <1>1, <1>4, <1>5, <1>6, OfferStep

LEMMA NextRefines ==
    ASSUME IInv, IInv', [Next]_vars
    PROVE  [Queues!Next]_(Queues!vars)
  <1>1. ASSUME NEW answer \in Answers, NEW stop \in BOOLEAN, Fetch(answer, stop)
        PROVE  Queues!Next
    BY <1>1, FetchStep
  <1>2. CASE UnbindFirst
    <2>1. /\ UnbindEvent(bindlist[call.event]) /\ call' = call /\ call.kind # "trigger"
          /\ call.event \in Event /\ bindlist[call.event] # NULL
          /\ RingsType /\ RingsWellFormed
      BY <1>2 DEF UnbindFirst, IInv, CallInv, TypeOK, RingsType
    <2>2. bindlist[call.event] \in locked
      BY <2>1, EmptyRing, NullAssumption DEF IInv, ListenersWait
    <2> QED
      BY <2>1, <2>2, QuitStep
  <1>3. CASE UnbindAllEnd
    <2>1. UNCHANGED rings /\ call.kind = "unbindAll" /\ call' = NoCall
      BY <1>3 DEF UnbindAllEnd
    <2> QED
      BY <2>1, KeptStep DEF NoCall
  <1>4. ASSUME NEW e \in Event, EventCalls(e)
        PROVE  [Queues!Next]_(Queues!vars)
    <2>1. ASSUME NEW cb \in Callbacks, NewEvent(e, cb) \/ SetEventCB(e, cb)
          PROVE  UNCHANGED Queues!vars
      BY <2>1, KeptStep DEF NewEvent, SetEventCB
    <2>2. CASE FreeEvent(e)
      BY <2>2, KeptStep DEF FreeEvent
    <2>3. CASE UnbindAll(e)
      <3>1. UNCHANGED rings /\ call = NoCall /\ call' = [NoCall EXCEPT !.kind = "unbindAll", !.event = e]
        BY <2>3 DEF UnbindAll, Ready
      <3> QED
        BY <3>1, KeptStep DEF NoCall
    <2>4. ASSUME NEW answer \in Answers, Trigger(e, answer)
          PROVE  [Queues!Next]_(Queues!vars)
      BY <2>4, TriggerCallStep
    <2>5. ASSUME NEW s \in Task, Unbind(e, s)
          PROVE  Queues!Next
      <3>1. s \in locked /\ UnbindEvent(s) /\ call' = call /\ call.kind # "trigger"
        BY <2>5 DEF Unbind, Ready, NoCall
      <3> QED
        BY <3>1, QuitStep
    <2>6. ASSUME NEW s \in Task, Listen(s, e)
          PROVE  Queues!Next
      BY <2>6, ListenStep
    <2> QED
      BY <1>4, <2>1, <2>2, <2>3, <2>4, <2>5, <2>6 DEF EventCalls
  <1>5. ASSUME NEW s \in Task, TaskCalls(s)
        PROVE  [Queues!Next]_(Queues!vars)
    <2>1. CASE NewTask(s) \/ Resume(s) \/ Suspend(s) \/ End(s)
      BY <2>1, KeptStep DEF NewTask, Resume, Suspend, End
    <2>2. CASE Abort(s) /\ s \in locked
      <3>1. UnbindEvent(s) /\ call' = call /\ call.kind # "trigger"
        BY <2>2 DEF Abort, Ready, NoCall
      <3> QED
        BY <2>2, <3>1, QuitStep
    <2>3. CASE Abort(s) /\ s \notin locked
      BY <2>3, KeptStep DEF Abort
    <2> QED
      BY <1>5, <2>1, <2>2, <2>3 DEF TaskCalls
  <1>6. CASE UNCHANGED vars
    BY <1>6, KeptStep DEF vars, rings
  <1> QED
    BY <1>1, <1>2, <1>3, <1>4, <1>5, <1>6 DEF Next, Loops

(* The rings of Events implement the queues of Listeners: a trigger offers *)
(* the event to those that listen when it begins, once each and in the     *)
(* order in which they began to listen, and whoever is released otherwise  *)
(* leaves the others where they are.                                       *)
THEOREM RingsAreQueues == Spec => ImplementsListeners
  <1>1. Init => Queues!Init
    BY InitRefines
  <1>2. IInv /\ IInv' /\ [Next]_vars => [Queues!Next]_(Queues!vars)
    BY NextRefines
  <1>3. Spec => Queues!Spec
    BY <1>1, <1>2, Invariance, PTL DEF Spec, Queues!Spec
  <1> QED
    BY <1>3 DEF ImplementsListeners
=============================================================================
