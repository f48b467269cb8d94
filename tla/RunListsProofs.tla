--------------------------- MODULE RunListsProofs ---------------------------
(***************************************************************************)
(* What the operators of RunLists do to a well-formed list and to a        *)
(* well-formed ring.                                                       *)
(***************************************************************************)
EXTENDS RunLists, TLAPS

(* g and h differ in neither the session, nor the lists and the flags. *)
SameSession(g, h) ==
    /\ g.sstate = h.sstate /\ g.sworker = h.sworker
    /\ g.suspendop = h.suspendop

SameLists(g, h) ==
    /\ g.next = h.next /\ g.run = h.run /\ g.waiting = h.waiting
    /\ g.first = h.first /\ g.current = h.current
    /\ g.previous = h.previous /\ g.nstate = h.nstate
    /\ g.fatal = h.fatal
    /\ SameSession(g, h)

(* Sequences of length n as functions: s after the first k elements, all   *)
(* but the j-th, and the first element as the last one.                    *)
Inserted(q, n, k, s) ==
    [i \in 1..(n + 1) |-> IF i <= k THEN q[i] ELSE IF i = k + 1 THEN s ELSE q[i - 1]]
Single(s)        == [i \in 1..1 |-> s]
Without(q, n, j) == [i \in 1..(n - 1) |-> IF i < j THEN q[i] ELSE q[i + 1]]
Appended(r, n, w) == [i \in 1..(n + 1) |-> IF i = n + 1 THEN w ELSE r[i]]
Rotated(r, n)    == [i \in 1..n |-> IF i = n THEN r[1] ELSE r[i + 1]]

(* The list of w is q and its cursor has passed the first k of its tasks,  *)
(* which are those of S.                                                   *)
Shows(h, w, S, q, k) ==
    /\ q \in [1..h.nstate[w] -> Task] /\ k \in 0..h.nstate[w]
    /\ IsRunList(h, w, S, q, k)

ShowsRing(h, M, r) == r \in [1..h.nworker -> Machine] /\ IsRing(h, M, r)

(* The list of w depends on the fields of w and on its members only. *)
LEMMA ListFrame ==
    ASSUME NEW h, NEW g, NEW w \in Machine, NEW S,
           HasRunList(h, w, S),
           g.first[w] = h.first[w], g.current[w] = h.current[w],
           g.previous[w] = h.previous[w], g.nstate[w] = h.nstate[w],
           \A t \in S : g.next[t] = h.next[t]
    PROVE  HasRunList(g, w, S)
  <1>1. PICK q \in [1..h.nstate[w] -> Task], k \in 0..h.nstate[w] :
             IsRunList(h, w, S, q, k)
    BY DEF HasRunList
  <1>2. IsRunList(g, w, S, q, k)
    BY <1>1 DEF IsRunList
  <1> QED
    BY <1>2 DEF HasRunList

(* The cursor moves on: the list is the same. *)
LEMMA NextList ==
    ASSUME NEW h \in HeapType, NEW w \in Machine, NEW S,
           NEW q, NEW k, Shows(h, w, S, q, k), h.current[w] # NULL
    PROVE  /\ k + 1 \in 0..h.nstate[w] /\ h.current[w] = q[k + 1]
           /\ StateNext(h, w).nstate[w] = h.nstate[w]
           /\ IsRunList(StateNext(h, w), w, S, q, k + 1)
  <1> DEFINE g == StateNext(h, w)
  <1>1. /\ q \in [1..h.nstate[w] -> Task] /\ k \in 0..h.nstate[w]
        /\ IsRunList(h, w, S, q, k)
    BY DEF Shows
  <1> USE <1>1
  <1>2. /\ g.first = h.first /\ g.nstate = h.nstate /\ g.next = h.next
        /\ g.previous[w] = h.current[w]
        /\ g.current[w] = h.next[h.current[w]]
    BY DEF StateNext, HeapType
  <1>3. h.nstate[w] \in Nat
    BY DEF HeapType
  <1>4. k < h.nstate[w] /\ h.current[w] = q[k + 1]
    BY <1>3 DEF IsRunList
  <1>5. k + 1 \in 1..h.nstate[w]
    BY <1>3, <1>4
  <1>6. IsRunList(g, w, S, q, k + 1)
    BY <1>2, <1>3, <1>4, <1>5 DEF IsRunList
  <1> QED
    BY <1>2, <1>3, <1>4, <1>5, <1>6

LEMMA NextKeepsList ==
    ASSUME NEW h \in HeapType, NEW w \in Machine, NEW S,
           HasRunList(h, w, S), h.current[w] # NULL
    PROVE  HasRunList(StateNext(h, w), w, S)
  <1>1. PICK q \in [1..h.nstate[w] -> Task], k \in 0..h.nstate[w] :
             IsRunList(h, w, S, q, k)
    BY DEF HasRunList
  <1>2. /\ k + 1 \in 0..h.nstate[w] /\ StateNext(h, w).nstate[w] = h.nstate[w]
        /\ IsRunList(StateNext(h, w), w, S, q, k + 1)
    <2>1. Shows(h, w, S, q, k)
      BY <1>1 DEF Shows
    <2> QED
      BY <2>1, NextList
  <1> QED
    BY <1>2 DEF HasRunList

(* The cursor goes back to the head: the list is the same, and no check    *)
(* fails if the members run.                                               *)
LEMMA RewindList ==
    ASSUME NEW h \in HeapType, NEW w \in Machine, NEW S, S \subseteq h.run,
           NEW q, NEW k, Shows(h, w, S, q, k)
    PROVE  LET g == RewindWorkerStates(h, w)
           IN  /\ g.nstate[w] = h.nstate[w] /\ 0 \in 0..h.nstate[w]
               /\ IsRunList(g, w, S, q, 0)
               /\ g.fatal = h.fatal
               /\ h.nstate[w] > 0 => g.current[w] \in S
  <1> DEFINE g == RewindWorkerStates(h, w)
  <1>1. /\ q \in [1..h.nstate[w] -> Task] /\ k \in 0..h.nstate[w]
        /\ IsRunList(h, w, S, q, k)
    BY DEF Shows
  <1> USE <1>1
  <1>2. /\ g.first = h.first /\ g.nstate = h.nstate /\ g.next = h.next
        /\ g.previous[w] = NULL
        /\ g.current[w] = h.first[w]
        /\ g.fatal = IF h.nstate[w] # 0 /\ h.first[w] \notin h.run
                     THEN "RWINDW.1" ELSE h.fatal
    BY DEF RewindWorkerStates, HeapType
  <1>3. h.nstate[w] \in Nat
    BY DEF HeapType
  <1>4. IsRunList(g, w, S, q, 0)
    BY <1>2, <1>3 DEF IsRunList
  <1>5. h.nstate[w] # 0 => h.first[w] \in S
    BY <1>3 DEF IsRunList
  <1> QED
    BY <1>2, <1>3, <1>4, <1>5

LEMMA RewindKeepsList ==
    ASSUME NEW h \in HeapType, NEW w \in Machine, NEW S,
           HasRunList(h, w, S), S \subseteq h.run
    PROVE  LET g == RewindWorkerStates(h, w)
           IN  /\ HasRunList(g, w, S)
               /\ g.fatal = h.fatal
               /\ h.nstate[w] > 0 => g.current[w] \in S
  <1> DEFINE g == RewindWorkerStates(h, w)
  <1>1. PICK q \in [1..h.nstate[w] -> Task], k \in 0..h.nstate[w] :
             IsRunList(h, w, S, q, k)
    BY DEF HasRunList
  <1>2. /\ g.nstate[w] = h.nstate[w] /\ 0 \in 0..h.nstate[w]
        /\ IsRunList(g, w, S, q, 0)
        /\ g.fatal = h.fatal
        /\ h.nstate[w] > 0 => g.current[w] \in S
    <2>1. Shows(h, w, S, q, k)
      BY <1>1 DEF Shows
    <2> QED
      BY <2>1, RewindList
  <1> HIDE DEF g
  <1> QED
    BY <1>2 DEF HasRunList, g

(* A suspended task s of worker v that is resumed joins the list of v, and *)
(* no check fails.  Nothing changes for the other lists.                   *)
LEMMA ResumedList ==
    ASSUME NEW h \in HeapType, NEW s \in Task, NEW v \in Machine, NEW S,
           h.next[s] = v, s \notin h.run, s \notin S,
           NEW q, NEW k, Shows(h, v, S, q, k)
    PROVE  LET g == ResumeState(h, s)
               n == h.nstate[v]
           IN  /\ HasRunList(g, v, S \cup {s})
               /\ n = 0 => IsRunList(g, v, S \cup {s}, Single(s), 0)
               /\ n # 0 => IsRunList(g, v, S \cup {s}, Inserted(q, n, k, s), k + 1)
               /\ g.fatal = h.fatal
               /\ \A t \in Task \ (S \cup {s}) : g.next[t] = h.next[t]
               /\ \A w \in Machine \ {v} :
                     /\ g.first[w] = h.first[w] /\ g.current[w] = h.current[w]
                     /\ g.previous[w] = h.previous[w]
                     /\ g.nstate[w] = h.nstate[w]
               /\ h.current[v] # NULL => g.current[v] = h.current[v]
               /\ g.nstate[v] = h.nstate[v] + 1
  <1> DEFINE g == ResumeState(h, s)
  <1> DEFINE n == h.nstate[v]
  <1>1. /\ q \in [1..h.nstate[v] -> Task] /\ k \in 0..h.nstate[v]
        /\ IsRunList(h, v, S, q, k)
    BY DEF Shows
  <1> USE <1>1
  <1>2. n \in Nat /\ v # NULL /\ s # NULL
    BY NullAssumption DEF HeapType
  <1>3. CASE n = 0
    <2>1. /\ g.first = [h.first EXCEPT ![v] = s]
          /\ g.current = [h.current EXCEPT ![v] = s]
          /\ g.previous = [h.previous EXCEPT ![v] = NULL]
          /\ g.nstate = [h.nstate EXCEPT ![v] = 1]
          /\ g.next = [h.next EXCEPT ![s] = NULL]
          /\ g.fatal = h.fatal
      BY ZenonT(60), <1>2, <1>3 DEF ResumeState, StateRewind, AddWorker, HeapType
    <2> DEFINE p == [i \in 1..1 |-> s]
    <2>2. g.nstate[v] = 1 /\ S = {} /\ h.current[v] = NULL
      BY <1>3, <2>1 DEF IsRunList, HeapType
    <2>3. IsRunList(g, v, S \cup {s}, p, 0)
      BY <1>2, <2>1, <2>2 DEF IsRunList, HeapType
    <2>6. p = Single(s)
      BY DEF Single
    <2>4. p \in [1..g.nstate[v] -> Task] /\ 0 \in 0..g.nstate[v]
      BY <2>2
    <2>5. HasRunList(g, v, S \cup {s})
      BY <2>3, <2>4 DEF HasRunList
    <2>7. /\ \A w \in Machine \ {v} :
                /\ g.first[w] = h.first[w] /\ g.current[w] = h.current[w]
                /\ g.previous[w] = h.previous[w]
                /\ g.nstate[w] = h.nstate[w]
          /\ \A t \in Task \ (S \cup {s}) : g.next[t] = h.next[t]
          /\ g.nstate[v] = n + 1
      <3> HIDE DEF g
      <3> QED
        BY <1>3, <2>1 DEF HeapType
    <2>8. IsRunList(g, v, S \cup {s}, Single(s), 0)
      BY <2>3, <2>6
    <2> HIDE DEF p
    <2> QED
      BY <1>3, <2>1, <2>2, <2>5, <2>7, <2>8
  <1>4. CASE n # 0
    <2> DEFINE p == [i \in 1..(n + 1) |-> IF i <= k THEN q[i]
                                         ELSE IF i = k + 1 THEN s ELSE q[i - 1]]
    <2>0. p = Inserted(q, n, k, s)
      BY DEF Inserted
    <2>1. h.previous[v] = NULL => k = 0 /\ h.current[v] = h.first[v]
      BY <1>2, <1>4, NullAssumption DEF IsRunList
    <2>2. /\ g.nstate = [h.nstate EXCEPT ![v] = n + 1]
          /\ g.current = h.current
          /\ g.previous = [h.previous EXCEPT ![v] = s]
          /\ g.first = IF k = 0 THEN [h.first EXCEPT ![v] = s] ELSE h.first
          /\ g.next = IF k = 0 THEN [h.next EXCEPT ![s] = h.current[v]]
                      ELSE [h.next EXCEPT ![q[k]] = s, ![s] = h.current[v]]
          /\ g.fatal = h.fatal
      <3>1. k # 0 => h.previous[v] = q[k] /\ q[k] # NULL
        BY <1>2, NullAssumption DEF IsRunList
      <3>2. k = 0 => h.previous[v] = NULL
        BY <1>2 DEF IsRunList
      <3> QED
        BY <1>2, <1>4, <2>1, <3>1, <3>2 DEF ResumeState, HeapType
    <2>3. /\ g.nstate[v] = n + 1 /\ g.current[v] = h.current[v]
          /\ g.previous[v] = s
          /\ g.first[v] = IF k = 0 THEN s ELSE h.first[v]
          /\ g.next[s] = h.current[v]
          /\ k # 0 => g.next[q[k]] = s
          /\ \A t \in Task : t # s /\ (k = 0 \/ t # q[k]) => g.next[t] = h.next[t]
      <3>1. k # 0 => q[k] \in S /\ q[k] # s /\ q[k] \in Task
        BY <1>2 DEF IsRunList
      <3> QED
        BY <2>2, <3>1 DEF HeapType
    <2>4. \A i \in 1..n : q[i] \in S /\ q[i] # s /\ q[i] \in Task
      BY DEF IsRunList
    <2>5. p \in [1..g.nstate[v] -> Task] /\ k + 1 \in 0..g.nstate[v]
      BY <1>2, <2>3
    <2>6. IsRunList(g, v, S \cup {s}, p, k + 1)
      <3>1. g.first[v] = p[1]
        BY <1>2, <1>4, <2>3 DEF IsRunList
      <3>2. g.current[v] = IF k + 1 = n + 1 THEN NULL ELSE p[k + 2]
        BY <1>2, <2>3 DEF IsRunList
      <3>3. g.previous[v] = p[k + 1]
        BY <1>2, <2>3
      <3>4. \A i \in 1..(n + 1) :
               g.next[p[i]] = IF i = n + 1 THEN NULL ELSE p[i + 1]
        <4> SUFFICES ASSUME NEW i \in 1..(n + 1)
                     PROVE g.next[p[i]] = IF i = n + 1 THEN NULL ELSE p[i + 1]
          OBVIOUS
        <4>1. CASE i < k
          <5>1. p[i] = q[i] /\ q[i] # q[k] /\ i \in 1..n /\ i + 1 \in 1..n /\ p[i + 1] = q[i + 1]
            BY <1>2, <4>1 DEF IsRunList
          <5>2. g.next[q[i]] = h.next[q[i]] /\ h.next[q[i]] = q[i + 1]
            BY <1>2, <2>3, <2>4, <4>1, <5>1 DEF IsRunList
          <5> QED
            BY <1>2, <4>1, <5>1, <5>2
        <4>2. CASE i = k
          BY <1>2, <2>3, <4>2
        <4>3. CASE i = k + 1
          BY <1>2, <2>3, <3>2, <4>3
        <4>4. CASE i > k + 1
          <5> DEFINE j == i - 1
          <5>1. j \in 1..n /\ p[i] = q[j] /\ j > k
            BY <1>2, <4>4
          <5>2. k # 0 => q[j] # q[k]
            BY <1>2, <5>1 DEF IsRunList
          <5>3. g.next[q[j]] = h.next[q[j]]
            BY <2>3, <2>4, <5>1, <5>2
          <5>4. h.next[q[j]] = IF j = n THEN NULL ELSE q[j + 1]
            BY <5>1 DEF IsRunList
          <5>5. j # n => p[i + 1] = q[j + 1]
            BY <1>2, <4>4, <5>1
          <5> QED
            BY <1>2, <5>1, <5>3, <5>4, <5>5
        <4> QED
          BY <1>2, <4>1, <4>2, <4>3, <4>4
      <3>5. \A i, j \in 1..(n + 1) : p[i] = p[j] => i = j
        BY SMTT(60), <1>2, <2>4 DEF IsRunList
      <3>6. {p[i] : i \in 1..(n + 1)} = S \cup {s}
        <4>1. \A i \in 1..(n + 1) : p[i] \in S \cup {s}
          BY <1>2, <2>4
        <4>2. \A t \in S : \E i \in 1..(n + 1) : p[i] = t
          <5> SUFFICES ASSUME NEW t \in S PROVE \E i \in 1..(n + 1) : p[i] = t
            OBVIOUS
          <5>1. PICK i \in 1..n : q[i] = t
            BY DEF IsRunList
          <5>2. CASE i <= k
            <6>1. i \in 1..(n + 1) /\ p[i] = q[i]
              BY <1>2, <5>2
            <6> HIDE DEF p
            <6> QED
              BY <5>1, <6>1
          <5>3. CASE i > k
            <6>1. i + 1 \in 1..(n + 1) /\ p[i + 1] = q[i]
              BY <1>2, <5>3
            <6> HIDE DEF p
            <6> QED
              BY <5>1, <6>1
          <5>4. i <= k \/ i > k
            BY <1>2
          <5> HIDE DEF p
          <5> QED
            BY <5>2, <5>3, <5>4
        <4>3. p[k + 1] = s /\ k + 1 \in 1..(n + 1)
          BY <1>2
        <4> HIDE DEF p, g
        <4> QED
          BY <4>1, <4>2, <4>3
      <3>7. g.nstate[v] = n + 1 /\ n + 1 # 0 /\ k + 1 # 0 /\ k + 2 = (k + 1) + 1
        BY <1>2, <2>3
      <3> HIDE DEF p, g, n
      <3> QED
        BY <3>1, <3>2, <3>3, <3>4, <3>5, <3>6, <3>7 DEF IsRunList
    <2>7. HasRunList(g, v, S \cup {s})
      BY <2>5, <2>6 DEF HasRunList
    <2>8. \A t \in Task \ (S \cup {s}) : g.next[t] = h.next[t]
      <3>1. k # 0 => q[k] \in S
        BY <1>2, <2>4
      <3> HIDE DEF p, g
      <3> QED
        BY <2>3, <3>1
    <2> HIDE DEF p
    <2> QED
      BY <1>4, <2>0, <2>2, <2>3, <2>6, <2>7, <2>8 DEF HeapType
  <1> QED
    BY <1>3, <1>4

LEMMA ResumeList ==
    ASSUME NEW h \in HeapType, NEW s \in Task, NEW v \in Machine, NEW S,
           h.next[s] = v, s \notin h.run, s \notin S, HasRunList(h, v, S)
    PROVE  LET g == ResumeState(h, s)
           IN  /\ HasRunList(g, v, S \cup {s})
               /\ g.fatal = h.fatal
               /\ \A t \in Task \ (S \cup {s}) : g.next[t] = h.next[t]
               /\ \A w \in Machine \ {v} :
                     /\ g.first[w] = h.first[w] /\ g.current[w] = h.current[w]
                     /\ g.previous[w] = h.previous[w]
                     /\ g.nstate[w] = h.nstate[w]
               /\ h.current[v] # NULL => g.current[v] = h.current[v]
               /\ g.nstate[v] = h.nstate[v] + 1
  <1>1. PICK q \in [1..h.nstate[v] -> Task], k \in 0..h.nstate[v] :
             IsRunList(h, v, S, q, k)
    BY DEF HasRunList
  <1> DEFINE g == ResumeState(h, s)
  <1>2. /\ HasRunList(g, v, S \cup {s})
        /\ g.fatal = h.fatal
        /\ \A t \in Task \ (S \cup {s}) : g.next[t] = h.next[t]
        /\ \A w \in Machine \ {v} :
              /\ g.first[w] = h.first[w] /\ g.current[w] = h.current[w]
              /\ g.previous[w] = h.previous[w]
              /\ g.nstate[w] = h.nstate[w]
        /\ h.current[v] # NULL => g.current[v] = h.current[v]
        /\ g.nstate[v] = h.nstate[v] + 1
    <2>1. Shows(h, v, S, q, k)
      BY <1>1 DEF Shows
    <2>2. h.next[s] = v /\ s \notin h.run /\ s \notin S
      OBVIOUS
    <2>3. /\ HasRunList(g, v, S \cup {s})
          /\ h.nstate[v] = 0 => IsRunList(g, v, S \cup {s}, Single(s), 0)
          /\ h.nstate[v] # 0 => IsRunList(g, v, S \cup {s}, Inserted(q, h.nstate[v], k, s), k + 1)
          /\ g.fatal = h.fatal
          /\ \A t \in Task \ (S \cup {s}) : g.next[t] = h.next[t]
          /\ \A w \in Machine \ {v} :
                /\ g.first[w] = h.first[w] /\ g.current[w] = h.current[w]
                /\ g.previous[w] = h.previous[w]
                /\ g.nstate[w] = h.nstate[w]
          /\ h.current[v] # NULL => g.current[v] = h.current[v]
          /\ g.nstate[v] = h.nstate[v] + 1
      BY ZenonT(60), <2>1, <2>2, ResumedList
    <2> QED
      BY <2>3
  <1> QED
    BY <1>2

(* The list of w is the same in g and in h but for the next pointers. *)
SameList(g, h, w) ==
    /\ g.first[w] = h.first[w] /\ g.current[w] = h.current[w]
    /\ g.previous[w] = h.previous[w]
    /\ g.nstate[w] = h.nstate[w]

LEMMA ResumedOthers ==
    ASSUME NEW h \in HeapType, NEW s \in Task, NEW v \in Machine, NEW S,
           h.next[s] = v, s \notin h.run, s \notin S, HasRunList(h, v, S)
    PROVE  LET g == ResumeState(h, s)
           IN  /\ \A t \in Task \ (S \cup {s}) : g.next[t] = h.next[t]
               /\ \A w \in Machine \ {v} : SameList(g, h, w)
  <1> DEFINE g == ResumeState(h, s)
  <1>1. /\ HasRunList(g, v, S \cup {s})
        /\ g.fatal = h.fatal
        /\ \A t \in Task \ (S \cup {s}) : g.next[t] = h.next[t]
        /\ \A w \in Machine \ {v} :
              /\ g.first[w] = h.first[w] /\ g.current[w] = h.current[w]
              /\ g.previous[w] = h.previous[w]
              /\ g.nstate[w] = h.nstate[w]
        /\ h.current[v] # NULL => g.current[v] = h.current[v]
        /\ g.nstate[v] = h.nstate[v] + 1
    <2>1. h.next[s] = v /\ s \notin h.run /\ s \notin S /\ HasRunList(h, v, S)
      OBVIOUS
    <2> QED
      BY ZenonT(60), <2>1, ResumeList
  <1> HIDE DEF g
  <1> QED
    BY <1>1 DEF SameList, g

(* The task of the session leaves the list of its worker, and no check     *)
(* fails.  Nothing changes for the other lists.                            *)
LEMMA UnlinkedList ==
    ASSUME NEW h \in HeapType, NEW v \in Machine, NEW S,
           NEW q, NEW k, Shows(h, v, S, q, k), h.fatal = OK,
           h.sworker = v, h.suspendop = 0, h.current[v] # NULL
    PROVE  LET g == UnlinkCurrentState(h)
           IN  /\ h.current[v] \in S
               /\ k + 1 \in 1..h.nstate[v] /\ h.current[v] = q[k + 1]
               /\ IsRunList(g, v, S \ {h.current[v]}, Without(q, h.nstate[v], k + 1), k)
               /\ HasRunList(g, v, S \ {h.current[v]})
               /\ g.fatal = OK
               /\ \A t \in Task : t \notin S \ {h.current[v]} => g.next[t] = h.next[t]
               /\ \A w \in Machine \ {v} :
                     /\ g.first[w] = h.first[w] /\ g.current[w] = h.current[w]
                     /\ g.previous[w] = h.previous[w]
                     /\ g.nstate[w] = h.nstate[w]
               /\ h.nstate[v] > 0 /\ g.nstate[v] = h.nstate[v] - 1
  <1> DEFINE g == UnlinkCurrentState(h)
             c == h.current[v]
             succ == h.next[c]
             n == h.nstate[v]
  <1>1. /\ q \in [1..h.nstate[v] -> Task] /\ k \in 0..h.nstate[v]
        /\ IsRunList(h, v, S, q, k)
    BY DEF Shows
  <1> USE <1>1
  <1>2. n \in Nat /\ v # NULL
    BY NullAssumption DEF HeapType
  <1>3. k < n /\ c = q[k + 1] /\ k + 1 \in 1..n
    BY <1>2 DEF IsRunList
  <1>4. succ = IF k + 1 = n THEN NULL ELSE q[k + 2]
    BY <1>2, <1>3 DEF IsRunList
  <1>5. /\ k # 0 => h.previous[v] = q[k] /\ q[k] # NULL
        /\ k = 0 => h.previous[v] = NULL
    BY <1>2, NullAssumption DEF IsRunList
  <1>6. /\ g.nstate = [h.nstate EXCEPT ![v] = n - 1]
        /\ g.current = [h.current EXCEPT ![v] = succ]
        /\ g.previous = h.previous
        /\ g.first = IF k = 0 THEN [h.first EXCEPT ![v] = succ] ELSE h.first
        /\ g.next = IF k = 0 THEN h.next ELSE [h.next EXCEPT ![q[k]] = succ]
        /\ g.fatal = OK
    <2>1. CASE k = 0
      BY SMTT(60), <1>2, <1>5, <2>1 DEF UnlinkCurrentState, StateUnlink, UnlinkWorker, HeapType
    <2>2. CASE k # 0
      BY SMTT(60), <1>2, <1>5, <2>2 DEF UnlinkCurrentState, StateUnlink, UnlinkWorker, HeapType
    <2> QED
      BY <2>1, <2>2
  <1>7. /\ g.nstate[v] = n - 1
        /\ g.current[v] = succ /\ g.previous[v] = h.previous[v]
        /\ g.first[v] = IF k = 0 THEN succ ELSE h.first[v]
        /\ k # 0 => g.next[q[k]] = succ
        /\ \A t \in Task : k = 0 \/ t # q[k] => g.next[t] = h.next[t]
    BY <1>2, <1>6 DEF HeapType
  <1>8. /\ \A i \in 1..n : q[i] \in S /\ q[i] \in Task
        /\ \A i, j \in 1..n : q[i] = q[j] => i = j
        /\ \A t \in S : \E i \in 1..n : q[i] = t
        /\ \A i \in 1..n : h.next[q[i]] = IF i = n THEN NULL ELSE q[i + 1]
    BY DEF IsRunList
  <1> DEFINE p == [i \in 1..(n - 1) |-> IF i <= k THEN q[i] ELSE q[i + 1]]
  <1>0. p = Without(q, n, k + 1)
    <2>1. \A i \in 1..(n - 1) : i <= k <=> i < k + 1
      BY <1>2
    <2> QED
      BY <2>1 DEF Without
  <1>9. IsRunList(g, v, S \ {c}, p, k)
    <2>1. g.first[v] = IF n - 1 = 0 THEN NULL ELSE p[1]
      <3>1. n # 0 /\ h.first[v] = q[1] /\ (n - 1 = 0 <=> n = 1)
        BY <1>2, <1>3 DEF IsRunList
      <3>2. CASE k = 0
        <4>1. n # 1 => 1 \in 1..(n - 1) /\ p[1] = q[2]
          BY <1>2, <1>3, <3>2
        <4> HIDE DEF p
        <4> QED
          BY <1>2, <1>4, <1>7, <3>1, <3>2, <4>1
      <3>3. CASE k # 0
        <4>1. n # 1 /\ 1 \in 1..(n - 1) /\ p[1] = q[1]
          BY <1>2, <1>3, <3>3
        <4> HIDE DEF p
        <4> QED
          BY <1>7, <3>1, <3>3, <4>1
      <3> QED
        BY <3>2, <3>3
    <2>2. g.current[v] = IF k = n - 1 THEN NULL ELSE p[k + 1]
      <3>1. k # n - 1 => p[k + 1] = q[k + 2]
        BY <1>2, <1>3
      <3> HIDE DEF p
      <3> QED
        BY <1>2, <1>4, <1>7, <3>1
    <2>3. g.previous[v] = IF k = 0 THEN NULL ELSE p[k]
      BY <1>2, <1>3, <1>5, <1>7
    <2>4. \A i \in 1..(n - 1) :
             g.next[p[i]] = IF i = n - 1 THEN NULL ELSE p[i + 1]
      <3> SUFFICES ASSUME NEW i \in 1..(n - 1)
                   PROVE g.next[p[i]] = IF i = n - 1 THEN NULL ELSE p[i + 1]
        OBVIOUS
      <3>1. CASE i < k
        <4>1. /\ i \in 1..n /\ i # n /\ p[i] = q[i] /\ p[i + 1] = q[i + 1]
              /\ i # n - 1 /\ k \in 1..n /\ i # k
          BY <1>2, <1>3, <3>1
        <4>2. g.next[q[i]] = h.next[q[i]]
          BY <1>7, <1>8, <4>1
        <4> QED
          BY <1>8, <4>1, <4>2
      <3>2. CASE i = k
        BY <1>2, <1>3, <1>4, <1>7, <3>2
      <3>3. CASE i > k
        <4> DEFINE j == i + 1
        <4>1. /\ j \in 1..n /\ p[i] = q[j] /\ (j = n <=> i = n - 1)
              /\ k # 0 => k \in 1..n /\ j # k
          BY <1>2, <3>3
        <4>2. g.next[q[j]] = h.next[q[j]]
          BY <1>7, <1>8, <4>1
        <4>3. i # n - 1 => p[i + 1] = q[j + 1]
          BY SMTT(60), <1>2, <3>3
        <4> QED
          BY <1>8, <4>1, <4>2, <4>3
      <3> QED
        BY <1>2, <3>1, <3>2, <3>3
    <2>5. \A i, j \in 1..(n - 1) : p[i] = p[j] => i = j
      BY SMTT(60), <1>2, <1>3, <1>8
    <2>6. {p[i] : i \in 1..(n - 1)} = S \ {c}
      <3>1. \A i \in 1..(n - 1) : p[i] \in S \ {c}
        BY <1>2, <1>3, <1>8
      <3>2. \A t \in S \ {c} : \E i \in 1..(n - 1) : p[i] = t
        <4> SUFFICES ASSUME NEW t \in S \ {c}
                     PROVE \E i \in 1..(n - 1) : p[i] = t
          OBVIOUS
        <4>1. PICK i \in 1..n : q[i] = t
          BY <1>8
        <4>2. i # k + 1
          BY <1>3, <4>1
        <4>3. CASE i <= k
          BY <1>2, <1>3, <4>1, <4>3
        <4>4. CASE i > k + 1
          <5>1. i - 1 \in 1..(n - 1) /\ p[i - 1] = q[i]
            BY <1>2, <1>3, <4>4
          <5> QED
            BY <4>1, <5>1
        <4> QED
          BY <1>2, <4>2, <4>3, <4>4
      <3> HIDE DEF p, c
      <3> QED
        BY <3>1, <3>2
    <2>7. g.nstate[v] = n - 1
      BY <1>7
    <2> HIDE DEF p, g, n, c
    <2> QED
      BY <2>1, <2>2, <2>3, <2>4, <2>5, <2>6, <2>7 DEF IsRunList
  <1>10. HasRunList(g, v, S \ {c})
    <2>1. p \in [1..g.nstate[v] -> Task] /\ k \in 0..g.nstate[v]
      BY <1>2, <1>3, <1>7
    <2> QED
      BY <1>9, <2>1 DEF HasRunList
  <1>11. \A t \in Task : t \notin S \ {c} => g.next[t] = h.next[t]
    <2>1. k # 0 => k \in 1..n /\ k # k + 1
      BY <1>2
    <2>2. k # 0 => q[k] \in S \ {c}
      BY <1>3, <1>8, <2>1
    <2> HIDE DEF g, c
    <2> QED
      BY <1>7, <2>2
  <1>12. c \in S /\ n > 0
    BY <1>2, <1>3, <1>8
  <1>13. \A w \in Machine \ {v} :
            /\ g.first[w] = h.first[w] /\ g.current[w] = h.current[w]
            /\ g.previous[w] = h.previous[w]
            /\ g.nstate[w] = h.nstate[w]
    BY <1>6 DEF HeapType
  <1> HIDE DEF p
  <1> QED
    BY <1>0, <1>3, <1>6, <1>7, <1>9, <1>10, <1>11, <1>12, <1>13

LEMMA UnlinkList ==
    ASSUME NEW h \in HeapType, NEW v \in Machine, NEW S,
           HasRunList(h, v, S), h.fatal = OK,
           h.sworker = v, h.suspendop = 0, h.current[v] # NULL
    PROVE  LET g == UnlinkCurrentState(h)
           IN  /\ h.current[v] \in S
               /\ HasRunList(g, v, S \ {h.current[v]})
               /\ g.fatal = OK
               /\ \A t \in Task : t \notin S \ {h.current[v]} => g.next[t] = h.next[t]
               /\ \A w \in Machine \ {v} :
                     /\ g.first[w] = h.first[w] /\ g.current[w] = h.current[w]
                     /\ g.previous[w] = h.previous[w]
                     /\ g.nstate[w] = h.nstate[w]
               /\ h.nstate[v] > 0 /\ g.nstate[v] = h.nstate[v] - 1
  <1>1. PICK q \in [1..h.nstate[v] -> Task], k \in 0..h.nstate[v] :
             IsRunList(h, v, S, q, k)
    BY DEF HasRunList
  <1> DEFINE g == UnlinkCurrentState(h)
  <1>2. /\ h.current[v] \in S
        /\ HasRunList(g, v, S \ {h.current[v]})
        /\ g.fatal = OK
        /\ \A t \in Task : t \notin S \ {h.current[v]} => g.next[t] = h.next[t]
        /\ \A w \in Machine \ {v} :
              /\ g.first[w] = h.first[w] /\ g.current[w] = h.current[w]
              /\ g.previous[w] = h.previous[w]
              /\ g.nstate[w] = h.nstate[w]
        /\ h.nstate[v] > 0 /\ g.nstate[v] = h.nstate[v] - 1
    <2>1. Shows(h, v, S, q, k)
      BY <1>1 DEF Shows
    <2> QED
      BY ZenonT(60), <2>1, UnlinkedList
  <1> QED
    BY <1>2
----------------------------------------------------------------------------
(* The ring depends on its own fields only. *)
LEMMA ShowsRingFrame ==
    ASSUME NEW h, NEW g, NEW M, NEW r, ShowsRing(h, M, r),
           g.cursor = h.cursor, g.nworker = h.nworker,
           g.wnext = h.wnext, g.wprev = h.wprev
    PROVE  ShowsRing(g, M, r)
  BY DEF ShowsRing, IsRing

LEMMA RingFrame ==
    ASSUME NEW h, NEW g, NEW M, HasRing(h, M),
           g.cursor = h.cursor, g.nworker = h.nworker,
           g.wnext = h.wnext, g.wprev = h.wprev
    PROVE  HasRing(g, M)
  <1>1. PICK r \in [1..h.nworker -> Machine] : IsRing(h, M, r)
    BY DEF HasRing
  <1>2. IsRing(g, M, r)
    BY <1>1 DEF IsRing
  <1> QED
    BY <1>2 DEF HasRing

(* The cursor of the VM moves on: the ring is the same. *)
LEMMA NextRing ==
    ASSUME NEW h \in HeapType, NEW M, NEW r, ShowsRing(h, M, r), h.cursor # NULL
    PROVE  ShowsRing(NextWorker(h), M, Rotated(r, h.nworker))
  <1> DEFINE g == NextWorker(h)
             n == h.nworker
  <1>1. r \in [1..h.nworker -> Machine] /\ IsRing(h, M, r)
    BY DEF ShowsRing
  <1> USE <1>1
  <1>2. n \in Nat /\ n # 0 /\ h.cursor = r[1]
    BY <1>1 DEF IsRing, HeapType
  <1>3. /\ g.cursor = h.wnext[r[1]] /\ g.nworker = n
        /\ g.wnext = h.wnext /\ g.wprev = h.wprev
    BY <1>2 DEF NextWorker, HeapType
  <1> DEFINE p == [i \in 1..n |-> IF i = n THEN r[1] ELSE r[i + 1]]
  <1>4. p \in [1..n -> Machine]
    BY <1>2
  <1>5. IsRing(g, M, p)
    <2>1. g.cursor = p[1]
      BY <1>1, <1>2, <1>3 DEF IsRing
    <2>2. \A i \in 1..n : LET f == IF i = n THEN p[1] ELSE p[i + 1]
                         IN  g.wnext[p[i]] = f /\ g.wprev[f] = p[i]
      <3> SUFFICES ASSUME NEW i \in 1..n
                   PROVE  LET f == IF i = n THEN p[1] ELSE p[i + 1]
                          IN  g.wnext[p[i]] = f /\ g.wprev[f] = p[i]
        OBVIOUS
      <3>1. CASE i = n
        BY <1>1, <1>2, <1>3, <3>1 DEF IsRing
      <3>2. CASE i # n
        <4>1. i + 1 \in 1..n /\ p[i] = r[i + 1]
          BY <1>2, <3>2
        <4> QED
          BY <1>1, <1>2, <1>3, <3>2, <4>1 DEF IsRing
      <3> QED
        BY <3>1, <3>2
    <2>3. \A i, j \in 1..n : p[i] = p[j] => i = j
      BY <1>1, <1>2 DEF IsRing
    <2>4. {p[i] : i \in 1..n} = M
      <3>1. \A i \in 1..n : p[i] \in M
        BY <1>1, <1>2 DEF IsRing
      <3>2. \A w \in M : \E i \in 1..n : p[i] = w
        <4> SUFFICES ASSUME NEW w \in M PROVE \E i \in 1..n : p[i] = w
          OBVIOUS
        <4>1. PICK i \in 1..n : r[i] = w
          BY <1>1 DEF IsRing
        <4>2. CASE i = 1
          BY <1>2, <4>1, <4>2
        <4>3. CASE i # 1
          <5>1. i - 1 \in 1..n /\ p[i - 1] = r[i]
            BY <1>2, <4>3
          <5> QED
            BY <4>1, <5>1
        <4> QED
          BY <4>2, <4>3
      <3> HIDE DEF p
      <3> QED
        BY <3>1, <3>2
    <2> HIDE DEF p, g
    <2> QED
      BY <1>2, <1>3, <2>1, <2>2, <2>3, <2>4 DEF IsRing
  <1>6. p = Rotated(r, n)
    BY DEF Rotated
  <1> QED
    BY <1>3, <1>4, <1>5, <1>6 DEF ShowsRing

LEMMA NextKeepsRing ==
    ASSUME NEW h \in HeapType, NEW M, HasRing(h, M), h.cursor # NULL
    PROVE  HasRing(NextWorker(h), M)
  <1>1. PICK r : ShowsRing(h, M, r)
    BY DEF HasRing, ShowsRing
  <1>2. ShowsRing(NextWorker(h), M, Rotated(r, h.nworker))
    BY <1>1, NextRing
  <1> QED
    BY <1>2 DEF HasRing, ShowsRing

(* A worker that was idle joins the ring, as the last one. *)
LEMMA AddedRing ==
    ASSUME NEW h \in HeapType, NEW M, NEW r, ShowsRing(h, M, r),
           NEW v \in Machine, v \notin M
    PROVE  LET g == AddWorker(h, v)
           IN  /\ g \in HeapType
               /\ ShowsRing(g, M \cup {v}, Appended(r, h.nworker, v))
               /\ h.cursor # NULL => g.cursor = h.cursor
               /\ SameLists(g, h)
  <1> DEFINE g == AddWorker(h, v)
             n == h.nworker
             c == h.cursor
             last == h.wprev[c]
  <1>1. r \in [1..h.nworker -> Machine] /\ IsRing(h, M, r)
    BY DEF ShowsRing
  <1> USE <1>1
  <1>2. n \in Nat
    BY DEF HeapType
  <1>3. CASE n = 0
    <2>1. /\ g.cursor = v /\ g.nworker = 1
          /\ g.wnext = [h.wnext EXCEPT ![v] = v]
          /\ g.wprev = [h.wprev EXCEPT ![v] = v]
      BY <1>3 DEF AddWorker, HeapType
    <2>2. M = {} /\ h.cursor = NULL
      BY <1>1, <1>3 DEF IsRing
    <2> DEFINE p == [i \in 1..1 |-> v]
    <2>3. IsRing(g, M \cup {v}, p)
      BY <2>1, <2>2 DEF IsRing, HeapType
    <2>7. p = Appended(r, n, v)
      BY <1>3 DEF Appended
    <2>4. ShowsRing(g, M \cup {v}, Appended(r, n, v))
      BY <2>1, <2>3, <2>7 DEF ShowsRing
    <2>5. g \in HeapType
      BY <1>3 DEF AddWorker, HeapType
    <2>6. SameLists(g, h)
      BY <1>3 DEF AddWorker, HeapType, SameLists, SameSession
    <2> QED
      BY <2>2, <2>4, <2>5, <2>6
  <1>4. CASE n # 0
    <2>1. c = r[1] /\ last = r[n] /\ 1 \in 1..n /\ n \in 1..n
      BY <1>1, <1>2, <1>4 DEF IsRing
    <2>2. /\ c \in Machine /\ last \in Machine /\ c # v /\ last # v
          /\ \A i \in 1..n : r[i] \in M /\ r[i] # v
          /\ \A i, j \in 1..n : r[i] = r[j] => i = j
          /\ \A w \in M : \E i \in 1..n : r[i] = w
      BY <1>1, <1>4, <2>1 DEF IsRing
    <2>3. /\ g.cursor = c /\ g.nworker = n + 1
          /\ g.wnext = [[h.wnext EXCEPT ![v] = c] EXCEPT ![last] = v]
          /\ g.wprev = [[h.wprev EXCEPT ![v] = last] EXCEPT ![c] = v]
      BY <1>4 DEF AddWorker, HeapType
    <2>4. /\ g.wnext[v] = c /\ g.wnext[last] = v
          /\ g.wprev[v] = last /\ g.wprev[c] = v
          /\ \A w \in Machine : w # v /\ w # last => g.wnext[w] = h.wnext[w]
          /\ \A w \in Machine : w # v /\ w # c => g.wprev[w] = h.wprev[w]
      BY <2>2, <2>3 DEF HeapType
    <2> DEFINE p == [i \in 1..(n + 1) |-> IF i = n + 1 THEN v ELSE r[i]]
    <2>5. p \in [1..(n + 1) -> Machine]
      BY <1>2
    <2>6. \A i \in 1..(n + 1) :
             LET f == IF i = n + 1 THEN p[1] ELSE p[i + 1]
             IN  g.wnext[p[i]] = f /\ g.wprev[f] = p[i]
      <3> SUFFICES ASSUME NEW i \in 1..(n + 1)
                   PROVE  LET f == IF i = n + 1 THEN p[1] ELSE p[i + 1]
                          IN  g.wnext[p[i]] = f /\ g.wprev[f] = p[i]
        OBVIOUS
      <3>1. CASE i = n + 1
        BY <1>2, <1>4, <2>1, <2>4, <3>1
      <3>2. CASE i = n
        BY <1>2, <1>4, <2>1, <2>4, <3>2
      <3>3. CASE i < n
        <4>1. /\ i \in 1..n /\ i + 1 \in 1..n /\ p[i] = r[i] /\ p[i + 1] = r[i + 1]
              /\ i # n /\ i + 1 # 1
          BY <1>2, <3>3
        <4>2. r[i] # last /\ r[i + 1] # c
          BY <2>1, <2>2, <4>1
        <4>3. g.wnext[r[i]] = h.wnext[r[i]] /\ g.wprev[r[i + 1]] = h.wprev[r[i + 1]]
          BY <2>2, <2>4, <4>1, <4>2
        <4>4. h.wnext[r[i]] = r[i + 1] /\ h.wprev[r[i + 1]] = r[i]
          BY <1>1, <4>1 DEF IsRing
        <4> QED
          BY <1>2, <3>3, <4>1, <4>3, <4>4
      <3> QED
        BY <1>2, <3>1, <3>2, <3>3
    <2>7. \A i, j \in 1..(n + 1) : p[i] = p[j] => i = j
      BY <1>2, <2>2
    <2>8. {p[i] : i \in 1..(n + 1)} = M \cup {v}
      <3>1. \A i \in 1..(n + 1) : p[i] \in M \cup {v}
        BY <1>2, <2>2
      <3>2. \A w \in M : \E i \in 1..(n + 1) : p[i] = w
        <4> SUFFICES ASSUME NEW w \in M PROVE \E i \in 1..(n + 1) : p[i] = w
          OBVIOUS
        <4>1. PICK i \in 1..n : r[i] = w
          BY <2>2
        <4>2. i \in 1..(n + 1) /\ p[i] = w
          BY <1>2, <4>1
        <4> QED
          BY <4>2
      <3>3. n + 1 \in 1..(n + 1) /\ p[n + 1] = v
        BY <1>2
      <3> HIDE DEF p
      <3> QED
        BY <3>1, <3>2, <3>3
    <2>9. g.cursor = p[1] /\ n + 1 # 0
      BY <1>2, <1>4, <2>1, <2>3
    <2>10. IsRing(g, M \cup {v}, p)
      <3> HIDE DEF p, g, n, c
      <3> QED
        BY <2>3, <2>6, <2>7, <2>8, <2>9 DEF IsRing
    <2>15. p = Appended(r, n, v)
      BY DEF Appended
    <2>11. ShowsRing(g, M \cup {v}, Appended(r, n, v))
      <3> HIDE DEF p, g, n, c
      <3> QED
        BY <2>3, <2>5, <2>10, <2>15 DEF ShowsRing
    <2>12. g = [h EXCEPT !.cursor = g.cursor, !.nworker = g.nworker,
                       !.wnext = g.wnext, !.wprev = g.wprev]
      BY ZenonT(60), <1>4 DEF AddWorker, HeapType
    <2>13. g \in HeapType
      <3>0. /\ h.wnext \in [Machine -> Machine \cup {NULL}]
            /\ h.wprev \in [Machine -> Machine \cup {NULL}]
        BY DEF HeapType
      <3> HIDE DEF g, n, c, last
      <3>1. /\ g.cursor \in Machine /\ g.nworker \in Nat
            /\ g.wnext \in [Machine -> Machine \cup {NULL}]
            /\ g.wprev \in [Machine -> Machine \cup {NULL}]
        BY <1>2, <2>2, <2>3, <3>0
      <3> QED
        BY ZenonT(60), <2>12, <3>1 DEF HeapType
    <2>14. SameLists(g, h)
      BY <1>4 DEF AddWorker, HeapType, SameLists, SameSession
    <2> QED
      BY <2>3, <2>11, <2>13, <2>14
  <1> QED
    BY <1>3, <1>4

LEMMA AddToRing ==
    ASSUME NEW h \in HeapType, NEW M, HasRing(h, M), NEW v \in Machine, v \notin M
    PROVE  LET g == AddWorker(h, v)
           IN  /\ g \in HeapType
               /\ HasRing(g, M \cup {v})
               /\ h.cursor # NULL => g.cursor = h.cursor
               /\ SameLists(g, h)
  <1> DEFINE g == AddWorker(h, v)
  <1>1. PICK r : ShowsRing(h, M, r)
    BY DEF HasRing, ShowsRing
  <1>2. /\ g \in HeapType
        /\ ShowsRing(g, M \cup {v}, Appended(r, h.nworker, v))
        /\ h.cursor # NULL => g.cursor = h.cursor
        /\ SameLists(g, h)
    BY ZenonT(60), <1>1, AddedRing
  <1> HIDE DEF g
  <1>3. HasRing(g, M \cup {v})
    BY <1>2 DEF HasRing, ShowsRing
  <1> QED
    BY <1>2, <1>3 DEF g

(* A worker with an empty list leaves the ring. *)
LEMMA RemovedRing ==
    ASSUME NEW h \in HeapType, NEW M, NEW r, ShowsRing(h, M, r), NEW v \in M
    PROVE  LET g == UnlinkWorker(h, v)
           IN  /\ g \in HeapType
               /\ \E j \in 1..h.nworker :
                     r[j] = v /\ ShowsRing(g, M \ {v}, Without(r, h.nworker, j))
               /\ SameLists(g, h)
  <1> DEFINE g == UnlinkWorker(h, v)
             n == h.nworker
             s == h.wnext[v]
             t == h.wprev[v]
  <1>1. r \in [1..h.nworker -> Machine] /\ IsRing(h, M, r)
    BY DEF ShowsRing
  <1> USE <1>1
  <1>2. n \in Nat
    BY DEF HeapType
  <1>3. /\ \A i \in 1..n : r[i] \in M /\ r[i] \in Machine
        /\ \A i, j \in 1..n : r[i] = r[j] => i = j
        /\ \A w \in M : \E i \in 1..n : r[i] = w
        /\ \A i \in 1..n : i # n => /\ h.wnext[r[i]] = r[i + 1]
                                  /\ h.wprev[r[i + 1]] = r[i]
        /\ n # 0 => h.wnext[r[n]] = r[1] /\ h.wprev[r[1]] = r[n] /\ h.cursor = r[1]
    BY <1>1, <1>2 DEF IsRing
  <1>4. PICK j \in 1..n : r[j] = v
    BY <1>3
  <1>5. n # 0 /\ v \in Machine
    BY <1>2, <1>3, <1>4
  <1>6. CASE n = 1
    <2>1. g.cursor = NULL /\ g.nworker = 0
      BY <1>6 DEF UnlinkWorker, HeapType
    <2>2. M = {v}
      BY <1>3, <1>4, <1>6
    <2> DEFINE p == [i \in 1..0 |-> v]
    <2>3. p \in [1..0 -> Machine] /\ IsRing(g, M \ {v}, p)
      BY <2>1, <2>2 DEF IsRing
    <2>7. p = Without(r, n, j)
      BY <1>6 DEF Without
    <2>4. ShowsRing(g, M \ {v}, Without(r, n, j))
      BY <2>1, <2>3, <2>7 DEF ShowsRing
    <2>5. g \in HeapType
      BY <1>6 DEF UnlinkWorker, HeapType
    <2>6. SameLists(g, h)
      BY <1>6 DEF UnlinkWorker, HeapType, SameLists, SameSession
    <2> QED
      BY <1>4, <2>4, <2>5, <2>6
  <1>7. CASE n # 1
    <2> DEFINE p == [i \in 1..(n - 1) |-> IF i < j THEN r[i] ELSE r[i + 1]]
    <2>1. /\ s = IF j = n THEN r[1] ELSE r[j + 1]
          /\ t = IF j = 1 THEN r[n] ELSE r[j - 1]
      <3>1. j # 1 => j - 1 \in 1..n /\ j - 1 # n /\ (j - 1) + 1 = j
        BY <1>2
      <3> QED
        BY <1>2, <1>3, <1>4, <1>5, <3>1
    <2>2. s \in Machine /\ t \in Machine /\ s # v /\ t # v
      BY <1>2, <1>3, <1>4, <1>5, <1>7, <2>1
    <2>3. /\ g.nworker = n - 1
          /\ g.cursor = IF h.cursor = v THEN s ELSE h.cursor
          /\ g.wnext = [h.wnext EXCEPT ![t] = s]
          /\ g.wprev = [h.wprev EXCEPT ![s] = t]
      BY <1>7 DEF UnlinkWorker, HeapType
    <2>4. /\ g.wnext[t] = s /\ g.wprev[s] = t
          /\ \A w \in Machine : w # t => g.wnext[w] = h.wnext[w]
          /\ \A w \in Machine : w # s => g.wprev[w] = h.wprev[w]
      BY <2>2, <2>3 DEF HeapType
    <2>5. p \in [1..(n - 1) -> Machine]
      BY <1>2, <1>3
    <2>6. g.cursor = p[1] /\ n - 1 # 0
      <3>1. h.cursor = v <=> j = 1
        BY <1>2, <1>3, <1>4, <1>5
      <3> QED
        BY <1>2, <1>3, <1>4, <1>5, <1>7, <2>1, <2>3, <3>1
    <2>7. \A i \in 1..(n - 1) :
             LET f == IF i = n - 1 THEN p[1] ELSE p[i + 1]
             IN  g.wnext[p[i]] = f /\ g.wprev[f] = p[i]
      <3> SUFFICES ASSUME NEW i \in 1..(n - 1)
                   PROVE  LET f == IF i = n - 1 THEN p[1] ELSE p[i + 1]
                          IN  g.wnext[p[i]] = f /\ g.wprev[f] = p[i]
        OBVIOUS
      <3> DEFINE f == IF i = n - 1 THEN p[1] ELSE p[i + 1]
      <3>1. CASE i = j - 1
        <4>1. p[i] = t /\ f = s
          BY <1>2, <2>1, <3>1
        <4> QED
          BY <2>4, <4>1
      <3>2. CASE i = n - 1 /\ j = 1
        <4>1. p[i] = r[n] /\ p[1] = r[2] /\ t = r[n] /\ s = r[2]
          BY <1>2, <1>7, <2>1, <3>2
        <4> QED
          BY <2>4, <3>2, <4>1
      <3>3. CASE i = n - 1 /\ j # 1 /\ j # n
        <4>1. p[i] = r[n] /\ f = r[1] /\ n \in 1..n /\ 1 \in 1..n
          BY <1>2, <1>7, <3>3
        <4>2. r[n] # t /\ r[1] # s
          <5>1. j - 1 \in 1..n /\ j - 1 # n /\ j + 1 \in 1..n /\ j + 1 # 1
            BY <1>2, <3>3
          <5> QED
            BY <1>3, <2>1, <3>3, <4>1, <5>1
        <4>3. g.wnext[r[n]] = r[1] /\ g.wprev[r[1]] = r[n]
          <5> HIDE DEF g, p, f, s, t
          <5> QED
            BY <1>3, <1>5, <2>4, <4>1, <4>2
        <4> QED
          BY <4>1, <4>3
      <3>4. CASE i < n - 1 /\ i < j - 1
        <4>1. /\ p[i] = r[i] /\ f = r[i + 1]
              /\ i \in 1..n /\ i + 1 \in 1..n /\ i # n
          BY <1>2, <3>4
        <4>2. r[i] # t /\ r[i + 1] # s
          <5>1. /\ j # 1 /\ j - 1 \in 1..n /\ i # j - 1
                /\ j # n => j + 1 \in 1..n /\ i + 1 # j + 1
                /\ 1 \in 1..n /\ i + 1 # 1
            BY <1>2, <3>4
          <5> QED
            BY <1>3, <2>1, <4>1, <5>1
        <4> QED
          BY SMTT(60), <1>3, <2>4, <4>1, <4>2
      <3>5. CASE i < n - 1 /\ i >= j
        <4>1. /\ p[i] = r[i + 1] /\ f = r[i + 2] /\ i + 2 = (i + 1) + 1
              /\ i + 1 \in 1..n /\ i + 2 \in 1..n /\ i + 1 # n
          BY <1>2, <3>5
        <4>2. r[i + 1] # t /\ r[i + 2] # s
          <5>1. /\ j # 1 => j - 1 \in 1..n /\ i + 1 # j - 1
                /\ n \in 1..n /\ i + 1 # n
                /\ j # n /\ j + 1 \in 1..n /\ i + 2 # j + 1
            BY <1>2, <3>5
          <5> QED
            BY <1>3, <2>1, <4>1, <5>1
        <4> QED
          BY SMTT(60), <1>3, <2>4, <4>1, <4>2
      <3> QED
        BY SMTT(60), <1>2, <3>1, <3>2, <3>3, <3>4, <3>5
    <2>8. \A i, k \in 1..(n - 1) : p[i] = p[k] => i = k
      BY SMTT(60), <1>2, <1>3
    <2>9. {p[i] : i \in 1..(n - 1)} = M \ {v}
      <3>1. \A i \in 1..(n - 1) : p[i] \in M \ {v}
        BY <1>2, <1>3, <1>4
      <3>2. \A w \in M \ {v} : \E i \in 1..(n - 1) : p[i] = w
        <4> SUFFICES ASSUME NEW w \in M \ {v}
                     PROVE \E i \in 1..(n - 1) : p[i] = w
          OBVIOUS
        <4>1. PICK i \in 1..n : r[i] = w
          BY <1>3
        <4>2. i # j
          BY <1>4, <4>1
        <4>3. CASE i < j
          BY <1>2, <4>1, <4>3
        <4>4. CASE i > j
          <5>1. i - 1 \in 1..(n - 1) /\ p[i - 1] = r[i]
            BY <1>2, <4>4
          <5> QED
            BY <4>1, <5>1
        <4> QED
          BY <1>2, <4>2, <4>3, <4>4
      <3> HIDE DEF p
      <3> QED
        BY <3>1, <3>2
    <2>10. IsRing(g, M \ {v}, p)
      <3> HIDE DEF p, g, n
      <3> QED
        BY <2>3, <2>6, <2>7, <2>8, <2>9 DEF IsRing
    <2>14. p = Without(r, n, j)
      BY DEF Without
    <2>11. ShowsRing(g, M \ {v}, Without(r, n, j))
      <3> HIDE DEF p, g, n
      <3> QED
        BY <2>3, <2>5, <2>10, <2>14 DEF ShowsRing
    <2>12. g \in HeapType
      <3>1. n - 1 \in Nat
        BY <1>2, <1>5
      <3> QED
        BY <1>7, <2>2, <3>1 DEF UnlinkWorker, HeapType
    <2>13. SameLists(g, h)
      BY <1>7 DEF UnlinkWorker, HeapType, SameLists, SameSession
    <2> QED
      BY <1>4, <2>11, <2>12, <2>13
  <1> QED
    BY <1>6, <1>7

LEMMA RemoveFromRing ==
    ASSUME NEW h \in HeapType, NEW M, HasRing(h, M), NEW v \in M
    PROVE  LET g == UnlinkWorker(h, v)
           IN  /\ g \in HeapType
               /\ HasRing(g, M \ {v})
               /\ SameLists(g, h)
  <1> DEFINE g == UnlinkWorker(h, v)
  <1>1. PICK r : ShowsRing(h, M, r)
    BY DEF HasRing, ShowsRing
  <1>2. /\ g \in HeapType
        /\ \E j \in 1..h.nworker :
              r[j] = v /\ ShowsRing(g, M \ {v}, Without(r, h.nworker, j))
        /\ SameLists(g, h)
    BY ZenonT(60), <1>1, RemovedRing
  <1> HIDE DEF g
  <1>3. HasRing(g, M \ {v})
    BY <1>2 DEF HasRing, ShowsRing
  <1> QED
    BY <1>2, <1>3 DEF g
----------------------------------------------------------------------------
(* The lists of different workers share no task. *)
Disjoint(S) ==
    /\ S \in [Machine -> SUBSET Task]
    /\ \A v, w \in Machine : v # w => S[v] \cap S[w] = {}

LEMMA ListEmpty ==
    ASSUME NEW h \in HeapType, NEW w \in Machine, NEW S, HasRunList(h, w, S)
    PROVE  /\ h.nstate[w] = 0 <=> S = {}
           /\ h.nstate[w] = 0 => h.current[w] = NULL
           /\ h.current[w] # NULL => h.current[w] \in S
           /\ S \subseteq Task
  <1>1. PICK q \in [1..h.nstate[w] -> Task], k \in 0..h.nstate[w] :
             IsRunList(h, w, S, q, k)
    BY DEF HasRunList
  <1>2. h.nstate[w] \in Nat
    BY DEF HeapType
  <1>3. h.nstate[w] = 0 => S = {} /\ h.current[w] = NULL
    BY <1>1, <1>2 DEF IsRunList
  <1>4. h.nstate[w] # 0 => q[1] \in S
    BY <1>1, <1>2 DEF IsRunList
  <1>5. h.current[w] # NULL => h.current[w] \in S
    BY <1>1, <1>2 DEF IsRunList
  <1>6. S \subseteq Task
    BY <1>1 DEF IsRunList
  <1> QED
    BY <1>3, <1>4, <1>5, <1>6

(* The type of what a resume returns, and its ring. *)
LEMMA ResumedRing ==
    ASSUME NEW h \in HeapType, NEW s \in Task, NEW v \in Machine, NEW M, NEW r,
           h.next[s] = v, s \notin h.run, ShowsRing(h, M, r), h.fatal = OK,
           h.nstate[v] = 0 <=> v \notin M,
           ResumeState(h, s).fatal = OK
    PROVE  LET g == ResumeState(h, s)
           IN  /\ g \in HeapType
               /\ ShowsRing(g, M \cup {v}, IF h.nstate[v] = 0
                                            THEN Appended(r, h.nworker, v) ELSE r)
               /\ SameSession(g, h)
               /\ g.run = h.run \cup {s} /\ g.waiting = h.waiting \ {s}
               /\ h.cursor # NULL => g.cursor = h.cursor
  <1> DEFINE g == ResumeState(h, s)
  <1>1. v # NULL
    BY NullAssumption
  <1>2. CASE h.nstate[v] = 0
    <2> DEFINE f == [h EXCEPT !.run = @ \cup {s}, !.waiting = @ \ {s}]
               d == StateRewind(f, v, s)
               e == [d EXCEPT !.next[s] = NULL]
    <2>1. g = AddWorker(e, v)
      BY <1>1, <1>2 DEF ResumeState
    <2>2. f \in HeapType
      BY DEF HeapType
    <2>3. d \in HeapType
      <3> HIDE DEF f
      <3> QED
        BY ZenonT(60), <2>2 DEF StateRewind, HeapType
    <2>4. e \in HeapType
      <3> HIDE DEF d
      <3> QED
        BY <2>3 DEF HeapType
    <2>5. /\ e.cursor = h.cursor /\ e.nworker = h.nworker
          /\ e.wnext = h.wnext /\ e.wprev = h.wprev
          /\ SameSession(e, h)
          /\ e.run = h.run \cup {s} /\ e.waiting = h.waiting \ {s}
      BY DEF StateRewind, HeapType, SameSession
    <2> HIDE DEF e, g
    <2>6. ShowsRing(e, M, r)
      BY <2>5, ShowsRingFrame
    <2>7. /\ g \in HeapType
          /\ ShowsRing(g, M \cup {v}, Appended(r, e.nworker, v))
          /\ e.cursor # NULL => g.cursor = e.cursor
          /\ SameLists(g, e)
      BY <1>2, <2>1, <2>4, <2>6, AddedRing
    <2> QED
      BY <1>2, <2>5, <2>7 DEF SameSession, SameLists, g
  <1>3. CASE h.nstate[v] # 0
    <2>1. ~(h.previous[v] = NULL /\ h.current[v] # h.first[v])
      BY <1>1, <1>3 DEF ResumeState, HeapType, OK
    <2>2. /\ g.cursor = h.cursor /\ g.nworker = h.nworker
          /\ g.wnext = h.wnext /\ g.wprev = h.wprev
      BY <1>1, <1>3, <2>1 DEF ResumeState, HeapType
    <2>3. ShowsRing(g, M, r)
      <3> HIDE DEF g
      <3> QED
        BY <2>2, ShowsRingFrame
    <2>4. g \in HeapType
      <3> DEFINE f == [h EXCEPT !.run = @ \cup {s}, !.waiting = @ \ {s}]
                 prev == h.previous[v]
                 head == [f EXCEPT !.next[s] = h.current[v], !.previous[v] = s,
                                   !.first[v] = s, !.nstate[v] = @ + 1]
                 tail == [f EXCEPT !.next = [@ EXCEPT ![prev] = s, ![s] = h.current[v]],
                                   !.previous[v] = s, !.nstate[v] = @ + 1]
      <3>1. /\ f \in HeapType
            /\ f.previous[v] = h.previous[v] /\ f.current[v] = h.current[v]
        BY DEF HeapType
      <3>2. g = IF prev # NULL THEN tail ELSE head
        <4> HIDE DEF f
        <4> QED
          BY <1>1, <1>3, <2>1 DEF ResumeState, f
      <3>3. h.current[v] \in Task \cup {NULL} /\ prev \in Task \cup {NULL}
        BY DEF HeapType
      <3> HIDE DEF f, g
      <3> DEFINE nh == [f.next EXCEPT ![s] = h.current[v]]
                 nt == [f.next EXCEPT ![prev] = s, ![s] = h.current[v]]
                 fi == [f.first EXCEPT ![v] = s]
                 pr == [f.previous EXCEPT ![v] = s]
                 ns == [f.nstate EXCEPT ![v] = @ + 1]
      <3>4. /\ nh \in [Task -> Task \cup Machine \cup {NULL}]
            /\ nt \in [Task -> Task \cup Machine \cup {NULL}]
            /\ fi \in [Machine -> Task \cup {NULL}]
            /\ pr \in [Machine -> Task \cup {NULL}]
            /\ ns \in [Machine -> Nat]
        BY <3>1, <3>3 DEF HeapType
      <3>5. /\ head = [f EXCEPT !.next = nh, !.previous = pr, !.first = fi, !.nstate = ns]
            /\ tail = [f EXCEPT !.next = nt, !.previous = pr, !.nstate = ns]
        OBVIOUS
      <3> HIDE DEF nh, nt, fi, pr, ns, head, tail
      <3>6. head \in HeapType /\ tail \in HeapType
        BY <3>1, <3>4, <3>5 DEF HeapType
      <3> QED
        BY <3>2, <3>6
    <2>5. SameSession(g, h)
      BY <1>1, <1>3, <2>1 DEF ResumeState, HeapType, SameSession
    <2>6. g.run = h.run \cup {s} /\ g.waiting = h.waiting \ {s}
      BY <1>1, <1>3, <2>1 DEF ResumeState, HeapType
    <2>7. M \cup {v} = M
      BY <1>3
    <2> HIDE DEF g
    <2> QED
      BY <1>3, <2>2, <2>3, <2>4, <2>5, <2>6, <2>7 DEF g
  <1> QED
    BY <1>2, <1>3

LEMMA ResumeRing ==
    ASSUME NEW h \in HeapType, NEW s \in Task, NEW v \in Machine, NEW M,
           h.next[s] = v, s \notin h.run, HasRing(h, M), h.fatal = OK,
           h.nstate[v] = 0 <=> v \notin M,
           ResumeState(h, s).fatal = OK
    PROVE  LET g == ResumeState(h, s)
           IN  /\ g \in HeapType
               /\ HasRing(g, M \cup {v})
               /\ SameSession(g, h)
               /\ g.run = h.run \cup {s} /\ g.waiting = h.waiting \ {s}
               /\ h.cursor # NULL => g.cursor = h.cursor
  <1> DEFINE g == ResumeState(h, s)
  <1>1. PICK r : ShowsRing(h, M, r)
    BY DEF HasRing, ShowsRing
  <1> DEFINE p == IF h.nstate[v] = 0 THEN Appended(r, h.nworker, v) ELSE r
  <1>2. /\ g \in HeapType
        /\ ShowsRing(g, M \cup {v}, p)
        /\ SameSession(g, h)
        /\ g.run = h.run \cup {s} /\ g.waiting = h.waiting \ {s}
        /\ h.cursor # NULL => g.cursor = h.cursor
    BY ZenonT(60), <1>1, ResumedRing
  <1> HIDE DEF g, p
  <1>3. HasRing(g, M \cup {v})
    BY <1>2 DEF HasRing, ShowsRing
  <1> QED
    BY <1>2, <1>3 DEF g

(* The successor of the current task is a task or the end of the list. *)
LEMMA Successor ==
    ASSUME NEW h \in HeapType, NEW w \in Machine, NEW S,
           HasRunList(h, w, S), h.current[w] # NULL
    PROVE  h.next[h.current[w]] \in Task \cup {NULL} /\ h.nstate[w] > 0
  <1>1. PICK q \in [1..h.nstate[w] -> Task], k \in 0..h.nstate[w] :
             IsRunList(h, w, S, q, k)
    BY DEF HasRunList
  <1>2. h.nstate[w] \in Nat
    BY DEF HeapType
  <1>3. k + 1 \in 1..h.nstate[w] /\ h.current[w] = q[k + 1]
    BY <1>1, <1>2 DEF IsRunList
  <1>4. k + 1 # h.nstate[w] => q[k + 2] \in Task
    BY <1>2, <1>3
  <1> QED
    BY <1>1, <1>2, <1>3, <1>4 DEF IsRunList

(* The type of what an unlink returns, and its ring. *)
LEMMA UnlinkedRing ==
    ASSUME NEW h \in HeapType, NEW v \in Machine, NEW S, NEW M, NEW r, v \in M,
           HasRunList(h, v, S), ShowsRing(h, M, r), h.fatal = OK,
           h.sworker = v, h.suspendop = 0, h.current[v] # NULL
    PROVE  LET g == UnlinkCurrentState(h)
           IN  /\ g \in HeapType
               /\ IF g.nstate[v] = 0
                  THEN \E j \in 1..h.nworker :
                          r[j] = v /\ ShowsRing(g, M \ {v}, Without(r, h.nworker, j))
                  ELSE ShowsRing(g, M, r)
               /\ g.sstate = h.sstate /\ g.sworker = h.sworker
               /\ g.suspendop = 1
               /\ g.run = h.run /\ g.waiting = h.waiting
               /\ g.fatal = OK
  <1> DEFINE succ == h.next[h.current[v]]
             prev == h.previous[v]
             u == StateUnlink(h, v)
             d == [u EXCEPT !.nstate[v] = @ - 1]
             g == UnlinkCurrentState(h)
  <1>1. succ \in Task \cup {NULL} /\ h.nstate[v] \in Nat /\ h.nstate[v] > 0
    BY Successor DEF HeapType
  <1>2. u = IF prev # NULL
            THEN [h EXCEPT !.suspendop = 1, !.next[prev] = succ, !.current[v] = succ]
            ELSE [h EXCEPT !.suspendop = 1, !.first[v] = succ, !.current[v] = succ]
    BY DEF StateUnlink
  <1>3. u \in HeapType
    <2> DEFINE nx == [h.next EXCEPT ![prev] = succ]
               fi == [h.first EXCEPT ![v] = succ]
               cu == [h.current EXCEPT ![v] = succ]
    <2>1. /\ nx \in [Task -> Task \cup Machine \cup {NULL}]
          /\ fi \in [Machine -> Task \cup {NULL}]
          /\ cu \in [Machine -> Task \cup {NULL}]
      BY <1>1 DEF HeapType
    <2>2. u = IF prev # NULL
              THEN [h EXCEPT !.suspendop = 1, !.next = nx, !.current = cu]
              ELSE [h EXCEPT !.suspendop = 1, !.first = fi, !.current = cu]
      BY <1>2
    <2> HIDE DEF nx, fi, cu, u
    <2> QED
      BY ZenonT(60), <2>1, <2>2 DEF HeapType
  <1>4. /\ SameSession([u EXCEPT !.suspendop = 0], h) /\ u.suspendop = 1
        /\ u.run = h.run /\ u.waiting = h.waiting /\ u.fatal = OK
        /\ u.nstate = h.nstate
        /\ u.cursor = h.cursor /\ u.nworker = h.nworker
        /\ u.wnext = h.wnext /\ u.wprev = h.wprev
    BY <1>2 DEF HeapType, SameSession
  <1>5. g = IF d.nstate[v] = 0 THEN UnlinkWorker(d, v) ELSE d
    BY <1>4 DEF UnlinkCurrentState
  <1>6. /\ d \in HeapType
        /\ d.sstate = h.sstate /\ d.sworker = h.sworker /\ d.suspendop = 1
        /\ d.run = h.run /\ d.waiting = h.waiting /\ d.fatal = OK
        /\ d.cursor = h.cursor /\ d.nworker = h.nworker
        /\ d.wnext = h.wnext /\ d.wprev = h.wprev
    <2>1. u.sstate = h.sstate /\ u.sworker = h.sworker
      BY <1>3, <1>4 DEF HeapType, SameSession
    <2> HIDE DEF u
    <2> DEFINE ns == [u.nstate EXCEPT ![v] = @ - 1]
    <2>2. ns \in [Machine -> Nat]
      BY <1>1, <1>3, <1>4 DEF HeapType
    <2>3. d = [u EXCEPT !.nstate = ns]
      OBVIOUS
    <2> HIDE DEF ns, d
    <2> QED
      BY SMTT(60), <1>3, <1>4, <2>1, <2>2, <2>3 DEF HeapType
  <1> HIDE DEF d
  <1>7. ShowsRing(d, M, r)
    BY <1>6, ShowsRingFrame
  <1> DEFINE e == UnlinkWorker(d, v)
  <1>8. /\ e \in HeapType
        /\ \E j \in 1..d.nworker :
              r[j] = v /\ ShowsRing(e, M \ {v}, Without(r, d.nworker, j))
        /\ SameLists(e, d)
    BY <1>6, <1>7, RemovedRing
  <1> HIDE DEF e, g
  <1>9. CASE d.nstate[v] = 0
    BY <1>5, <1>6, <1>8, <1>9 DEF SameLists, SameSession, e, g
  <1>10. CASE d.nstate[v] # 0
    BY <1>5, <1>6, <1>7, <1>10 DEF g
  <1> QED
    BY <1>9, <1>10

LEMMA UnlinkRing ==
    ASSUME NEW h \in HeapType, NEW v \in Machine, NEW S, NEW M, v \in M,
           HasRunList(h, v, S), HasRing(h, M), h.fatal = OK,
           h.sworker = v, h.suspendop = 0, h.current[v] # NULL
    PROVE  LET g == UnlinkCurrentState(h)
           IN  /\ g \in HeapType
               /\ HasRing(g, IF g.nstate[v] = 0 THEN M \ {v} ELSE M)
               /\ g.sstate = h.sstate /\ g.sworker = h.sworker
               /\ g.suspendop = 1
               /\ g.run = h.run /\ g.waiting = h.waiting
               /\ g.fatal = OK
  <1> DEFINE g == UnlinkCurrentState(h)
  <1>1. PICK r : ShowsRing(h, M, r)
    BY DEF HasRing, ShowsRing
  <1>2. /\ g \in HeapType
        /\ IF g.nstate[v] = 0
           THEN \E j \in 1..h.nworker :
                   r[j] = v /\ ShowsRing(g, M \ {v}, Without(r, h.nworker, j))
           ELSE ShowsRing(g, M, r)
        /\ g.sstate = h.sstate /\ g.sworker = h.sworker
        /\ g.suspendop = 1
        /\ g.run = h.run /\ g.waiting = h.waiting
        /\ g.fatal = OK
    BY ZenonT(60), <1>1, UnlinkedRing
  <1> HIDE DEF g
  <1>3. HasRing(g, IF g.nstate[v] = 0 THEN M \ {v} ELSE M)
    BY <1>2 DEF HasRing, ShowsRing
  <1> QED
    BY <1>2, <1>3 DEF g
----------------------------------------------------------------------------
(* What each operator does to all the structures.                          *)

(* A suspended task is resumed. *)
LEMMA ResumeWF ==
    ASSUME NEW h, NEW S, WellFormed(h, S), Disjoint(S),
           NEW s \in Task, NEW v \in Machine,
           h.next[s] = v, s \notin h.run, \A w \in Machine : s \notin S[w]
    PROVE  LET g == ResumeState(h, s)
           IN  /\ WellFormed(g, [S EXCEPT ![v] = @ \cup {s}])
               /\ SameSession(g, h)
               /\ g.run = h.run \cup {s} /\ g.waiting = h.waiting \ {s}
               /\ h.cursor # NULL => g.cursor = h.cursor
               /\ \A w \in Machine : h.current[w] # NULL => g.current[w] = h.current[w]
               /\ \A t \in Task \ {s} : (\A w \in Machine : t \notin S[w])
                                         => g.next[t] = h.next[t]
  <1> DEFINE g == ResumeState(h, s)
             M == {w \in Machine : h.nstate[w] > 0}
             R == [S EXCEPT ![v] = @ \cup {s}]
  <1>1. /\ h \in HeapType /\ h.fatal = OK /\ HasRunList(h, v, S[v])
        /\ HasRing(h, M) /\ h.nstate \in [Machine -> Nat]
        /\ \A w \in Machine : HasRunList(h, w, S[w])
    BY DEF WellFormed, HeapType
  <1>2. /\ HasRunList(g, v, S[v] \cup {s})
        /\ g.fatal = h.fatal
        /\ \A t \in Task \ (S[v] \cup {s}) : g.next[t] = h.next[t]
        /\ \A w \in Machine \ {v} :
              /\ g.first[w] = h.first[w] /\ g.current[w] = h.current[w]
              /\ g.previous[w] = h.previous[w]
              /\ g.nstate[w] = h.nstate[w]
        /\ h.current[v] # NULL => g.current[v] = h.current[v]
        /\ g.nstate[v] = h.nstate[v] + 1
    <2>1. s \notin S[v]
      OBVIOUS
    <2> DEFINE Q == S[v]
    <2> HIDE DEF Q
    <2> SUFFICES /\ HasRunList(g, v, Q \cup {s})
                 /\ g.fatal = h.fatal
                 /\ \A t \in Task \ (Q \cup {s}) : g.next[t] = h.next[t]
                 /\ \A w \in Machine \ {v} :
                       /\ g.first[w] = h.first[w] /\ g.current[w] = h.current[w]
                       /\ g.previous[w] = h.previous[w]
                       /\ g.nstate[w] = h.nstate[w]
                 /\ h.current[v] # NULL => g.current[v] = h.current[v]
                 /\ g.nstate[v] = h.nstate[v] + 1
      BY DEF Q
    <2>2. HasRunList(h, v, Q) /\ s \notin Q
      BY <1>1, <2>1 DEF Q
    <2> QED
      BY <1>1, <2>2, ResumeList
  <1>3. h.nstate[v] = 0 <=> v \notin M
    BY <1>1
  <1> HIDE DEF M
  <1>4. /\ g \in HeapType
        /\ HasRing(g, M \cup {v})
        /\ SameSession(g, h)
        /\ g.run = h.run \cup {s} /\ g.waiting = h.waiting \ {s}
        /\ h.cursor # NULL => g.cursor = h.cursor
    <2>1. ResumeState(h, s).fatal = OK
      BY <1>1, <1>2
    <2> QED
      BY <1>1, <1>3, <2>1, ResumeRing
  <1> HIDE DEF g
  <1>5. ASSUME NEW w \in Machine PROVE HasRunList(g, w, R[w])
    <2>1. CASE w = v
      BY <1>2, <2>1 DEF Disjoint
    <2>2. CASE w # v
      <3>1. R[w] = S[w]
        BY <2>2 DEF Disjoint
      <3>2. \A t \in S[w] : g.next[t] = h.next[t]
        BY <1>2, <2>2 DEF Disjoint
      <3>3. HasRunList(h, w, S[w])
        BY <1>1
      <3> HIDE DEF R
      <3> QED
        BY <1>2, <2>2, <3>1, <3>2, <3>3, ListFrame
    <2> QED
      BY <2>1, <2>2
  <1>6. {w \in Machine : g.nstate[w] > 0} = M \cup {v}
    BY <1>1, <1>2 DEF M
  <1> HIDE DEF R
  <1>7. WellFormed(g, R)
    BY <1>1, <1>2, <1>4, <1>5, <1>6 DEF WellFormed
  <1> QED
    BY <1>2, <1>4, <1>7 DEF g, R

(* The task of the session leaves its list. *)
LEMMA UnlinkWF ==
    ASSUME NEW h, NEW S, WellFormed(h, S), Disjoint(S), NEW v \in Machine,
           h.sworker = v, h.suspendop = 0, h.current[v] # NULL
    PROVE  LET g == UnlinkCurrentState(h)
               c == h.current[v]
           IN  /\ c \in S[v]
               /\ WellFormed(g, [S EXCEPT ![v] = @ \ {c}])
               /\ g.sstate = h.sstate /\ g.sworker = h.sworker
               /\ g.run = h.run /\ g.waiting = h.waiting
               /\ \A t \in Task : (\A w \in Machine : t \notin S[w])
                                  => g.next[t] = h.next[t]
  <1> DEFINE g == UnlinkCurrentState(h)
             c == h.current[v]
             M == {w \in Machine : h.nstate[w] > 0}
             R == [S EXCEPT ![v] = @ \ {c}]
  <1>1. /\ h \in HeapType /\ h.fatal = OK /\ HasRunList(h, v, S[v])
        /\ HasRing(h, M) /\ h.nstate \in [Machine -> Nat]
        /\ \A w \in Machine : HasRunList(h, w, S[w])
    BY DEF WellFormed, HeapType
  <1>2. /\ c \in S[v]
        /\ HasRunList(g, v, S[v] \ {c})
        /\ \A t \in Task : t \notin S[v] \ {c} => g.next[t] = h.next[t]
        /\ \A w \in Machine \ {v} :
              /\ g.first[w] = h.first[w] /\ g.current[w] = h.current[w]
              /\ g.previous[w] = h.previous[w]
              /\ g.nstate[w] = h.nstate[w]
        /\ h.nstate[v] > 0 /\ g.nstate[v] = h.nstate[v] - 1
    BY ZenonT(60), <1>1, UnlinkList
  <1>3. v \in M
    BY <1>2
  <1> HIDE DEF M
  <1>4. /\ g \in HeapType
        /\ HasRing(g, IF g.nstate[v] = 0 THEN M \ {v} ELSE M)
        /\ g.sstate = h.sstate /\ g.sworker = h.sworker
        /\ g.run = h.run /\ g.waiting = h.waiting
        /\ g.fatal = OK
    BY <1>1, <1>3, UnlinkRing
  <1> HIDE DEF g, c
  <1>5. ASSUME NEW w \in Machine PROVE HasRunList(g, w, R[w])
    <2>1. CASE w = v
      BY <1>2, <2>1 DEF Disjoint
    <2>2. CASE w # v
      <3>1. R[w] = S[w]
        BY <2>2 DEF Disjoint
      <3>2. \A t \in S[w] : g.next[t] = h.next[t]
        BY <1>2, <2>2 DEF Disjoint
      <3> QED
        BY SMTT(60), <1>1, <1>2, <2>2, <3>1, <3>2, ListFrame
    <2> QED
      BY <2>1, <2>2
  <1>6. {w \in Machine : g.nstate[w] > 0} = IF g.nstate[v] = 0 THEN M \ {v} ELSE M
    BY <1>1, <1>2 DEF M
  <1> HIDE DEF R
  <1>7. WellFormed(g, R)
    BY <1>4, <1>5, <1>6 DEF WellFormed
  <1>8. \A t \in Task : (\A w \in Machine : t \notin S[w]) => g.next[t] = h.next[t]
    BY <1>2
  <1> QED
    BY <1>2, <1>4, <1>7, <1>8 DEF g, c, R

(* The task of the session is suspended. *)
LEMMA SuspendWF ==
    ASSUME NEW h, NEW S, WellFormed(h, S), Disjoint(S), NEW v \in Machine,
           h.sworker = v, h.suspendop = 0,
           h.sstate \in Task, h.current[v] = h.sstate,
           NEW g, \E wait \in BOOLEAN : g = SuspendCurrentState(h, wait)
    PROVE  LET c == h.sstate
           IN  /\ c \in S[v]
               /\ WellFormed(g, [S EXCEPT ![v] = @ \ {c}])
               /\ g.sstate = c /\ g.sworker = v
               /\ g.run = h.run \ {c}
               /\ g.next[c] = v
               /\ \A t \in Task \ {c} : (\A w \in Machine : t \notin S[w])
                                         => g.next[t] = h.next[t]
  <1>10. PICK wait \in BOOLEAN : g = SuspendCurrentState(h, wait)
    OBVIOUS
  <1> DEFINE u == UnlinkCurrentState(h)
             c == h.sstate
             R == [S EXCEPT ![v] = @ \ {c}]
             nx == [u.next EXCEPT ![c] = v]
             wa == IF wait THEN u.waiting \cup {c} ELSE u.waiting
  <1>1. c # NULL
    BY NullAssumption
  <1>2. /\ c \in S[v]
        /\ WellFormed(u, R)
        /\ u.sstate = h.sstate /\ u.sworker = h.sworker
        /\ u.run = h.run /\ u.waiting = h.waiting
        /\ \A t \in Task : (\A w \in Machine : t \notin S[w])
                           => u.next[t] = h.next[t]
    BY <1>1, UnlinkWF
  <1>3. g = [u EXCEPT !.next = nx, !.run = @ \ {c}, !.waiting = wa]
    BY <1>10 DEF SuspendCurrentState
  <1> HIDE DEF u
  <1>4. u \in HeapType
    BY <1>2 DEF WellFormed
  <1>5. /\ nx \in [Task -> Task \cup Machine \cup {NULL}]
        /\ wa \in SUBSET Task
        /\ nx[c] = v /\ \A t \in Task \ {c} : nx[t] = u.next[t]
    BY <1>4 DEF HeapType
  <1> HIDE DEF nx, wa
  <1>6. /\ g \in HeapType
        /\ g.next = nx /\ g.run = u.run \ {c} /\ g.waiting = wa
        /\ g.fatal = u.fatal /\ g.first = u.first /\ g.current = u.current
        /\ g.previous = u.previous /\ g.nstate = u.nstate
        /\ g.cursor = u.cursor /\ g.nworker = u.nworker
        /\ g.wnext = u.wnext /\ g.wprev = u.wprev
        /\ g.sstate = u.sstate /\ g.sworker = u.sworker
    BY <1>3, <1>4, <1>5 DEF HeapType
  <1>7. ASSUME NEW w \in Machine PROVE HasRunList(g, w, R[w])
    <2>1. HasRunList(u, w, R[w])
      BY <1>2 DEF WellFormed
    <2>2. \A t \in R[w] : t \in Task /\ t # c
      BY <1>2 DEF Disjoint
    <2>3. \A t \in R[w] : g.next[t] = u.next[t]
      BY <1>5, <1>6, <2>2
    <2> HIDE DEF R
    <2> QED
      BY <1>6, <2>1, <2>3, ListFrame
  <1>8. HasRing(g, {w \in Machine : g.nstate[w] > 0})
    BY <1>2, <1>6, RingFrame DEF WellFormed
  <1> HIDE DEF R
  <1>9. WellFormed(g, R)
    BY <1>2, <1>6, <1>7, <1>8 DEF WellFormed
  <1> QED
    BY <1>2, <1>5, <1>6, <1>9 DEF R

(* The cursor of v moves past the current task. *)
LEMMA NextWF ==
    ASSUME NEW h, NEW S, WellFormed(h, S), NEW v \in Machine,
           h.current[v] # NULL
    PROVE  LET g == StateNext(h, v)
           IN  /\ WellFormed(g, S)
               /\ g.next = h.next /\ g.run = h.run /\ g.waiting = h.waiting
               /\ SameSession(g, h)
  <1> DEFINE g == StateNext(h, v)
             c == h.current[v]
             pr == [h.previous EXCEPT ![v] = c]
             cu == [h.current EXCEPT ![v] = h.next[c]]
  <1>1. /\ h \in HeapType /\ h.fatal = OK
        /\ \A w \in Machine : HasRunList(h, w, S[w])
        /\ HasRing(h, {w \in Machine : h.nstate[w] > 0})
    BY DEF WellFormed
  <1>2. h.next[c] \in Task \cup {NULL} /\ c \in Task
    BY <1>1, Successor DEF HeapType
  <1>3. /\ pr \in [Machine -> Task \cup {NULL}]
        /\ cu \in [Machine -> Task \cup {NULL}]
        /\ \A w \in Machine \ {v} : pr[w] = h.previous[w] /\ cu[w] = h.current[w]
    BY <1>1, <1>2 DEF HeapType
  <1>4. g = [h EXCEPT !.previous = pr, !.current = cu]
    BY DEF StateNext
  <1> HIDE DEF pr, cu, c, g
  <1>5. /\ g \in HeapType
        /\ g.next = h.next /\ g.run = h.run /\ g.waiting = h.waiting
        /\ g.first = h.first /\ g.nstate = h.nstate /\ g.fatal = h.fatal
        /\ g.previous = pr /\ g.current = cu
        /\ g.cursor = h.cursor /\ g.nworker = h.nworker
        /\ g.wnext = h.wnext /\ g.wprev = h.wprev
    BY <1>1, <1>3, <1>4 DEF HeapType
  <1>6. SameSession(g, h)
    BY <1>1, <1>4 DEF HeapType, SameSession
  <1>7. ASSUME NEW w \in Machine PROVE HasRunList(g, w, S[w])
    <2>1. CASE w = v
      BY <1>1, <2>1, NextKeepsList DEF g
    <2>2. CASE w # v
      BY <1>1, <1>3, <1>5, <2>2, ListFrame
    <2> QED
      BY <2>1, <2>2
  <1>8. HasRing(g, {w \in Machine : g.nstate[w] > 0})
    BY <1>1, <1>5, RingFrame
  <1>9. WellFormed(g, S)
    BY <1>1, <1>5, <1>7, <1>8 DEF WellFormed
  <1> QED
    BY <1>5, <1>6, <1>9 DEF g

(* The cursor of v goes back to the head of its list. *)
LEMMA RewindWF ==
    ASSUME NEW h, NEW S, WellFormed(h, S), NEW v \in Machine, S[v] \subseteq h.run
    PROVE  LET g == RewindWorkerStates(h, v)
           IN  /\ WellFormed(g, S)
               /\ g.next = h.next /\ g.run = h.run /\ g.waiting = h.waiting
               /\ g.nstate = h.nstate /\ g.cursor = h.cursor
               /\ SameSession(g, h)
               /\ h.nstate[v] # 0 => g.current[v] \in S[v]
  <1> DEFINE g == RewindWorkerStates(h, v)
             pr == [h.previous EXCEPT ![v] = NULL]
             cu == [h.current EXCEPT ![v] = h.first[v]]
             fa == IF h.nstate[v] # 0 /\ h.first[v] \notin h.run
                   THEN "RWINDW.1" ELSE h.fatal
  <1>1. /\ h \in HeapType /\ h.fatal = OK
        /\ \A w \in Machine : HasRunList(h, w, S[w])
        /\ HasRing(h, {w \in Machine : h.nstate[w] > 0})
    BY DEF WellFormed
  <1>2. /\ HasRunList(g, v, S[v]) /\ g.fatal = h.fatal
        /\ h.nstate[v] > 0 => g.current[v] \in S[v]
    BY <1>1, RewindKeepsList
  <1>3. /\ pr \in [Machine -> Task \cup {NULL}]
        /\ cu \in [Machine -> Task \cup {NULL}]
        /\ \A w \in Machine \ {v} : pr[w] = h.previous[w] /\ cu[w] = h.current[w]
    BY <1>1 DEF HeapType
  <1>4. g = [h EXCEPT !.previous = pr, !.current = cu, !.fatal = fa]
    BY DEF RewindWorkerStates
  <1>11. fa = h.fatal
    BY <1>1, <1>2 DEF RewindWorkerStates, HeapType
  <1> HIDE DEF pr, cu, fa, g
  <1>5. /\ g \in HeapType
        /\ g.next = h.next /\ g.run = h.run /\ g.waiting = h.waiting
        /\ g.first = h.first /\ g.nstate = h.nstate
        /\ g.previous = pr /\ g.current = cu
        /\ g.cursor = h.cursor /\ g.nworker = h.nworker
        /\ g.wnext = h.wnext /\ g.wprev = h.wprev
    BY <1>1, <1>3, <1>4, <1>11 DEF HeapType
  <1>6. SameSession(g, h)
    BY <1>1, <1>4 DEF HeapType, SameSession
  <1>7. ASSUME NEW w \in Machine PROVE HasRunList(g, w, S[w])
    <2>1. CASE w = v
      BY <1>2, <2>1
    <2>2. CASE w # v
      BY <1>1, <1>3, <1>5, <2>2, ListFrame
    <2> QED
      BY <2>1, <2>2
  <1>8. HasRing(g, {w \in Machine : g.nstate[w] > 0})
    BY <1>1, <1>5, RingFrame
  <1>9. WellFormed(g, S)
    BY <1>1, <1>2, <1>5, <1>7, <1>8 DEF WellFormed
  <1>10. h.nstate[v] \in Nat
    BY <1>1 DEF HeapType
  <1> QED
    BY <1>2, <1>5, <1>6, <1>9, <1>10 DEF g

(* The cursor of the VM moves to the next worker. *)
LEMMA NextWorkerWF ==
    ASSUME NEW h, NEW S, WellFormed(h, S), h.cursor # NULL
    PROVE  LET g == NextWorker(h)
           IN  /\ WellFormed(g, S)
               /\ SameLists(g, h)
  <1> DEFINE g == NextWorker(h)
  <1>1. /\ h \in HeapType /\ h.fatal = OK
        /\ \A w \in Machine : HasRunList(h, w, S[w])
        /\ HasRing(h, {w \in Machine : h.nstate[w] > 0})
    BY DEF WellFormed
  <1>2. g \in HeapType
    BY <1>1 DEF NextWorker, HeapType
  <1>3. SameLists(g, h)
    BY <1>1 DEF NextWorker, HeapType, SameLists, SameSession
  <1>4. HasRing(g, {w \in Machine : h.nstate[w] > 0})
    BY <1>1, NextKeepsRing
  <1> HIDE DEF g
  <1>5. ASSUME NEW w \in Machine PROVE HasRunList(g, w, S[w])
    BY <1>1, <1>3, ListFrame DEF SameLists
  <1>6. WellFormed(g, S)
    BY <1>1, <1>2, <1>3, <1>4, <1>5 DEF WellFormed, SameLists
  <1> QED
    BY <1>3, <1>6 DEF g

(* Only the session, the flags of the tasks outside the lists and their    *)
(* next pointers differ.                                                   *)
LEMMA FrameWF ==
    ASSUME NEW h, NEW g, NEW S, WellFormed(h, S), g \in HeapType,
           g.fatal = h.fatal, g.first = h.first, g.current = h.current,
           g.previous = h.previous, g.nstate = h.nstate,
           g.wnext = h.wnext, g.wprev = h.wprev, g.cursor = h.cursor,
           g.nworker = h.nworker,
           \A w \in Machine : \A t \in S[w] : g.next[t] = h.next[t]
    PROVE  WellFormed(g, S)
  <1>1. ASSUME NEW w \in Machine PROVE HasRunList(g, w, S[w])
    BY ListFrame DEF WellFormed
  <1>2. HasRing(g, {w \in Machine : g.nstate[w] > 0})
    BY RingFrame DEF WellFormed
  <1> QED
    BY <1>1, <1>2 DEF WellFormed
=============================================================================
