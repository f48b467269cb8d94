---------------------------- MODULE ContextProofs ----------------------------
(***************************************************************************)
(* The safety properties of Context hold, and it implements Branches, for  *)
(* any number of tasks, trees of any depth and any programs in which       *)
(* subtasks resume their own children only.                                *)
(*                                                                         *)
(* A step keeps the tree good and does one of four things to it (Stepped): *)
(* nothing that shows from afar, a new task, the end of a task, or some    *)
(* branches begin to close.                                                *)
(***************************************************************************)
EXTENDS ImplosionProofs

----------------------------------------------------------------------------
(* Exceptions and aborts.                                                  *)

(* The path q of an exception of t, up to h whose caller catches it. *)
Route(c, d, r, b, t, q, h) ==
    /\ q \in Seq(Task) /\ q # <<>> /\ Sorted(q, Different)
    /\ \A i \in 2..Len(q) : q[i] = c.parent[q[i - 1]]
    /\ Last(q) = h /\ h \in ToSet(q) /\ t \in ToSet(q)
    /\ \A u \in ToSet(q) : /\ u \in Normal(c) /\ r[u] = r[t] /\ b[u] = NULL /\ c.parent[u] # NULL
                           /\ u \in Active(c) /\ u \notin c.bound
                           /\ c.caller[u] = c.parent[u] /\ c.caller[u] \in Normal(c)
                           /\ d[h] <= d[u]
    /\ \A u \in ToSet(q) : u # h => c.caller[u] \in ToSet(q)
    /\ \A u \in ToSet(q) : u # t => u \in c.waiting /\ \E w \in ToSet(q) : w # h /\ c.caller[w] = u
    /\ LET k == c.caller[h]
       IN  /\ k \in Normal(c) /\ k \notin ToSet(q) /\ k \in c.waiting /\ k \notin c.bound /\ k \notin c.run
           /\ r[k] = r[t] /\ b[k] = NULL /\ d[k] < d[h] /\ c.catch[k] = "catch"

(* zm_getLastBeforeCatch, in a good tree. *)
LEMMA RouteIs ==
    ASSUME NEW c, NEW d, NEW r, NEW b, NEW p, NEW N, Inv(c, d, r, b, p, N),
           NEW t \in Normal(c), t \in c.run, NEW q, q = ExceptionPath(c, t), q # <<>>
    PROVE  \E h : Route(c, d, r, b, t, q, h)
  <1>1. PICK h : /\ IsPath(c, t, q, h, Normal(c), d)
                 /\ Last(q) = h /\ h \in ToSet(q) /\ t \in ToSet(q)
                 /\ \A u \in ToSet(q) : u \in Normal(c) /\ r[u] = r[t] /\ b[u] = NULL /\ c.parent[u] # NULL
                                        /\ u \in Active(c) /\ u \notin c.bound
                                        /\ c.caller[u] = c.parent[u] /\ c.caller[u] \in Normal(c)
                 /\ \A u \in ToSet(q) : u # h => c.caller[u] \in ToSet(q) /\ d[h] < d[u]
                 /\ \A u \in ToSet(q) : u # t =>
                       u \in c.waiting /\ \E w \in ToSet(q) : w # h /\ c.caller[w] = u
                 /\ c.caller[h] \notin ToSet(q) /\ c.caller[h] \in c.waiting
                 /\ c.caller[h] \notin c.bound /\ c.caller[h] \notin c.run
                 /\ r[c.caller[h]] = r[t] /\ b[c.caller[h]] = NULL
                 /\ c.catch[c.caller[h]] = "catch"
    BY PathIs
  <1>2. d \in [Task -> Nat] /\ Normal(c) \subseteq Task
    BY DEF Inv, Tree, Normal
  <1>3. q \in Seq(Normal(c)) /\ Sorted(q, Different) /\ \A i \in 2..Len(q) : q[i] = c.caller[q[i - 1]]
    BY <1>1 DEF IsPath
  <1>4. q \in Seq(Task)
    BY <1>2, <1>3
  <1>5. \A i \in 2..Len(q) : q[i] = c.parent[q[i - 1]]
    <2>1. ASSUME NEW i \in 2..Len(q) PROVE q[i - 1] \in ToSet(q)
      <3>1. i - 1 \in 1..Len(q) /\ DOMAIN q = 1..Len(q)
        BY <1>4
      <3> QED
        BY <3>1 DEF ToSet
    <2> QED
      BY <2>1, <1>1, <1>3
  <1>6. \A u \in ToSet(q) : d[h] <= d[u]
    BY <1>1, <1>2
  <1>7. d[c.caller[h]] < d[h]
    <2>1. Falls(c.caller, Normal(c), d)
      BY NormalFalls
    <2> QED
      BY <2>1, <1>1, TaskAssumption DEF Falls, Normal
  <1> QED
    BY <1>1, <1>3, <1>4, <1>5, <1>6, <1>7 DEF Route

(* What closes with the path: the tasks of it that are not reset, and what  *)
(* is below them.                                                           *)
Closure(c, d, r, t, q, h, closed, below, Q) ==
    /\ closed \in Seq(Task) /\ Sorted(closed, Different)
    /\ ToSet(closed) = ToSet(q) \cap {u \in Task : c.catch[u] # "reset"}
    /\ below \in Seq(Task) /\ Sorted(below, Different) /\ ToSet(closed) \cap ToSet(below) = {}
    /\ Q = ToSet(closed) \cup ToSet(below) /\ Q \subseteq Normal(c)
    /\ \A u \in Normal(c) : c.parent[u] \in Q => u \in Q
    /\ \A u \in Q : r[u] = r[t] /\ d[h] <= d[u]
    /\ Q # {} =>
          \E f \in ToSet(closed) : c.parent[f] \notin Q /\ \A u \in Q : c.parent[u] \in Q \/ u = f
    /\ ToSet(closed) = {} => Q = {}

(* The branches below the path are closed with it. *)
LEMMA ClosureIs ==
    ASSUME NEW c, NEW d, NEW r, NEW b, NEW p, NEW N, Inv(c, d, r, b, p, N),
           NEW t \in Normal(c), NEW q, NEW h, Route(c, d, r, b, t, q, h),
           NEW closed, closed = Only(q, {u \in Task : c.catch[u] # "reset"}),
           NEW w, w.parent = c.parent, w.ring = c.ring,
           \A u \in Task : w.pmode[u] = IF u \in ToSet(closed) THEN "CLOSE" ELSE c.pmode[u],
           NEW first, first = FlattenSeq([i \in DOMAIN closed |-> c.ring[closed[i]]]),
           NEW below, below = Only(DeepStack(w, first), Task \ Locked(w)),
           \A k \in Closing(c) : r[k] # r[t]
    PROVE  \E Q : Closure(c, d, r, t, q, h, closed, below, Q)
  <1> DEFINE C == ToSet(closed)
             L == Len(q)
             S == ToSet(DeepStack(w, first))
             B == ToSet(below)
             Q == C \cup B
  <1>1. c \in Trees /\ N \in Nat /\ Tree(c, d) /\ RootOK(c, d, r, N)
    BY DEF Inv
  <1>2. /\ Live(c) \subseteq Task /\ Normal(c) \subseteq Live(c) /\ Normal(c) \subseteq Task
        /\ NULL \notin Task
        /\ \A u \in Live(c) : u \in Normal(c) \/ u \in Closing(c)
    BY TaskAssumption DEF Live, Normal, Closing
  <1>3. /\ q \in Seq(Task) /\ q # <<>> /\ Sorted(q, Different) /\ L \in Nat /\ DOMAIN q = 1..L
        /\ \A i \in 2..L : q[i] = c.parent[q[i - 1]]
        /\ \A u \in ToSet(q) : u \in Normal(c) /\ r[u] = r[t] /\ d[h] <= d[u]
    BY DEF Route
  <1>4. /\ closed \in Seq(Task) /\ Sorted(closed, Different)
        /\ C = ToSet(q) \cap {u \in Task : c.catch[u] # "reset"}
    BY <1>3, OnlyIs
  <1>5. C \subseteq Normal(c) /\ C \subseteq ToSet(q)
    BY <1>3, <1>4
  <1> HIDE DEF C, L
  <1>6. Live(w) = Live(c)
    BY <1>5 DEF Live, Normal, C
  <1>7. Locked(w) = Locked(c) \cup C
    BY <1>5, <1>2 DEF Locked, Normal, C
  <1>8. Tree(w, d)
    BY <1>1, <1>6 DEF Tree
  <1>9. /\ \A u \in Task : w.ring[u] \in Seq(Task) /\ ToSet(w.ring[u]) = {v \in Live(c) : c.parent[v] = u}
        /\ \A u \in Task : Sorted(w.ring[u], Different)
        /\ d \in [Task -> Nat] /\ \A u \in Live(c) : c.parent[u] # NULL =>
              c.parent[u] \in Live(c) /\ d[c.parent[u]] < d[u]
    BY <1>1 DEF Tree
  (* The subtasks of the closed tasks. *)
  <1>10. /\ first \in Seq(Task) /\ ToSet(first) = {v \in Live(c) : c.parent[v] \in C}
         /\ Sorted(first, Different)
    <2> DEFINE n == Len(closed)
               ss == [i \in DOMAIN closed |-> c.ring[closed[i]]]
    <2>1. n \in Nat /\ DOMAIN closed = 1..n
      BY <1>4
    <2>2. \A i \in 1..n : closed[i] \in C /\ closed[i] \in Task
      BY <2>1, <1>4 DEF C, ToSet
    <2>3. \A u \in C : \E i \in 1..n : closed[i] = u
      BY <2>1 DEF C, ToSet
    <2> HIDE DEF n
    <2>4. ss \in [1..n -> Seq(Task)] /\ \A i \in 1..n : ss[i] = w.ring[closed[i]]
      BY <2>1, <2>2, <1>9
    <2>5. \A i \in 1..n : ToSet(ss[i]) = {v \in Live(c) : c.parent[v] = closed[i]} /\ Sorted(ss[i], Different)
      <3>1. SUFFICES ASSUME NEW i \in 1..n PROVE ToSet(w.ring[closed[i]]) = {v \in Live(c) : c.parent[v] = closed[i]} /\ Sorted(w.ring[closed[i]], Different)
        BY <2>4
      <3> DEFINE x == closed[i]
      <3>2. x \in Task
        BY <2>2
      <3> HIDE DEF x
      <3>3. ToSet(w.ring[x]) = {v \in Live(c) : c.parent[v] = x} /\ Sorted(w.ring[x], Different)
        BY <3>2, <1>9
      <3> QED
        BY <3>3 DEF x
    <2> HIDE DEF ss
    <2>6. first = FlattenSeq(ss)
      BY DEF ss
    <2>7. /\ FlattenSeq(ss) \in Seq(Task)
          /\ ToSet(FlattenSeq(ss)) = UNION {ToSet(ss[i]) : i \in 1..n}
          /\ \A R : /\ \A i \in 1..n : Sorted(ss[i], R)
                    /\ \A i, j \in 1..n : i < j =>
                          \A x \in ToSet(ss[i]), y \in ToSet(ss[j]) : <<x, y>> \in R
                    => Sorted(FlattenSeq(ss), R)
      BY <2>1, <2>4, FlattenIs
    <2>8. ToSet(first) = {v \in Live(c) : c.parent[v] \in C}
      <3>1. ToSet(first) = UNION {ToSet(ss[i]) : i \in 1..n}
        BY <2>6, <2>7
      <3>2. ASSUME NEW v \in ToSet(first) PROVE v \in Live(c) /\ c.parent[v] \in C
        <4>1. PICK i \in 1..n : v \in ToSet(ss[i])
          BY <3>1, <3>2
        <4> QED
          BY <4>1, <2>2, <2>5
      <3>3. ASSUME NEW v \in Live(c), c.parent[v] \in C PROVE v \in ToSet(first)
        <4>1. PICK i \in 1..n : c.parent[v] = closed[i]
          BY <3>3, <2>3
        <4>2. v \in ToSet(ss[i])
          BY <4>1, <2>5
        <4> QED
          BY <4>2, <3>1
      <3> QED
        BY <3>2, <3>3
    <2>9. \A i, j \in 1..n : i < j => \A x \in ToSet(ss[i]), y \in ToSet(ss[j]) : <<x, y>> \in Different
      <3>1. SUFFICES ASSUME NEW i \in 1..n, NEW j \in 1..n, i < j, NEW x \in ToSet(ss[i]),
                            NEW y \in ToSet(ss[j])
                     PROVE  <<x, y>> \in Different
        OBVIOUS
      <3>2. closed[i] # closed[j]
        <4>1. \A k, l \in 1..n : k < l => <<closed[k], closed[l]>> \in Different
          BY <2>1, <1>4 DEF Sorted
        <4> QED
          BY <3>1, <4>1 DEF Different
      <3>3. x \in Task /\ y \in Task /\ x # y
        BY <3>1, <3>2, <2>5, <1>2
      <3> QED
        BY <3>3 DEF Different
    <2>10. Sorted(first, Different)
      BY <2>5, <2>6, <2>7, <2>9
    <2> QED
      BY <2>6, <2>7, <2>8, <2>10
  <1>11. Apart(w, first)
    <2> DEFINE X == {u \in Live(c) : c.parent[u] \notin C}
    <2>1. X \cap ToSet(first) = {}
      BY <1>10
    <2>2. ToSet(Below(w, first)) \subseteq X
      <3>1. ToSet(Below(w, first)) = UNION {ToSet(w.ring[u]) : u \in ToSet(first) \ Locked(w)}
        <4>1. \A u \in Task : w.ring[u] \in Seq(Task)
          BY <1>9
        <4>2. first \in Seq(Task)
          BY <1>10
        <4> QED
          BY <4>1, <4>2, BelowIs
      <3>2. \A u \in ToSet(first) \ Locked(w) : u \in Task /\ u \notin C
        BY <1>10, <1>7, <1>2
      <3>3. ASSUME NEW v \in ToSet(Below(w, first)) PROVE v \in X
        <4>1. PICK u \in ToSet(first) \ Locked(w) : v \in ToSet(w.ring[u])
          BY <3>1, <3>3
        <4>2. u \in Task /\ u \notin C
          BY <3>2
        <4>3. v \in Live(c) /\ c.parent[v] = u
          BY <4>1, <4>2, <1>9
        <4> QED
          BY <4>2, <4>3
      <3> QED
        BY <3>3
    <2>3. Closed(w, X)
      <3>1. \A u \in X \ Locked(w) : u \in Task /\ u \notin C
        BY <1>7, <1>2
      <3> QED
        BY <3>1, <1>9 DEF Closed
    <2> QED
      BY <2>1, <2>2, <2>3 DEF Apart
  <1>12. IsStack(w, first, DeepStack(w, first))
    BY <1>6, <1>8, <1>10, <1>11, DeepStackIs
  <1>13. /\ DeepStack(w, first) \in Seq(Task) /\ Sorted(DeepStack(w, first), Different)
         /\ ToSet(first) \subseteq S
         /\ \A X : ToSet(first) \subseteq X /\ Closed(w, X) => S \subseteq X
    BY <1>12 DEF IsStack
  <1>14. below \in Seq(Task) /\ Sorted(below, Different) /\ B = S \cap (Task \ Locked(w))
    <2> DEFINE z == DeepStack(w, first)
               Y == Task \ Locked(w)
    <2>1. z \in Seq(Task) /\ Sorted(z, Different) /\ ToSet(z) = S
      BY <1>13
    <2> HIDE DEF z, Y, S
    <2>2. /\ Only(z, Y) \in Seq(Task) /\ Sorted(Only(z, Y), Different)
          /\ ToSet(Only(z, Y)) = ToSet(z) \cap Y
      BY <2>1, OnlyIs
    <2> QED
      BY <2>1, <2>2 DEF z, Y
  <1>15. \A u \in S \ Locked(w) : ToSet(w.ring[u]) \subseteq S
    BY <1>12 DEF IsStack, Closed
  <1> HIDE DEF S, B
  <1> DEFINE K == {u \in Live(c) : r[u] = r[t] /\ d[h] <= d[u]}
  <1>16. \A v \in Live(c) : c.parent[v] # NULL =>
            r[v] = r[c.parent[v]] /\ c.parent[v] \in Live(c) /\ d[c.parent[v]] < d[v]
    BY <1>1, <1>9 DEF RootOK
  <1>17. h \in Task
    BY <1>2, <1>3 DEF Route
  <1>18. C \subseteq K
    BY <1>2, <1>3, <1>5
  <1>19. \A u \in K, v \in Live(c) : c.parent[v] = u => v \in K
    BY <1>16, <1>17, <1>9, <1>2
  <1>20. S \subseteq K
    <2>1. ToSet(first) \subseteq K
      <3> HIDE DEF K
      <3> QED
        BY <1>10, <1>18, <1>19
    <2>2. Closed(w, K)
      <3>1. K \subseteq Task
        BY <1>2
      <3> HIDE DEF K
      <3> QED
        BY <3>1, <1>19, <1>9 DEF Closed
    <2> HIDE DEF K
    <2> QED
      BY <2>1, <2>2, <1>13
  <1>21. B \subseteq Normal(c) /\ B \cap C = {}
    <2>1. \A u \in B : u \in Live(c) /\ r[u] = r[t] /\ u \notin C
      BY <1>14, <1>20, <1>7
    <2> QED
      BY <2>1, <1>2
  <1>22. \A u \in Normal(c) : c.parent[u] \in Q => u \in Q
    <2>1. SUFFICES ASSUME NEW u \in Normal(c), c.parent[u] \in Q, u \notin C PROVE u \in B
      OBVIOUS
    <2>2. u \in Live(c) /\ u \in Task /\ u \notin Locked(w)
      BY <2>1, <1>2, <1>7 DEF Normal, Locked
    <2>3. u \in S
      <3>1. CASE c.parent[u] \in C
        BY <3>1, <2>2, <1>10, <1>13
      <3>2. CASE c.parent[u] \in B
        <4>1. c.parent[u] \in S \ Locked(w) /\ c.parent[u] \in Task
          BY <3>2, <1>14
        <4>2. u \in ToSet(w.ring[c.parent[u]])
          BY <4>1, <2>2, <1>9
        <4> QED
          BY <4>1, <4>2, <1>15
      <3> QED
        BY <2>1, <3>1, <3>2
    <2> QED
      BY <2>2, <2>3, <1>14
  <1>23. \A u \in B : c.parent[u] \in Q
    <2> DEFINE X == {u \in S : c.parent[u] \in Q}
    <2>1. ToSet(first) \subseteq X
      BY <1>10, <1>13
    <2>2. Closed(w, X)
      <3>1. SUFFICES ASSUME NEW u \in X \ Locked(w), NEW v \in ToSet(w.ring[u]) PROVE v \in X
        BY DEF Closed
      <3>2. u \in S /\ u \in Task /\ u \in B
        BY <3>1, <1>14, <1>20, <1>2
      <3>3. v \in S /\ c.parent[v] = u
        BY <3>1, <3>2, <1>9, <1>15
      <3> QED
        BY <3>2, <3>3
    <2> HIDE DEF X
    <2>3. S \subseteq X
      BY <2>1, <2>2, <1>13
    <2> QED
      BY <2>3, <1>14 DEF X
  <1>24. C = {} => Q = {}
    <2>1. SUFFICES ASSUME C = {} PROVE B = {}
      OBVIOUS
    <2>2. ToSet(first) \subseteq {} /\ Closed(w, {})
      BY <2>1, <1>10 DEF Closed
    <2>3. S \subseteq {}
      BY <2>2, <1>13
    <2> QED
      BY <2>3, <1>14
  <1>25. Q # {} => \E f \in C : c.parent[f] \notin Q /\ \A u \in Q : c.parent[u] \in Q \/ u = f
    <2>1. SUFFICES ASSUME Q # {} PROVE \E f \in C : c.parent[f] \notin Q /\ \A u \in Q : c.parent[u] \in Q \/ u = f
      OBVIOUS
    <2>2. \A i \in 1..L : q[i] \in ToSet(q)
      BY <1>3 DEF ToSet
    <2>3. \A u \in C : \E i \in 1..L : u = q[i]
      BY <1>3, <1>5 DEF ToSet
    <2> DEFINE I == {n \in Nat : \E i \in 1..L : n = L - i /\ q[i] \in C}
    <2>4. \A i \in 1..L : L - i \in Nat
      BY <1>3
    <2>5. I # {} /\ I \in SUBSET Nat
      <3>1. C # {}
        BY <2>1, <1>24
      <3> QED
        BY <3>1, <2>3, <2>4
    <2>6. PICK n \in I : \A m \in I : n <= m
      BY <2>5, Least
    <2>7. PICK k \in 1..L : n = L - k /\ q[k] \in C
      BY <2>6
    <2>8. \A i \in 1..L : q[i] \in C => i <= k
      <3>1. SUFFICES ASSUME NEW i \in 1..L, q[i] \in C PROVE i <= k
        OBVIOUS
      <3>2. L - i \in I
        BY <3>1, <2>4
      <3>3. L - k <= L - i
        BY <3>2, <2>6, <2>7
      <3> QED
        BY <3>3, <1>3
    <2> HIDE DEF I
    (* The path is in Q up to k. *)
    <2> DEFINE O == {m \in Nat : \E i \in 1..k : m = k - i /\ q[i] \notin Q}
    <2>9. O = {}
      <3>1. SUFFICES ASSUME O # {} PROVE FALSE
        OBVIOUS
      <3>2. PICK m \in O : \A v \in O : m <= v
        BY <3>1, Least
      <3>3. PICK i \in 1..k : m = k - i /\ q[i] \notin Q
        BY <3>2
      <3>4. i # k
        BY <3>3, <2>7
      <3>5. /\ i + 1 \in 1..k /\ i \in 1..L /\ i + 1 \in 2..L /\ (i + 1) - 1 = i
            /\ k - (i + 1) \in Nat /\ k - (i + 1) < k - i
        BY <3>3, <3>4, <1>3
      <3>6. k - (i + 1) \notin O
        BY <3>2, <3>3, <3>5
      <3>7. q[i + 1] \in Q
        BY <3>5, <3>6
      <3>8. q[i + 1] = c.parent[q[i]] /\ q[i] \in Normal(c)
        BY <3>5, <1>3, <2>2
      <3> QED
        BY <3>3, <3>7, <3>8, <1>22
    <2>10. \A i \in 1..k : q[i] \in Q
      <3>1. \A i \in 1..k : k - i \in Nat
        BY <1>3
      <3> QED
        BY <3>1, <2>9
    <2> HIDE DEF O
    <2> DEFINE f == q[k]
    <2>11. \A u \in Q : c.parent[u] \in Q \/ u = f
      <3>1. SUFFICES ASSUME NEW u \in C PROVE c.parent[u] \in Q \/ u = f
        BY <1>23
      <3>2. PICK i \in 1..L : u = q[i]
        BY <3>1, <2>3
      <3>3. i <= k
        BY <3>1, <3>2, <2>8
      <3>4. CASE i = k
        BY <3>4, <3>2
      <3>5. CASE i # k
        <4>1. i + 1 \in 1..k /\ i + 1 \in 2..L /\ (i + 1) - 1 = i
          BY <3>3, <3>5, <1>3
        <4>2. q[i + 1] = c.parent[q[i]]
          BY <4>1, <1>3
        <4> QED
          BY <4>1, <4>2, <3>2, <2>10
      <3> QED
        BY <3>4, <3>5
    <2>12. f \in C /\ f \in Q
      BY <2>7
    <2> HIDE DEF f
    <2>13. c.parent[f] \notin Q
      <3>1. Q \subseteq Normal(c)
        BY <1>5, <1>21
      <3>2. Q \in SUBSET Task /\ Q # {}
        BY <3>1, <2>1, <1>2
      <3> HIDE DEF Q
      <3>3. PICK m \in Q : \A v \in Q : d[m] <= d[v]
        BY <3>2, <1>9, Shallowest
      <3>4. c.parent[m] \notin Q
        <4>1. SUFFICES ASSUME c.parent[m] \in Q PROVE FALSE
          OBVIOUS
        <4>2. c.parent[m] # NULL /\ m \in Live(c) /\ c.parent[m] \in Task
          BY <4>1, <3>1, <3>3, <1>2
        <4>3. d[c.parent[m]] < d[m]
          BY <4>2, <1>9
        <4> QED
          BY <4>1, <4>2, <4>3, <3>3, <1>9, <1>2
      <3> QED
        BY <3>3, <3>4, <2>11
    <2> QED
      BY <2>11, <2>12, <2>13
  <1>26. \A u \in Q : r[u] = r[t] /\ d[h] <= d[u]
    BY <1>14, <1>18, <1>20
  <1>27. Closure(c, d, r, t, q, h, closed, below, Q)
    <2>1. Q = ToSet(closed) \cup ToSet(below) /\ Q \subseteq Normal(c)
      BY <1>5, <1>21 DEF C, B
    <2> HIDE DEF Q
    <2> QED
      BY <2>1, <1>4, <1>14, <1>21, <1>22, <1>24, <1>25, <1>26 DEF Closure, C, B
  <1> QED
    BY <1>27

(* The tree after an exception of t: Q closes in the order o, the rest of   *)
(* the path q is suspended.                                                 *)
Raised(c, e, b, t, q, h, Q, o) ==
    LET k == c.caller[h]
    IN  /\ o \in Seq(Task) /\ Sorted(o, Deeper(c)) /\ ToSet(o) = Q /\ (Q # {} => Chained(e.caller, o, k))
        /\ e \in Trees
        /\ \A u \in Task \ Q : e.pmode[u] = c.pmode[u]
        /\ \A u \in Q : e.pmode[u] = "CLOSE"
        /\ e.parent = c.parent /\ e.ring = c.ring /\ e.autofree = c.autofree /\ e.catch = c.catch
        /\ e.start = c.start /\ e.bound = c.bound /\ e.mark \subseteq c.mark \cup Q
        /\ \A u \in Task : u # k => e.exc[u] = c.exc[u]
        /\ e.exc[k].kind = "ABORT"
        /\ e.run = (c.run \ {t}) \cup {IF Q = {} THEN k ELSE o[Len(o)]}
        /\ e.run \cap e.waiting = {}
        /\ \A u \in Task \ (ToSet(q) \cup Q \cup {k}) : u \in e.waiting <=> u \in c.waiting
        /\ \A u \in ToSet(q) \ Q : u \notin e.waiting /\ e.caller[u] = NULL
        /\ Q # {} => k \in e.waiting
        /\ \A u \in Task \ (Q \cup ToSet(q)) : e.caller[u] = c.caller[u]
        /\ \A u \in Task : b[u] # NULL => (u \in Q <=> b[u] \in Q)

(* The tasks R of the path are reset, and the catcher k takes an exception. *)
Prepared(w, R, k, e) ==
    /\ e \in Trees
    /\ e.run = w.run /\ e.waiting = w.waiting \ R /\ e.bound = w.bound /\ e.pmode = w.pmode
    /\ \A u \in Task : e.caller[u] = IF u \in R THEN NULL ELSE w.caller[u]
    /\ \A u \in Task : u # k => e.exc[u] = w.exc[u]
    /\ e.exc[k].kind = "ABORT"
    /\ e.parent = w.parent /\ e.ring = w.ring /\ e.autofree = w.autofree
    /\ e.mark = w.mark /\ e.catch = w.catch /\ e.start = w.start

(* It is what the library writes. *)
LEMMA PreparedIs ==
    ASSUME NEW w \in Trees, NEW R, NEW k \in Task,
           NEW e, e = [w EXCEPT !.waiting = @ \ R,
                                !.caller  = [s \in Task |-> IF s \in R THEN NULL ELSE @[s]],
                                !.exc[k]  = [NoExc EXCEPT !.kind = "ABORT"]]
    PROVE  Prepared(w, R, k, e)
  <1> DEFINE x == [NoExc EXCEPT !.kind = "ABORT"]
             f == [w EXCEPT !.waiting = @ \ R,
                            !.caller  = [s \in Task |-> IF s \in R THEN NULL ELSE @[s]],
                            !.exc[k]  = x]
  <1>1. x \in ExcType /\ x.kind = "ABORT"
    BY DEF NoExc, ExcType
  <1>2. e = f
    OBVIOUS
  <1> HIDE DEF x
  <1>3. f \in Trees
    BY <1>1 DEF Trees
  <1>4. /\ f.run = w.run /\ f.waiting = w.waiting \ R /\ f.bound = w.bound /\ f.pmode = w.pmode
        /\ f.caller = [s \in Task |-> IF s \in R THEN NULL ELSE w.caller[s]]
        /\ f.exc = [w.exc EXCEPT ![k] = x]
        /\ f.parent = w.parent /\ f.ring = w.ring /\ f.autofree = w.autofree
        /\ f.mark = w.mark /\ f.catch = w.catch /\ f.start = w.start
    BY DEF Trees
  <1> HIDE DEF f
  <1>5. f.exc[k] = x /\ \A u \in Task : u # k => f.exc[u] = w.exc[u]
    BY <1>4 DEF Trees
  <1> QED
    BY <1>1, <1>2, <1>3, <1>4, <1>5 DEF Prepared

(* The order of the tasks of two sequences that close together. *)
Joined(c, d, w, p, q, Q) ==
    /\ Tree(c, d) /\ w.pmode = c.pmode /\ w.parent = c.parent /\ w.ring = c.ring
    /\ p \in Seq(Task) /\ Sorted(p, Different) /\ q \in Seq(Task) /\ Sorted(q, Different)
    /\ ToSet(p) \cap ToSet(q) = {} /\ Q = ToSet(p) \cup ToSet(q) /\ Q \subseteq Live(c)

Ordered(c, o, Q) == o \in Seq(Task) /\ ToSet(o) = Q /\ Sorted(o, Deeper(c)) /\ Sorted(o, Different)

(* They are sorted by depth. *)
LEMMA JoinIs ==
    ASSUME NEW c, NEW d, NEW w, NEW p, NEW q, NEW Q, Joined(c, d, w, p, q, Q)
    PROVE  Ordered(c, ByDeep(w, p \o q), Q)
  <1> DEFINE z == p \o q
  <1>1. z \in Seq(Task) /\ Q = ToSet(z) /\ Q \subseteq Live(c)
    BY ConcatIs DEF Joined
  <1>2. Sorted(z, Different)
    <2>1. /\ p \in Seq(Task) /\ Sorted(p, Different) /\ q \in Seq(Task) /\ Sorted(q, Different)
          /\ ToSet(p) \cap ToSet(q) = {}
      BY DEF Joined
    <2>2. ToSet(p) \subseteq Task /\ ToSet(q) \subseteq Task
      BY <2>1, ToSetIs
    <2>3. \A x \in ToSet(p), y \in ToSet(q) : <<x, y>> \in Different
      BY <2>1, <2>2 DEF Different
    <2> QED
      BY <2>1, <2>3, ConcatSorted
  <1> HIDE DEF z
  <1>3. Tree(c, d) /\ w.pmode = c.pmode /\ w.parent = c.parent /\ w.ring = c.ring
    BY DEF Joined
  <1>4. /\ ByDeep(w, z) \in Seq(Task) /\ ToSet(ByDeep(w, z)) = Q /\ Sorted(ByDeep(w, z), Deeper(c))
        /\ Sorted(ByDeep(w, z), Different)
    BY <1>1, <1>2, <1>3, OrderIs
  <1> QED
    BY <1>4 DEF z, Ordered

(* zm_lockAndImplodeByAbortException. *)
LEMMA RaisedIs ==
    ASSUME NEW c, NEW d, NEW r, NEW b, NEW p, NEW N, Inv(c, d, r, b, p, N),
           NEW t \in Normal(c), t \in c.run, NEW w, w = SuspendCurrentState(c, t, TRUE),
           ExceptionPath(w, t) # <<>>,
           NEW e, e = LockAndImplodeByException(w, t), e.fatal # "CONTBREAK"
    PROVE  \E q, h, closed, below, Q, o :
              /\ Route(c, d, r, b, t, q, h)
              /\ Closure(c, d, r, t, q, h, closed, below, Q)
              /\ Raised(c, e, b, t, q, h, Q, o)
  <1>1. /\ c \in Trees /\ N \in Nat /\ Tree(c, d) /\ RootOK(c, d, r, N) /\ GoneOK(c) /\ RunOK(c, r)
        /\ CallOK(c, r)
        /\ WakeOK(c) /\ BlockOK(c, r, b) /\ ExcOK(c, r) /\ CloseOK(c, r, p, N) /\ StartOK(c, r)
    BY DEF Inv
  <1>2. Live(c) \subseteq Task /\ Normal(c) \subseteq Live(c) /\ NULL \notin Task /\ t \in Task
    BY TaskAssumption DEF Live, Normal
  <1>3. /\ w \in Trees /\ w.run = c.run \ {t} /\ w.waiting = c.waiting \cup {t}
        /\ w.pmode = c.pmode /\ w.parent = c.parent /\ w.ring = c.ring /\ w.exc = c.exc
        /\ w.mark = c.mark
        /\ w.bound = c.bound /\ w.start = c.start /\ w.autofree = c.autofree /\ w.catch = c.catch
        /\ w.caller = c.caller
    <2> DEFINE f == [c EXCEPT !.run = @ \ {t}, !.waiting = @ \cup {t}]
    <2>1. w = f
      BY DEF SuspendCurrentState
    <2>2. f \in Trees
      BY <1>1, <1>2 DEF Trees
    <2>3. /\ f.run = c.run \ {t} /\ f.waiting = c.waiting \cup {t}
          /\ f.pmode = c.pmode /\ f.parent = c.parent /\ f.ring = c.ring /\ f.exc = c.exc
          /\ f.mark = c.mark
          /\ f.bound = c.bound /\ f.start = c.start /\ f.autofree = c.autofree /\ f.catch = c.catch
          /\ f.caller = c.caller
      BY <1>1 DEF Trees
    <2> HIDE DEF f
    <2> QED
      BY <2>1, <2>2, <2>3
  <1>4. \A k \in Closing(c) : r[k] # r[t]
    BY RunsFree
  <1> DEFINE q == ExceptionPath(w, t)
  <1>5. q = ExceptionPath(c, t)
    BY <1>3 DEF ExceptionPath, CallerChain, HasCatch
  <1>6. PICK h : Route(c, d, r, b, t, q, h)
    BY <1>5, RouteIs
  <1> DEFINE k == w.caller[Last(q)]
  <1> DEFINE closed == Only(q, {s \in Task : w.catch[s] # "reset"})
             C == ToSet(closed)
             R == ToSet(q) \ C
             w1 == [w EXCEPT !.waiting = @ \ R,
                             !.caller  = [s \in Task |-> IF s \in R THEN NULL ELSE @[s]],
                             !.exc[k]  = [NoExc EXCEPT !.kind = "ABORT"]]
             p1 == SetImplodeLock(w1, "EXCEPTION", closed)
             first == FlattenSeq([i \in DOMAIN closed |-> w.ring[closed[i]]])
             below == Only(DeepStack(p1, first), Task \ Locked(p1))
             B == ToSet(below)
             p2 == SetImplodeLock(p1, "EXCEPTION", below)
             busy == CheckBusy(p1, below)
             checked == CheckContinue(p2, busy)
             order == ByDeep(w, closed \o below)
             f == Serialize(checked, order, k)
             g == [f EXCEPT !.exc[k].before = Head(order)]
  <1>6a. e = IF ToSet(q) \cap Locked(w) # {} THEN Fail(w, "LCKBE.IL")
             ELSE IF \E s \in R : IsTask(w, s) THEN Fail(w, "LCKBE.RS")
             ELSE IF checked.fatal # OK THEN checked
             ELSE IF order = <<>> THEN ResumeState(checked, k)
             ELSE ResumeState(g, Last(order))
    BY DEF LockAndImplodeByException
  <1>6b. closed = Only(q, {s \in Task : w.catch[s] # "reset"})
    OBVIOUS
  <1> HIDE DEF q, closed, checked, order, g
  <1>7. /\ q \in Seq(Task) /\ q # <<>> /\ Sorted(q, Different) /\ Last(q) = h /\ h \in ToSet(q)
        /\ t \in ToSet(q)
        /\ \A u \in ToSet(q) : /\ u \in Normal(c) /\ r[u] = r[t] /\ b[u] = NULL /\ c.parent[u] # NULL
                               /\ u \in Active(c) /\ u \notin c.bound
                               /\ c.caller[u] = c.parent[u] /\ c.caller[u] \in Normal(c)
                               /\ d[h] <= d[u]
        /\ \A u \in ToSet(q) : u # h => c.caller[u] \in ToSet(q)
        /\ \A u \in ToSet(q) : u # t => u \in c.waiting
    BY <1>6 DEF Route
  <1>7a. k = c.caller[h] /\ k = w.caller[Last(q)]
    BY <1>3, <1>7
  <1> HIDE DEF k
  <1>8. /\ k \in Normal(c) /\ k \notin ToSet(q) /\ k \in c.waiting /\ k \notin c.bound
        /\ k \notin c.run
        /\ r[k] = r[t] /\ b[k] = NULL /\ d[k] < d[h] /\ k \in Task
    <2>1. /\ k \in Normal(c) /\ k \notin ToSet(q) /\ k \in c.waiting /\ k \notin c.bound
          /\ k \notin c.run
          /\ r[k] = r[t] /\ b[k] = NULL /\ d[k] < d[h]
      BY <1>6, <1>7a DEF Route
    <2> QED
      BY <2>1, <1>2
  <1>9. k \notin Heads(c) /\ c.exc[k].kind # "HEAD"
    <2>1. k \notin Heads(c)
      BY <1>1, <1>2, <1>8 DEF BlockOK
    <2> QED
      BY <2>1, <1>8 DEF Heads
  <1>10. e = IF checked.fatal # OK THEN checked
             ELSE IF order = <<>> THEN ResumeState(checked, k)
             ELSE ResumeState(g, Last(order))
    <2>1. ToSet(q) \cap Locked(w) = {}
      BY <1>3, <1>7 DEF Locked, Normal
    <2>2. ~\E s \in R : IsTask(w, s)
      BY <1>3, <1>7 DEF IsTask
    <2> HIDE DEF R, k
    <2> QED
      BY <2>1, <2>2, <1>6a
  <1>11. /\ C = ToSet(q) \cap {u \in Task : c.catch[u] # "reset"} /\ C \subseteq ToSet(q)
         /\ ToSet(q) \subseteq Task /\ closed \in Seq(Task)
    <2> DEFINE Y == {u \in Task : c.catch[u] # "reset"}
    <2>1. closed = Only(q, Y)
      <3>1. {s \in Task : w.catch[s] # "reset"} = Y
        BY <1>3
      <3> HIDE DEF Y
      <3> QED
        BY <3>1, <1>6b
    <2> HIDE DEF Y
    <2>2. closed \in Seq(Task) /\ ToSet(closed) = ToSet(q) \cap Y
      BY <2>1, <1>7, OnlyIs
    <2> QED
      BY <2>2, <1>7, <1>2 DEF Normal, Y
  <1>12. Prepared(w, R, k, w1)
    <2> HIDE DEF k, R
    <2>1. \A x : x = w1 => Prepared(w, R, k, x)
      BY <1>3, <1>8, PreparedIs
    <2> QED
      BY <2>1
  <1> HIDE DEF w1
  <1>13. /\ w1 \in Trees
         /\ w1.run = c.run \ {t} /\ w1.waiting = (c.waiting \cup {t}) \ R /\ w1.bound = c.bound
         /\ w1.pmode = c.pmode
         /\ \A u \in Task : w1.caller[u] = IF u \in R THEN NULL ELSE c.caller[u]
         /\ \A u \in Task : u # k => w1.exc[u] = c.exc[u]
         /\ w1.exc[k].kind = "ABORT"
         /\ w1.parent = c.parent /\ w1.ring = c.ring /\ w1.autofree = c.autofree
         /\ w1.mark = c.mark /\ w1.catch = c.catch /\ w1.start = c.start
    BY <1>12, <1>3 DEF Prepared
  <1>14. C \cap (w1.run \cup w1.bound) = {}
    <2>1. \A u \in ToSet(q) : u \notin c.run \ {t} /\ u \notin c.bound
      BY <1>1, <1>7 DEF RunOK
    <2> QED
      BY <2>1, <1>11, <1>13
  <1>15. LockedBy(w1, C, {}, p1)
    <2> HIDE DEF C
    <2>1. C \subseteq Task /\ C = ToSet(closed)
      BY <1>11 DEF C
    <2>2. \A A : A = C \cap (w1.run \cup w1.bound) => A = {}
      BY <1>14
    <2>3. {} = C \cap (w1.run \cup w1.bound)
      BY <1>14
    <2> QED
      BY <1>13, <2>1, <2>3, LockIs
  <1> HIDE DEF p1
  <1>16. /\ p1 \in Trees
         /\ p1.run = c.run \ {t} /\ p1.waiting = (c.waiting \cup {t}) \ R /\ p1.bound = c.bound
         /\ \A u \in Task : p1.pmode[u] = IF u \in C THEN "CLOSE" ELSE c.pmode[u]
         /\ \A u \in Task : p1.caller[u] = IF u \in R THEN NULL ELSE c.caller[u]
         /\ \A u \in Task : u # k => p1.exc[u] = c.exc[u]
         /\ p1.exc[k].kind = "ABORT"
         /\ p1.parent = c.parent /\ p1.ring = c.ring /\ p1.autofree = c.autofree
         /\ p1.mark = c.mark /\ p1.catch = c.catch /\ p1.start = c.start
    <2>1. C \cap c.bound = {}
      BY <1>13, <1>14
    <2> HIDE DEF C, R, k
    <2> QED
      BY <2>1, <1>15, <1>13 DEF LockedBy
  <1>17. PICK Q : Closure(c, d, r, t, q, h, closed, below, Q)
    <2> HIDE DEF first
    <2>1. closed = Only(q, {u \in Task : c.catch[u] # "reset"})
      <3>1. {u \in Task : w.catch[u] # "reset"} = {u \in Task : c.catch[u] # "reset"}
        BY <1>3
      <3> QED
        BY <3>1, <1>6b
    <2>2. first = FlattenSeq([i \in DOMAIN closed |-> c.ring[closed[i]]])
      <3>1. w.ring = c.ring
        BY <1>3
      <3>2. [i \in DOMAIN closed |-> w.ring[closed[i]]] = [i \in DOMAIN closed |-> c.ring[closed[i]]]
        BY <3>1
      <3> QED
        BY <3>2 DEF first
    <2>3. below = Only(DeepStack(p1, first), Task \ Locked(p1))
      OBVIOUS
    <2>4. \A u \in Task : p1.pmode[u] = IF u \in ToSet(closed) THEN "CLOSE" ELSE c.pmode[u]
      BY <1>16
    <2>5. p1.parent = c.parent /\ p1.ring = c.ring
      BY <1>16
    <2> HIDE DEF below
    <2> QED
      BY <1>4, <1>6, <2>1, <2>2, <2>3, <2>4, <2>5, ClosureIs
  <1> HIDE DEF below
  <1>18. /\ Sorted(closed, Different)
         /\ below \in Seq(Task) /\ Sorted(below, Different) /\ C \cap B = {}
         /\ Q = C \cup B /\ Q \subseteq Normal(c)
         /\ \A u \in Normal(c) : c.parent[u] \in Q => u \in Q
         /\ \A u \in Q : r[u] = r[t] /\ d[h] <= d[u]
         /\ Q \subseteq Task
    <2>1. /\ Sorted(closed, Different)
          /\ below \in Seq(Task) /\ Sorted(below, Different) /\ C \cap B = {}
          /\ Q = C \cup B /\ Q \subseteq Normal(c)
          /\ \A u \in Normal(c) : c.parent[u] \in Q => u \in Q
          /\ \A u \in Q : r[u] = r[t] /\ d[h] <= d[u]
      BY <1>17 DEF Closure
    <2> HIDE DEF C, B
    <2> QED
      BY <2>1, <1>2
  <1>19. Q \cap (c.run \ {t}) = {} /\ Q \cap c.bound = {}
    <2>1. SUFFICES ASSUME NEW u \in Q, u \in (c.run \ {t}) \cup c.bound PROVE FALSE
      OBVIOUS
    <2>2. u \in Tokens(c) /\ t \in Tokens(c) /\ r[u] = r[t]
      BY <2>1, <1>2, <1>18 DEF Tokens
    <2>3. u = t
      BY <2>2, <1>1 DEF RunOK
    <2> QED
      BY <2>1, <2>3, <1>7
  <1>20. LockedBy(p1, B, {}, p2)
    <2>1. {} = B \cap (p1.run \cup p1.bound) /\ B \subseteq Task
      BY <1>16, <1>18, <1>19
    <2> HIDE DEF B
    <2>2. B = ToSet(below)
      BY DEF B
    <2> QED
      BY <1>16, <2>1, <2>2, LockIs
  <1> HIDE DEF p2
  <1>21. /\ p2 \in Trees
         /\ p2.run = c.run \ {t} /\ p2.waiting = (c.waiting \cup {t}) \ R /\ p2.bound = c.bound
         /\ \A u \in Task : p2.pmode[u] = IF u \in Q THEN "CLOSE" ELSE c.pmode[u]
         /\ \A u \in Task : p2.caller[u] = IF u \in R THEN NULL ELSE c.caller[u]
         /\ \A u \in Task : u # k => p2.exc[u] = c.exc[u]
         /\ p2.exc[k].kind = "ABORT"
         /\ p2.parent = c.parent /\ p2.ring = c.ring /\ p2.autofree = c.autofree
         /\ p2.mark = c.mark /\ p2.catch = c.catch /\ p2.start = c.start
    <2>1. B \cap c.bound = {} /\ Q = C \cup B
      BY <1>18, <1>19
    <2> HIDE DEF B, C, R, k
    <2> QED
      BY <2>1, <1>16, <1>20 DEF LockedBy
  <1> DEFINE X == B \cap p1.waiting
  <1>22. \A u \in X : u \in Normal(c) /\ b[u] # NULL
    <2>1. SUFFICES ASSUME NEW u \in X, b[u] = NULL PROVE FALSE
      BY <1>18
    <2>2. u \in B /\ u \in Q /\ u \in p1.waiting /\ u \notin ToSet(q)
      BY <2>1, <1>16, <1>18
    <2>3. u \in c.waiting /\ u \in Normal(c) /\ r[u] = r[t] /\ d[h] <= d[u]
      BY <2>2, <1>7, <1>16, <1>18
    <2>4. d[h] \in Nat /\ t \in ToSet(q)
      BY <1>1, <1>2, <1>7 DEF Tree
    <2>5. \A v \in ToSet(q) : c.caller[v] \in ToSet(q) \/ c.caller[v] = NULL \/ d[c.caller[v]] < d[h]
      BY <1>7, <1>7a, <1>8
    <2> DEFINE P == ToSet(q)
    <2> HIDE DEF P
    <2>6. t \in P /\ \A v \in P : c.caller[v] \in P \/ c.caller[v] = NULL \/ d[c.caller[v]] < d[h]
      BY <2>4, <2>5 DEF P
    <2>7. u \in P
      BY <2>1, <2>3, <2>4, <2>6, WaitsAbove
    <2> QED
      BY <2>2, <2>7 DEF P
  <1>23. Found(c, b, X, busy)
    <2>1. \A u \in Normal(c) : b[u] # NULL /\ u \notin Heads(c) => p1.caller[u] = c.caller[u]
      BY <1>2, <1>7, <1>16
    <2>2. ASSUME NEW u \in Normal(c), p1.caller[u] # NULL
          PROVE  p1.caller[u] \in Normal(c) /\ d[p1.caller[u]] < d[u]
      <3>1. p1.caller[u] = c.caller[u] /\ c.caller[u] # NULL
        BY <2>2, <1>2, <1>16
      <3>2. c.caller[u] = c.parent[u] /\ c.caller[u] \in Normal(c)
        BY <3>1, NormalFalls
      <3> QED
        BY <3>1, <3>2, <1>1, <1>2 DEF Tree
    <2>3. \A u \in Task : p1.exc[u].kind = "HEAD" <=> c.exc[u].kind = "HEAD"
      <3> HIDE DEF k
      <3> QED
        BY <1>9, <1>16
    <2> HIDE DEF busy, X
    <2>4. busy = CheckBusy(p1, below) /\ X = ToSet(below) \cap p1.waiting
      BY DEF busy, X
    <2>5. \A u \in Normal(c) : p1.caller[u] # NULL =>
             p1.caller[u] \in Normal(c) /\ d[p1.caller[u]] < d[u]
      BY <2>2
    <2>6. p1 \in Trees /\ p1.mark = c.mark
      BY <1>16
    <2> QED
      BY <2>1, <2>3, <2>4, <2>5, <2>6, <1>22, BusyIs
  <1> HIDE DEF busy
  <1>24. ASSUME checked.fatal # OK PROVE FALSE
    <2>1. p2.fatal = OK
      BY <1>21 DEF Trees
    <2>2. checked = Fail(p2, "CONTBREAK") \/ checked = [p2 EXCEPT !.mark = busy.mark]
      BY <1>23 DEF Found, CheckContinue, checked
    <2>3. checked = Fail(p2, "CONTBREAK")
      <3>1. [p2 EXCEPT !.mark = busy.mark].fatal = OK
        BY <1>21, <1>23, <2>1 DEF Found, Trees
      <3> QED
        BY <3>1, <2>2, <1>24
    <2>4. checked \in Broken
      BY <2>1, <2>3, <1>21 DEF Fail, Broken
    <2>5. e = checked
      BY <1>10, <1>24
    <2> HIDE DEF checked
    <2>6. e.fatal = "CONTBREAK"
      BY <2>4, <2>5, BrokenIs
    <2> QED
      BY <2>6
  <1>25. busy.heads \subseteq Locked(p2) /\ checked = [p2 EXCEPT !.mark = busy.mark]
    <2>1. checked = IF busy.heads \subseteq Locked(p2) THEN [p2 EXCEPT !.mark = busy.mark]
                    ELSE Fail(p2, "CONTBREAK")
      BY <1>23 DEF Found, CheckContinue, checked
    <2>2. Fail(p2, "CONTBREAK").fatal = "CONTBREAK"
      BY <1>21 DEF Fail, Trees
    <2> HIDE DEF checked
    <2> QED
      BY <2>1, <2>2, <1>24 DEF OK
  (* A continue block is taken as a whole. *)
  <1>26. \A u \in X : b[u] \in Q
    <2>1. SUFFICES ASSUME NEW u \in X PROVE b[u] \in Q
      OBVIOUS
    <2>2. b[u] \in Locked(p2)
      BY <2>1, <1>23, <1>25 DEF Found
    <2>3. b[u] \in Normal(c) /\ b[u] \in Task
      <3>1. u \in Task /\ b[u] # NULL
        BY <2>1, <1>22, <1>2
      <3> QED
        BY <3>1, <1>1 DEF BlockOK, Heads, Normal
    <2> QED
      BY <2>2, <2>3, <1>21 DEF Locked, Normal
  <1>27. \A u \in Task : b[u] # NULL => (u \in Q <=> b[u] \in Q)
    <2>1. SUFFICES ASSUME NEW u \in Task, b[u] # NULL, u \in Q PROVE b[u] \in Q
      BY <1>18, BlockBelow
    <2>2. u \in c.waiting
      BY <2>1, <1>1 DEF BlockOK
    <2>3. u \notin ToSet(q)
      BY <2>1, <1>7
    <2>4. u \in X
      BY <2>1, <2>2, <2>3, <1>11, <1>16, <1>18
    <2> QED
      BY <2>4, <1>26
  <1>28. busy.mark \subseteq Task /\ busy.mark \subseteq c.mark \cup Q
    <2>1. \A u \in Normal(c) : b[u] # NULL /\ b[u] \in Q => u \in Q
      BY <1>27, <1>2
    <2>2. \A v \in busy.mark : v \in c.mark \/ (v \in Normal(c) /\ b[v] # NULL /\ \E u \in X : b[v] = b[u])
      BY <1>23 DEF Found
    <2>3. busy.mark \subseteq Task
      BY <1>23 DEF Found
    <2> HIDE DEF X
    <2> QED
      BY <2>1, <2>2, <2>3, <1>26
  <1> HIDE DEF checked, X
  <1>29. /\ checked \in Trees
         /\ checked.run = c.run \ {t} /\ checked.waiting = (c.waiting \cup {t}) \ R
         /\ checked.bound = c.bound
         /\ \A u \in Task : checked.pmode[u] = IF u \in Q THEN "CLOSE" ELSE c.pmode[u]
         /\ \A u \in Task : checked.caller[u] = IF u \in R THEN NULL ELSE c.caller[u]
         /\ \A u \in Task : u # k => checked.exc[u] = c.exc[u]
         /\ checked.exc[k].kind = "ABORT"
         /\ checked.parent = c.parent /\ checked.ring = c.ring /\ checked.autofree = c.autofree
         /\ checked.mark \subseteq c.mark \cup Q /\ checked.catch = c.catch
         /\ checked.start = c.start
    <2>1. checked \in Trees
      BY <1>21, <1>25, <1>28 DEF Trees
    <2>2. /\ checked.mark = busy.mark
          /\ checked.run = p2.run /\ checked.waiting = p2.waiting /\ checked.bound = p2.bound
          /\ checked.pmode = p2.pmode /\ checked.parent = p2.parent /\ checked.ring = p2.ring
          /\ checked.caller = p2.caller /\ checked.autofree = p2.autofree
          /\ checked.catch = p2.catch /\ checked.exc = p2.exc /\ checked.start = p2.start
      BY <1>21, <1>25 DEF Trees
    <2> HIDE DEF R, k
    <2> QED
      BY <2>1, <2>2, <1>21, <1>28
  <1>30. e = IF order = <<>> THEN ResumeState(checked, k) ELSE ResumeState(g, Last(order))
    BY <1>10, <1>24
  <1>31. /\ order \in Seq(Task) /\ ToSet(order) = Q /\ Sorted(order, Deeper(c))
         /\ Sorted(order, Different)
    <2> HIDE DEF C, B, R, f, g, first
    <2>1. /\ Sorted(closed, Different) /\ closed \in Seq(Task) /\ Sorted(below, Different)
          /\ below \in Seq(Task)
          /\ ToSet(closed) \cap ToSet(below) = {} /\ Q = ToSet(closed) \cup ToSet(below)
      BY <1>11, <1>18 DEF C, B
    <2>2. /\ w.pmode = c.pmode /\ w.parent = c.parent /\ w.ring = c.ring /\ Q \subseteq Live(c)
          /\ Tree(c, d)
      BY <1>1, <1>2, <1>3, <1>18
    <2>3. order = ByDeep(w, closed \o below)
      BY DEF order
    <2>4. Joined(c, d, w, closed, below, Q)
      BY <2>1, <2>2 DEF Joined
    <2>5. Ordered(c, ByDeep(w, closed \o below), Q)
      BY <2>4, JoinIs
    <2> QED
      BY <2>3, <2>5 DEF Ordered
  <1> HIDE DEF order
  <1>32. Q = {} <=> order = <<>>
    BY <1>31, ToSetIs
  <1>33. /\ ToSet(q) \ Q \subseteq R /\ R \subseteq ToSet(q) /\ R \subseteq Task /\ k \notin Q
         /\ k \notin R /\ t \in ToSet(q)
    <2>1. k \notin Q
      <3>1. SUFFICES ASSUME k \in Q PROVE FALSE
        OBVIOUS
      <3>2. d[h] <= d[k] /\ d[k] < d[h] /\ d[h] \in Nat /\ d[k] \in Nat
        BY <3>1, <1>1, <1>2, <1>7, <1>8, <1>18 DEF Tree
      <3> HIDE DEF k
      <3> QED
        BY <3>2
    <2> QED
      BY <2>1, <1>7, <1>8, <1>11, <1>18
  <1> HIDE DEF C, B, R
  <1>34. /\ checked.run \cap checked.waiting = {} /\ checked.run \cap Q = {}
         /\ checked.bound \cap Q = {}
    BY <1>1, <1>19, <1>29 DEF RunOK
  <1>35. CASE order = <<>>
    <2>1. e = ResumeState(checked, k) /\ Q = {}
      BY <1>30, <1>32, <1>35
    <2>2. Resumed(checked, k, e)
      <3>1. /\ checked.pmode[k] = "NORMAL" /\ k \notin checked.run /\ k \notin checked.bound
            /\ k \in Task
        BY <1>8, <1>29, <2>1 DEF Normal
      <3> HIDE DEF k
      <3> QED
        BY <2>1, <3>1, <1>29, ResumeIs
    <2>3. /\ e \in Trees
          /\ e.run = checked.run \cup {k} /\ e.waiting = checked.waiting \ {k}
          /\ e.pmode = checked.pmode /\ e.bound = checked.bound /\ e.caller = checked.caller
          /\ e.parent = checked.parent /\ e.ring = checked.ring /\ e.autofree = checked.autofree
          /\ e.mark = checked.mark /\ e.catch = checked.catch /\ e.exc = checked.exc
          /\ e.start = checked.start
      BY <2>2 DEF Resumed
    <2>4. Raised(c, e, b, t, q, h, Q, order)
      <3> HIDE DEF k
      <3>1. /\ order \in Seq(Task) /\ Sorted(order, Deeper(c)) /\ ToSet(order) = Q
            /\ (Q # {} => Chained(e.caller, order, k))
            /\ e \in Trees
            /\ \A u \in Task \ Q : e.pmode[u] = c.pmode[u]
            /\ \A u \in Q : e.pmode[u] = "CLOSE"
        BY <2>1, <2>3, <1>29, <1>31
      <3>2. /\ e.parent = c.parent /\ e.ring = c.ring /\ e.autofree = c.autofree
            /\ e.catch = c.catch
            /\ e.start = c.start /\ e.bound = c.bound /\ e.mark \subseteq c.mark \cup Q
            /\ \A u \in Task : u # k => e.exc[u] = c.exc[u]
            /\ e.exc[k].kind = "ABORT"
        BY <2>3, <1>29
      <3>3. /\ e.run = (c.run \ {t}) \cup {IF Q = {} THEN k ELSE order[Len(order)]}
            /\ e.run \cap e.waiting = {}
            /\ \A u \in Task \ (ToSet(q) \cup Q \cup {k}) : u \in e.waiting <=> u \in c.waiting
        BY <2>1, <2>3, <1>29, <1>33, <1>34
      <3>4. \A u \in ToSet(q) \ Q : u \notin e.waiting /\ e.caller[u] = NULL
        BY <2>1, <2>3, <1>29, <1>33
      <3>5. \A u \in Task \ (Q \cup ToSet(q)) : e.caller[u] = c.caller[u]
        BY <2>1, <2>3, <1>29, <1>33
      <3> QED
        BY <3>1, <3>2, <3>3, <3>4, <3>5, <2>1, <1>7a, <1>27 DEF Raised
    <2> QED
      BY <2>4, <1>6, <1>17
  <1>36. CASE order # <<>>
    <2> DEFINE last == order[Len(order)]
    <2>1. last \in Q /\ Last(order) = last /\ Q # {} /\ order[1] \in Task
      <3>1. /\ order[1] \in ToSet(order) /\ order[Len(order)] \in ToSet(order)
            /\ Last(order) = order[Len(order)]
        <4>1. ToSet(order) \subseteq Live(c)
          BY <1>2, <1>18, <1>31
        <4> QED
          BY <4>1, <1>1, <1>31, <1>36, HighestIs
      <3> QED
        BY <3>1, <1>18, <1>31
    <2>2. Serial(checked, order, k, f)
      <3>1. k \in Task \cup {NULL} /\ k # NULL
        BY <1>8, <1>2
      <3> HIDE DEF k, f
      <3>2. f = Serialize(checked, order, k)
        BY DEF f
      <3> QED
        BY <3>1, <3>2, <1>29, <1>31, <1>36, SerializeTree
    <2> HIDE DEF f
    <2>3. /\ f \in Trees
          /\ Chained(f.caller, order, k) /\ \A u \in Task \ Q : f.caller[u] = checked.caller[u]
          /\ checked.waiting \subseteq f.waiting
          /\ f.waiting \subseteq checked.waiting \cup (Q \ checked.run)
          /\ f.run = checked.run /\ f.pmode = checked.pmode /\ f.bound = checked.bound
          /\ f.parent = checked.parent /\ f.ring = checked.ring /\ f.autofree = checked.autofree
          /\ f.mark = checked.mark /\ f.catch = checked.catch /\ f.exc = checked.exc
          /\ f.start = checked.start
      BY <2>2, <1>31 DEF Serial
    <2>4. Head(order) \in Task
      BY <2>1, <1>31, <1>36
    <2>5. /\ g \in Trees
          /\ g.caller = f.caller /\ g.waiting = f.waiting
          /\ g.run = checked.run /\ g.pmode = checked.pmode /\ g.bound = checked.bound
          /\ g.parent = checked.parent /\ g.ring = checked.ring /\ g.autofree = checked.autofree
          /\ g.mark = checked.mark /\ g.catch = checked.catch /\ g.start = checked.start
          /\ \A u \in Task : u # k => g.exc[u] = checked.exc[u]
          /\ g.exc[k].kind = "ABORT"
      <3> DEFINE y == [f.exc[k] EXCEPT !.before = Head(order)]
                 z == [f.exc EXCEPT ![k] = y]
      <3>1. /\ f.exc[k] \in ExcType /\ f.exc[k].kind = "ABORT" /\ k \in Task
            /\ f.exc \in [Task -> ExcType]
        <4> HIDE DEF k
        <4> QED
          BY <2>3, <1>8, <1>29 DEF Trees
      <3> HIDE DEF k
      <3>2. y \in ExcType /\ y.kind = "ABORT"
        BY <3>1, <2>4 DEF ExcType
      <3> HIDE DEF y
      <3>3. z \in [Task -> ExcType] /\ z[k] = y /\ \A u \in Task : u # k => z[u] = f.exc[u]
        BY <3>1, <3>2
      <3>4. g = [f EXCEPT !.exc = z]
        BY <2>3 DEF y, g, Trees
      <3> HIDE DEF z, g
      <3>5. g \in Trees /\ g.exc = z
        BY <2>3, <3>3, <3>4 DEF Trees
      <3>6. /\ g.caller = f.caller /\ g.waiting = f.waiting
            /\ g.run = f.run /\ g.pmode = f.pmode /\ g.bound = f.bound
            /\ g.parent = f.parent /\ g.ring = f.ring /\ g.autofree = f.autofree
            /\ g.mark = f.mark /\ g.catch = f.catch /\ g.start = f.start
        BY <2>3, <3>4 DEF Trees
      <3> QED
        BY <2>3, <3>2, <3>3, <3>5, <3>6
    <2> HIDE DEF g, last
    <2>6. e = ResumeState(g, last)
      BY <2>1, <1>30, <1>36
    <2>7. Resumed(g, last, e)
      <3>1. g.pmode[last] = "CLOSE" /\ last \notin g.run /\ last \notin g.bound /\ last \in Task
        BY <2>1, <2>5, <1>18, <1>29, <1>34
      <3> QED
        BY <2>5, <2>6, <3>1, ResumeIs
    <2>8. /\ e \in Trees
          /\ e.run = g.run \cup {last} /\ e.waiting = g.waiting \ {last}
          /\ e.pmode = g.pmode /\ e.bound = g.bound /\ e.caller = g.caller
          /\ e.parent = g.parent /\ e.ring = g.ring /\ e.autofree = g.autofree
          /\ e.mark = g.mark /\ e.catch = g.catch /\ e.exc = g.exc /\ e.start = g.start
      BY <2>7 DEF Resumed
    <2>9. Raised(c, e, b, t, q, h, Q, order)
      <3> HIDE DEF k
      <3>1. /\ order \in Seq(Task) /\ Sorted(order, Deeper(c)) /\ ToSet(order) = Q
            /\ (Q # {} => Chained(e.caller, order, k))
            /\ e \in Trees
            /\ \A u \in Task \ Q : e.pmode[u] = c.pmode[u]
            /\ \A u \in Q : e.pmode[u] = "CLOSE"
        <4>1. e.caller = f.caller /\ e.pmode = checked.pmode
          BY <2>3, <2>5, <2>8
        <4>2. \A u \in Task : e.pmode[u] = IF u \in Q THEN "CLOSE" ELSE c.pmode[u]
          BY <4>1, <1>29
        <4> QED
          BY <4>1, <4>2, <2>3, <2>8, <1>18, <1>31
      <3>2. /\ e.parent = c.parent /\ e.ring = c.ring /\ e.autofree = c.autofree
            /\ e.catch = c.catch
            /\ e.start = c.start /\ e.bound = c.bound /\ e.mark \subseteq c.mark \cup Q
            /\ \A u \in Task : u # k => e.exc[u] = c.exc[u]
            /\ e.exc[k].kind = "ABORT"
        BY <2>5, <2>8, <1>29
      <3>3. /\ e.run = (c.run \ {t}) \cup {IF Q = {} THEN k ELSE order[Len(order)]}
            /\ e.run \cap e.waiting = {}
            /\ \A u \in Task \ (ToSet(q) \cup Q \cup {k}) : u \in e.waiting <=> u \in c.waiting
        <4>1. e.run = (c.run \ {t}) \cup {last} /\ last \in Q
          BY <2>1, <2>5, <2>8, <1>29
        <4>2. e.run \cap e.waiting = {}
          BY <2>3, <2>5, <2>8, <1>34
        <4>3. \A u \in Task \ (ToSet(q) \cup Q \cup {k}) : u \in e.waiting <=> u \in c.waiting
          BY <4>1, <2>3, <2>5, <2>8, <1>29, <1>33
        <4> QED
          BY <4>1, <4>2, <4>3, <2>1 DEF last
      <3>4a. e.caller = f.caller /\ e.waiting = f.waiting \ {last}
        BY <2>3, <2>5, <2>8
      <3>4b. \A u \in Task \ Q : e.caller[u] = IF u \in R THEN NULL ELSE c.caller[u]
        <4>1. SUFFICES ASSUME NEW u \in Task \ Q PROVE e.caller[u] = IF u \in R THEN NULL ELSE c.caller[u]
          OBVIOUS
        <4>2. e.caller[u] = checked.caller[u]
          BY <3>4a, <2>3
        <4> QED
          BY <4>2, <1>29
      <3>4. \A u \in ToSet(q) \ Q : u \notin e.waiting /\ e.caller[u] = NULL
        BY <3>4a, <3>4b, <2>3, <1>11, <1>29, <1>33
      <3>5. \A u \in Task \ (Q \cup ToSet(q)) : e.caller[u] = c.caller[u]
        BY <3>4b, <1>33
      <3>6. k \in e.waiting
        BY <2>1, <2>3, <2>5, <2>8, <1>8, <1>29, <1>33
      <3> QED
        BY <3>1, <3>2, <3>3, <3>4, <3>5, <3>6, <1>7a, <1>27 DEF Raised
    <2> QED
      BY <2>9, <1>6, <1>17
  <1> QED
    BY <1>35, <1>36

(* The path of an exception may close, or be suspended, as a whole. *)
LEMMA RaisedCut ==
    ASSUME NEW c, NEW d, NEW r, NEW b, NEW p, NEW N, Inv(c, d, r, b, p, N),
           NEW t \in Normal(c), t \in c.run, t \notin Pending(c),
           NEW e, NEW q, NEW h, NEW closed, NEW below, NEW Q, NEW o,
           Route(c, d, r, b, t, q, h), Closure(c, d, r, t, q, h, closed, below, Q),
           Raised(c, e, b, t, q, h, Q, o)
    PROVE  /\ Cut(c, r, b, r[t], Q, ToSet(q) \ Q, c.caller[h], NULL)
           /\ Cuts(c, e, r, r[t], Q, ToSet(q) \ Q, c.caller[h], NULL, o[Len(o)])
  <1>1. /\ c \in Trees /\ N \in Nat /\ Tree(c, d) /\ RootOK(c, d, r, N) /\ GoneOK(c) /\ RunOK(c, r)
        /\ CallOK(c, r)
        /\ WakeOK(c) /\ BlockOK(c, r, b) /\ ExcOK(c, r) /\ CloseOK(c, r, p, N) /\ StartOK(c, r)
    BY DEF Inv
  <1>2. /\ Live(c) \subseteq Task /\ Normal(c) \subseteq Live(c) /\ NULL \notin Task
        /\ Live(c) = Normal(c) \cup Closing(c)
    BY TaskAssumption DEF Live, Normal, Closing
  <1>3. /\ t \notin c.waiting /\ t \notin c.bound /\ t \in Task /\ t \in Live(c)
        /\ \A k \in Closing(c) : r[k] # r[t]
    BY RunsFree
  <1> DEFINE k == c.caller[h]
             Z == ToSet(q) \ Q
             x == r[t]
             last == o[Len(o)]
  <1>4. /\ h \in ToSet(q) /\ t \in ToSet(q)
        /\ \A u \in ToSet(q) : /\ u \in Normal(c) /\ r[u] = x /\ b[u] = NULL /\ c.parent[u] # NULL
                               /\ u \in Active(c) /\ u \notin c.bound
        /\ \A u \in ToSet(q) : u # h => c.caller[u] \in ToSet(q)
        /\ \A u \in ToSet(q) : u # t => u \in c.waiting /\ \E w \in ToSet(q) : c.caller[w] = u
        /\ k \in Normal(c) /\ k \notin ToSet(q) /\ k \in c.waiting /\ k \notin c.bound
        /\ k \notin c.run
        /\ r[k] = x /\ b[k] = NULL /\ d[k] < d[h] /\ c.catch[k] = "catch"
    BY DEF Route
  <1>5. /\ Q \subseteq Normal(c)
        /\ \A u \in Normal(c) : c.parent[u] \in Q => u \in Q
        /\ \A u \in Q : r[u] = x /\ d[h] <= d[u]
        /\ Q # {} =>
              \E f \in ToSet(q) : c.parent[f] \notin Q /\ \A u \in Q : c.parent[u] \in Q \/ u = f
    <2>1. ToSet(closed) \subseteq ToSet(q)
      BY DEF Closure
    <2> QED
      BY <2>1 DEF Closure
  <1>6. /\ o \in Seq(Task) /\ ToSet(o) = Q
        /\ \A u \in Task \ Q : e.pmode[u] = c.pmode[u]
        /\ \A u \in Q : e.pmode[u] = "CLOSE"
        /\ e.parent = c.parent /\ e.ring = c.ring /\ e.autofree = c.autofree /\ e.catch = c.catch
        /\ e.start = c.start /\ e.bound = c.bound /\ e.mark \subseteq c.mark \cup Q
        /\ \A u \in Task : u # k => e.exc[u] = c.exc[u]
        /\ e.exc[k].kind = "ABORT"
        /\ e.run = (c.run \ {t}) \cup {IF Q = {} THEN k ELSE last}
        /\ e.run \cap e.waiting = {}
        /\ \A u \in Task \ (ToSet(q) \cup Q \cup {k}) : u \in e.waiting <=> u \in c.waiting
        /\ \A u \in Z : u \notin e.waiting /\ e.caller[u] = NULL
        /\ Q # {} => k \in e.waiting
        /\ \A u \in Task \ (Q \cup ToSet(q)) : e.caller[u] = c.caller[u]
        /\ \A u \in Task : b[u] # NULL => (u \in Q <=> b[u] \in Q)
    BY DEF Raised
  <1> HIDE DEF k, Z, x, last
  <1>7. k \notin Q /\ k \in Task /\ h \in Task
    <2>1. h \in Task /\ k \in Task
      BY <1>2, <1>4
    <2>2. d[h] \in Nat /\ d[k] \in Nat
      BY <2>1, <1>1 DEF Tree
    <2> QED
      BY <2>1, <2>2, <1>4, <1>5
  <1>8. Q \cup Z = Q \cup ToSet(q) /\ Z \subseteq ToSet(q) /\ Q \cap Z = {} /\ k \notin Q \cup Z
    BY <1>4, <1>7 DEF Z
  <1>9. \A u \in Q \cup Z : u \in Normal(c) /\ r[u] = x
    BY <1>4, <1>5, <1>8
  <1>10. \A u \in Tokens(c) : r[u] = x => u = t
    BY <1>1, <1>2, <1>3 DEF RunOK, Tokens, x
  <1>11. \A u \in Q \cup Z \cup {k} : u \notin c.run \ {t} /\ u \notin c.bound
    <2>1. SUFFICES ASSUME NEW u \in Q \cup Z, u \in (c.run \ {t}) \cup c.bound PROVE FALSE
      BY <1>4
    <2>2. u \in Tokens(c)
      BY <2>1, <1>2, <1>9 DEF Tokens
    <2> QED
      BY <2>1, <2>2, <1>3, <1>9, <1>10
  <1>12. x \in Live(c) /\ c.parent[x] = NULL /\ r[x] = x
    BY <1>1, <1>3 DEF RootOK, x
  <1>13. x \in Active(c) /\ \A j \in Closing(c) : r[j] # x
    <2>1. t \in Tokens(c)
      BY <1>3 DEF Tokens
    <2> QED
      BY <2>1, <1>1, <1>3, <1>12 DEF RunOK, x
  <1>14. \A u \in Live(c) : c.caller[u] \in Q \cup Z => u \in Q \cup Z
    <2>1. SUFFICES ASSUME NEW u \in Live(c), c.caller[u] \in Q \cup Z PROVE u \in Q \cup Z
      OBVIOUS
    <2>2. c.caller[u] # NULL /\ c.caller[u] \in Normal(c) /\ r[c.caller[u]] = x
      BY <2>1, <1>2, <1>9
    <2>3. r[u] = x
      BY <2>2, <1>1 DEF CallOK
    <2>4. u \in Normal(c)
      BY <2>3, <1>2, <1>13
    <2>5. c.caller[u] = c.parent[u]
      BY <2>2, <2>4, NormalFalls
    <2>6. CASE c.caller[u] \in Q
      BY <2>4, <2>5, <2>6, <1>5
    <2>7. CASE c.caller[u] \in Z
      <3>1. c.caller[u] \in c.waiting
        BY <2>2, <1>1 DEF CallOK
      <3>2. c.caller[u] # t
        BY <3>1, <1>3
      <3>3. PICK w \in ToSet(q) : c.caller[w] = c.caller[u]
        BY <2>7, <3>2, <1>4, <1>8
      <3>4. w \in Live(c)
        BY <1>2, <1>4
      <3>5. w = u
        BY <3>3, <3>4, <2>2, <1>1 DEF CallOK
      <3> QED
        BY <3>5, <1>8
    <2> QED
      BY <2>1, <2>6, <2>7
  <1>15. \A u \in Q \cup Z : c.caller[u] \in Q \cup Z \cup {NULL, k}
    <2>1. SUFFICES ASSUME NEW u \in Q \cup Z, c.caller[u] # NULL,
                          u # h PROVE c.caller[u] \in Q \cup Z
      BY DEF k
    <2>2. CASE u \in ToSet(q)
      BY <2>1, <2>2, <1>4, <1>8
    <2>3. CASE u \notin ToSet(q)
      <3>1. u \in Q
        BY <2>1, <2>3, <1>8
      <3>2. c.parent[u] \in Q
        BY <3>1, <2>3, <1>5
      <3>3. u \in Normal(c)
        BY <3>1, <1>5
      <3>4. c.caller[u] = c.parent[u]
        BY <3>3, <2>1, NormalFalls
      <3> QED
        BY <3>2, <3>4
    <2> QED
      BY <2>2, <2>3
  <1>16. \A u \in Live(c) : c.caller[u] = k => u \in Q \cup Z
    <2>1. h \in Live(c) /\ c.caller[h] = k /\ k # NULL
      BY <1>2, <1>4, <1>7 DEF k
    <2>2. \A u \in Live(c) : c.caller[u] = k => u = h
      BY <2>1, <1>1 DEF CallOK
    <2> QED
      BY <2>2, <1>4, <1>8
  <1>17. Q \cap Pending(c) = {} /\ Z \cap Pending(c) = {}
    <2>1. SUFFICES ASSUME NEW u \in Q \cup Z, u \in Pending(c) PROVE FALSE
      OBVIOUS
    <2>2. u \in Normal(c) /\ r[u] = x /\ u \in Live(c) /\ u # NULL
      BY <1>9, <1>2
    <2>3. u \in c.run \/ \E j \in Closing(c) : c.caller[j] = u
      BY <2>1, <2>2, <1>1 DEF ExcOK
    <2>4. CASE u \in c.run
      BY <2>1, <2>4, <1>11
    <2>5. CASE \E j \in Closing(c) : c.caller[j] = u
      BY <2>2, <2>5, <1>1, <1>2, <1>13 DEF CallOK
    <2> QED
      BY <2>3, <2>4, <2>5
  <1>18. Cut(c, r, b, x, Q, Z, k, NULL)
    <2>1. /\ Q \subseteq Normal(c) /\ Z \subseteq Normal(c) /\ Q \cap Z = {}
          /\ \A u \in Q \cup Z : r[u] = x
          /\ \A u \in Normal(c) : c.parent[u] \in Q => u \in Q
          /\ \A u \in Live(c) : c.caller[u] \in Q \cup Z => u \in Q \cup Z \cup {NULL}
          /\ \A u \in Q \cup Z : c.caller[u] \in Q \cup Z \cup {NULL, k}
      BY <1>5, <1>8, <1>9, <1>14, <1>15
    <2>2. \A u \in Z : b[u] = NULL /\ u \notin c.bound /\ u # x
      BY <1>4, <1>8, <1>12
    <2>3. /\ k \in Normal(c) \cap Active(c) /\ k \notin c.bound /\ k \notin Q \cup Z
          /\ r[k] = x /\ b[k] = NULL
          /\ \A u \in Live(c) : c.caller[u] = k => u \in Q \cup Z
      BY <1>4, <1>8, <1>16 DEF Active
    <2>4. \A u \in Task : b[u] # NULL => (u \in Q <=> b[u] \in Q)
      BY <1>6
    <2>5. k # NULL
      BY <1>2, <1>7
    <2> QED
      BY <2>1, <2>2, <2>3, <2>4, <2>5, <1>13, <1>17 DEF Cut
  <1>19. last \in Q \/ Q = {}
    <2>1. o # <<>> => Len(o) \in 1..Len(o) /\ DOMAIN o = 1..Len(o)
      BY <1>6, Z3
    <2>2. Q # {} => o # <<>>
      BY <1>6 DEF ToSet
    <2> QED
      BY <2>1, <2>2, <1>6 DEF ToSet, last
  <1>20. Cuts(c, e, r, x, Q, Z, k, NULL, last)
    <2> DEFINE T == Q \cup Z \cup {k}
    <2>1. /\ \A u \in Task \ Q : e.pmode[u] = c.pmode[u]
          /\ \A u \in Q : e.pmode[u] \in {"CLOSE", "ASYNC"} /\ e.pmode[u] # "ASYNC"
          /\ e.parent = c.parent /\ e.ring = c.ring /\ e.autofree = c.autofree /\ e.catch = c.catch
          /\ e.mark \subseteq c.mark \cup Q
          /\ \A u \in Task : u # k => e.exc[u] = c.exc[u]
          /\ k # NULL => e.exc[k] = c.exc[k] \/ (e.exc[k].kind = "ABORT" /\ c.catch[k] = "catch")
          /\ e.run \cap e.waiting = {}
      BY <1>4, <1>6
    <2>2. e.bound = c.bound \ Q
      BY <1>6, <1>11
    <2>3. \A u \in Task \ T : u \in e.run <=> u \in c.run
      BY <1>4, <1>6, <1>8, <1>19
    <2>4. \A u \in Task \ T : u \in e.waiting <=> u \in c.waiting
      BY <1>6, <1>8
    <2>5. \A u \in Z : u \notin e.run /\ u \notin e.waiting /\ e.caller[u] = NULL
      BY <1>6, <1>8, <1>11, <1>19
    <2>6. IF Q = {} THEN k \in e.run ELSE k \in e.waiting
      BY <1>6
    <2>7. \A u, w \in e.run \cap T : u = w
      <3>1. \A u \in e.run \cap T : u = IF Q = {} THEN k ELSE last
        BY <1>6, <1>11
      <3> QED
        BY <3>1
    <2>8. \A u \in Tokens(c) : r[u] = x => u \in T
      BY <1>4, <1>8, <1>10
    <2>9. \A u \in Task \ (Q \cup Z \cup {NULL}) : e.caller[u] = c.caller[u]
      BY <1>6, <1>8
    <2>10. \A u \in Task : e.start[u] = IF u \in Q /\ e.pmode[u] = "ASYNC" THEN last ELSE c.start[u]
      BY <2>1, <1>6
    <2>11. /\ \A u \in Q : IF e.pmode[u] = "ASYNC" THEN u \in e.run ELSE u \in e.run => u = last
           /\ Q # {} => last \in e.run
      BY <2>1, <1>6, <1>11
    <2> QED
      BY <2>1, <2>2, <2>3, <2>4, <2>5, <2>6, <2>7, <2>8, <2>9, <2>10, <2>11 DEF Cuts
  <1> QED
    BY <1>18, <1>20 DEF k, Z, x, last

(* zmraise zmABORT, caught. *)
LEMMA RaiseKeeps ==
    ASSUME NEW c, NEW d, NEW r, NEW b, NEW p, NEW N, Inv(c, d, r, b, p, N),
           NEW t \in Normal(c), t \in c.run, t \notin Pending(c), NEW w,
           w = SuspendCurrentState(c, t, TRUE),
           ExceptionPath(w, t) # <<>>,
           NEW e, e = LockAndImplodeByException(w, t), e.fatal # "CONTBREAK"
    PROVE  Good(e) /\ \E S : Takes(c, e, b, S)
  <1>1. PICK q, h, closed, below, Q, o :
              /\ Route(c, d, r, b, t, q, h)
              /\ Closure(c, d, r, t, q, h, closed, below, Q)
              /\ Raised(c, e, b, t, q, h, Q, o)
    BY RaisedIs
  <1>2. /\ Cut(c, r, b, r[t], Q, ToSet(q) \ Q, c.caller[h], NULL)
        /\ Cuts(c, e, r, r[t], Q, ToSet(q) \ Q, c.caller[h], NULL, o[Len(o)])
    BY <1>1, RaisedCut
  <1>3. /\ e \in Trees /\ o \in Seq(Task) /\ Sorted(o, Deeper(c)) /\ ToSet(o) = Q
        /\ (Q # {} => Chained(e.caller, o, c.caller[h]))
    BY <1>1 DEF Raised
  <1>4. Q \subseteq Normal(c) /\ c.caller[h] \notin Q
    <2> DEFINE k == c.caller[h]
    <2> HIDE DEF k
    <2>1. Q \subseteq Normal(c) /\ (k # NULL => k \notin Q)
      BY <1>2 DEF Cut, k
    <2>2. NULL \notin Normal(c)
      BY TaskAssumption DEF Normal
    <2> QED
      BY <2>1, <2>2 DEF k
  <1>5. Q # {} => \E f \in Q : c.parent[f] \notin Q /\ \A u \in Q : c.parent[u] \in Q \/ u = f
    BY <1>1 DEF Closure
  <1>6. \E y, M : (Q # {} => Queue(c, e.caller, Q, o[1], o[Len(o)], c.caller[h], y, N)) /\ Ranks(Q, p, N, y, M)
    <2>1. CASE Q = {}
      <3>1. p \in [Task -> Nat] /\ (\A u \in Task : p[u] <= N) /\ N \in Nat
        BY DEF Inv, CloseOK
      <3>2. Ranks(Q, p, N, p, N)
        BY <3>1, <2>1 DEF Ranks
      <3> QED
        BY <3>2, <2>1
    <2>2. CASE Q # {}
      <3>1. o # <<>>
        BY <1>3, <2>2, ToSetIs
      <3> DEFINE tail == c.caller[h]
                 caller == e.caller
      <3>2. Chained(caller, o, tail) /\ tail \notin Q /\ Q = ToSet(o)
        BY <1>3, <1>4, <2>2
      <3>3. tail # NULL =>
               \E f \in Q : c.parent[f] \notin Q /\ \A u \in Q : c.parent[u] \in Q \/ u = f
        BY <1>5, <2>2
      <3> HIDE DEF tail, caller
      <3>4. \E y : Queue(c, caller, Q, o[1], o[Len(o)], tail, y, N) /\ Ranks(Q, p, N, y, N + Len(o))
        BY <1>3, <1>4, <3>1, <3>2, <3>3, QueueIs
      <3> QED
        BY <3>4 DEF tail, caller
    <2> QED
      BY <2>1, <2>2
  <1>7. PICK y,
  M : (Q # {} => Queue(c, e.caller, Q, o[1], o[Len(o)], c.caller[h], y, N)) /\ Ranks(Q, p, N, y, M)
    BY <1>6
  <1>8. \E nb : Inv(e, d, r, nb, y, M)
    <2> DEFINE x == r[t]
               Z == ToSet(q) \ Q
               tail == c.caller[h]
               first == o[1]
               last == o[Len(o)]
    <2>1. Cut(c, r, b, x, Q, Z, tail, NULL) /\ Cuts(c, e, r, x, Q, Z, tail, NULL, last)
      BY <1>2
    <2>2. Q # {} => Queue(c, e.caller, Q, first, last, tail, y, N)
      BY <1>7
    <2> HIDE DEF x, Z, tail, first, last
    <2> QED
      BY <2>1, <2>2, <1>3, <1>7, CutKeeps
  <1>9. Takes(c, e, b, Q)
    <2>1. Q \subseteq Normal(c) /\ \A u \in Normal(c) : c.parent[u] \in Q => u \in Q
      BY <1>1 DEF Closure
    <2> QED
      BY <2>1, <1>1 DEF Raised, Takes
  <1> QED
    BY <1>8, <1>9 DEF Good

(* What an abort of s, which may close already, leaves as it was. *)
Aborted(c, e) ==
    /\ Good(e) /\ e \in Trees /\ e.parent = c.parent /\ e.ring = c.ring
    /\ \A u \in Task : c.pmode[u] # "NORMAL" => e.pmode[u] = c.pmode[u]
    /\ \A u \in Task : c.pmode[u] = "NORMAL" => e.pmode[u] \in {"NORMAL", "CLOSE", "ASYNC"}

(* No task is gone, and what was locked is locked. *)
LEMMA AbortedSets ==
    ASSUME NEW c, NEW e, Aborted(c, e)
    PROVE  Live(e) = Live(c) /\ Locked(c) \subseteq Locked(e)
  BY DEF Aborted, Live, Locked

(* zm_abort *)
LEMMA AbortTaskKeeps ==
    ASSUME NEW c, NEW d, NEW r, NEW b, NEW p, NEW N, Inv(c, d, r, b, p, N),
           NEW s \in Task, c.pmode[s] # "ABSENT", c.parent[s] = NULL,
           NEW e, e = AbortTask(c, s)
    PROVE  Aborted(c, e) /\ s \in Locked(e) /\ (e = c \/ \E S : Takes(c, e, b, S))
  <1>1. c \in Trees
    BY DEF Inv
  <1>2. CASE s \in Locked(c)
    <2>1. e = c
      BY <1>2 DEF AbortTask
    <2> QED
      BY <2>1, <1>1, <1>2 DEF Aborted, Good
  <1>3. CASE s \notin Locked(c)
    <2>1. s \in Normal(c)
      BY <1>1, <1>3 DEF Trees, Pmode, Locked, Normal
    <2>2. e = CloseTask(c, s, "ROOT")
      BY <1>3 DEF AbortTask
    <2>3. PICK nb, q, M, Q, J, o : Inv(e, d, r, nb, q, M) /\ Imploded(c, c, e, d, r, b, s, Q, J, o)
      BY <2>1, <2>2, AbortKeeps
    <2>4. Takes(c, e, b, Q) /\ e \in Trees /\ s \in Q
      BY <2>3 DEF Imploded, Takes
    <2>5. Good(e)
      BY <2>3 DEF Good
    <2>6. s \in Locked(e)
      BY <2>4 DEF Takes, Locked
    <2>7. /\ \A u \in Task : c.pmode[u] # "NORMAL" => e.pmode[u] = c.pmode[u]
          /\ \A u \in Task : c.pmode[u] = "NORMAL" => e.pmode[u] \in {"NORMAL", "CLOSE", "ASYNC"}
      BY <2>4 DEF Takes, Normal
    <2> QED
      BY <2>4, <2>5, <2>6, <2>7 DEF Aborted, Takes
  <1> QED
    BY <1>2, <1>3

(* zm_closeVM *)
LEMMA CloseVMKeeps ==
    ASSUME NEW c, NEW d, NEW r, NEW b, NEW p, NEW N, Inv(c, d, r, b, p, N),
           NEW e, e = AbortAll(c, c.ring[NULL])
    PROVE  Good(e) /\ \E S : Takes(c, e, b, S)
  <1>1. c \in Trees /\ Tree(c, d) /\ RootOK(c, d, r, N) /\ BlockOK(c, r, b)
    BY DEF Inv
  <1> DEFINE q == c.ring[NULL]
             V == {x \in Trees : Aborted(c, x)}
  <1>2. q \in Seq(Task) /\ \A u \in Task : u \in ToSet(q) <=> u \in Live(c) /\ c.parent[u] = NULL
    BY <1>1 DEF Tree, Live
  <1>3. c \in V
    BY <1>1 DEF Aborted, Good
  <1>4. \A i \in 1..Len(q) : q[i] \in Task /\ q[i] \in Live(c) /\ c.parent[q[i]] = NULL
    BY <1>2 DEF ToSet
  <1>5. ASSUME NEW x \in V, NEW i \in 1..Len(q)
        PROVE  /\ AbortTask(x, q[i]) \in V /\ q[i] \in Locked(AbortTask(x, q[i]))
               /\ Locked(x) \subseteq Locked(AbortTask(x, q[i]))
    <2> DEFINE s == q[i]
               y == AbortTask(x, s)
    <2>1. s \in Task /\ s \in Live(c) /\ c.parent[s] = NULL
      BY <1>4
    <2>2. x \in Trees /\ Aborted(c, x)
      OBVIOUS
    <2>3. PICK d1, r1, b1, p1, N1 : Inv(x, d1, r1, b1, p1, N1)
      BY <2>2 DEF Aborted, Good
    <2>4. x.pmode[s] # "ABSENT" /\ x.parent[s] = NULL
      BY <2>1, <2>2, AbortedSets DEF Aborted, Live
    <2> HIDE DEF s, q, V
    <2>5. Aborted(x, y) /\ s \in Locked(y)
      BY <2>1, <2>3, <2>4, AbortTaskKeeps
    <2> HIDE DEF y
    <2>6. Aborted(c, y)
      BY <2>2, <2>5 DEF Aborted
    <2>7. Locked(x) \subseteq Locked(y)
      BY <2>5, AbortedSets
    <2> QED
      BY <2>5, <2>6, <2>7 DEF s, y, V, Aborted
  <1> HIDE DEF V
  <1>6. \E f \in [0..Len(q) -> V] :
              /\ f[0] = c /\ AbortAll(c, q) = f[Len(q)]
              /\ \A n \in 1..Len(q) : f[n] = AbortTask(f[n - 1], q[n])
    <2> HIDE DEF q
    <2> QED
      BY <1>2, <1>3, <1>5, AbortAllIs
  <1>7. PICK f \in [0..Len(q) -> V] :
              /\ f[0] = c /\ AbortAll(c, q) = f[Len(q)]
              /\ \A n \in 1..Len(q) : f[n] = AbortTask(f[n - 1], q[n])
    BY <1>6
  <1> HIDE DEF q
  <1>8. Len(q) \in Nat
    BY <1>2
  <1> DEFINE T == {n \in Nat : n <= Len(q) => \A i \in 1..n : q[i] \in Locked(f[n])}
  <1>9. \A n \in Nat : n \in T
    <2>1. 0 \in T
      OBVIOUS
    <2>2. ASSUME NEW n \in Nat, n \in T PROVE n + 1 \in T
      <3>1. SUFFICES ASSUME n + 1 <= Len(q), NEW i \in 1..(n + 1) PROVE q[i] \in Locked(f[n + 1])
        OBVIOUS
      <3>2. n + 1 \in 1..Len(q) /\ n \in 0..Len(q) /\ (n + 1) - 1 = n /\ n <= Len(q)
        BY <3>1, <1>8
      <3>3. f[n] \in V /\ f[n + 1] = AbortTask(f[n], q[n + 1])
        BY <3>2, <1>7
      <3>4. q[n + 1] \in Locked(f[n + 1]) /\ Locked(f[n]) \subseteq Locked(f[n + 1])
        BY <3>2, <3>3, <1>5
      <3>5. i = n + 1 \/ i \in 1..n
        OBVIOUS
      <3> QED
        BY <3>2, <3>4, <3>5, <2>2
    <2> HIDE DEF T
    <2> QED
      BY <2>1, <2>2, Induction
  <1>10. \A i \in 1..Len(q) : q[i] \in Locked(f[Len(q)])
    BY <1>8, <1>9
  <1>11. e = f[Len(q)] /\ e \in V
    BY <1>7, <1>8 DEF q
  <1>12. Aborted(c, e) /\ Good(e)
    BY <1>11 DEF V, Aborted
  <1>13. \A u \in Live(c) : e.parent[u] = NULL => u \in Locked(e)
    <2>1. \A u \in ToSet(q) : \E i \in 1..Len(q) : u = q[i]
      BY <1>2 DEF ToSet
    <2>2. \A u \in Live(c) : e.parent[u] = NULL => u \in ToSet(q)
      BY <1>2, <1>12 DEF Aborted, Live
    <2> QED
      BY <2>1, <2>2, <1>10, <1>11
  <1>14. \A u \in Normal(c) : e.pmode[u] \in {"CLOSE", "ASYNC"}
    <2>1. SUFFICES ASSUME NEW u \in Normal(c) PROVE u \in Locked(e)
      <3>1. \A u \in Normal(c) : u \in Task /\ c.pmode[u] = "NORMAL"
        BY DEF Normal
      <3> QED
        BY <3>1, <2>1, <1>12 DEF Aborted, Locked
    <2>2. PICK d1, r1, b1, p1, N1 : Inv(e, d1, r1, b1, p1, N1)
      BY <1>12 DEF Good
    <2>3. Live(e) = Live(c) /\ u \in Live(e)
      BY <1>12, AbortedSets DEF Live, Normal
    <2>4. r1[u] \in Live(e) /\ e.parent[r1[u]] = NULL
      BY <2>2, <2>3 DEF Inv, RootOK
    <2>5. r1[u] \in Closing(e)
      BY <2>3, <2>4, <1>13 DEF Live, Locked, Closing
    <2>6. u \in Closing(e)
      BY <2>2, <2>3, <2>5, RootLocked
    <2> QED
      BY <2>6 DEF Closing, Locked
  <1>15. Takes(c, e, b, Normal(c))
    <2>1. \A u \in Task : b[u] # NULL => u \in Normal(c) /\ b[u] \in Normal(c)
      BY <1>1 DEF BlockOK, Heads
    <2>2. \A u \in Task \ Normal(c) : e.pmode[u] = c.pmode[u]
      BY <1>12 DEF Aborted, Normal
    <2> QED
      BY <2>1, <2>2, <1>12, <1>14 DEF Takes, Aborted
  <1> QED
    BY <1>12, <1>15

(* zmraise zmABORT, not caught. *)
LEMMA UncaughtKeeps ==
    ASSUME NEW c, NEW d, NEW r, NEW b, NEW p, NEW N, Inv(c, d, r, b, p, N),
           NEW t \in Normal(c), t \in c.run, NEW w, w = SuspendCurrentState(c, t, TRUE),
           NEW e, e = AbortTask(w, Root(w, t))
    PROVE  Good(e) /\ \E S : Takes(c, e, b, S)
  <1>1. c \in Trees /\ Tree(c, d) /\ RootOK(c, d, r, N)
    BY DEF Inv
  <1>2. t \in Task /\ t \in Live(c) /\ \A k \in Closing(c) : r[k] # r[t]
    BY RunsFree
  <1>3. w.pmode = c.pmode /\ w.parent = c.parent /\ w.ring = c.ring
    BY <1>1, <1>2 DEF SuspendCurrentState, Trees
  <1>4. Root(w, t) = r[t]
    <2>1. Root(w, t) = Root(c, t)
      BY <1>3 DEF Root, IsTask, Ancestors
    <2>2. \A u \in Live(c) : r[u] = IF c.parent[u] = NULL THEN u ELSE r[c.parent[u]]
      BY <1>1 DEF RootOK
    <2>3. Root(c, t) = r[t]
      BY <2>2, <1>1, <1>2, RootIs
    <2> QED
      BY <2>1, <2>3
  <1> DEFINE s == r[t]
  <1>5. s \in Normal(c) /\ c.parent[s] = NULL
    <2>1. s \in Live(c) /\ c.parent[s] = NULL /\ r[s] = s
      BY <1>1, <1>2 DEF RootOK
    <2>2. s \notin Closing(c)
      BY <2>1, <1>2
    <2> QED
      BY <2>1, <2>2 DEF Live, Closing, Normal
  <1>6. s \notin Locked(w)
    BY <1>3, <1>5 DEF Locked, Normal
  <1>7. e = CloseTask(w, s, "ROOT")
    BY <1>4, <1>6 DEF AbortTask
  <1>8. w = c \/ \E u \in Normal(c) : u \in c.run /\ r[u] = s /\ w = SuspendCurrentState(c, u, TRUE)
    OBVIOUS
  <1> HIDE DEF s
  <1>9. PICK nb, q, M, Q, J, o : Inv(e, d, r, nb, q, M) /\ Imploded(c, w, e, d, r, b, s, Q, J, o)
    BY <1>5, <1>7, <1>8, AbortKeeps
  <1>10. Takes(c, e, b, Q)
    BY <1>9 DEF Imploded, Takes
  <1> QED
    BY <1>9, <1>10 DEF Good

----------------------------------------------------------------------------
(* The steps, one after the other.                                         *)

(* What a step does to the tree: nothing that shows from afar, ... *)
Quiet(c, e) ==
    /\ Live(e) = Live(c) /\ Closing(e) = Closing(c)
    /\ \A u \in Live(c) : e.parent[u] = c.parent[u]
    /\ \A u \in Task : e.pmode[u] = "END" => c.pmode[u] = "END" \/ c.ring[u] = <<>>

(* ... a new task s below v, ... *)
Grows(c, e, s, v) ==
    /\ s \in Task /\ c.pmode[s] = "ABSENT" /\ (v = NULL \/ v \in Normal(c))
    /\ e.pmode = [c.pmode EXCEPT ![s] = "NORMAL"]
    /\ e.parent = [c.parent EXCEPT ![s] = v]

(* ... or the end of t. *)
Ends(c, e, t) ==
    /\ t \in Closing(c) /\ \A u \in Live(c) : c.parent[u] # t
    /\ Live(e) = Live(c) \ {t} /\ Closing(e) = Closing(c) \ {t}
    /\ \A u \in Live(e) : e.parent[u] = c.parent[u]
    /\ \A u \in Task : e.pmode[u] = "END" => c.pmode[u] = "END"

Outcome(c, e, b) ==
    \/ Quiet(c, e)
    \/ \E s, v : Grows(c, e, s, v)
    \/ \E t : Ends(c, e, t)
    \/ \E S : Takes(c, e, b, S)

(* A step that keeps modes and parents is quiet. *)
LEMMA SameQuiet ==
    ASSUME NEW c, NEW e, NEW b, e.pmode = c.pmode, e.parent = c.parent
    PROVE  Outcome(c, e, b) /\ Quiet(c, e)
  BY DEF Outcome, Quiet, Live, Closing

(* A task that begins a step in mode m. *)
Ready(c, t, m) ==
    [c EXCEPT !.catch[t] = m,
              !.exc[t]   = IF @.kind \in {"ABORT", "CONTINUE"} THEN NoExc ELSE @]

IsReady(c, t, m, x) ==
    /\ x \in Trees /\ Same(c, x)
    /\ x.run = c.run /\ x.waiting = c.waiting /\ x.bound = c.bound /\ x.caller = c.caller
    /\ x.exc = [c.exc EXCEPT ![t] = IF @.kind \in {"ABORT", "CONTINUE"} THEN NoExc ELSE @]
    /\ x.catch = [c.catch EXCEPT ![t] = m]
    /\ t \notin Pending(x)
    /\ \A u \in Task : u # t => x.exc[u] = c.exc[u]
    /\ x.exc[t].kind = "HEAD" <=> c.exc[t].kind = "HEAD"

(* What begins a step, *)
LEMMA ReadyIs ==
    ASSUME NEW c \in Trees, NEW t \in Task, NEW m \in {"none", "catch", "reset"}
    PROVE  IsReady(c, t, m, Ready(c, t, m))
  <1> DEFINE y == IF c.exc[t].kind \in {"ABORT", "CONTINUE"} THEN NoExc ELSE c.exc[t]
             x == [c EXCEPT !.catch[t] = m, !.exc[t] = y]
  <1>1. Ready(c, t, m) = x
    BY DEF Ready, Trees
  <1>2. c.exc[t] \in ExcType /\ NoExc \in ExcType
    BY DEF Trees, NoExc, ExcType
  <1>3. /\ y \in ExcType /\ y.kind \notin {"ABORT", "CONTINUE"}
        /\ (y.kind = "HEAD" <=> c.exc[t].kind = "HEAD")
    BY <1>2 DEF NoExc
  <1>4. [c.exc EXCEPT ![t] = IF @.kind \in {"ABORT", "CONTINUE"} THEN NoExc ELSE @] = [c.exc EXCEPT ![t] = y]
    OBVIOUS
  <1> HIDE DEF y
  <1>5. x \in Trees
    BY <1>3 DEF Trees
  <1>6. /\ x.pmode = c.pmode /\ x.parent = c.parent /\ x.ring = c.ring
        /\ x.autofree = c.autofree /\ x.mark = c.mark /\ x.start = c.start
        /\ x.run = c.run /\ x.waiting = c.waiting /\ x.bound = c.bound /\ x.caller = c.caller
        /\ x.exc = [c.exc EXCEPT ![t] = y]
        /\ x.catch = [c.catch EXCEPT ![t] = m]
    BY DEF Trees
  <1> HIDE DEF x
  <1>7. x.exc[t] = y /\ \A u \in Task : u # t => x.exc[u] = c.exc[u]
    BY <1>6 DEF Trees
  <1>8. t \notin Pending(x)
    BY <1>3, <1>7 DEF Pending
  <1> QED
    BY <1>1, <1>3, <1>4, <1>5, <1>6, <1>7, <1>8 DEF IsReady, Same

(* in a good tree. *)
LEMMA ReadyKeeps ==
    ASSUME NEW c, NEW d, NEW r, NEW b, NEW p, NEW N, Inv(c, d, r, b, p, N),
           NEW t \in Live(c), c.pmode[t] # "END",
           NEW m \in {"none", "catch", "reset"}, m = "reset" => c.parent[t] # NULL,
           NEW x, x = Ready(c, t, m)
    PROVE  Inv(x, d, r, b, p, N) /\ IsReady(c, t, m, x)
  <1>1. c \in Trees /\ t \in Task
    BY DEF Inv, Live
  <1>2. IsReady(c, t, m, x)
    BY <1>1, ReadyIs
  <1>3. x.exc = c.exc \/ (t \in Pending(c) /\ x.exc = [c.exc EXCEPT ![t] = NoExc])
    <2>1. CASE t \in Pending(c)
      BY <2>1, <1>1, <1>2 DEF IsReady, Pending
    <2>2. CASE t \notin Pending(c)
      <3>1. c.exc[t].kind \notin {"ABORT", "CONTINUE"}
        BY <2>2, <1>1 DEF Pending
      <3>2. x.exc = [c.exc EXCEPT ![t] = c.exc[t]]
        BY <3>1, <1>2 DEF IsReady
      <3> QED
        BY <3>2, <1>1 DEF Trees
    <2> QED
      BY <2>1, <2>2
  <1>4. /\ x \in Trees /\ Same(c, x)
        /\ x.run = c.run /\ x.waiting = c.waiting /\ x.bound = c.bound /\ x.caller = c.caller
        /\ x.catch = [c.catch EXCEPT ![t] = m] /\ t \notin Pending(x)
    BY <1>2 DEF IsReady
  <1>5. Inv(x, d, r, b, p, N)
    BY <1>3, <1>4, BegunKeeps
  <1> QED
    BY <1>2, <1>5

(* A running task in normal mode begins a step. *)
LEMMA ReadyRuns ==
    ASSUME NEW c, NEW d, NEW r, NEW b, NEW p, NEW N, Inv(c, d, r, b, p, N),
           NEW t \in Normal(c), t \in c.run,
           NEW m \in {"none", "catch", "reset"}, m = "reset" => c.parent[t] # NULL,
           NEW x, x = Ready(c, t, m)
    PROVE  /\ Inv(x, d, r, b, p, N) /\ IsReady(c, t, m, x) /\ Same(c, x)
           /\ t \in Normal(x) /\ t \in x.run /\ t \notin Pending(x)
           /\ Normal(x) = Normal(c) /\ Live(x) = Live(c) /\ Closing(x) = Closing(c)
           /\ Active(x) = Active(c)
           /\ Heads(x) = Heads(c)
  <1>1. t \in Live(c) /\ c.pmode[t] # "END" /\ t \in Task
    BY DEF Live, Normal
  <1>2. Inv(x, d, r, b, p, N) /\ IsReady(c, t, m, x)
    BY <1>1, ReadyKeeps
  <1>3. Same(c, x) /\ x.run = c.run /\ x.waiting = c.waiting /\ t \notin Pending(x)
        /\ \A u \in Task : x.exc[u].kind = "HEAD" <=> c.exc[u].kind = "HEAD"
    BY <1>2 DEF IsReady
  <1>4. Normal(x) = Normal(c) /\ Live(x) = Live(c) /\ Closing(x) = Closing(c)
    BY <1>3, SameSets
  <1>5. Heads(x) = Heads(c)
    BY <1>3, <1>4 DEF Heads, Normal
  <1> QED
    BY <1>2, <1>3, <1>4, <1>5 DEF Active

(* A new task. *)
LEMMA AddStep ==
    ASSUME NEW c, NEW d, NEW r, NEW b, NEW p, NEW N, Inv(c, d, r, b, p, N),
           NEW s \in Task, c.pmode[s] = "ABSENT", NEW v, v = NULL \/ v \in Normal(c),
           NEW auto \in BOOLEAN,
           NEW e, e = AddTask(c, s, v, auto)
    PROVE  Good(e) /\ Grows(c, e, s, v)
  <1>1. c \in Trees /\ Tree(c, d) /\ Normal(c) \subseteq Task
    BY DEF Inv, Normal
  <1>2. v \in Task \cup {NULL}
    BY <1>1
  <1> DEFINE q == c.ring[v]
             a == AddSibling(q, s)
  <1>3. a \in Seq(Task)
    <2>1. q \in Seq(Task) /\ Sorted(q, Different) /\ s \notin ToSet(q)
      BY <1>1, <1>2 DEF Tree, Live
    <2> HIDE DEF q
    <2> QED
      BY <2>1, AddSiblingIs
  <1> HIDE DEF a
  <1> DEFINE f == [c EXCEPT !.pmode[s] = "NORMAL", !.parent[s] = v, !.ring[v] = a,
                            !.autofree = IF auto THEN @ \cup {s} ELSE @]
  <1>4. e = f
    BY <1>1, <1>2 DEF AddTask, a, Trees
  <1>5. f \in Trees
    BY <1>1, <1>2, <1>3 DEF Trees, Pmode
  <1>6. /\ f.pmode = [c.pmode EXCEPT ![s] = "NORMAL"] /\ f.parent = [c.parent EXCEPT ![s] = v]
        /\ f.ring = [c.ring EXCEPT ![v] = a]
        /\ f.autofree = (IF auto THEN c.autofree \cup {s} ELSE c.autofree)
        /\ f.mark = c.mark /\ f.start = c.start /\ f.run = c.run /\ f.waiting = c.waiting
        /\ f.bound = c.bound /\ f.caller = c.caller /\ f.exc = c.exc /\ f.catch = c.catch
    BY <1>1 DEF Trees
  <1> HIDE DEF f
  <1>7. /\ c.autofree \subseteq f.autofree /\ f.autofree \subseteq c.autofree \cup {s}
        /\ f.ring = [c.ring EXCEPT ![v] = AddSibling(@, s)]
    BY <1>6 DEF a
  <1>8. \E nd, nr : Inv(f, nd, nr, b, p, N + 1)
    BY <1>5, <1>6, <1>7, AddKeeps, SMTT(60)
  <1>9. Good(f)
    BY <1>8 DEF Good
  <1> QED
    BY <1>4, <1>6, <1>9 DEF Grows

(* zm_resume *)
LEMMA ResumeStep ==
    ASSUME NEW c, NEW d, NEW r, NEW b, NEW p, NEW N, Inv(c, d, r, b, p, N),
           NEW s \in Normal(c), c.parent[s] = NULL, s \notin c.run \cup c.waiting,
           NEW e, e = ResumeState(c, s)
    PROVE  Good(e) /\ Quiet(c, e)
  <1>1. c \in Trees /\ s \in Task /\ c.pmode[s] # "ABSENT" /\ s \notin c.bound
    BY DEF Inv, RunOK, Normal
  <1>2. Resumed(c, s, e)
    BY <1>1, ResumeIs
  <1>3. /\ e \in Trees /\ e.run = c.run \cup {s} /\ e.waiting = c.waiting \ {s}
        /\ Same(c, e) /\ e.bound = c.bound /\ e.caller = c.caller /\ e.catch = c.catch
        /\ e.exc = c.exc
    BY <1>2 DEF Resumed, Same
  <1>4. e.waiting = c.waiting /\ s \notin Active(c)
    BY <1>3 DEF Active
  <1>5. Inv(e, d, r, b, p, N)
    BY <1>3, <1>4, ResumeKeeps
  <1> QED
    BY <1>3, <1>5, SameQuiet DEF Good, Same

(* zm_trigger, zm_unbind *)
LEMMA TriggerStep ==
    ASSUME NEW c, NEW d, NEW r, NEW b, NEW p, NEW N, Inv(c, d, r, b, p, N),
           NEW s \in c.bound, NEW e, e = UnbindEvent(c, s)
    PROVE  Good(e) /\ Quiet(c, e)
  <1>1. c \in Trees /\ s \in Task /\ c.pmode[s] = "NORMAL" /\ s \in c.waiting /\ s \notin c.run
    BY DEF Inv, RunOK, Normal
  <1> DEFINE x == [c EXCEPT !.bound = @ \ {s}]
  <1>2. /\ x \in Trees /\ x.bound = c.bound \ {s}
        /\ x.run = c.run /\ x.waiting = c.waiting
        /\ x.pmode = c.pmode /\ x.caller = c.caller
        /\ x.parent = c.parent /\ x.ring = c.ring /\ x.autofree = c.autofree
        /\ x.mark = c.mark /\ x.catch = c.catch /\ x.exc = c.exc /\ x.start = c.start
    BY <1>1 DEF Trees
  <1>3. e = ResumeState(x, s)
    BY DEF UnbindEvent
  <1> HIDE DEF x
  <1>4. Resumed(x, s, e)
    BY <1>1, <1>2, <1>3, ResumeIs
  <1>5. /\ e \in Trees /\ e.run = c.run \cup {s} /\ e.waiting = c.waiting \ {s}
        /\ Same(c, e) /\ e.bound = c.bound \ {s} /\ e.caller = c.caller /\ e.catch = c.catch
        /\ e.exc = c.exc
    BY <1>2, <1>4 DEF Resumed, Same
  <1>6. Inv(e, d, r, b, p, N)
    BY <1>5, UnbindKeeps
  <1> QED
    BY <1>5, <1>6, SameQuiet DEF Good, Same

(* The memory of a task that has ended is released. *)
LEMMA FreeStateIs ==
    ASSUME NEW c, NEW d, NEW r, NEW b, NEW p, NEW N, Inv(c, d, r, b, p, N),
           NEW s \in Task, c.pmode[s] = "OFF", NEW e, e = FreeState(c, s)
    PROVE  /\ Good(e) /\ e.pmode = [c.pmode EXCEPT ![s] = "ABSENT"]
           /\ \A u \in Task : u # s => e.parent[u] = c.parent[u]
  <1>1. c \in Trees
    BY DEF Inv
  <1> DEFINE k1 == [c.pmode EXCEPT ![s] = "ABSENT"]
             k2 == [c.parent EXCEPT ![s] = NULL]
             k3 == [c.ring EXCEPT ![s] = <<>>]
             k4 == [c.caller EXCEPT ![s] = NULL]
             k5 == [c.catch EXCEPT ![s] = "none"]
             k6 == [c.exc EXCEPT ![s] = NoExc]
             f == [c EXCEPT !.pmode = k1, !.parent = k2, !.ring = k3,
                            !.caller = k4, !.run = @ \ {s}, !.waiting = @ \ {s},
                            !.autofree = @ \ {s}, !.mark = @ \ {s}, !.catch = k5,
                            !.exc = k6]
  <1>2. e = f
    BY <1>1 DEF FreeState, Trees
  <1>3. NoExc \in ExcType /\ <<>> \in Seq(Task)
    BY DEF NoExc, ExcType
  <1>4. f \in Trees
    <2>1. k1 \in [Task -> Pmode] /\ k2 \in [Task -> Task \cup {NULL}]
      BY <1>1 DEF Trees, Pmode
    <2>2. k3 \in [Task \cup {NULL} -> Seq(Task)]
      BY <1>1, <1>3 DEF Trees
    <2>3. k4 \in [Task -> Task \cup {NULL}] /\ k5 \in [Task -> {"none", "catch", "reset"}]
      BY <1>1 DEF Trees
    <2>4. k6 \in [Task -> ExcType]
      BY <1>1, <1>3 DEF Trees
    <2> HIDE DEF k1, k2, k3, k4, k5, k6
    <2> QED
      BY <1>1, <2>1, <2>2, <2>3, <2>4 DEF Trees
  <1>5. /\ f.pmode = [c.pmode EXCEPT ![s] = "ABSENT"] /\ f.parent = [c.parent EXCEPT ![s] = NULL]
        /\ f.ring = [c.ring EXCEPT ![s] = <<>>]
        /\ f.autofree = c.autofree \ {s} /\ f.mark = c.mark \ {s} /\ f.start = c.start
        /\ f.run = c.run \ {s} /\ f.waiting = c.waiting \ {s} /\ f.bound = c.bound
        /\ f.caller = [c.caller EXCEPT ![s] = NULL] /\ f.exc = [c.exc EXCEPT ![s] = NoExc]
        /\ f.catch = [c.catch EXCEPT ![s] = "none"]
    BY <1>1 DEF Trees
  <1> HIDE DEF f
  <1>6. Inv(f, d, r, b, p, N)
    BY <1>4, <1>5, FreeKeeps
  <1>7. \A u \in Task : u # s => f.parent[u] = c.parent[u]
    BY <1>1, <1>5 DEF Trees
  <1> QED
    BY <1>2, <1>5, <1>6, <1>7 DEF Good

(* zm_freeTask, zm_freeSubTask *)
LEMMA RequestFreeStep ==
    ASSUME NEW c, NEW d, NEW r, NEW b, NEW p, NEW N, Inv(c, d, r, b, p, N),
           NEW s \in Locked(c),
           NEW e, e = IF c.pmode[s] = "OFF" THEN FreeState(c, s) ELSE [c EXCEPT !.autofree = @ \cup {s}]
    PROVE  Good(e) /\ Quiet(c, e)
  <1>1. c \in Trees /\ s \in Task /\ c.pmode[s] # "ABSENT"
    BY DEF Inv, Locked
  <1>2. CASE c.pmode[s] = "OFF"
    <2>1. e = FreeState(c, s)
      BY <1>2
    <2>2. /\ Good(e) /\ e.pmode = [c.pmode EXCEPT ![s] = "ABSENT"]
          /\ \A u \in Task : u # s => e.parent[u] = c.parent[u]
      BY <1>1, <1>2, <2>1, FreeStateIs
    <2>3. \A u \in Task : e.pmode[u] = IF u = s THEN "ABSENT" ELSE c.pmode[u]
      BY <2>2, <1>1 DEF Trees
    <2> QED
      BY <2>2, <2>3, <1>2 DEF Quiet, Live, Closing
  <1>3. CASE c.pmode[s] # "OFF"
    <2> DEFINE f == [c EXCEPT !.autofree = @ \cup {s}]
    <2>1. e = f
      BY <1>3
    <2>2. f \in Trees
      BY <1>1 DEF Trees
    <2>3. /\ f.pmode = c.pmode /\ f.parent = c.parent /\ f.ring = c.ring
          /\ f.autofree = c.autofree \cup {s}
          /\ f.mark = c.mark /\ f.start = c.start /\ f.run = c.run /\ f.waiting = c.waiting
          /\ f.bound = c.bound /\ f.caller = c.caller /\ f.exc = c.exc /\ f.catch = c.catch
      BY <1>1 DEF Trees
    <2> HIDE DEF f
    <2>4. Inv(f, d, r, b, p, N)
      BY <1>1, <2>2, <2>3, MarkFreeKeeps
    <2> QED
      BY <2>1, <2>3, <2>4, SameQuiet DEF Good
  <1> QED
    BY <1>2, <1>3

(* The ZM_TERM step. *)
LEMMA TermStepStep ==
    ASSUME NEW c, NEW d, NEW r, NEW b, NEW p, NEW N, Inv(c, d, r, b, p, N),
           NEW t \in Task, c.pmode[t] = "CLOSE", t \in c.run,
           NEW e, e = [Ready(c, t, "none") EXCEPT !.pmode[t] = "END"]
    PROVE  Good(e) /\ Quiet(c, e)
  <1>1. /\ t \in Live(c) /\ t \in Closing(c) /\ c.pmode[t] # "END" /\ c.pmode[t] # "ASYNC"
        /\ c \in Trees
    BY DEF Live, Closing, Inv
  <1> DEFINE x == Ready(c, t, "none")
             f == [x EXCEPT !.pmode[t] = "END"]
  <1>2. Inv(x, d, r, b, p, N) /\ IsReady(c, t, "none", x)
    BY <1>1, ReadyKeeps
  <1> HIDE DEF x
  <1>3. /\ x \in Trees /\ x.pmode = c.pmode /\ x.parent = c.parent /\ x.ring = c.ring
        /\ x.run = c.run /\ t \notin Pending(x)
    BY <1>2 DEF IsReady, Same
  <1>4. f \in Trees
    BY <1>3 DEF Trees, Pmode
  <1>5. /\ f.parent = x.parent /\ f.ring = x.ring /\ f.autofree = x.autofree /\ f.mark = x.mark
        /\ f.start = x.start /\ f.run = x.run /\ f.waiting = x.waiting
        /\ f.bound = x.bound /\ f.caller = x.caller /\ f.exc = x.exc /\ f.catch = x.catch
        /\ f.pmode = [x.pmode EXCEPT ![t] = "END"]
    BY <1>3 DEF Trees
  <1>6. e = f
    BY DEF x
  <1> HIDE DEF f
  <1>7. Inv(f, d, r, b, p, N)
    BY <1>2, <1>3, <1>4, <1>5, EndingKeeps
  <1>8. c.ring[t] = <<>>
    BY <1>1, NothingBelow
  <1>9. \A u \in Task : f.pmode[u] = IF u = t THEN "END" ELSE c.pmode[u]
    BY <1>1, <1>3, <1>5 DEF Trees
  <1>10. Quiet(c, f)
    <2>1. Live(f) = Live(c) /\ Closing(f) = Closing(c)
      BY <1>9, <1>1 DEF Live, Closing
    <2> QED
      BY <2>1, <1>3, <1>5, <1>8, <1>9 DEF Quiet
  <1> QED
    BY <1>6, <1>7, <1>10 DEF Good

(* ZM_PMODE_ASYNCIMPLODE *)
AfterAsync(c, t) ==
    LET w == [SuspendCurrentState(c, t, TRUE) EXCEPT !.pmode[t] = "CLOSE", !.start[t] = NULL]
    IN  IF c.start[t] = NULL THEN Fail(w, "NOSTART") ELSE ResumeState(w, c.start[t])

(* The step as the code makes it. *)
LEMMA AsyncStep ==
    ASSUME NEW c, NEW d, NEW r, NEW b, NEW p, NEW N, Inv(c, d, r, b, p, N),
           NEW t \in Task, c.pmode[t] = "ASYNC", t \in c.run,
           NEW e, e = AfterAsync(c, t)
    PROVE  Good(e) /\ Quiet(c, e)
  <1> DEFINE w == [SuspendCurrentState(c, t, TRUE) EXCEPT !.pmode[t] = "CLOSE", !.start[t] = NULL]
  <1>0. e = IF c.start[t] = NULL THEN Fail(w, "NOSTART") ELSE ResumeState(w, c.start[t])
    BY DEF AfterAsync
  <1>1. c \in Trees /\ StartOK(c, r) /\ RunOK(c, r) /\ t \in Live(c) /\ t \in Closing(c)
    BY DEF Inv, Live, Closing
  <1> DEFINE a == c.start[t]
  <1>2. a \in Closing(c) /\ r[a] = r[t]
    BY <1>1 DEF StartOK
  <1>3. a \in Task /\ a # NULL /\ a \in Live(c) /\ c.pmode[a] # "ABSENT" /\ c.pmode[a] # "NORMAL"
    BY <1>2, TaskAssumption DEF Closing, Live
  <1> HIDE DEF a
  <1>4. a \notin c.run \ {t} /\ a \notin c.bound
    <2>1. a \notin c.bound
      BY <1>1, <1>3 DEF RunOK, Normal
    <2>2. a \in c.run => a = t
      BY <1>1, <1>2, <1>3 DEF RunOK, Tokens
    <2> QED
      BY <2>1, <2>2
  <1> DEFINE f == [c EXCEPT !.run = @ \ {t}, !.waiting = @ \cup {t}, !.pmode[t] = "CLOSE", !.start[t] = NULL]
  <1>5. w = f
    BY <1>1 DEF SuspendCurrentState, Trees
  <1> HIDE DEF w
  <1>6. f \in Trees
    BY <1>1 DEF Trees, Pmode
  <1>7. /\ f.parent = c.parent /\ f.ring = c.ring /\ f.autofree = c.autofree /\ f.mark = c.mark
        /\ f.start = [c.start EXCEPT ![t] = NULL]
        /\ f.run = c.run \ {t} /\ f.waiting = c.waiting \cup {t}
        /\ f.bound = c.bound /\ f.caller = c.caller /\ f.exc = c.exc /\ f.catch = c.catch
        /\ f.pmode = [c.pmode EXCEPT ![t] = "CLOSE"]
    BY <1>1 DEF Trees
  <1> HIDE DEF f
  <1>8. \A u \in Task : f.pmode[u] = IF u = t THEN "CLOSE" ELSE c.pmode[u]
    BY <1>1, <1>7 DEF Trees
  <1>9. Resumed(f, a, e)
    <2>1. f.pmode[a] # "ABSENT" /\ a \notin f.run /\ a \notin f.bound
      BY <1>3, <1>4, <1>7, <1>8
    <2>2. e = ResumeState(f, a)
      BY <1>0, <1>3, <1>5 DEF a
    <2> QED
      BY <2>1, <2>2, <1>3, <1>6, ResumeIs
  <1>10. /\ e \in Trees
         /\ e.parent = c.parent /\ e.ring = c.ring /\ e.autofree = c.autofree /\ e.mark = c.mark
         /\ e.start = [c.start EXCEPT ![t] = NULL]
         /\ e.run = (c.run \ {t}) \cup {a} /\ e.waiting = (c.waiting \cup {t}) \ {a}
         /\ e.bound = c.bound /\ e.caller = c.caller /\ e.exc = c.exc /\ e.catch = c.catch
         /\ e.pmode = [c.pmode EXCEPT ![t] = "CLOSE"]
         /\ e.pmode = f.pmode
    BY <1>7, <1>9 DEF Resumed
  <1>11. Inv(e, d, r, b, p, N)
    BY <1>10, AsyncKeeps DEF a
  <1>12. Quiet(c, e)
    <2>1. Live(e) = Live(c) /\ Closing(e) = Closing(c)
      BY <1>8, <1>10 DEF Live, Closing
    <2> QED
      BY <2>1, <1>8, <1>10 DEF Quiet
  <1> QED
    BY <1>11, <1>12 DEF Good

(* t has left the tree f. *)
Left(f, t, e) ==
    /\ Good(e) /\ e.pmode[t] \in {"OFF", "ABSENT"}
    /\ \A u \in Task : u # t => e.pmode[u] = f.pmode[u] /\ e.parent[u] = f.parent[u]

(* Its memory is released now, or later. *)
LEMMA LeftIs ==
    ASSUME NEW c, NEW d, NEW r, NEW b, NEW p, NEW N, Inv(c, d, r, b, p, N),
           NEW t \in Task, c.pmode[t] = "OFF",
           NEW e, e = IF t \in c.autofree THEN FreeState(c, t) ELSE c
    PROVE  Left(c, t, e)
  <1>1. c \in Trees
    BY DEF Inv
  <1>2. CASE t \in c.autofree
    <2>1. e = FreeState(c, t)
      BY <1>2
    <2>2. /\ Good(e) /\ e.pmode = [c.pmode EXCEPT ![t] = "ABSENT"]
          /\ \A u \in Task : u # t => e.parent[u] = c.parent[u]
      BY <2>1, FreeStateIs
    <2>3. c.pmode \in [Task -> Pmode]
      BY <1>1 DEF Trees
    <2>4. \A u \in Task : e.pmode[u] = IF u = t THEN "ABSENT" ELSE c.pmode[u]
      BY <2>2, <2>3
    <2> QED
      BY <2>2, <2>4 DEF Left
  <1>3. CASE t \notin c.autofree
    <2>1. e = c
      BY <1>3
    <2>2. Good(c)
      BY DEF Good
    <2> QED
      BY <2>1, <2>2 DEF Left
  <1> QED
    BY <1>2, <1>3

(* The end of t leaves no trace elsewhere. *)
LEMMA EndsIs ==
    ASSUME NEW c, NEW e, NEW t \in Closing(c), \A u \in Live(c) : c.parent[u] # t,
           e.pmode[t] \in {"OFF", "ABSENT"},
           \A u \in Task : u # t => e.pmode[u] = c.pmode[u] /\ e.parent[u] = c.parent[u]
    PROVE  Ends(c, e, t)
  <1>1. Live(e) = Live(c) \ {t} /\ Closing(e) = Closing(c) \ {t}
    BY DEF Live, Closing
  <1>2. \A u \in Live(e) : e.parent[u] = c.parent[u]
    BY <1>1 DEF Live
  <1>3. \A u \in Task : e.pmode[u] = "END" => c.pmode[u] = "END"
    OBVIOUS
  <1> QED
    BY <1>1, <1>2, <1>3 DEF Ends

(* ZM_PMODE_END *)
AfterEnd(c, t) ==
    LET w == IF c.caller[t] = NULL THEN c ELSE ResumeCaller(c, t)
        g == [w EXCEPT !.pmode[t] = "OFF", !.ring[c.parent[t]] = RemoveSibling(@, t), !.exc[t] = NoExc]
    IN  IF c.parent[t] # NULL /\ c.pmode[c.parent[t]] = "ABSENT" THEN Fail(w, "FREED")
        ELSE IF w.exc[t].kind \notin {"NONE", "HEAD"} THEN Fail(g, "PPS.EEN")
        ELSE IF t \in g.autofree THEN FreeState(g, t) ELSE g

(* The step as the code makes it. *)
LEMMA LeaveStep ==
    ASSUME NEW c, NEW d, NEW r, NEW b, NEW p, NEW N, Inv(c, d, r, b, p, N),
           NEW t \in Task, c.pmode[t] = "END", t \in c.run,
           NEW e, e = AfterEnd(c, t)
    PROVE  Good(e) /\ Ends(c, e, t)
  <1> DEFINE w == IF c.caller[t] = NULL THEN c ELSE ResumeCaller(c, t)
             g == [w EXCEPT !.pmode[t] = "OFF", !.ring[c.parent[t]] = RemoveSibling(@, t), !.exc[t] = NoExc]
  <1>0. e = IF c.parent[t] # NULL /\ c.pmode[c.parent[t]] = "ABSENT" THEN Fail(w, "FREED")
            ELSE IF w.exc[t].kind \notin {"NONE", "HEAD"} THEN Fail(g, "PPS.EEN")
            ELSE IF t \in g.autofree THEN FreeState(g, t) ELSE g
    BY DEF AfterEnd
  <1> DEFINE v == c.caller[t]
             u0 == c.parent[t]
             q == c.ring[u0]
             a == RemoveSibling(q, t)
  <1>1. c \in Trees /\ Tree(c, d)
    BY DEF Inv
  <1>2. /\ t \notin Pending(c) /\ t \in Live(c) /\ t \in Closing(c)
        /\ \A u \in Live(c) : c.parent[u] # t
        /\ v # NULL => v \in Live(c) /\ v # t /\ v \notin c.run /\ v \notin c.bound
    BY EndMeets
  <1>3. u0 \in Task \cup {NULL} /\ (u0 # NULL => c.pmode[u0] # "ABSENT") /\ v \in Task \cup {NULL}
    <2>1. u0 # NULL => u0 \in Live(c)
      BY <1>1, <1>2 DEF Tree
    <2> QED
      BY <2>1, <1>1 DEF Trees, Live
  <1>4. a \in Seq(Task)
    <2>1. q \in Seq(Task) /\ Sorted(q, Different) /\ t \in ToSet(q)
      BY <1>1, <1>2, <1>3 DEF Tree
    <2> HIDE DEF q
    <2> QED
      BY <2>1, RemoveSiblingIs
  <1>5. c.exc[t] \in ExcType /\ c.exc[t].kind \in {"NONE", "HEAD"} /\ NoExc \in ExcType
    <2>1. c.exc[t] \in ExcType
      BY <1>1 DEF Trees
    <2> QED
      BY <2>1, <1>2 DEF Pending, ExcType, NoExc
  <1>6. c.caller = [c.caller EXCEPT ![t] = v]
    BY <1>1 DEF Trees
  <1> HIDE DEF a, u0
  <1>7. /\ w \in Trees /\ w.exc = c.exc /\ w.ring = c.ring /\ w.parent = c.parent
        /\ w.pmode = c.pmode
        /\ w.run = (IF v = NULL THEN c.run ELSE c.run \cup {v}) /\ w.waiting = c.waiting \ {v}
        /\ w.bound = c.bound
        /\ w.caller = [c.caller EXCEPT ![t] = NULL]
        /\ w.autofree = c.autofree /\ w.mark = c.mark /\ w.start = c.start /\ w.catch = c.catch
    <2>1. CASE v = NULL
      <3>1. NULL \notin c.waiting
        BY <1>1, TaskAssumption DEF Trees
      <3>2. w = c
        BY <2>1
      <3> QED
        BY <2>1, <3>1, <3>2, <1>1, <1>6
    <2>2. CASE v # NULL
      <3> DEFINE x == [c EXCEPT !.caller[t] = NULL]
      <3>1. /\ x \in Trees /\ x.bound = c.bound
            /\ x.run = c.run /\ x.waiting = c.waiting
            /\ x.pmode = c.pmode /\ x.caller = [c.caller EXCEPT ![t] = NULL]
            /\ x.parent = c.parent /\ x.ring = c.ring /\ x.autofree = c.autofree
            /\ x.mark = c.mark /\ x.catch = c.catch /\ x.exc = c.exc /\ x.start = c.start
        BY <1>1 DEF Trees
      <3>2. w = ResumeState(x, v)
        BY <2>2 DEF ResumeCaller
      <3> HIDE DEF x, v
      <3>3. v \in Task /\ x.pmode[v] # "ABSENT" /\ v \notin x.run /\ v \notin x.bound
        BY <2>2, <3>1, <1>2, <1>3 DEF Live
      <3>4. Resumed(x, v, w)
        BY <3>1, <3>2, <3>3, ResumeIs
      <3> QED
        BY <2>2, <3>1, <3>4 DEF Resumed
    <2> QED
      BY <2>1, <2>2
  <1> HIDE DEF v, w
  <1> DEFINE f == [w EXCEPT !.pmode[t] = "OFF", !.ring[u0] = a, !.exc[t] = NoExc]
  <1>8. g = f
    BY <1>3, <1>7 DEF a, u0, Trees
  <1> HIDE DEF g
  <1>9. f \in Trees
    BY <1>3, <1>4, <1>5, <1>7 DEF Trees, Pmode
  <1>10. /\ f.pmode = [c.pmode EXCEPT ![t] = "OFF"] /\ f.parent = c.parent
         /\ f.ring = [c.ring EXCEPT ![u0] = a]
         /\ f.run = (IF v = NULL THEN c.run ELSE c.run \cup {v}) /\ f.waiting = c.waiting \ {v}
         /\ f.bound = c.bound
         /\ f.caller = [c.caller EXCEPT ![t] = NULL] /\ f.exc = [c.exc EXCEPT ![t] = NoExc]
         /\ f.autofree = c.autofree /\ f.mark = c.mark /\ f.start = c.start /\ f.catch = c.catch
    <2>1. /\ f.pmode = [w.pmode EXCEPT ![t] = "OFF"] /\ f.parent = w.parent
          /\ f.ring = [w.ring EXCEPT ![u0] = a]
          /\ f.run = w.run /\ f.waiting = w.waiting /\ f.bound = w.bound
          /\ f.caller = w.caller /\ f.exc = [w.exc EXCEPT ![t] = NoExc]
          /\ f.autofree = w.autofree /\ f.mark = w.mark /\ f.start = w.start /\ f.catch = w.catch
      BY <1>7 DEF Trees
    <2> HIDE DEF f
    <2> QED
      BY <2>1, <1>7
  <1> HIDE DEF f
  <1>11. f.ring = [c.ring EXCEPT ![c.parent[t]] = RemoveSibling(@, t)]
    BY <1>10 DEF a, u0
  <1>12. Inv(f, d, r, b, p, N)
    BY <1>9, <1>10, <1>11, LeaveKeeps, SMTT(60) DEF v
  <1>13. e = IF t \in f.autofree THEN FreeState(f, t) ELSE f
    BY <1>0, <1>3, <1>5, <1>7, <1>8 DEF u0
  <1>14. \A u \in Task : f.pmode[u] = IF u = t THEN "OFF" ELSE c.pmode[u]
    BY <1>1, <1>10 DEF Trees
  <1>15. f.pmode[t] = "OFF" /\ t \in Task /\ f.parent = c.parent
    BY <1>10, <1>14
  <1>16. /\ Good(e) /\ e.pmode[t] \in {"OFF", "ABSENT"}
         /\ \A u \in Task : u # t => e.pmode[u] = c.pmode[u] /\ e.parent[u] = c.parent[u]
    <2>1. Left(f, t, e)
      BY <1>12, <1>13, <1>15, LeftIs
    <2> QED
      BY <2>1, <1>14, <1>15 DEF Left
  <1>17. Ends(c, e, t)
    BY <1>2, <1>16, EndsIs
  <1> QED
    BY <1>16, <1>17

(* A step keeps the invariant and does one of the four things. *)
Stepped(c, e, b) == Good(e) /\ Outcome(c, e, b)

(* A step from a tree that only differs in who runs and waits. *)
LEMMA SteppedFrom ==
    ASSUME NEW c, NEW x, Same(c, x), NEW e, NEW b, Good(e),
           Outcome(x, e, b) \/ \E S : Takes(x, e, b, S)
    PROVE  Stepped(c, e, b)
  <1>1. /\ x.pmode = c.pmode /\ x.parent = c.parent /\ x.ring = c.ring
        /\ Live(x) = Live(c) /\ Closing(x) = Closing(c) /\ Normal(x) = Normal(c)
    BY SameSets DEF Same
  <1>2. ASSUME Quiet(x, e) PROVE Quiet(c, e)
    BY <1>1, <1>2 DEF Quiet
  <1>3. ASSUME NEW s, NEW v, Grows(x, e, s, v) PROVE Grows(c, e, s, v)
    BY <1>1, <1>3 DEF Grows
  <1>4. ASSUME NEW t, Ends(x, e, t) PROVE Ends(c, e, t)
    BY <1>1, <1>4 DEF Ends
  <1>5. ASSUME NEW S, Takes(x, e, b, S) PROVE Takes(c, e, b, S)
    BY <1>1, <1>5 DEF Takes
  <1> QED
    BY <1>2, <1>3, <1>4, <1>5 DEF Stepped, Outcome

(* t no longer runs in e. *)
Stopped(c, t, wait, e) ==
    /\ e \in Trees /\ Same(c, e)
    /\ e.run = c.run \ {t} /\ e.waiting = (IF wait THEN c.waiting \cup {t} ELSE c.waiting)
    /\ e.bound = c.bound /\ e.caller = c.caller /\ e.exc = c.exc /\ e.catch = c.catch

(* zm_suspendCurrentState *)
LEMMA StoppedIs ==
    ASSUME NEW c \in Trees, NEW t \in Task, NEW wait \in BOOLEAN,
           NEW e, e = SuspendCurrentState(c, t, wait)
    PROVE  Stopped(c, t, wait, e)
  <1> DEFINE f == [c EXCEPT !.run = @ \ {t}, !.waiting = IF wait THEN @ \cup {t} ELSE @]
  <1>1. e = f
    BY DEF SuspendCurrentState
  <1>2. f \in Trees
    BY DEF Trees
  <1>3. /\ f.run = c.run \ {t} /\ f.waiting = (IF wait THEN c.waiting \cup {t} ELSE c.waiting)
        /\ f.pmode = c.pmode /\ f.parent = c.parent /\ f.ring = c.ring
        /\ f.autofree = c.autofree /\ f.mark = c.mark /\ f.start = c.start
        /\ f.bound = c.bound /\ f.caller = c.caller /\ f.exc = c.exc /\ f.catch = c.catch
    BY DEF Trees
  <1> QED
    BY <1>1, <1>2, <1>3 DEF Stopped, Same

(* A mode may as well be set at the beginning of a step. *)
LEMMA ReadyAgain ==
    ASSUME NEW c \in Trees, NEW t \in Task, NEW m \in {"none", "catch", "reset"}
    PROVE  [Ready(c, t, "none") EXCEPT !.catch[t] = m] = Ready(c, t, m)
  <1> DEFINE y == [c.exc EXCEPT ![t] = IF @.kind \in {"ABORT", "CONTINUE"} THEN NoExc ELSE @]
             g(n) == [c.catch EXCEPT ![t] = n]
  <1>1. \A n : Ready(c, t, n) = [c EXCEPT !.catch = g(n), !.exc = y]
    BY DEF Ready, Trees
  <1>2. [g("none") EXCEPT ![t] = m] = g(m)
    BY DEF Trees
  <1> DEFINE u == g("none")
             v == g(m)
  <1>3. /\ Ready(c, t, "none") = [c EXCEPT !.catch = u, !.exc = y]
        /\ Ready(c, t, m) = [c EXCEPT !.catch = v, !.exc = y]
    BY <1>1
  <1>4. [u EXCEPT ![t] = m] = v
    BY <1>2
  <1> HIDE DEF y, g, u, v
  <1> QED
    BY <1>3, <1>4 DEF Trees

(* A plain yield. *)
LEMMA ContinueStep ==
    ASSUME NEW c, NEW d, NEW r, NEW b, NEW p, NEW N, Inv(c, d, r, b, p, N),
           NEW t \in Normal(c), t \in c.run, NEW x, x = Ready(c, t, "none")
    PROVE  Stepped(c, x, b)
  <1>1. Inv(x, d, r, b, p, N) /\ Same(c, x)
    BY ReadyRuns
  <1> QED
    BY <1>1, SameQuiet DEF Stepped, Good, Same

(* zmNewSubTask *)
LEMMA NewSubTaskStep ==
    ASSUME NEW c, NEW d, NEW r, NEW b, NEW p, NEW N, Inv(c, d, r, b, p, N),
           NEW t \in Normal(c), t \in c.run, NEW s \in Task, c.pmode[s] = "ABSENT",
           NEW auto \in BOOLEAN,
           NEW e, e = AddTask(Ready(c, t, "none"), s, t, auto)
    PROVE  Stepped(c, e, b)
  <1> DEFINE x == Ready(c, t, "none")
  <1>1. Inv(x, d, r, b, p, N) /\ Same(c, x) /\ t \in Normal(x)
    BY ReadyRuns
  <1>2. e = AddTask(x, s, t, auto)
    OBVIOUS
  <1> HIDE DEF x
  <1>3. x.pmode[s] = "ABSENT"
    BY <1>1 DEF Same
  <1>4. Good(e) /\ Grows(x, e, s, t)
    BY <1>1, <1>2, <1>3, AddStep
  <1> QED
    BY <1>1, <1>4, SteppedFrom DEF Outcome

(* zmSUSPEND in a ptask *)
LEMMA SuspendStep ==
    ASSUME NEW c, NEW d, NEW r, NEW b, NEW p, NEW N, Inv(c, d, r, b, p, N),
           NEW t \in Normal(c), t \in c.run, c.parent[t] = NULL,
           NEW e, e = SuspendCurrentState(Ready(c, t, "none"), t, FALSE)
    PROVE  Stepped(c, e, b)
  <1> DEFINE x == Ready(c, t, "none")
  <1>1. Inv(x, d, r, b, p, N) /\ Same(c, x) /\ t \in Normal(x) /\ t \in x.run /\ t \notin Pending(x)
    BY ReadyRuns
  <1>2. e = SuspendCurrentState(x, t, FALSE)
    OBVIOUS
  <1> HIDE DEF x
  <1>3. x \in Trees /\ t \in Task /\ x.parent[t] = NULL
    BY <1>1 DEF Inv, Normal, Same
  <1>4. Stopped(x, t, FALSE, e)
    BY <1>2, <1>3, StoppedIs
  <1>5. /\ e \in Trees /\ Same(x, e) /\ e.run = x.run \ {t} /\ e.waiting = x.waiting
        /\ e.bound = x.bound /\ e.caller = x.caller /\ e.exc = x.exc /\ e.catch = x.catch
    BY <1>4 DEF Stopped
  <1>6. Inv(e, d, r, b, p, N)
    BY <1>1, <1>3, <1>5, SuspendKeeps
  <1>7. Outcome(x, e, b)
    BY <1>5, SameQuiet DEF Same
  <1> QED
    BY <1>1, <1>6, <1>7, SteppedFrom DEF Good

(* zmEVENT *)
LEMMA ListenStep ==
    ASSUME NEW c, NEW d, NEW r, NEW b, NEW p, NEW N, Inv(c, d, r, b, p, N),
           NEW t \in Normal(c), t \in c.run,
           NEW e,
           e = [SuspendCurrentState(Ready(c, t, "none"), t, TRUE) EXCEPT !.bound = @ \cup {t}]
    PROVE  Stepped(c, e, b)
  <1> DEFINE x == Ready(c, t, "none")
             w == SuspendCurrentState(x, t, TRUE)
             f == [w EXCEPT !.bound = @ \cup {t}]
  <1>1. Inv(x, d, r, b, p, N) /\ Same(c, x) /\ t \in Normal(x) /\ t \in x.run /\ t \notin Pending(x)
    BY ReadyRuns
  <1>2. e = f
    OBVIOUS
  <1> HIDE DEF x
  <1>3. x \in Trees /\ t \in Task
    BY <1>1 DEF Inv, Normal
  <1>4. Stopped(x, t, TRUE, w)
    BY <1>3, StoppedIs
  <1> HIDE DEF w
  <1>5. f \in Trees
    BY <1>3, <1>4 DEF Stopped, Trees
  <1>6. /\ f.run = w.run /\ f.waiting = w.waiting /\ f.bound = w.bound \cup {t}
        /\ f.pmode = w.pmode /\ f.parent = w.parent /\ f.ring = w.ring
        /\ f.autofree = w.autofree /\ f.mark = w.mark /\ f.start = w.start
        /\ f.caller = w.caller /\ f.exc = w.exc /\ f.catch = w.catch
    BY <1>4 DEF Stopped, Trees
  <1> HIDE DEF f
  <1>7. /\ Same(x, f) /\ f.run = x.run \ {t} /\ f.waiting = x.waiting \cup {t}
        /\ f.bound = x.bound \cup {t}
        /\ f.caller = x.caller /\ f.exc = x.exc /\ f.catch = x.catch
    BY <1>4, <1>6 DEF Stopped, Same
  <1>8. Inv(f, d, r, b, p, N)
    BY <1>1, <1>5, <1>7, ListenKeeps
  <1>9. Outcome(x, f, b)
    BY <1>7, SameQuiet DEF Same
  <1> QED
    BY <1>1, <1>2, <1>8, <1>9, SteppedFrom DEF Good

(* s, called by t, has control in place of t. *)
Called(c, t, s, e) ==
    /\ e \in Trees /\ Same(c, e) /\ e.run = (c.run \cup {s}) \ {t}
    /\ e.waiting = (c.waiting \ {s}) \cup {t}
    /\ e.bound = c.bound /\ e.caller = [c.caller EXCEPT ![s] = t] /\ e.exc = c.exc
    /\ e.catch = c.catch

(* ... which keeps the tree good. *)
LEMMA CalledKeeps ==
    ASSUME NEW c, NEW d, NEW r, NEW b, NEW p, NEW N, Inv(c, d, r, b, p, N),
           NEW t \in Normal(c), t \in c.run, t \notin Pending(c),
           NEW s \in Normal(c), c.parent[s] = t, s \notin Active(c),
           NEW e, Called(c, t, s, e)
    PROVE  Inv(e, d, r, b, p, N) /\ Outcome(c, e, b)
  <1>1. /\ e \in Trees /\ Same(c, e) /\ e.run = (c.run \cup {s}) \ {t}
        /\ e.waiting = (c.waiting \ {s}) \cup {t}
        /\ e.bound = c.bound /\ e.caller = [c.caller EXCEPT ![s] = t] /\ e.exc = c.exc
        /\ e.catch = c.catch
    BY DEF Called
  <1>2. Inv(e, d, r, b, p, N)
    BY <1>1, SubKeeps
  <1>3. Outcome(c, e, b)
    BY <1>1, SameQuiet DEF Same
  <1> QED
    BY <1>2, <1>3

(* zmSUB *)
AfterSub(c, t, m, s) == SuspendCurrentState(ResumeState([Ready(c, t, m) EXCEPT !.caller[s] = t], s), t, TRUE)

(* The step as the code makes it. *)
LEMMA SubStep ==
    ASSUME NEW c, NEW d, NEW r, NEW b, NEW p, NEW N, Inv(c, d, r, b, p, N),
           NEW t \in Normal(c), t \in c.run,
           NEW m \in {"none", "catch", "reset"}, m = "reset" => c.parent[t] # NULL,
           NEW s \in Normal(c), c.parent[s] = t, s \notin c.run \cup c.waiting,
           NEW e, e = AfterSub(c, t, m, s)
    PROVE  Stepped(c, e, b)
  <1> DEFINE x == Ready(c, t, m)
             y == [x EXCEPT !.caller[s] = t]
             z == ResumeState(y, s)
  <1>1. /\ Inv(x, d, r, b, p, N) /\ Same(c, x) /\ t \in Normal(x) /\ t \in x.run
        /\ t \notin Pending(x)
        /\ Normal(x) = Normal(c) /\ Active(x) = Active(c)
    BY ReadyRuns
  <1>2. e = SuspendCurrentState(z, t, TRUE)
    BY DEF AfterSub
  <1> HIDE DEF x
  <1>3. /\ x \in Trees /\ t \in Task /\ s \in Task /\ s \in Normal(x) /\ x.parent[s] = t
        /\ s \notin Active(x)
        /\ x.pmode[s] # "ABSENT" /\ s \notin x.run /\ s \notin x.bound
    BY <1>1 DEF Inv, RunOK, Normal, Same, Active
  <1>4. /\ y \in Trees /\ y.caller = [x.caller EXCEPT ![s] = t]
        /\ y.run = x.run /\ y.waiting = x.waiting /\ y.bound = x.bound /\ y.pmode = x.pmode
        /\ y.parent = x.parent /\ y.ring = x.ring /\ y.autofree = x.autofree
        /\ y.mark = x.mark /\ y.catch = x.catch /\ y.exc = x.exc /\ y.start = x.start
    BY <1>3 DEF Trees
  <1> HIDE DEF y
  <1>5. Resumed(y, s, z)
    BY <1>3, <1>4, ResumeIs
  <1> HIDE DEF z
  <1>6. Stopped(z, t, TRUE, e)
    BY <1>2, <1>3, <1>5, StoppedIs DEF Resumed
  <1>7. Called(x, t, s, e)
    BY <1>4, <1>5, <1>6 DEF Resumed, Stopped, Same, Called
  <1>8. Inv(e, d, r, b, p, N) /\ Outcome(x, e, b)
    BY <1>1, <1>3, <1>7, CalledKeeps
  <1> QED
    BY <1>1, <1>8, SteppedFrom DEF Good

(* zmUNRAISE *)
AfterUnraise(c, t, m, s) == SuspendCurrentState(Unraise(Ready(c, t, m), s, t), t, TRUE)

(* The block headed by s runs again at q, called by t. *)
Unraised(c, t, s, q, e) ==
    /\ e \in Trees /\ Same(c, e) /\ e.run = (c.run \cup {q}) \ {t}
    /\ e.waiting = (c.waiting \ {q}) \cup {t}
    /\ e.bound = c.bound /\ e.caller = [c.caller EXCEPT ![s] = t]
    /\ e.exc = [c.exc EXCEPT ![s] = NoExc] /\ e.catch = c.catch

(* ... which keeps the tree good. *)
LEMMA UnraisedKeeps ==
    ASSUME NEW c, NEW d, NEW r, NEW b, NEW p, NEW N, Inv(c, d, r, b, p, N),
           NEW t \in Normal(c), t \in c.run, t \notin Pending(c),
           NEW s \in Heads(c), c.parent[s] = t, NEW q, q = c.exc[s].raise,
           NEW e, Unraised(c, t, s, q, e)
    PROVE  Good(e) /\ Outcome(c, e, b)
  <1>1. /\ e \in Trees /\ Same(c, e) /\ e.run = (c.run \cup {q}) \ {t}
        /\ e.waiting = (c.waiting \ {q}) \cup {t}
        /\ e.bound = c.bound /\ e.caller = [c.caller EXCEPT ![s] = t]
        /\ e.exc = [c.exc EXCEPT ![s] = NoExc] /\ e.catch = c.catch
    BY DEF Unraised
  <1>2. \E nb : Inv(e, d, r, nb, p, N)
    BY <1>1, UnraiseKeeps
  <1>3. Outcome(c, e, b)
    BY <1>1, SameQuiet DEF Same
  <1> QED
    BY <1>2, <1>3 DEF Good

(* The step as the code makes it. *)
LEMMA UnraiseStep ==
    ASSUME NEW c, NEW d, NEW r, NEW b, NEW p, NEW N, Inv(c, d, r, b, p, N),
           NEW t \in Normal(c), t \in c.run,
           NEW m \in {"none", "catch", "reset"}, m = "reset" => c.parent[t] # NULL,
           NEW s \in Heads(c), c.parent[s] = t,
           NEW e, e = AfterUnraise(c, t, m, s)
    PROVE  Stepped(c, e, b)
  <1> DEFINE x == Ready(c, t, m)
             q == x.exc[s].raise
             z == ResumeState(x, q)
             y == Unraise(x, s, t)
  <1>1. /\ Inv(x, d, r, b, p, N) /\ Same(c, x) /\ t \in Normal(x) /\ t \in x.run
        /\ t \notin Pending(x)
        /\ Heads(x) = Heads(c)
    BY ReadyRuns
  <1>2. e = SuspendCurrentState(y, t, TRUE)
    BY DEF AfterUnraise
  <1> HIDE DEF x
  <1>3. /\ x \in Trees /\ t \in Task /\ s \in Task /\ s \in Heads(x) /\ x.parent[s] = t
        /\ BlockOK(x, r, b) /\ RunOK(x, r)
    BY <1>1 DEF Inv, Normal, Same, Heads
  <1>4. x.exc[s].before = s /\ q \in Task /\ b[q] = s
    BY <1>3 DEF BlockOK
  <1>5. q \in Normal(x) /\ q \in x.waiting /\ q \notin x.bound
    <2>1. b[q] # NULL
      BY <1>3, <1>4, TaskAssumption
    <2> HIDE DEF q
    <2> QED
      BY <2>1, <1>3, <1>4 DEF BlockOK
  <1>6. x.pmode[q] # "ABSENT" /\ q \notin x.run
    BY <1>3, <1>5 DEF RunOK, Normal
  <1>7. y = [z EXCEPT !.caller[s] = t, !.exc[s] = NoExc]
    BY <1>4 DEF Unraise
  <1>8. q = x.exc[s].raise /\ z = ResumeState(x, q)
    OBVIOUS
  <1> HIDE DEF q, y, z
  <1>9. Resumed(x, q, z)
    BY <1>3, <1>4, <1>5, <1>6, <1>8, ResumeIs
  <1>10. z \in Trees
    BY <1>9 DEF Resumed
  <1> DEFINE f == [z EXCEPT !.caller[s] = t, !.exc[s] = NoExc]
  <1>11. NoExc \in ExcType
    BY DEF NoExc, ExcType
  <1>12. f \in Trees
    BY <1>3, <1>10, <1>11 DEF Trees
  <1>13. /\ f.caller = [z.caller EXCEPT ![s] = t] /\ f.exc = [z.exc EXCEPT ![s] = NoExc]
         /\ f.run = z.run /\ f.waiting = z.waiting /\ f.bound = z.bound /\ f.pmode = z.pmode
         /\ f.parent = z.parent /\ f.ring = z.ring /\ f.autofree = z.autofree
         /\ f.mark = z.mark /\ f.catch = z.catch /\ f.start = z.start
    BY <1>10 DEF Trees
  <1> HIDE DEF f
  <1>14. e = SuspendCurrentState(f, t, TRUE)
    BY <1>2, <1>7 DEF f
  <1>15. Stopped(f, t, TRUE, e)
    BY <1>3, <1>12, <1>14, StoppedIs
  <1>16. Unraised(x, t, s, q, e)
    BY <1>9, <1>13, <1>15 DEF Resumed, Stopped, Same, Unraised
  <1>17. Good(e) /\ Outcome(x, e, b)
    BY <1>1, <1>3, <1>8, <1>16, UnraisedKeeps
  <1> QED
    BY <1>1, <1>17, SteppedFrom

(* zmCALLER, and zmSUSPEND in a subtask *)
AfterYield(c, t) ==
    LET w == SuspendCurrentState(Ready(c, t, "none"), t, FALSE)
    IN  IF w.caller[t] = NULL THEN Fail(w, "NOCALLER") ELSE ResumeCaller(w, t)

Yielded(c, t, v, e) ==
    /\ e \in Trees /\ Same(c, e) /\ e.run = (c.run \ {t}) \cup {v} /\ e.waiting = c.waiting \ {v}
    /\ e.bound = c.bound /\ e.caller = [c.caller EXCEPT ![t] = NULL] /\ e.exc = c.exc
    /\ e.catch = c.catch

(* Its caller v has control in place of t. *)
LEMMA YieldedKeeps ==
    ASSUME NEW c, NEW d, NEW r, NEW b, NEW p, NEW N, Inv(c, d, r, b, p, N),
           NEW t \in Normal(c), t \in c.run, t \notin Pending(c), c.parent[t] # NULL,
           NEW v, v = c.caller[t],
           NEW e, Yielded(c, t, v, e)
    PROVE  Good(e) /\ Outcome(c, e, b)
  <1>1. /\ e \in Trees /\ Same(c, e) /\ e.run = (c.run \ {t}) \cup {v}
        /\ e.waiting = c.waiting \ {v}
        /\ e.bound = c.bound /\ e.caller = [c.caller EXCEPT ![t] = NULL] /\ e.exc = c.exc
        /\ e.catch = c.catch
    BY DEF Yielded
  <1>2. Inv(e, d, r, b, p, N)
    BY <1>1, YieldKeeps
  <1>3. Outcome(c, e, b)
    BY <1>1, SameQuiet DEF Same
  <1> QED
    BY <1>2, <1>3 DEF Good

(* The step as the code makes it. *)
LEMMA YieldStep ==
    ASSUME NEW c, NEW d, NEW r, NEW b, NEW p, NEW N, Inv(c, d, r, b, p, N),
           NEW t \in Normal(c), t \in c.run, c.parent[t] # NULL,
           NEW e, e = AfterYield(c, t)
    PROVE  Stepped(c, e, b)
  <1> DEFINE x == Ready(c, t, "none")
             w == SuspendCurrentState(x, t, FALSE)
             v == x.caller[t]
             y == [w EXCEPT !.caller[t] = NULL]
  <1>1. Inv(x, d, r, b, p, N) /\ Same(c, x) /\ t \in Normal(x) /\ t \in x.run /\ t \notin Pending(x)
    BY ReadyRuns
  <1>2. e = IF w.caller[t] = NULL THEN Fail(w, "NOCALLER") ELSE ResumeCaller(w, t)
    BY DEF AfterYield
  <1> HIDE DEF x
  <1>3. /\ x \in Trees /\ t \in Task /\ t \in Live(x) /\ x.parent[t] # NULL /\ RunOK(x, r)
        /\ CallOK(x, r)
    BY <1>1 DEF Inv, Normal, Live, Same
  <1>4. v = x.parent[t] /\ v # NULL
    BY <1>1, <1>3, RunsFree
  <1>5. v \in Live(x) /\ v \notin x.bound
    BY <1>3, <1>4 DEF CallOK
  <1>6. v \in Normal(x)
    <2>1. \A u \in Live(x) : x.parent[u] \in Closing(x) => u \in Closing(x)
      BY <1>1 DEF Inv, RootOK
    <2>2. v \notin Closing(x)
      BY <2>1, <1>1, <1>3, <1>4 DEF Closing, Normal
    <2> QED
      BY <2>2, <1>5 DEF Live, Closing, Normal
  <1>7. v \in x.waiting /\ v \notin x.run
    BY <1>3, <1>6 DEF CallOK, RunOK
  <1>8. Stopped(x, t, FALSE, w)
    BY <1>3, StoppedIs
  <1>9. w.caller[t] = v /\ w \in Trees
    BY <1>8 DEF Stopped
  <1>10. v = x.caller[t] /\ e = ResumeState(y, v)
    BY <1>2, <1>4, <1>9 DEF ResumeCaller
  <1> HIDE DEF w, v
  <1>11. y \in Trees
    BY <1>3, <1>9 DEF Trees
  <1>12. /\ y.caller = [w.caller EXCEPT ![t] = NULL] /\ y.exc = w.exc
         /\ y.run = w.run /\ y.waiting = w.waiting /\ y.bound = w.bound /\ y.pmode = w.pmode
         /\ y.parent = w.parent /\ y.ring = w.ring /\ y.autofree = w.autofree
         /\ y.mark = w.mark /\ y.catch = w.catch /\ y.start = w.start
    BY <1>9 DEF Trees
  <1> HIDE DEF y
  <1>13. v \in Task /\ y.pmode[v] # "ABSENT" /\ v \notin y.run /\ v \notin y.bound
    BY <1>5, <1>7, <1>8, <1>12 DEF Stopped, Same, Live
  <1>14. Resumed(y, v, e)
    BY <1>10, <1>11, <1>13, ResumeIs
  <1>15. Yielded(x, t, v, e)
    BY <1>8, <1>12, <1>14 DEF Resumed, Stopped, Same, Yielded
  <1>16. Good(e) /\ Outcome(x, e, b)
    BY <1>1, <1>3, <1>10, <1>15, YieldedKeeps
  <1> QED
    BY <1>1, <1>16, SteppedFrom

(* zmTERM *)
AfterTerm(c, t) == CloseTask(SuspendCurrentState(Ready(c, t, "none"), t, TRUE), t, "CUR")

(* The step as the code makes it. *)
LEMMA TermingStep ==
    ASSUME NEW c, NEW d, NEW r, NEW b, NEW p, NEW N, Inv(c, d, r, b, p, N),
           NEW t \in Normal(c), t \in c.run,
           NEW e, e = AfterTerm(c, t), e.fatal # "CONTBREAK"
    PROVE  Stepped(c, e, b)
  <1> DEFINE x == Ready(c, t, "none")
  <1>1. Inv(x, d, r, b, p, N) /\ Same(c, x) /\ t \in Normal(x) /\ t \in x.run /\ t \notin Pending(x)
    BY ReadyRuns
  <1>2. e = CloseTask(SuspendCurrentState(x, t, TRUE), t, "CUR")
    BY DEF AfterTerm
  <1> HIDE DEF x
  <1>3. Good(e) /\ \E S : Takes(x, e, b, S)
    BY <1>1, <1>2, TermKeeps
  <1> QED
    BY <1>1, <1>3, SteppedFrom

(* zmCLOSE *)
AfterClose(c, t, s) == SuspendCurrentState(CloseTask([Ready(c, t, "none") EXCEPT !.caller[s] = t], s, "SUB"), t, TRUE)

(* The step as the code makes it. *)
LEMMA CloseStep ==
    ASSUME NEW c, NEW d, NEW r, NEW b, NEW p, NEW N, Inv(c, d, r, b, p, N),
           NEW t \in Normal(c), t \in c.run, NEW s \in Live(c), c.parent[s] = t,
           NEW e, e = AfterClose(c, t, s), e.fatal # "CONTBREAK"
    PROVE  Stepped(c, e, b)
  <1> DEFINE x == Ready(c, t, "none")
             w == [x EXCEPT !.caller[s] = t]
  <1>1. Inv(x, d, r, b, p, N) /\ Same(c, x) /\ t \in Normal(x) /\ t \in x.run /\ Live(x) = Live(c)
    BY ReadyRuns
  <1>2. e = SuspendCurrentState(CloseTask(w, s, "SUB"), t, TRUE)
    BY DEF AfterClose
  <1> HIDE DEF x
  <1>3. s \in Live(x) /\ x.parent[s] = t
    BY <1>1 DEF Same
  <1>4. w = [x EXCEPT !.caller[s] = t]
    OBVIOUS
  <1> HIDE DEF w
  <1>5. Good(e) /\ \E S : Takes(x, e, b, S)
    BY <1>1, <1>2, <1>3, <1>4, CloseKeeps
  <1> QED
    BY <1>1, <1>5, SteppedFrom

(* zmraise zmABORT *)
LEMMA RaiseStep ==
    ASSUME NEW c, NEW d, NEW r, NEW b, NEW p, NEW N, Inv(c, d, r, b, p, N),
           NEW t \in Normal(c), t \in c.run,
           NEW m \in {"none", "catch", "reset"}, m = "reset" => c.parent[t] # NULL,
           NEW w, w = SuspendCurrentState(Ready(c, t, m), t, TRUE),
           NEW e, \/ ExceptionPath(w, t) = <<>> /\ e = AbortTask(w, Root(w, t))
                  \/ ExceptionPath(w, t) # <<>> /\ e = LockAndImplodeByException(w, t),
           e.fatal # "CONTBREAK"
    PROVE  Stepped(c, e, b)
  <1> DEFINE x == Ready(c, t, m)
  <1>1. Inv(x, d, r, b, p, N) /\ Same(c, x) /\ t \in Normal(x) /\ t \in x.run /\ t \notin Pending(x)
    BY ReadyRuns
  <1>2. w = SuspendCurrentState(x, t, TRUE)
    OBVIOUS
  <1> HIDE DEF x
  <1>3. Good(e) /\ \E S : Takes(x, e, b, S)
    BY <1>1, <1>2, UncaughtKeeps, RaiseKeeps
  <1> QED
    BY <1>1, <1>3, SteppedFrom

(* A block is made. *)
LEMMA ContinuedKeeps ==
    ASSUME NEW c, NEW d, NEW r, NEW b, NEW p, NEW N, Inv(c, d, r, b, p, N),
           NEW t \in Normal(c), t \in c.run, t \notin Pending(c), ExceptionPath(c, t) # <<>>,
           NEW h, h = Last(ExceptionPath(c, t)), NEW k, k = c.caller[h],
           NEW e, Continued(c, t, h, k, e)
    PROVE  Good(e) /\ Outcome(c, e, b)
  <1>1. \E nb : Inv(e, d, r, nb, p, N)
    BY BlockKeeps
  <1>2. Outcome(c, e, b)
    BY SameQuiet DEF Continued, Same
  <1> QED
    BY <1>1, <1>2 DEF Good

(* What the code does to make one. *)
LEMMA ContinueBlockIs ==
    ASSUME NEW c \in Trees, NEW t \in Task,
           NEW h \in Task, h = Last(ExceptionPath(c, t)), NEW k \in Task, k = c.caller[h], h # k,
           k # t,
           c.pmode[k] # "ABSENT", k \notin c.run, k \notin c.bound,
           NEW e, e = ContinueBlock(c, t)
    PROVE  Continued(c, t, h, k, e)
  <1> DEFINE x1 == [kind |-> "CONTINUE", raise |-> t, before |-> h]
             x2 == [kind |-> "HEAD", raise |-> t, before |-> h]
             y  == [c.exc EXCEPT ![k] = x1, ![h] = x2]
             f  == [c EXCEPT !.exc = y, !.caller[h] = NULL]
             w  == SuspendCurrentState(f, t, TRUE)
  <1>1. e = ResumeState(w, k)
    BY DEF ContinueBlock
  <1>2. x1 \in ExcType /\ x2 \in ExcType
    BY DEF ExcType
  <1> HIDE DEF x1, x2
  <1>3. y \in [Task -> ExcType]
    BY <1>2 DEF Trees
  <1> HIDE DEF y
  <1>4. f \in Trees
    BY <1>3 DEF Trees
  <1>5. /\ f.caller = [c.caller EXCEPT ![h] = NULL] /\ f.exc = y
        /\ f.run = c.run /\ f.waiting = c.waiting /\ f.bound = c.bound /\ f.pmode = c.pmode
        /\ f.parent = c.parent /\ f.ring = c.ring /\ f.autofree = c.autofree
        /\ f.mark = c.mark /\ f.catch = c.catch /\ f.start = c.start
    BY DEF Trees
  <1> HIDE DEF f
  <1>6. Stopped(f, t, TRUE, w)
    BY <1>4, StoppedIs
  <1> HIDE DEF w
  <1>7. w \in Trees /\ w.pmode[k] # "ABSENT" /\ k \notin w.run /\ k \notin w.bound
    BY <1>5, <1>6 DEF Stopped, Same
  <1>8. Resumed(w, k, e)
    BY <1>1, <1>7, ResumeIs
  <1>9. e.exc = [c.exc EXCEPT ![k] = [kind |-> "CONTINUE", raise |-> t, before |-> h], ![h] = [kind |-> "HEAD", raise |-> t, before |-> h]]
    BY <1>5, <1>6, <1>8 DEF Stopped, Resumed, y, x1, x2
  <1> QED
    BY <1>5, <1>6, <1>8, <1>9 DEF Stopped, Resumed, Same, Continued

(* zmraise zmCONTINUE *)
LEMMA RaiseContinueStep ==
    ASSUME NEW c, NEW d, NEW r, NEW b, NEW p, NEW N, Inv(c, d, r, b, p, N),
           NEW t \in Normal(c), t \in c.run,
           NEW x, x = Ready(c, t, "none"), ExceptionPath(x, t) # <<>>,
           NEW e, e = ContinueBlock(x, t)
    PROVE  Stepped(c, e, b)
  <1>1. Inv(x, d, r, b, p, N) /\ Same(c, x) /\ t \in Normal(x) /\ t \in x.run /\ t \notin Pending(x)
    BY ReadyRuns
  <1> DEFINE q == ExceptionPath(x, t)
  <1>2. \E h : /\ Last(q) = h /\ h \in ToSet(q) /\ t \in ToSet(q)
               /\ \A u \in ToSet(q) : u \in Normal(x) /\ x.caller[u] \in Normal(x)
               /\ x.caller[h] \notin ToSet(q) /\ x.caller[h] \notin x.bound
               /\ x.caller[h] \notin x.run
    BY <1>1, PathIs
  <1> HIDE DEF q
  <1>3. PICK h : /\ Last(q) = h /\ h \in ToSet(q) /\ t \in ToSet(q)
                 /\ \A u \in ToSet(q) : u \in Normal(x) /\ x.caller[u] \in Normal(x)
                 /\ x.caller[h] \notin ToSet(q) /\ x.caller[h] \notin x.bound
                 /\ x.caller[h] \notin x.run
    BY <1>2
  <1> DEFINE k == x.caller[h]
  <1>4. /\ x \in Trees /\ t \in Task /\ h \in Task /\ k \in Task /\ k = x.caller[h] /\ h # k
        /\ k # t
        /\ x.pmode[k] # "ABSENT" /\ k \notin x.run /\ k \notin x.bound
        /\ h = Last(ExceptionPath(x, t))
    BY <1>1, <1>3 DEF Inv, Normal, q
  <1> HIDE DEF k
  <1>5. Continued(x, t, h, k, e)
    BY <1>4, ContinueBlockIs
  <1>6. Good(e) /\ Outcome(x, e, b)
    BY <1>1, <1>4, <1>5, ContinuedKeeps
  <1> QED
    BY <1>1, <1>6, SteppedFrom

----------------------------------------------------------------------------
(* The actions of Context, and the invariant.                              *)

(* A step in a good tree begins without the flag of an earlier yield, so   *)
(* that its own yield says all.                                            *)
LEMMA BegunIs ==
    ASSUME tree \in Trees, \A u \in Pending(tree) : tree.catch[u] = "catch", NEW t \in Task
    PROVE  /\ Begun(t) = Ready(tree, t, "none")
           /\ Yield(t, "none") = Ready(tree, t, "none")
           /\ \A m \in {"none", "catch", "reset"} : Yield(t, m) = Ready(tree, t, m)
  <1>1. Catches(t) <=> tree.exc[t].kind \in {"ABORT", "CONTINUE"}
    BY DEF Catches, HasCatch, Pending
  <1>2. tree.catch[t] # "stale"
    BY DEF Trees
  <1>3. Begun(t) = Ready(tree, t, "none")
    BY <1>1, <1>2 DEF Begun, ResumePoint, Ready
  <1>4. ~HasCatch(Begun(t), t)
    <2>1. IsReady(tree, t, "none", Ready(tree, t, "none"))
      BY ReadyIs
    <2>2. Begun(t).catch[t] = "none"
      BY <1>3, <2>1 DEF IsReady, Trees
    <2> QED
      BY <2>2 DEF HasCatch
  <1>5. ASSUME NEW m \in {"none", "catch", "reset"} PROVE Yield(t, m) = Ready(tree, t, m)
    <2>1. Yield(t, m) = [Begun(t) EXCEPT !.catch[t] = m]
      BY <1>4 DEF Yield
    <2> QED
      BY <2>1, <1>3, ReadyAgain
  <1> QED
    BY <1>3, <1>5

(* A task that steps in normal mode. *)
LEMMA StepsIs ==
    ASSUME NEW d, NEW r, NEW b, NEW p, NEW N, Inv(tree, d, r, b, p, N),
           NEW t \in Task, Steps(t, "NORMAL")
    PROVE  /\ t \in Normal(tree) /\ t \in tree.run
           /\ Begun(t) = Ready(tree, t, "none")
           /\ Yield(t, "none") = Ready(tree, t, "none")
           /\ \A m \in {"none", "catch", "reset"} : Yield(t, m) = Ready(tree, t, m)
  <1>1. tree \in Trees /\ \A u \in Pending(tree) : tree.catch[u] = "catch"
    BY DEF Inv, ExcOK
  <1>2. t \in Normal(tree) /\ t \in tree.run
    BY DEF Steps, Normal, Runnable
  <1> QED
    BY <1>1, <1>2, BegunIs

(* What a step may say of exceptions; a ptask has no zmRESET. *)
LEMMA ModesAre ==
    ASSUME NEW t \in Task, NEW m \in Modes(t)
    PROVE  m \in {"none", "catch", "reset"} /\ (m = "reset" => tree.parent[t] # NULL)
  BY DEF Modes, CatchModes, IsTask

(* The calls of the host, and the steps of other contexts. *)
LEMMA CallsKeep ==
    ASSUME NEW d, NEW r, NEW b, NEW p, NEW N, Inv(tree, d, r, b, p, N),
           tree' = tree \/ CloseVM \/ \E s \in Task : Calls(s)
    PROVE  Stepped(tree, tree', b)
  <1>1. CASE tree' = tree
    BY <1>1, SameQuiet DEF Stepped, Good
  <1>2. CASE CloseVM
    <2> DEFINE e == AbortAll(tree, tree.ring[NULL])
    <2>1. tree' = e
      BY <1>2 DEF CloseVM, Becomes
    <2>2. Good(e) /\ \E S : Takes(tree, e, b, S)
      BY CloseVMKeeps
    <2> HIDE DEF e
    <2> QED
      BY <2>1, <2>2 DEF Stepped, Outcome
  <1>3. ASSUME NEW s \in Task, NEW auto \in AutoFree, NewTask(s, auto)
        PROVE  Stepped(tree, tree', b)
    <2>1. tree.pmode[s] = "ABSENT" /\ tree' = AddTask(tree, s, NULL, auto) /\ auto \in BOOLEAN
      BY <1>3 DEF NewTask, Becomes, AutoFree
    <2>2. Good(tree') /\ Grows(tree, tree', s, NULL)
      BY <2>1, AddStep
    <2> QED
      BY <2>2 DEF Stepped, Outcome
  <1>4. ASSUME NEW s \in Task, Resume(s)
        PROVE  Stepped(tree, tree', b)
    <2>1. /\ s \in Normal(tree) /\ tree.parent[s] = NULL /\ s \notin tree.run \cup tree.waiting
          /\ tree' = ResumeState(tree, s)
      BY <1>4 DEF Resume, Becomes, IsTask, Normal
    <2>2. Good(tree') /\ Quiet(tree, tree')
      BY <2>1, ResumeStep
    <2> QED
      BY <2>2 DEF Stepped, Outcome
  <1>5. ASSUME NEW s \in Task, Abort(s)
        PROVE  Stepped(tree, tree', b)
    <2>1. tree.pmode[s] # "ABSENT" /\ tree.parent[s] = NULL /\ tree' = AbortTask(tree, s)
      BY <1>5 DEF Abort, Becomes, IsTask
    <2>2. Aborted(tree, tree') /\ (tree' = tree \/ \E S : Takes(tree, tree', b, S))
      BY <2>1, AbortTaskKeeps
    <2>3. Good(tree')
      BY <2>2 DEF Aborted
    <2>4. tree' = tree => Outcome(tree, tree', b)
      BY SameQuiet
    <2> QED
      BY <2>2, <2>3, <2>4 DEF Stepped, Outcome
  <1>6. ASSUME NEW s \in Task, RequestFree(s)
        PROVE  Stepped(tree, tree', b)
    <2>1. s \in Locked(tree) /\ tree' = IF tree.pmode[s] = "OFF" THEN FreeState(tree, s) ELSE [tree EXCEPT !.autofree = @ \cup {s}]
      BY <1>6 DEF RequestFree, Becomes
    <2>2. Good(tree') /\ Quiet(tree, tree')
      BY <2>1, RequestFreeStep
    <2> QED
      BY <2>2 DEF Stepped, Outcome
  <1>7. ASSUME NEW s \in Task, Trigger(s)
        PROVE  Stepped(tree, tree', b)
    <2>1. s \in tree.bound /\ tree' = UnbindEvent(tree, s)
      BY <1>7 DEF Trigger, Becomes
    <2>2. Good(tree') /\ Quiet(tree, tree')
      BY <2>1, TriggerStep
    <2> QED
      BY <2>2 DEF Stepped, Outcome
  <1> QED
    BY <1>1, <1>2, <1>3, <1>4, <1>5, <1>6, <1>7 DEF Calls

(* The steps of a task in normal mode: alone, ... *)
LEMMA OwnStepsKeep ==
    ASSUME NEW d, NEW r, NEW b, NEW p, NEW N, Inv(tree, d, r, b, p, N), NEW t \in Task,
           Continue(t) \/ Suspend(t) \/ YieldCaller(t) \/ Listen(t) \/ Term(t)
    PROVE  Stepped(tree, tree', b)
  <1>1. Steps(t, "NORMAL")
    BY DEF Continue, Suspend, YieldCaller, Listen, Term
  <1>2. /\ t \in Normal(tree) /\ t \in tree.run
        /\ Begun(t) = Ready(tree, t, "none") /\ Yield(t, "none") = Ready(tree, t, "none")
    BY <1>1, StepsIs
  <1>3. CASE Continue(t)
    <2>1. tree' = Ready(tree, t, "none")
      BY <1>2, <1>3 DEF Continue, Becomes
    <2> QED
      BY <1>2, <2>1, ContinueStep
  <1>4. CASE Suspend(t)
    <2>1. tree' = SuspendCurrentState(Ready(tree, t, "none"), t, FALSE) /\ tree.parent[t] = NULL
      BY <1>2, <1>4 DEF Suspend, Becomes, IsTask
    <2> QED
      BY <1>2, <2>1, SuspendStep
  <1>5. CASE YieldCaller(t)
    <2>1. tree' = AfterYield(tree, t) /\ tree.parent[t] # NULL
      BY <1>2, <1>5 DEF YieldCaller, Becomes, IsTask, AfterYield
    <2> QED
      BY <1>2, <2>1, YieldStep
  <1>6. CASE Listen(t)
    <2>1. tree' = [SuspendCurrentState(Ready(tree, t, "none"), t, TRUE) EXCEPT !.bound = @ \cup {t}]
      BY <1>2, <1>6 DEF Listen, Becomes
    <2> QED
      BY <1>2, <2>1, ListenStep
  <1>7. CASE Term(t)
    <2>1. tree' = AfterTerm(tree, t) /\ tree'.fatal # "CONTBREAK"
      BY <1>2, <1>7 DEF Term, Becomes, AfterTerm
    <2> QED
      BY <1>2, <2>1, TermingStep
  <1> QED
    BY <1>3, <1>4, <1>5, <1>6, <1>7

(* ... with a subtask, ... *)
LEMMA SubtaskStepsKeep ==
    ASSUME NEW d, NEW r, NEW b, NEW p, NEW N, Inv(tree, d, r, b, p, N), "sibling" \notin uses,
           NEW t \in Task, NEW s \in Task,
           \/ \E auto \in AutoFree : NewSubTask(t, s, auto)
           \/ \E mode \in CatchModes : Sub(t, s, mode) \/ UnraiseHead(t, s, mode)
           \/ Close(t, s)
    PROVE  Stepped(tree, tree', b)
  <1>1. Steps(t, "NORMAL")
    BY DEF NewSubTask, Sub, UnraiseHead, Close
  <1>2. /\ t \in Normal(tree) /\ t \in tree.run
        /\ Begun(t) = Ready(tree, t, "none") /\ Yield(t, "none") = Ready(tree, t, "none")
        /\ \A m \in {"none", "catch", "reset"} : Yield(t, m) = Ready(tree, t, m)
    BY <1>1, StepsIs
  <1>3. ASSUME NEW auto \in AutoFree, NewSubTask(t, s, auto)
        PROVE  Stepped(tree, tree', b)
    <2>1. /\ tree.pmode[s] = "ABSENT" /\ tree' = AddTask(Ready(tree, t, "none"), s, t, auto)
          /\ auto \in BOOLEAN
      BY <1>2, <1>3 DEF NewSubTask, Becomes, AutoFree
    <2> QED
      BY <1>2, <2>1, NewSubTaskStep
  <1>4. ASSUME NEW m \in CatchModes, Sub(t, s, m)
        PROVE  Stepped(tree, tree', b)
    <2>1. m \in {"none", "catch", "reset"} /\ (m = "reset" => tree.parent[t] # NULL)
      BY <1>4, ModesAre DEF Sub
    <2>2. s \in Normal(tree) /\ tree.parent[s] = t /\ s \notin tree.run \cup tree.waiting
      BY <1>4 DEF Sub, CanBeContextStackPush, Normal
    <2>3. tree' = SuspendCurrentState(ResumeState([Yield(t, m) EXCEPT !.caller[s] = t], s), t, TRUE)
      BY <1>4 DEF Sub, Becomes
    <2>4. tree' = AfterSub(tree, t, m, s)
      BY <1>2, <2>1, <2>3 DEF AfterSub
    <2> QED
      BY <1>2, <2>1, <2>2, <2>4, SubStep
  <1>5. ASSUME NEW m \in CatchModes, UnraiseHead(t, s, m)
        PROVE  Stepped(tree, tree', b)
    <2>1. m \in {"none", "catch", "reset"} /\ (m = "reset" => tree.parent[t] # NULL)
      BY <1>5, ModesAre DEF UnraiseHead
    <2>2. tree.parent[s] = t /\ tree.exc[s].kind = "HEAD"
      BY <1>5 DEF UnraiseHead, CanBeContextStackPush
    <2>3. tree' = SuspendCurrentState(Unraise(Yield(t, m), s, t), t, TRUE)
      BY <1>5 DEF UnraiseHead, Becomes
    <2>4. tree' = AfterUnraise(tree, t, m, s)
      BY <1>2, <2>1, <2>3 DEF AfterUnraise
    <2>5. s \in Heads(tree)
      <3>1. s \in Live(tree)
        BY <2>2 DEF Inv, GoneOK, NoExc
      <3>2. r[s] = r[t]
        BY <2>2, <3>1, TaskAssumption DEF Inv, RootOK
      <3>3. s \notin Closing(tree)
        BY <1>2, <3>2, RunsFree
      <3> QED
        BY <2>2, <3>1, <3>3 DEF Live, Closing, Heads, Normal
    <2> QED
      BY <1>2, <2>1, <2>2, <2>4, <2>5, UnraiseStep
  <1>6. CASE Close(t, s)
    <2>1. tree.parent[s] = t /\ s \in Live(tree) /\ tree'.fatal # "CONTBREAK"
      BY <1>6 DEF Close, Becomes
    <2>2. tree' = AfterClose(tree, t, s)
      BY <1>2, <1>6 DEF Close, Becomes, AfterClose
    <2> QED
      BY <1>2, <2>1, <2>2, CloseStep
  <1> QED
    BY <1>3, <1>4, <1>5, <1>6

(* ... and with an exception. *)
LEMMA RaisesKeep ==
    ASSUME NEW d, NEW r, NEW b, NEW p, NEW N, Inv(tree, d, r, b, p, N), NEW t \in Task,
           (\E mode \in CatchModes : Raise(t, mode)) \/ RaiseContinue(t)
    PROVE  Stepped(tree, tree', b)
  <1>1. Steps(t, "NORMAL")
    BY DEF Raise, RaiseContinue
  <1>2. /\ t \in Normal(tree) /\ t \in tree.run
        /\ Begun(t) = Ready(tree, t, "none") /\ Yield(t, "none") = Ready(tree, t, "none")
        /\ \A m \in {"none", "catch", "reset"} : Yield(t, m) = Ready(tree, t, m)
    BY <1>1, StepsIs
  <1>3. ASSUME NEW m \in CatchModes, Raise(t, m)
        PROVE  Stepped(tree, tree', b)
    <2>1. m \in {"none", "catch", "reset"} /\ (m = "reset" => tree.parent[t] # NULL)
      BY <1>3, ModesAre DEF Raise
    <2> DEFINE v == SuspendCurrentState(Yield(t, m), t, TRUE)
               w == SuspendCurrentState(Ready(tree, t, m), t, TRUE)
    <2>2. v = w
      BY <1>2, <2>1
    <2>3. /\ \/ ExceptionPath(v, t) = <<>> /\ tree' = AbortTask(v, Root(v, t))
             \/ ExceptionPath(v, t) # <<>> /\ tree' = LockAndImplodeByException(v, t)
          /\ tree'.fatal # "CONTBREAK"
      BY <1>3 DEF Raise, Becomes
    <2>4. w = SuspendCurrentState(Ready(tree, t, m), t, TRUE)
      OBVIOUS
    <2> HIDE DEF v, w
    <2> QED
      BY <1>2, <2>1, <2>2, <2>3, <2>4, RaiseStep
  <1>4. CASE RaiseContinue(t)
    <2>1. /\ ExceptionPath(Ready(tree, t, "none"), t) # <<>>
          /\ tree' = ContinueBlock(Ready(tree, t, "none"), t)
      BY <1>2, <1>4 DEF RaiseContinue, Becomes
    <2> QED
      BY <1>2, <2>1, RaiseContinueStep
  <1> QED
    BY <1>3, <1>4

(* The steps of a task that closes. *)
LEMMA ClosingStepsKeep ==
    ASSUME NEW d, NEW r, NEW b, NEW p, NEW N, Inv(tree, d, r, b, p, N), NEW t \in Task,
           ClosingStep(t)
    PROVE  Stepped(tree, tree', b)
  <1>1. CASE TermStep(t)
    <2>0. tree \in Trees /\ \A u \in Pending(tree) : tree.catch[u] = "catch"
      BY DEF Inv, ExcOK
    <2>1. /\ tree.pmode[t] = "CLOSE" /\ t \in tree.run
          /\ tree' = [Ready(tree, t, "none") EXCEPT !.pmode[t] = "END"]
      BY <1>1, <2>0, BegunIs DEF TermStep, Steps, Runnable, Becomes
    <2>2. Good(tree') /\ Quiet(tree, tree')
      BY <2>1, TermStepStep
    <2> QED
      BY <2>2 DEF Stepped, Outcome
  <1>2. CASE AsyncImplode(t)
    <2>1. tree.pmode[t] = "ASYNC" /\ t \in tree.run /\ tree' = AfterAsync(tree, t)
      BY <1>2 DEF AsyncImplode, Steps, Runnable, Becomes, AfterAsync
    <2>3. Good(tree') /\ Quiet(tree, tree')
      BY <2>1, AsyncStep
    <2> QED
      BY <2>3 DEF Stepped, Outcome
  <1>3. CASE End(t)
    <2>1. tree.pmode[t] = "END" /\ t \in tree.run /\ tree' = AfterEnd(tree, t)
      BY <1>3 DEF End, Steps, Runnable, Becomes, Leave, AfterEnd
    <2>2. Good(tree') /\ Ends(tree, tree', t)
      BY <2>1, LeaveStep
    <2> QED
      BY <2>2 DEF Stepped, Outcome
  <1> QED
    BY <1>1, <1>2, <1>3 DEF ClosingStep

(* Every step. *)
LEMMA NextKeeps ==
    ASSUME NEW d, NEW r, NEW b, NEW p, NEW N, Inv(tree, d, r, b, p, N), "sibling" \notin uses,
           [Next]_vars
    PROVE  Stepped(tree, tree', b)
  <1>1. CASE UNCHANGED vars
    BY <1>1, CallsKeep DEF vars
  <1>2. CASE CloseVM \/ UCatch \/ \E t \in Task : Calls(t)
    BY <1>2, CallsKeep DEF UCatch
  <1>3. ASSUME NEW t \in Task, NormalStep(t)
        PROVE  Stepped(tree, tree', b)
    BY <1>3, OwnStepsKeep, SubtaskStepsKeep, RaisesKeep DEF NormalStep
  <1>4. ASSUME NEW t \in Task, ClosingStep(t)
        PROVE  Stepped(tree, tree', b)
    BY <1>4, ClosingStepsKeep
  <1> QED
    BY <1>1, <1>2, <1>3, <1>4 DEF Next

(* The tree of a new VM is good. *)
LEMMA EmptyGood == Good(EmptyTree)
  <1> DEFINE c == EmptyTree
             d == [t \in Task |-> 0]
             b == [t \in Task |-> NULL]
  <1>1. NoExc \in ExcType /\ NoExc.kind = "NONE" /\ <<>> \in Seq(Task)
    BY DEF NoExc, ExcType
  <1>2. /\ c.pmode = [t \in Task |-> "ABSENT"] /\ c.parent = b
        /\ c.ring = [u \in Task \cup {NULL} |-> <<>>]
        /\ c.caller = b /\ c.run = {} /\ c.waiting = {} /\ c.bound = {} /\ c.autofree = {}
        /\ c.mark = {}
        /\ c.catch = [t \in Task |-> "none"] /\ c.exc = [t \in Task |-> NoExc] /\ c.start = b
        /\ c.fatal = OK
    BY DEF EmptyTree
  <1>3. c \in Trees
    <2>1. /\ [t \in Task |-> "ABSENT"] \in [Task -> Pmode] /\ b \in [Task -> Task \cup {NULL}]
          /\ [u \in Task \cup {NULL} |-> <<>>] \in [Task \cup {NULL} -> Seq(Task)]
          /\ [t \in Task |-> "none"] \in [Task -> {"none", "catch", "reset"}]
          /\ [t \in Task |-> NoExc] \in [Task -> ExcType]
      BY <1>1 DEF Pmode
    <2> QED
      BY <2>1 DEF EmptyTree, Trees
  <1> HIDE DEF c
  <1>4. /\ Live(c) = {} /\ Normal(c) = {} /\ Closing(c) = {} /\ Tokens(c) = {} /\ Heads(c) = {}
        /\ Pending(c) = {}
    BY <1>1, <1>2 DEF Live, Normal, Closing, Tokens, Heads, Pending
  <1>5. Tree(c, d)
    <2>1. ToSet(<<>>) = {} /\ Sorted(<<>>, Different)
      <3> DEFINE q == <<>>
      <3>1. q \in Seq(Task) /\ q = <<>> /\ DOMAIN q = {}
        BY <1>1
      <3> HIDE DEF q
      <3>2. ToSet(q) = {}
        BY <3>1, ToSetIs
      <3>3. Sorted(q, Different)
        BY <3>1 DEF Sorted
      <3> QED
        BY <3>1, <3>2, <3>3
    <2>2. \A u \in Task \cup {NULL} : c.ring[u] = <<>>
      BY <1>2
    <2> QED
      BY <1>1, <1>2, <1>4, <2>1, <2>2 DEF Tree
  <1>6. RootOK(c, d, d, 0)
    BY <1>4 DEF RootOK
  <1>7. GoneOK(c) /\ RunOK(c, d) /\ CallOK(c, d) /\ WakeOK(c)
    BY <1>2, <1>4 DEF GoneOK, RunOK, CallOK, WakeOK, Active
  <1>8. BlockOK(c, d, b) /\ ExcOK(c, d) /\ StartOK(c, d)
    BY <1>2, <1>4 DEF BlockOK, ExcOK, StartOK
  <1>9. CloseOK(c, d, d, 0)
    BY <1>2, <1>4 DEF CloseOK
  <1> QED
    BY <1>3, <1>5, <1>6, <1>7, <1>8, <1>9 DEF Good, Inv, c

(* The tree of a VM is always good: whatever its tasks, whatever the        *)
(* program, if no subtask resumes one that is not its child.                *)
THEOREM AlwaysGood ==
    ASSUME NoSiblings
    PROVE  Spec => []ContextInv
  <1>1. Init => ContextInv
    BY EmptyGood DEF Init, ContextInv
  <1>2. ContextInv /\ [Next]_vars => ContextInv'
    <2> SUFFICES ASSUME ContextInv, [Next]_vars
                 PROVE  ContextInv'
      OBVIOUS
    <2>1. PICK d, r, b, p, N : Inv(tree, d, r, b, p, N)
      BY DEF ContextInv, Good
    <2>2. "sibling" \notin uses
      BY DEF NoSiblings, ContextInv
    <2>3. Good(tree')
      BY <2>1, <2>2, NextKeeps DEF Stepped
    <2>4. uncaught' \in BOOLEAN /\ uses' \in Programs
      <3>1. CASE UNCHANGED vars
        BY <3>1 DEF ContextInv, vars
      <3>2. CASE Next
        <4>1. uses' = uses
          BY <3>2 DEF Next
        <4>2. CloseVM \/ UCatch \/ (\E t \in Task : Calls(t)) => uncaught' \in {uncaught, FALSE}
          <5>1. CloseVM \/ UCatch => uncaught' \in {uncaught, FALSE}
            BY DEF CloseVM, UCatch
          <5>2. ASSUME NEW t \in Task, Calls(t) PROVE uncaught' = uncaught
            BY <5>2 DEF Calls, NewTask, Resume, Abort, RequestFree, Trigger
          <5> QED
            BY <5>1, <5>2
        <4>3. ASSUME NEW t \in Task, NormalStep(t) PROVE uncaught' \in {uncaught, TRUE}
          <5>1. ASSUME NEW s \in Task, \E auto \in AutoFree : NewSubTask(t, s, auto)
                PROVE  uncaught' = uncaught
            BY <5>1 DEF NewSubTask
          <5>2. ASSUME NEW s \in Task, NEW mode \in CatchModes,
                       Sub(t, s, mode) \/ UnraiseHead(t, s, mode)
                PROVE  uncaught' = uncaught
            BY <5>2 DEF Sub, UnraiseHead
          <5>3. ASSUME NEW s \in Task, Close(t, s) PROVE uncaught' = uncaught
            BY <5>3 DEF Close
          <5>4. Continue(t) \/ Suspend(t) \/ YieldCaller(t) \/ Listen(t) \/ Term(t) \/ RaiseContinue(t) => uncaught' = uncaught
            BY DEF Continue, Suspend, YieldCaller, Listen, Term, RaiseContinue
          <5>5. ASSUME NEW mode \in CatchModes, Raise(t, mode) PROVE uncaught' \in {uncaught, TRUE}
            BY <5>5 DEF Raise
          <5> QED
            BY <4>3, <5>1, <5>2, <5>3, <5>4, <5>5 DEF NormalStep
        <4>4. ASSUME NEW t \in Task, ClosingStep(t) PROVE uncaught' = uncaught
          BY <4>4 DEF ClosingStep, TermStep, AsyncImplode, End
        <4>5. uncaught' \in BOOLEAN
          BY <3>2, <4>2, <4>3, <4>4 DEF Next, ContextInv
        <4> QED
          BY <4>1, <4>5 DEF ContextInv
      <3> QED
        BY <3>1, <3>2
    <2> QED
      BY <2>3, <2>4 DEF ContextInv
  <1> QED
    BY <1>1, <1>2, PTL DEF Spec

----------------------------------------------------------------------------
(* What a good tree says.                                                  *)

(* The tree of a task, whose root is known. *)
LEMMA RootOf ==
    ASSUME NEW c, NEW d, NEW r, NEW b, NEW p, NEW N, Inv(c, d, r, b, p, N), NEW t \in Live(c)
    PROVE  Root(c, t) = r[t]
  <1>1. Tree(c, d) /\ \A u \in Live(c) : r[u] = IF c.parent[u] = NULL THEN u ELSE r[c.parent[u]]
    BY DEF Inv, RootOK
  <1> QED
    BY <1>1, RootIs

(* A good tree has its type and no error; *)
LEMMA GoodTypes == ContextInv => TypeOK /\ NoInternalFatal
  <1> SUFFICES ASSUME ContextInv
               PROVE  TypeOK /\ NoInternalFatal
    OBVIOUS
  <1>1. tree \in Trees /\ tree.run \cap tree.waiting = {} /\ tree.bound \subseteq tree.waiting
    BY DEF ContextInv, Good, Inv, RunOK
  <1> QED
    BY <1>1 DEF Trees, Pmode, TypeOK, NoInternalFatal, ContextInv

(* one task of a context has control, a closing one if any closes; *)
LEMMA GoodRuns == ContextInv => OneRunner /\ ClosersFirst
  <1> SUFFICES ASSUME ContextInv
               PROVE  OneRunner /\ ClosersFirst
    OBVIOUS
  <1>1. PICK d, r, b, p, N : Inv(tree, d, r, b, p, N)
    BY DEF ContextInv, Good
  <1>2. Runnable(tree) \cup tree.bound = Tokens(tree) /\ Tokens(tree) \subseteq Live(tree)
    BY <1>1 DEF Inv, RunOK, Runnable, Tokens, Normal, Live
  <1>3. \A t \in Live(tree) : Root(tree, t) = r[t]
    BY <1>1, RootOf
  <1>4. \A t, u \in Tokens(tree) : r[t] = r[u] => t = u
    BY <1>1 DEF Inv, RunOK
  <1>5. \A t \in Tokens(tree) \cap Normal(tree), k \in Closing(tree) : r[k] # r[t]
    BY <1>1 DEF Inv, CloseOK
  <1>6. Live(tree) \ Locked(tree) = Normal(tree) /\ Live(tree) \cap Locked(tree) = Closing(tree)
    BY DEF Live, Locked, Normal, Closing
  <1>7. OneRunner
    BY <1>2, <1>3, <1>4 DEF OneRunner
  <1>8. ClosersFirst
    BY <1>2, <1>3, <1>5, <1>6 DEF ClosersFirst
  <1> QED
    BY <1>7, <1>8

(* what its tasks refer to exists; *)
LEMMA GoodRefers == ContextInv => NoDangling
  <1> SUFFICES ASSUME ContextInv, NEW t \in Live(tree)
               PROVE  /\ ~IsTask(tree, t) => tree.parent[t] \in Live(tree)
                      /\ tree.caller[t] # NULL => tree.caller[t] \in Live(tree)
                      /\ tree.start[t] # NULL => tree.start[t] \in Live(tree)
                      /\ tree.exc[t].kind = "HEAD" /\ t \notin Locked(tree) =>
                            tree.exc[t].raise \in Live(tree)
    BY DEF NoDangling
  <1>1. PICK d, r, b, p, N : Inv(tree, d, r, b, p, N)
    BY DEF ContextInv, Good
  <1>2. Closing(tree) \subseteq Live(tree) /\ Normal(tree) \subseteq Live(tree)
    BY DEF Closing, Normal, Live
  <1>3. ~IsTask(tree, t) => tree.parent[t] \in Live(tree)
    BY <1>1 DEF Inv, Tree, IsTask
  <1>4. tree.caller[t] # NULL => tree.caller[t] \in Live(tree)
    BY <1>1 DEF Inv, CallOK
  <1>5. tree.start[t] # NULL => tree.start[t] \in Live(tree)
    BY <1>1, <1>2 DEF Inv, StartOK
  <1>6. ASSUME tree.exc[t].kind = "HEAD", t \notin Locked(tree)
        PROVE  tree.exc[t].raise \in Live(tree)
    <2>1. t \in Heads(tree)
      BY <1>6 DEF Live, Locked, Heads, Normal
    <2>2. tree.exc[t].raise \in Task /\ b[tree.exc[t].raise] = t
      BY <1>1, <2>1 DEF Inv, BlockOK
    <2>3. t # NULL
      BY TaskAssumption DEF Live
    <2>4. tree.exc[t].raise \in Normal(tree)
      BY <1>1, <2>2, <2>3 DEF Inv, BlockOK
    <2> QED
      BY <1>2, <2>4
  <1> QED
    BY <1>3, <1>4, <1>5, <1>6

(* Along the callers one comes from closing tasks, in the order in which    *)
(* they end, to tasks in normal mode, from child to parent.                 *)
LEMMA LiveFalls ==
    ASSUME NEW c, NEW d, NEW r, NEW b, NEW p, NEW N, Inv(c, d, r, b, p, N)
    PROVE  \E f : Falls(c.caller, Live(c), f) /\ \A t \in Task : f[t] <= 2 * N + 1
  <1> DEFINE f == [t \in Task |-> IF t \in Normal(c) THEN d[t] ELSE 2 * N + 1 - p[t]]
  <1>1. /\ N \in Nat /\ d \in [Task -> Nat] /\ p \in [Task -> Nat]
        /\ c.caller \in [Task -> Task \cup {NULL}]
        /\ \A t \in Task : d[t] <= N /\ p[t] <= N
    BY DEF Inv, Tree, RootOK, CloseOK, Trees
  <1>2. \A t \in Task : /\ f[t] \in Nat /\ f[t] <= 2 * N + 1
                        /\ IF t \in Normal(c) THEN f[t] = d[t] /\ f[t] <= N ELSE f[t] = 2 * N + 1 - p[t] /\ N < f[t]
    BY <1>1
  <1>3. f \in [Task -> Nat]
    BY <1>2
  <1> HIDE DEF f
  <1>4. ASSUME NEW t \in Live(c)
        PROVE  /\ c.caller[t] \in Live(c) \cup {NULL}
               /\ c.caller[t] \in Live(c) => f[c.caller[t]] < f[t]
    <2> DEFINE v == c.caller[t]
    <2>1. t \in Task /\ v \in Live(c) \cup {NULL} /\ Live(c) \subseteq Task
      BY DEF Inv, CallOK, Live
    <2>2. CASE t \in Normal(c)
      <3>1. v # NULL => v \in Normal(c) /\ d[v] < d[t]
        BY <2>1, <2>2, NormalFalls DEF Falls
      <3>2. NULL \notin Live(c)
        BY TaskAssumption DEF Live
      <3> HIDE DEF v
      <3>3. v \in Live(c) => f[v] < f[t]
        BY <2>1, <2>2, <3>1, <3>2, <1>2
      <3> QED
        BY <2>1, <3>3 DEF v
    <2>3. CASE t \notin Normal(c)
      <3>1. t \in Closing(c) /\ (v \in Closing(c) => p[t] < p[v])
        BY <2>1, <2>3 DEF Inv, CloseOK, Live, Normal, Closing
      <3>2. v \in Live(c) => v \in Normal(c) \/ (v \in Closing(c) /\ v \notin Normal(c))
        BY DEF Live, Normal, Closing
      <3> HIDE DEF v
      <3>3. v \in Live(c) => f[v] < f[t]
        BY <2>1, <2>3, <3>1, <3>2, <1>1, <1>2
      <3> QED
        BY <2>1, <3>3 DEF v
    <2> QED
      BY <2>2, <2>3
  <1>5. Falls(c.caller, Live(c), f)
    <2>1. Live(c) \subseteq Task
      BY DEF Live
    <2> QED
      BY <1>1, <1>3, <1>4, <2>1 DEF Falls
  <1> QED
    BY <1>2, <1>5

(* The callers of s: s, its caller, and so on. *)
LEMMA CallersOf ==
    ASSUME NEW c, NEW d, NEW r, NEW b, NEW p, NEW N, Inv(c, d, r, b, p, N), NEW s \in Live(c)
    PROVE  /\ s \in ToSet(CallerChain(c, s))
           /\ \A t \in ToSet(CallerChain(c, s)) : c.caller[t] = NULL \/ c.caller[t] \in ToSet(CallerChain(c, s))
  <1>1. PICK f : Falls(c.caller, Live(c), f)
    BY LiveFalls
  <1>2. Walk(CallerChain(c, s), c.caller, Live(c), s)
    BY <1>1, ChainIs DEF CallerChain
  <1>3. NULL \notin Live(c)
    BY TaskAssumption DEF Live
  <1> QED
    BY <1>2, <1>3, WalkSet

(* ... and in normal mode. *)
LEMMA NormalCallersOf ==
    ASSUME NEW c, NEW d, NEW r, NEW b, NEW p, NEW N, Inv(c, d, r, b, p, N), NEW s \in Normal(c)
    PROVE  \A X : s \in X /\ (\A t \in X : c.caller[t] = NULL \/ c.caller[t] \in X) =>
              ToSet(CallerChain(c, s)) \subseteq X
  <1>1. Falls(c.caller, Normal(c), d) /\ NULL \notin Normal(c)
    BY NormalFalls
  <1>2. Walk(CallerChain(c, s), c.caller, Normal(c), s)
    BY <1>1, ChainIs DEF CallerChain
  <1> QED
    BY <1>1, <1>2, WalkSet

(* What a task that waits is woken by. *)
LEMMA WakersOf ==
    ASSUME NEW c, NEW d, NEW r, NEW b, NEW p, NEW N, Inv(c, d, r, b, p, N),
           NEW t \in Active(c) \cup Closing(c), t \in Live(c)
    PROVE  \/ t \in Tokens(c)
           \/ \E u \in Live(c) : c.caller[u] = t /\ u \in Active(c) \cup Closing(c)
           \/ \E u \in Tokens(c) : c.start[u] = t
           \/ \E h \in Heads(c) : c.exc[h].raise = t
  <1>1. /\ WakeOK(c) /\ CallOK(c, r) /\ StartOK(c, r) /\ c \in Trees
    BY DEF Inv
  <1>2. CASE t \in c.run \cup c.bound
    BY <1>2 DEF Tokens
  <1>3. CASE t \notin c.run \cup c.bound
    <2>1. t \in (c.waiting \cup Closing(c)) \ (c.run \cup c.bound)
      BY <1>3 DEF Active
    <2>2. \/ \E u \in Live(c) : c.caller[u] = t
          \/ \E u \in Live(c) : c.start[u] = t
          \/ \E h \in Heads(c) : c.exc[h].raise = t
      BY <1>1, <2>1 DEF WakeOK
    <2>3. t # NULL
      BY TaskAssumption DEF Live
    <2>4. ASSUME NEW u \in Live(c), c.caller[u] = t
          PROVE  u \in Active(c) \cup Closing(c)
      <3>1. u \notin Closing(c) => u \in Normal(c)
        BY DEF Live, Closing, Normal
      <3>2. u \in Normal(c) => u \in Active(c)
        BY <1>1, <2>3, <2>4 DEF CallOK
      <3> QED
        BY <3>1, <3>2
    <2>5. ASSUME NEW u \in Live(c), c.start[u] = t
          PROVE  u \in Tokens(c)
      BY <1>1, <2>3, <2>5 DEF StartOK, Tokens
    <2> QED
      BY <2>2, <2>4, <2>5
  <1> QED
    BY <1>2, <1>3

(* and whoever waits is woken. *)
LEMMA GoodWakes == ContextInv => NobodyForgotten
  <1> SUFFICES ASSUME ContextInv
               PROVE  NobodyForgotten
    OBVIOUS
  <1>1. PICK d, r, b, p, N : Inv(tree, d, r, b, p, N)
    BY DEF ContextInv, Good
  <1> DEFINE W == Live(tree) \cap (Active(tree) \cup Closing(tree))
             B == UNION {ToSet(CallerChain(tree, tree.exc[h].raise)) : h \in Heads(tree)}
             V == UNION {WokenBy(u) : u \in Tokens(tree)}
             X == V \cup B
  <1>a. \A t : t \in B <=> \E h \in Heads(tree) : t \in ToSet(CallerChain(tree, tree.exc[h].raise))
    OBVIOUS
  <1> HIDE DEF B
  <1>c. \A t : t \in V <=> \E u \in Tokens(tree) : t \in WokenBy(u)
    BY Zenon
  <1> HIDE DEF V
  <1>b. \A t : t \in X <=> (\E u \in Tokens(tree) : t \in WokenBy(u)) \/ t \in B
    BY <1>c
  <1> HIDE DEF X
  <1>2. /\ Tokens(tree) \subseteq Live(tree) /\ Live(tree) \subseteq Task /\ NULL \notin Live(tree)
        /\ Runnable(tree) \cup tree.bound = Tokens(tree)
    BY <1>1, TaskAssumption DEF Inv, RunOK, Runnable, Tokens, Normal, Live
  <1>3. ASSUME NEW u \in Tokens(tree)
        PROVE  u \in X /\ (tree.start[u] # NULL => tree.start[u] \in X)
    <2>1. u \in ToSet(CallerChain(tree, u))
      BY <1>1, <1>2, CallersOf
    <2>2. ASSUME tree.start[u] # NULL
          PROVE  tree.start[u] \in ToSet(CallerChain(tree, tree.start[u]))
      <3>1. tree.start[u] \in Live(tree)
        BY <1>1, <1>2, <2>2 DEF Inv, StartOK, Closing, Live
      <3> QED
        BY <1>1, <3>1, CallersOf
    <2>3. u \in WokenBy(u) /\ (tree.start[u] # NULL => tree.start[u] \in WokenBy(u))
      BY <2>1, <2>2 DEF WokenBy
    <2> QED
      BY <1>b, <2>3
  <1>4. ASSUME NEW h \in Heads(tree)
        PROVE  tree.exc[h].raise \in Live(tree) /\ tree.exc[h].raise \in X
    <2>1. tree.exc[h].raise \in Task /\ b[tree.exc[h].raise] = h /\ h # NULL
      BY <1>1, TaskAssumption DEF Inv, BlockOK, Heads, Normal
    <2>2. tree.exc[h].raise \in Normal(tree)
      BY <1>1, <2>1 DEF Inv, BlockOK
    <2>3. tree.exc[h].raise \in Live(tree)
      BY <2>2 DEF Normal, Live
    <2>4. tree.exc[h].raise \in ToSet(CallerChain(tree, tree.exc[h].raise))
      BY <1>1, <2>3, CallersOf
    <2> QED
      BY <1>a, <1>b, <2>3, <2>4
  <1>5. ASSUME NEW u \in X, tree.caller[u] # NULL
        PROVE  tree.caller[u] \in X
    <2>1. ASSUME NEW s \in Live(tree), u \in ToSet(CallerChain(tree, s))
          PROVE  tree.caller[u] \in ToSet(CallerChain(tree, s))
      BY <1>1, <1>5, <2>1, CallersOf
    <2>2. CASE u \in B
      <3>1. PICK h \in Heads(tree) : u \in ToSet(CallerChain(tree, tree.exc[h].raise))
        BY <1>a, <2>2
      <3>2. tree.caller[u] \in ToSet(CallerChain(tree, tree.exc[h].raise))
        BY <1>4, <2>1, <3>1
      <3> QED
        BY <1>a, <1>b, <3>2
    <2>3. CASE \E v \in Tokens(tree) : u \in WokenBy(v)
      <3>1. PICK v \in Tokens(tree) : u \in WokenBy(v)
        BY <2>3
      <3>2. tree.start[v] # NULL => tree.start[v] \in Live(tree)
        BY <1>1, <1>2 DEF Inv, StartOK, Closing, Live
      <3>3. tree.caller[u] \in WokenBy(v)
        BY <1>2, <2>1, <3>1, <3>2 DEF WokenBy
      <3> QED
        BY <1>b, <3>3
    <2> QED
      BY <1>b, <1>5, <2>2, <2>3
  <1>6. W \subseteq X
    <2>1. PICK f : Falls(tree.caller, Live(tree), f) /\ \A t \in Task : f[t] <= 2 * N + 1
      BY <1>1, LiveFalls
    <2>2. f \in [Task -> Nat] /\ N \in Nat
      BY <1>1, <2>1 DEF Falls, Inv
    <2> DEFINE M == 2 * N + 1
               T == {M - f[t] : t \in W \ X}
    <2>3. M \in Nat /\ \A t \in Task : M - f[t] \in Nat
      BY <2>1, <2>2
    <2> HIDE DEF M
    <2> SUFFICES ASSUME W \ X # {}
                 PROVE  FALSE
      OBVIOUS
    <2>4. T \in SUBSET Nat /\ T # {}
      BY <1>2, <2>3
    <2>5. PICK m \in T : \A k \in T : m <= k
      <3> HIDE DEF T
      <3> QED
        BY <2>4, Least
    <2>6. PICK t \in W \ X : m = M - f[t]
      BY <2>5
    <2>7. ASSUME NEW u \in W, f[t] < f[u]
          PROVE  u \in X
      <3>1. M - f[u] < M - f[t]
        BY <1>2, <2>2, <2>3, <2>7
      <3>2. u \notin X => m <= M - f[u]
        BY <2>5
      <3> QED
        BY <1>2, <2>2, <2>3, <2>6, <3>1, <3>2
    <2>8. CASE t \in Tokens(tree)
      BY <1>3, <2>6, <2>8
    <2>9. ASSUME NEW u \in Live(tree), tree.caller[u] = t, u \in Active(tree) \cup Closing(tree)
          PROVE  FALSE
      <3>1. f[t] < f[u]
        BY <2>1, <2>6, <2>9 DEF Falls
      <3>2. u \in X
        BY <2>7, <2>9, <3>1
      <3> QED
        BY <1>2, <1>5, <2>6, <2>9, <3>2
    <2>10. ASSUME NEW u \in Tokens(tree), tree.start[u] = t
           PROVE  FALSE
      BY <1>2, <1>3, <2>6, <2>10
    <2>11. ASSUME NEW h \in Heads(tree), tree.exc[h].raise = t
           PROVE  FALSE
      BY <1>4, <2>6, <2>11
    <2> QED
      BY <1>1, <2>6, <2>8, <2>9, <2>10, <2>11, WakersOf
  <1>7. B \subseteq InBlock
    <2>1. ASSUME NEW h \in Heads(tree)
          PROVE  ToSet(CallerChain(tree, tree.exc[h].raise)) \subseteq InBlock
      BY DEF InBlock, Heads, Normal
    <2> QED
      BY <1>a, <2>1
  <1> QED
    <2>1. ASSUME NEW t \in (tree.waiting \cap Live(tree)) \ tree.bound
          PROVE  (\E u \in Tokens(tree) : t \in WokenBy(u)) \/ t \in InBlock
      <3>1. t \in W
        BY <2>1 DEF Active
      <3>2. t \in X
        BY <1>6, <3>1
      <3> QED
        BY <1>7, <1>b, <3>2
    <2> QED
      BY <1>2, <2>1 DEF NobodyForgotten

----------------------------------------------------------------------------
(* What a step does, and the trees of Branches.                            *)

(* A step in a good tree has one of the four outcomes. *)
LEMMA GoodStep ==
    ASSUME NoSiblings, ContextInv, [Next]_vars
    PROVE  \E d, r, b, p, N : Inv(tree, d, r, b, p, N) /\ Outcome(tree, tree', b)
  <1>1. PICK d, r, b, p, N : Inv(tree, d, r, b, p, N)
    BY DEF ContextInv, Good
  <1>2. "sibling" \notin uses
    BY DEF NoSiblings, ContextInv
  <1>3. Outcome(tree, tree', b)
    BY <1>1, <1>2, NextKeeps DEF Stepped
  <1> QED
    BY <1>1, <1>3

(* A task begins to end only with nothing below it. *)
LEMMA EndsBelow ==
    ASSUME NEW c, NEW e, NEW b, c \in Trees, Outcome(c, e, b),
           NEW t \in Task, c.pmode[t] = "CLOSE", e.pmode[t] = "END"
    PROVE  c.ring[t] = <<>>
  <1>1. CASE Quiet(c, e)
    BY <1>1 DEF Quiet
  <1>2. ASSUME NEW s, NEW v, Grows(c, e, s, v) PROVE FALSE
    BY <1>2 DEF Grows, Trees
  <1>3. ASSUME NEW s, Ends(c, e, s) PROVE FALSE
    BY <1>3 DEF Ends
  <1>4. ASSUME NEW S, Takes(c, e, b, S) PROVE FALSE
    <2>1. t \in S => e.pmode[t] \in {"CLOSE", "ASYNC"}
      BY <1>4 DEF Takes
    <2>2. t \notin S => e.pmode[t] = c.pmode[t]
      BY <1>4 DEF Takes
    <2> QED
      BY <2>1, <2>2
  <1> QED
    BY <1>1, <1>2, <1>3, <1>4 DEF Outcome

(* The tasks of the block of h. *)
LEMMA BlockIs ==
    ASSUME NEW c, NEW d, NEW r, NEW b, NEW p, NEW N, Inv(c, d, r, b, p, N), NEW h \in Heads(c)
    PROVE  \A u \in {h} \cup ToSet(CallerChain(c, c.exc[h].raise)) : u \in Normal(c) /\ b[u] = h
  <1> DEFINE X == {u \in Normal(c) : b[u] = h}
             s == c.exc[h].raise
  <1>1. BlockOK(c, r, b) /\ h \in Normal(c) /\ h # NULL
    BY TaskAssumption DEF Inv, Heads, Normal
  <1>2. s \in Task /\ b[s] = h /\ b[h] = h
    BY <1>1 DEF BlockOK
  <1>3. s \in Normal(c)
    <2> HIDE DEF s
    <2> QED
      BY <1>1, <1>2 DEF BlockOK
  <1>4. h \in X /\ s \in X
    BY <1>1, <1>2, <1>3
  <1>5. ASSUME NEW t \in X
        PROVE  c.caller[t] = NULL \/ c.caller[t] \in X
    <2>1. t \in Live(c)
      BY DEF Normal, Live
    <2>2. c.caller[t] # NULL => c.caller[t] \in Normal(c)
      BY NormalFalls
    <2>3. c.caller[t] \in Normal(c) => b[c.caller[t]] = b[t]
      BY <1>1, <2>1 DEF BlockOK
    <2> QED
      BY <2>2, <2>3
  <1> HIDE DEF X, s
  <1>6. ToSet(CallerChain(c, s)) \subseteq X
    BY <1>3, <1>4, <1>5, NormalCallersOf
  <1> QED
    BY <1>4, <1>6 DEF X, s

(* What a step locks of the block whose tasks are U. *)
LEMMA WholeIs ==
    ASSUME NEW c, NEW e, NEW b, c \in Trees, Outcome(c, e, b), NEW h \in Task,
           NEW U, h \in U, \A u \in U : u \in Normal(c) /\ b[u] = h
    PROVE  U \cap Locked(e) \in {{}, U}
  <1>1. /\ U \subseteq Task /\ U \subseteq Live(c) /\ U \cap Closing(c) = {}
        /\ U \cap Locked(c) = {} /\ h # NULL
    BY TaskAssumption DEF Normal, Live, Closing, Locked
  <1>2. CASE Quiet(c, e)
    <2>1. U \subseteq Live(e) /\ U \cap Closing(e) = {}
      BY <1>1, <1>2 DEF Quiet
    <2>2. U \cap Locked(e) = {}
      BY <2>1 DEF Live, Closing, Locked
    <2> QED
      BY <2>2
  <1>3. ASSUME NEW s, NEW v, Grows(c, e, s, v) PROVE U \cap Locked(e) = {}
    <2>1. \A u \in U : e.pmode[u] = "NORMAL"
      BY <1>1, <1>3 DEF Grows, Trees, Normal
    <2> QED
      BY <2>1 DEF Locked
  <1>4. ASSUME NEW t, Ends(c, e, t) PROVE U \cap Locked(e) = {}
    <2>1. U \subseteq Live(e) /\ U \cap Closing(e) = {}
      BY <1>1, <1>4 DEF Ends
    <2> QED
      BY <2>1 DEF Live, Closing, Locked
  <1>5. ASSUME NEW S, Takes(c, e, b, S) PROVE U \cap Locked(e) \in {{}, U}
    <2>1. \A u \in U : u \in S <=> h \in S
      BY <1>1, <1>5 DEF Takes
    <2>2. CASE h \in S
      <3>1. \A u \in U : e.pmode[u] \in {"CLOSE", "ASYNC"}
        BY <1>5, <2>1, <2>2 DEF Takes
      <3>2. U \cap Locked(e) = U
        BY <1>1, <3>1 DEF Locked
      <3> QED
        BY <3>2
    <2>3. CASE h \notin S
      <3>1. \A u \in U : e.pmode[u] = c.pmode[u]
        BY <1>1, <1>5, <2>1, <2>3 DEF Takes
      <3>2. U \cap Locked(e) = {}
        BY <1>1, <3>1 DEF Locked
      <3> QED
        BY <3>2
    <2> QED
      BY <2>2, <2>3
  <1> QED
    BY <1>2, <1>3, <1>4, <1>5 DEF Outcome

(* A step locks all of a block or nothing. *)
LEMMA StepKeepsWhole ==
    ASSUME NoSiblings, ContextInv, [Next]_vars,
           NEW h \in Task, tree.exc[h].kind = "HEAD", Block(h) \cap Locked(tree) = {}
    PROVE  Block(h) \cap Locked(tree') \in {{}, Block(h)}
  <1>1. PICK d, r, b, p, N : Inv(tree, d, r, b, p, N) /\ Outcome(tree, tree', b)
    BY GoodStep
  <1>2. h \notin Locked(tree)
    BY DEF Block
  <1>3. h \in Heads(tree)
    <2>1. h \in Live(tree)
      BY <1>1 DEF Inv, GoneOK, NoExc
    <2> QED
      BY <1>2, <2>1 DEF Live, Locked, Heads, Normal
  <1> DEFINE U == {h} \cup ToSet(CallerChain(tree, tree.exc[h].raise))
  <1>4. \A u \in U : u \in Normal(tree) /\ b[u] = h
    BY <1>1, <1>3, BlockIs
  <1>5. h \in U /\ tree \in Trees /\ Block(h) = U
    BY <1>1 DEF Inv, Block
  <1> HIDE DEF U
  <1>6. U \cap Locked(tree') \in {{}, U}
    BY <1>1, <1>4, <1>5, WholeIs
  <1> QED
    BY <1>5, <1>6

(* What a step does to the trees of Branches. *)
Up(c) == [t \in Live(c) |-> c.parent[t]]

Spawns(c, e, s, v) ==
    /\ s \in Task /\ s \notin Live(c) /\ v \in (Live(c) \ Closing(c)) \cup {NULL}
    /\ Up(e) = [t \in Live(c) \cup {s} |-> IF t = s THEN v ELSE Up(c)[t]]
    /\ Closing(e) = Closing(c)

BeginsClose(c, e, S) ==
    /\ S \subseteq Live(c) \ Closing(c) /\ S # {}
    /\ \A u \in Live(c) : c.parent[u] \in Closing(c) \cup S => u \in Closing(c) \cup S
    /\ Up(e) = Up(c)
    /\ Closing(e) = Closing(c) \cup S

Loses(c, e, t) ==
    /\ t \in Closing(c) /\ \A u \in Live(c) : c.parent[u] # t
    /\ Up(e) = [s \in Live(c) \ {t} |-> Up(c)[s]]
    /\ Closing(e) = Closing(c) \ {t}

(* The outcomes are the actions of Branches, or a stutter. *)
LEMMA OutcomeIs ==
    ASSUME NEW c, NEW d, NEW r, NEW b, NEW p, NEW N, Inv(c, d, r, b, p, N), NEW e, Outcome(c, e, b)
    PROVE  \/ Up(e) = Up(c) /\ Closing(e) = Closing(c)
           \/ \E s, v : Spawns(c, e, s, v)
           \/ \E S : BeginsClose(c, e, S)
           \/ \E t : Loses(c, e, t)
  <1>1. c \in Trees /\ \A u \in Live(c) : c.parent[u] \in Closing(c) => u \in Closing(c)
    BY DEF Inv, RootOK
  <1>2. Live(c) \subseteq Task /\ Closing(c) \subseteq Live(c) /\ Live(c) \ Closing(c) = Normal(c)
    BY DEF Live, Closing, Normal
  <1>3. CASE Quiet(c, e)
    <2>1. Up(e) = Up(c) /\ Closing(e) = Closing(c)
      BY <1>3 DEF Quiet, Up
    <2> QED
      BY <2>1
  <1>4. ASSUME NEW s, NEW v, Grows(c, e, s, v)
        PROVE  Spawns(c, e, s, v)
    <2>1. \A u \in Task : /\ e.pmode[u] = IF u = s THEN "NORMAL" ELSE c.pmode[u]
                          /\ e.parent[u] = IF u = s THEN v ELSE c.parent[u]
      BY <1>1, <1>4 DEF Grows, Trees
    <2>2. s \in Task /\ c.pmode[s] = "ABSENT" /\ v \in Normal(c) \cup {NULL}
      BY <1>4 DEF Grows
    <2>3. Live(e) = Live(c) \cup {s} /\ Closing(e) = Closing(c) /\ s \notin Live(c)
      BY <2>1, <2>2 DEF Live, Closing
    <2>4. Up(e) = [t \in Live(c) \cup {s} |-> IF t = s THEN v ELSE Up(c)[t]]
      BY <1>2, <2>1, <2>2, <2>3 DEF Up
    <2> QED
      BY <1>2, <2>2, <2>3, <2>4 DEF Spawns
  <1>5. ASSUME NEW t, Ends(c, e, t)
        PROVE  Loses(c, e, t)
    BY <1>2, <1>5 DEF Ends, Up, Loses
  <1>6. ASSUME NEW S, Takes(c, e, b, S), S # {}
        PROVE  BeginsClose(c, e, S)
    <2>1. /\ S \subseteq Normal(c) /\ e.parent = c.parent
          /\ \A u \in Task \ S : e.pmode[u] = c.pmode[u]
          /\ \A u \in S : e.pmode[u] \in {"CLOSE", "ASYNC"}
          /\ \A u \in Normal(c) : c.parent[u] \in S => u \in S
      BY <1>6 DEF Takes
    <2>2. Live(e) = Live(c) /\ Closing(e) = Closing(c) \cup S
      BY <2>1 DEF Live, Closing, Normal
    <2>3. Up(e) = Up(c)
      BY <2>1, <2>2 DEF Up
    <2> QED
      BY <1>1, <1>2, <1>6, <2>1, <2>2, <2>3 DEF BeginsClose
  <1>7. ASSUME Takes(c, e, b, {})
        PROVE  Up(e) = Up(c) /\ Closing(e) = Closing(c)
    <2>1. e.parent = c.parent /\ \A u \in Task : e.pmode[u] = c.pmode[u]
      BY <1>7 DEF Takes
    <2> QED
      BY <2>1 DEF Up, Live, Closing
  <1> QED
    BY <1>3, <1>4, <1>5, <1>6, <1>7 DEF Outcome

(* The promise is kept from the start ... *)
LEMMA PromiseInit == Init => Promise!Init
  <1> SUFFICES ASSUME Init
               PROVE  Promise!Init
    OBVIOUS
  <1>1. Live(tree) = {}
    BY DEF Init, EmptyTree, Live
  <1> QED
    BY <1>1 DEF Promise!Init

(* ... and by every step. *)
LEMMA PromiseNext ==
    ASSUME NoSiblings, ContextInv, [Next]_vars
    PROVE  [Promise!Next]_(Promise!vars)
  <1>1. PICK d, r, b, p, N : Inv(tree, d, r, b, p, N) /\ Outcome(tree, tree', b)
    BY GoodStep
  <1>2. \A c : Live(c) \cap Locked(c) = Closing(c)
    BY DEF Live, Locked, Closing
  <1> DEFINE up  == [t \in Live(tree) |-> tree.parent[t]]
             clo == Live(tree) \cap Locked(tree)
  <1>3. up = Up(tree) /\ up' = Up(tree') /\ clo = Closing(tree) /\ clo' = Closing(tree')
    BY <1>2 DEF Up
  <1>4. /\ DOMAIN up = Live(tree) /\ (\A u \in Live(tree) : up[u] = tree.parent[u])
        /\ Live(tree) \subseteq Task /\ clo \subseteq Live(tree)
    BY DEF Live
  <1> HIDE DEF up, clo
  <1>5. CASE Up(tree') = Up(tree) /\ Closing(tree') = Closing(tree)
    BY <1>3, <1>5 DEF Promise!vars, up, clo
  <1>6. ASSUME NEW s, NEW v, Spawns(tree, tree', s, v)
        PROVE  Promise!Next
    <2>1. /\ s \in Task /\ s \notin Live(tree) /\ v \in (Live(tree) \ clo) \cup {NULL}
          /\ up' = [t \in Live(tree) \cup {s} |-> IF t = s THEN v ELSE up[t]]
          /\ clo' = clo
      BY <1>3, <1>6 DEF Spawns
    <2>2. DOMAIN up' # DOMAIN up
      BY <1>4, <2>1
    <2>3. Promise!Spawn(s, v)
      BY <1>4, <2>1 DEF Promise!Spawn, Promise!Tasks, up, clo
    <2>4. Promise!vars' # Promise!vars
      BY <2>2 DEF Promise!vars, up, clo
    <2> QED
      BY <1>4, <2>1, <2>3, <2>4 DEF Promise!Next
  <1>7. ASSUME NEW S, BeginsClose(tree, tree', S)
        PROVE  Promise!Next
    <2>1. /\ S \subseteq Live(tree) \ clo /\ S # {}
          /\ \A u \in Live(tree) : tree.parent[u] \in clo \cup S => u \in clo \cup S
          /\ up' = up /\ clo' = clo \cup S
      BY <1>3, <1>7 DEF BeginsClose
    <2>2. clo' # clo
      BY <2>1
    <2>3. \A u \in DOMAIN up : up[u] \in clo \cup S => u \in clo \cup S
      BY <1>4, <2>1
    <2>4. Promise!Close(S)
      BY <1>4, <2>1, <2>3 DEF Promise!Close, Promise!Tasks, Promise!Below, up, clo
    <2>5. Promise!vars' # Promise!vars
      BY <2>2 DEF Promise!vars, up, clo
    <2>6. S \in SUBSET Task
      BY <1>4, <2>1
    <2> QED
      BY <2>4, <2>5, <2>6 DEF Promise!Next
  <1>8. ASSUME NEW t, Loses(tree, tree', t)
        PROVE  Promise!Next
    <2>1. /\ t \in clo /\ t \in Live(tree) /\ t \in Task
          /\ \A u \in Live(tree) : tree.parent[u] # t
          /\ up' = [s \in Live(tree) \ {t} |-> up[s]]
          /\ clo' = clo \ {t}
      BY <1>3, <1>4, <1>8 DEF Loses
    <2>2. clo' # clo
      BY <2>1
    <2>3. \A u \in DOMAIN up : up[u] # t
      BY <1>4, <2>1
    <2>4. Promise!End(t)
      BY <1>4, <2>1, <2>3 DEF Promise!End, Promise!Tasks, Promise!Below, up, clo
    <2>5. Promise!vars' # Promise!vars
      BY <2>2 DEF Promise!vars, up, clo
    <2> QED
      BY <2>1, <2>4, <2>5 DEF Promise!Next
  <1>9. \/ Up(tree') = Up(tree) /\ Closing(tree') = Closing(tree)
        \/ \E s, v : Spawns(tree, tree', s, v)
        \/ \E S : BeginsClose(tree, tree', S)
        \/ \E t : Loses(tree, tree', t)
    BY <1>1, OutcomeIs
  <1> QED
    BY <1>5, <1>6, <1>7, <1>8, <1>9

----------------------------------------------------------------------------
(* The properties of the runs.                                             *)

(* The tree, the flags of each task and what the library refers to keep    *)
(* their types.                                                            *)
THEOREM AlwaysTyped ==
    ASSUME NoSiblings
    PROVE  Spec => []TypeOK
  BY AlwaysGood, GoodTypes, PTL

(* No internal check of the library fails: no RESBY.IL, PPS.EEN or NOCALLER *)
(* report and no use of a freed parent, whatever is closed and whenever.   *)
THEOREM NeverInternalFatal ==
    ASSUME NoSiblings
    PROVE  Spec => []NoInternalFatal
  BY AlwaysGood, GoodTypes, PTL

(* Never two tasks of one context have control.                            *)
THEOREM OnlyOneRunner ==
    ASSUME NoSiblings
    PROVE  Spec => []OneRunner
  BY AlwaysGood, GoodRuns, PTL

(* A task in normal mode has control only when nothing in its context      *)
(* closes: a catcher never sees half of an implosion.                      *)
THEOREM ClosersAlwaysFirst ==
    ASSUME NoSiblings
    PROVE  Spec => []ClosersFirst
  BY AlwaysGood, GoodRuns, PTL

(* The parent, the caller, the start of an implosion and the raiser of a   *)
(* block that a live task would use are live.                              *)
THEOREM NeverDangling ==
    ASSUME NoSiblings
    PROVE  Spec => []NoDangling
  BY AlwaysGood, GoodRefers, PTL

(* Whoever waits is on the way of a task that runs or listens to an event, *)
(* or is inside a continue block.                                          *)
THEOREM NobodyEverForgotten ==
    ASSUME NoSiblings
    PROVE  Spec => []NobodyForgotten
  BY AlwaysGood, GoodWakes, PTL

(* ZM_TERM runs in a task only when all its subtasks have ended.           *)
THEOREM AlwaysLeavesToRoot ==
    ASSUME NoSiblings
    PROVE  Spec => LeavesToRoot
  <1>1. ContextInv /\ [Next]_vars
          => [\A t \in Task : tree.pmode[t] = "CLOSE" /\ tree'.pmode[t] = "END"
                => tree.ring[t] = <<>>]_vars
    <2> SUFFICES ASSUME ContextInv, [Next]_vars,
                        NEW t \in Task, tree.pmode[t] = "CLOSE", tree'.pmode[t] = "END"
                 PROVE  tree.ring[t] = <<>>
      OBVIOUS
    <2>1. PICK d, r, b, p, N : Inv(tree, d, r, b, p, N) /\ Outcome(tree, tree', b)
      BY GoodStep
    <2>2. tree \in Trees
      BY <2>1 DEF Inv
    <2> QED
      BY <2>1, <2>2, EndsBelow
  <1> QED
    BY <1>1, AlwaysGood, PTL DEF Spec, LeavesToRoot

(* A close takes all the tasks of a continue block or none.                *)
THEOREM AlwaysBlocksWhole ==
    ASSUME NoSiblings
    PROVE  Spec => BlocksWhole
  <1>1. ContextInv /\ [Next]_vars
          => [\A h \in Task :
                tree.exc[h].kind = "HEAD" /\ Block(h) \cap Locked(tree) = {}
                   => Block(h) \cap Locked(tree') \in {{}, Block(h)}]_vars
    BY StepKeepsWhole
  <1> QED
    BY <1>1, AlwaysGood, PTL DEF Spec, BlocksWhole

(* The tree of a VM, with all the machinery of callers, locks and          *)
(* exceptions, implements the trees of Branches.                           *)
THEOREM RefinesBranches ==
    ASSUME NoSiblings
    PROVE  Spec => ImplementsBranches
  <1>1. ContextInv /\ [Next]_vars => [Promise!Next]_(Promise!vars)
    BY PromiseNext
  <1> QED
    BY <1>1, AlwaysGood, PromiseInit, PTL DEF Spec, ImplementsBranches, Promise!Spec
=============================================================================
