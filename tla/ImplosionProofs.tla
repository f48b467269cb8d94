--------------------------- MODULE ImplosionProofs ---------------------------
(***************************************************************************)
(* What the operators of Implosion return for a good tree, and that a tree *)
(* stays good when a step changes it in one of the ways that the library   *)
(* has: a resume, a yield, a call, a continue block, the end of a task,    *)
(* and what zmTERM, zmCLOSE and zm_abort close.                            *)
(*                                                                         *)
(* First come facts about numbers, sequences and chains, then those about  *)
(* one operator after the other, and last the lemmas called ...Keeps, one  *)
(* for each change of a tree.                                              *)
(***************************************************************************)
EXTENDS ContextInvariant, Integers, FiniteSetTheorems, WellFoundedInduction, TLAPS

----------------------------------------------------------------------------
(* Recursion over the numbers, from the theorem that a set of numbers has  *)
(* a least one.                                                            *)

Less == {p \in Nat \X Nat : p[1] < p[2]}

(* No sequence of numbers falls for ever. *)
LEMMA LessWellFounded == IsWellFoundedOn(Less, Nat)
  <1>1. Less = OpToRel(<, Nat)
    BY DEF Less, OpToRel
  <1> QED
    BY <1>1, NatLessThanWellFounded

(* A set of numbers that is not empty has a least one. *)
LEMMA Least ==
    ASSUME NEW T \in SUBSET Nat, T # {}
    PROVE  \E m \in T : \A k \in T : m <= k
  <1>1. PICK m \in T : \A k \in T : <<k, m>> \notin Less
    BY LessWellFounded, WFMin
  <1>2. \A k \in T : ~(k < m)
    BY <1>1 DEF Less
  <1> QED
    BY <1>1, <1>2

(* A set of numbers with 0 and with the successors of its elements. *)
LEMMA Induction ==
    ASSUME NEW T, 0 \in T, \A n \in Nat : n \in T => n + 1 \in T
    PROVE  \A n \in Nat : n \in T
  <1> SUFFICES ASSUME Nat \ T # {} PROVE FALSE
    OBVIOUS
  <1>1. PICK m \in Nat \ T : \A k \in Nat \ T : m <= k
    BY Least
  <1>2. m - 1 \in Nat /\ m - 1 \notin Nat \ T
    BY <1>1
  <1> QED
    BY <1>1, <1>2

(* f begins with v and goes on with step. *)
Iterates(f, v, step, n) ==
    f[0] = v /\ \A i \in 0..(n - 1) : f[i + 1] = step[<<i + 1, f[i]>>]

(* Two functions that begin and go on in the same way agree. *)
LEMMA IterationsAgree ==
    ASSUME NEW n \in Nat, NEW m \in Nat, n <= m, NEW v, NEW step, NEW f, NEW g,
           Iterates(f, v, step, n), Iterates(g, v, step, m)
    PROVE  f[n] = g[n]
  <1> DEFINE S == {i \in Nat : i <= n => f[i] = g[i]}
  <1>1. 0 \in S
    BY DEF Iterates
  <1>2. ASSUME NEW i \in Nat, i \in S, i + 1 <= n PROVE f[i + 1] = g[i + 1]
    <2>1. i \in 0..(n - 1) /\ i \in 0..(m - 1) /\ f[i] = g[i]
      BY <1>2
    <2> QED
      BY <2>1 DEF Iterates
  <1>3. \A i \in Nat : i \in S => i + 1 \in S
    BY <1>2
  <1> HIDE DEF S
  <1>4. n \in S
    BY <1>1, <1>3, Induction
  <1> QED
    BY <1>4 DEF S

(* f in V is given by its first value and by what follows each one. *)
Recursive(f, V, v, step) ==
    /\ f \in [Nat -> V]
    /\ f[0] = v
    /\ \A n \in Nat \ {0} : f[n] = step[<<n, f[n - 1]>>]

(* A definition by recursion over the numbers defines a function. *)
LEMMA Recursion ==
    ASSUME NEW V, NEW v \in V, NEW step \in [Nat \X V -> V]
    PROVE  \E f : Recursive(f, V, v, step)
  <1> DEFINE T == {n \in Nat : \E f \in [0..n -> V] : Iterates(f, v, step, n)}
             g == [n \in Nat |-> CHOOSE f : f \in [0..n -> V] /\ Iterates(f, v, step, n)]
             f == [n \in Nat |-> g[n][n]]
  <1>1. 0 \in T
    <2>1. Iterates([i \in 0..0 |-> v], v, step, 0)
      BY DEF Iterates
    <2> QED
      BY <2>1
  <1>2. ASSUME NEW n \in Nat, n \in T PROVE n + 1 \in T
    <2>1. PICK k \in [0..n -> V] : Iterates(k, v, step, n)
      BY <1>2
    <2> DEFINE h == [i \in 0..(n + 1) |-> IF i = n + 1 THEN step[<<n + 1, k[n]>>] ELSE k[i]]
    <2>2. h \in [0..(n + 1) -> V]
      BY <2>1
    <2>3. h[0] = v
      BY <2>1 DEF Iterates
    <2>4. ASSUME NEW i \in 0..n PROVE h[i + 1] = step[<<i + 1, h[i]>>]
      <3>1. h[i] = k[i]
        OBVIOUS
      <3>2. CASE i = n
        <4>1. h[n + 1] = step[<<n + 1, k[n]>>]
          OBVIOUS
        <4> HIDE DEF h
        <4> QED
          BY <3>1, <3>2, <4>1
      <3>3. CASE i # n
        <4>1. h[i + 1] = k[i + 1] /\ i \in 0..(n - 1)
          BY <3>3
        <4> QED
          BY <3>1, <4>1, <2>1 DEF Iterates
      <3> QED
        BY <3>2, <3>3
    <2> HIDE DEF h
    <2>5. Iterates(h, v, step, n + 1)
      <3>1. (n + 1) - 1 = n
        OBVIOUS
      <3> QED
        BY <3>1, <2>3, <2>4 DEF Iterates
    <2> QED
      BY <2>2, <2>5
  <1>3. \A n \in Nat : n \in T
    <2> HIDE DEF T
    <2> QED
      BY <1>1, <1>2, Induction
  <1>4. ASSUME NEW n \in Nat PROVE g[n] \in [0..n -> V] /\ Iterates(g[n], v, step, n)
    BY <1>3
  <1> HIDE DEF g
  <1>5. f \in [Nat -> V]
    BY <1>4
  <1>6. f[0] = v
    BY <1>4 DEF Iterates
  <1>7. ASSUME NEW n \in Nat PROVE f[n + 1] = step[<<n + 1, f[n]>>]
    <2>1. n \in 0..((n + 1) - 1)
      OBVIOUS
    <2>2. g[n + 1][n + 1] = step[<<n + 1, g[n + 1][n]>>]
      BY <1>4, <2>1 DEF Iterates
    <2>3. g[n][n] = g[n + 1][n]
      BY <1>4, IterationsAgree
    <2> QED
      BY <2>2, <2>3
  <1> HIDE DEF f
  <1>8. ASSUME NEW n \in Nat \ {0} PROVE f[n] = step[<<n, f[n - 1]>>]
    <2>1. n - 1 \in Nat /\ (n - 1) + 1 = n
      OBVIOUS
    <2>2. f[(n - 1) + 1] = step[<<(n - 1) + 1, f[n - 1]>>]
      BY <2>1, <1>7
    <2> QED
      BY <2>1, <2>2
  <1> QED
    BY <1>5, <1>6, <1>8 DEF Recursive

(* The same, from a number to the one before it. *)
LEMMA InductionDown ==
    ASSUME NEW T, 0 \in T, \A n \in Nat \ {0} : n - 1 \in T => n \in T
    PROVE  \A n \in Nat : n \in T
  <1>1. ASSUME NEW n \in Nat, n \in T PROVE n + 1 \in T
    <2>1. n + 1 \in Nat \ {0} /\ (n + 1) - 1 = n
      OBVIOUS
    <2>2. (n + 1) - 1 \in T
      BY <2>1, <1>1
    <2> QED
      BY <2>1, <2>2
  <1> QED
    BY <1>1, Induction

----------------------------------------------------------------------------
(* Sequences: concatenation, FlattenSeq, Only.                             *)

(* The concatenation of two sequences. *)
LEMMA ConcatIs ==
    ASSUME NEW S, NEW p \in Seq(S), NEW q \in Seq(S)
    PROVE  /\ p \o q \in Seq(S)
           /\ Len(p \o q) = Len(p) + Len(q)
           /\ \A i \in 1..Len(p) : (p \o q)[i] = p[i]
           /\ \A i \in 1..Len(q) : (p \o q)[Len(p) + i] = q[i]
           /\ \A i \in 1..(Len(p) + Len(q)) :
                 (p \o q)[i] = IF i <= Len(p) THEN p[i] ELSE q[i - Len(p)]
           /\ ToSet(p \o q) = ToSet(p) \cup ToSet(q)
  <1>1. p \o q \in Seq(S) /\ Len(p \o q) = Len(p) + Len(q)
    OBVIOUS
  <1>2. \A i \in 1..Len(p) : (p \o q)[i] = p[i]
    OBVIOUS
  <1>3. \A i \in 1..Len(q) : (p \o q)[Len(p) + i] = q[i]
    OBVIOUS
  <1>4. \A i \in 1..(Len(p) + Len(q)) :
           (p \o q)[i] = IF i <= Len(p) THEN p[i] ELSE q[i - Len(p)]
    OBVIOUS
  <1>5. DOMAIN p = 1..Len(p) /\ DOMAIN q = 1..Len(q) /\ DOMAIN (p \o q) = 1..(Len(p) + Len(q))
    BY <1>1
  <1>6. ToSet(p \o q) \subseteq ToSet(p) \cup ToSet(q)
    <2>1. ASSUME NEW i \in DOMAIN (p \o q) PROVE (p \o q)[i] \in ToSet(p) \cup ToSet(q)
      <3>1. CASE i <= Len(p)
        BY <3>1, <1>2, <1>5 DEF ToSet
      <3>2. CASE i > Len(p)
        <4>1. i - Len(p) \in DOMAIN q /\ (p \o q)[i] = q[i - Len(p)]
          BY <3>2, <1>4, <1>5
        <4> QED
          BY <4>1 DEF ToSet
      <3> QED
        BY <3>1, <3>2, <1>5
    <2> QED
      BY <2>1 DEF ToSet
  <1>7. ToSet(p) \cup ToSet(q) \subseteq ToSet(p \o q)
    <2>1. ASSUME NEW i \in DOMAIN p PROVE p[i] \in ToSet(p \o q)
      BY <1>2, <1>5 DEF ToSet
    <2>2. ASSUME NEW i \in DOMAIN q PROVE q[i] \in ToSet(p \o q)
      <3>1. Len(p) + i \in DOMAIN (p \o q)
        BY <1>5
      <3> QED
        BY <3>1, <1>3, <1>5 DEF ToSet
    <2> QED
      BY <2>1, <2>2 DEF ToSet
  <1> QED
    BY <1>1, <1>2, <1>3, <1>4, <1>6, <1>7

(* ... which is sorted if all of p may come before all of q. *)
LEMMA ConcatSorted ==
    ASSUME NEW S, NEW p \in Seq(S), NEW q \in Seq(S), NEW R, Sorted(p, R), Sorted(q, R),
           \A x \in ToSet(p), y \in ToSet(q) : <<x, y>> \in R
    PROVE  Sorted(p \o q, R)
  <1> SUFFICES ASSUME NEW i \in 1..(Len(p) + Len(q)), NEW j \in 1..(Len(p) + Len(q)), i < j
               PROVE  <<(p \o q)[i], (p \o q)[j]>> \in R
    BY ConcatIs DEF Sorted
  <1>1. DOMAIN p = 1..Len(p) /\ DOMAIN q = 1..Len(q)
    OBVIOUS
  <1>2. CASE j <= Len(p)
    <2>1. (p \o q)[i] = p[i] /\ (p \o q)[j] = p[j]
      BY <1>2, ConcatIs
    <2> QED
      BY <2>1, <1>1, <1>2 DEF Sorted
  <1>3. CASE i > Len(p)
    <2>1. (p \o q)[i] = q[i - Len(p)] /\ (p \o q)[j] = q[j - Len(p)]
      BY <1>3, ConcatIs
    <2>2. i - Len(p) \in DOMAIN q /\ j - Len(p) \in DOMAIN q /\ i - Len(p) < j - Len(p)
      BY <1>3, <1>1
    <2> QED
      BY <2>1, <2>2 DEF Sorted
  <1>4. CASE i <= Len(p) /\ j > Len(p)
    <2>1. (p \o q)[i] = p[i] /\ (p \o q)[j] = q[j - Len(p)]
      BY <1>4, ConcatIs
    <2>2. i \in DOMAIN p /\ j - Len(p) \in DOMAIN q
      BY <1>4, <1>1
    <2> QED
      BY <2>1, <2>2 DEF ToSet
  <1>5. Len(p) \in Nat /\ i \in Int /\ j \in Int
    OBVIOUS
  <1>6. j <= Len(p) \/ i > Len(p) \/ (i <= Len(p) /\ j > Len(p))
    BY <1>5
  <1> QED
    BY <1>2, <1>3, <1>4, <1>6

(* The elements of a sequence. *)
LEMMA ToSetIs ==
    ASSUME NEW S, NEW q \in Seq(S)
    PROVE  ToSet(q) \subseteq S /\ (ToSet(q) = {} <=> q = <<>>)
  <1>1. DOMAIN q = 1..Len(q) /\ \A i \in 1..Len(q) : q[i] \in S
    OBVIOUS
  <1>2. ToSet(q) \subseteq S
    BY <1>1 DEF ToSet
  <1>3. CASE Len(q) = 0
    <2>1. q = <<>> /\ DOMAIN q = {}
      BY <1>1, <1>3
    <2> QED
      BY <2>1, <1>2 DEF ToSet
  <1>4. CASE Len(q) # 0
    <2>1. 1 \in DOMAIN q /\ q # <<>>
      BY <1>1, <1>4
    <2> QED
      BY <2>1, <1>2 DEF ToSet
  <1> QED
    BY <1>3, <1>4

(* f[n] is the concatenation of the first n sequences of ss. *)
Concats(f, ss, L) ==
    /\ f[0] = <<>>
    /\ \A n \in 1..L : f[n] = f[n - 1] \o ss[n]

(* Some function gives the concatenations of the first sequences. *)
LEMMA ConcatsExist ==
    ASSUME NEW S, NEW L \in Nat, NEW ss \in [1..L -> Seq(S)]
    PROVE  \E f \in [Nat -> Seq(S)] : Concats(f, ss, L)
  <1> DEFINE V == Seq(S)
             e == <<>>
             step == [p \in Nat \X V |-> IF p[1] \in 1..L THEN p[2] \o ss[p[1]] ELSE p[2]]
  <1>1. e \in V
    OBVIOUS
  <1>2. ASSUME NEW n \in Nat, NEW y \in V
        PROVE  /\ step[<<n, y>>] \in V
               /\ n \in 1..L => step[<<n, y>>] = y \o ss[n]
    <2>1. step[<<n, y>>] = IF n \in 1..L THEN y \o ss[n] ELSE y
      OBVIOUS
    <2>2. n \in 1..L => y \o ss[n] \in V
      OBVIOUS
    <2> QED
      BY <2>1, <2>2
  <1>3. step \in [Nat \X V -> V]
    <2>1. ASSUME NEW p \in Nat \X V PROVE step[p] \in V
      <3>1. p = <<p[1], p[2]>> /\ p[1] \in Nat /\ p[2] \in V
        OBVIOUS
      <3> HIDE DEF step
      <3> QED
        BY <3>1, <1>2
    <2>2. step = [p \in Nat \X V |-> step[p]]
      OBVIOUS
    <2> HIDE DEF step, V
    <2> QED
      BY <2>1, <2>2
  <1> HIDE DEF step, e, V
  <1>4. PICK f : Recursive(f, V, e, step)
    BY <1>1, <1>3, Recursion
  <1>44. f \in [Nat -> V] /\ f[0] = e /\ \A n \in Nat \ {0} : f[n] = step[<<n, f[n - 1]>>]
    BY <1>4 DEF Recursive
  <1>5. ASSUME NEW n \in 1..L PROVE f[n] = f[n - 1] \o ss[n]
    <2>1. n \in Nat \ {0} /\ n - 1 \in Nat
      OBVIOUS
    <2>2. f[n] = step[<<n, f[n - 1]>>] /\ f[n - 1] \in V
      BY <2>1, <1>44
    <2> QED
      BY <2>1, <2>2, <1>2
  <1> QED
    BY <1>44, <1>5 DEF Concats, e, V

(* The function that FlattenSeq defines is that one ... *)
LEMMA FlattenUnfolds ==
    ASSUME NEW S, NEW L \in Nat \ {0}, NEW ss \in [1..L -> Seq(S)],
           NEW f \in [Nat -> Seq(S)], Concats(f, ss, L)
    PROVE  (CHOOSE F : F = [i \in 1..L |-> IF i = 1 THEN ss[i] ELSE F[i - 1] \o ss[i]])[L] = f[L]
  <1> DEFINE F == CHOOSE F : F = [i \in 1..L |-> IF i = 1 THEN ss[i] ELSE F[i - 1] \o ss[i]]
             h == [i \in 1..L |-> f[i]]
  <1>1. f[1] = ss[1]
    <2>1. 1 \in 1..L /\ 1 - 1 = 0
      OBVIOUS
    <2>2. f[1] = f[0] \o ss[1] /\ f[0] = <<>> /\ ss[1] \in Seq(S)
      BY <2>1 DEF Concats
    <2> QED
      BY <2>2
  <1>2. h = [i \in 1..L |-> IF i = 1 THEN ss[i] ELSE h[i - 1] \o ss[i]]
    <2>1. ASSUME NEW i \in 1..L PROVE f[i] = IF i = 1 THEN ss[i] ELSE h[i - 1] \o ss[i]
      <3>1. CASE i = 1
        BY <3>1, <1>1
      <3>2. CASE i # 1
        <4>1. i - 1 \in 1..L
          BY <3>2
        <4>2. h[i - 1] = f[i - 1] /\ f[i] = f[i - 1] \o ss[i]
          BY <4>1 DEF Concats
        <4> QED
          BY <3>2, <4>2
      <3> QED
        BY <3>1, <3>2
    <2> QED
      BY <2>1
  <1> HIDE DEF h
  <1>3. F = [i \in 1..L |-> IF i = 1 THEN ss[i] ELSE F[i - 1] \o ss[i]]
    BY <1>2
  <1> HIDE DEF F
  <1> DEFINE T == {n \in Nat : n \in 1..L => F[n] = f[n]}
  <1>4. 0 \in T
    OBVIOUS
  <1>5. ASSUME NEW n \in Nat \ {0}, n - 1 \in T PROVE n \in T
    <2>1. SUFFICES ASSUME n \in 1..L PROVE F[n] = f[n]
      OBVIOUS
    <2>2. F[n] = IF n = 1 THEN ss[n] ELSE F[n - 1] \o ss[n]
      BY <1>3, <2>1
    <2>3. CASE n = 1
      BY <2>2, <2>3, <1>1
    <2>4. CASE n # 1
      <3>1. n - 1 \in 1..L
        BY <2>1, <2>4
      <3>2. F[n - 1] = f[n - 1] /\ f[n] = f[n - 1] \o ss[n]
        BY <3>1, <2>1, <1>5 DEF Concats
      <3> QED
        BY <3>2, <2>2, <2>4
    <2> QED
      BY <2>3, <2>4
  <1>6. L \in T
    <2> HIDE DEF T
    <2> QED
      BY <1>4, <1>5, InductionDown
  <1>7. F[L] = f[L]
    <2>1. L \in 1..L
      OBVIOUS
    <2> QED
      BY <1>6, <2>1
  <1> QED
    BY <1>7 DEF F

(* ... also for no sequence at all. *)
LEMMA FlattenPrefixes ==
    ASSUME NEW S, NEW L \in Nat, NEW ss \in [1..L -> Seq(S)]
    PROVE  \E f \in [Nat -> Seq(S)] : Concats(f, ss, L) /\ FlattenSeq(ss) = f[L]
  <1>1. PICK f \in [Nat -> Seq(S)] : Concats(f, ss, L)
    BY ConcatsExist
  <1>2. Len(ss) = L
    OBVIOUS
  <1>3. CASE L = 0
    <2>1. ss = <<>>
      BY <1>3
    <2> QED
      BY <1>1, <1>2, <1>3, <2>1 DEF FlattenSeq, Concats
  <1>4. CASE L # 0
    <2>1. FlattenSeq(ss) = (CHOOSE F : F = [i \in 1..L |-> IF i = 1 THEN ss[i] ELSE F[i - 1] \o ss[i]])[L]
      BY <1>2, <1>4 DEF FlattenSeq
    <2> QED
      BY <2>1, <1>1, <1>4, FlattenUnfolds
  <1> QED
    BY <1>3, <1>4

(* FlattenSeq has the elements of the sequences, in their order. *)
LEMMA FlattenIs ==
    ASSUME NEW S, NEW L \in Nat, NEW ss \in [1..L -> Seq(S)]
    PROVE  /\ FlattenSeq(ss) \in Seq(S)
           /\ ToSet(FlattenSeq(ss)) = UNION {ToSet(ss[i]) : i \in 1..L}
           /\ \A R : /\ \A i \in 1..L : Sorted(ss[i], R)
                     /\ \A i, j \in 1..L : i < j =>
                           \A x \in ToSet(ss[i]), y \in ToSet(ss[j]) : <<x, y>> \in R
                     => Sorted(FlattenSeq(ss), R)
  <1>1. PICK f \in [Nat -> Seq(S)] : Concats(f, ss, L) /\ FlattenSeq(ss) = f[L]
    BY FlattenPrefixes
  <1>2. f[0] = <<>> /\ \A n \in 1..L : f[n] = f[n - 1] \o ss[n]
    BY <1>1 DEF Concats
  <1> DEFINE T == {n \in Nat : n <= L => ToSet(f[n]) = UNION {ToSet(ss[i]) : i \in 1..n}}
  <1>5. 0 \in T
    <2>1. 1..0 = {} /\ ToSet(f[0]) = {}
      BY <1>2 DEF ToSet
    <2> QED
      BY <2>1
  <1>6. ASSUME NEW n \in Nat \ {0}, n - 1 \in T PROVE n \in T
    <2>1. SUFFICES ASSUME n <= L
                   PROVE  ToSet(f[n]) = UNION {ToSet(ss[i]) : i \in 1..n}
      OBVIOUS
    <2>2. n \in 1..L /\ n - 1 \in Nat /\ n - 1 <= L
      BY <2>1
    <2>3. f[n] = f[n - 1] \o ss[n] /\ f[n - 1] \in Seq(S) /\ ss[n] \in Seq(S)
      BY <2>2, <1>2
    <2>4. ToSet(f[n]) = ToSet(f[n - 1]) \cup ToSet(ss[n])
      <3>0. f[n - 1] \in Seq(S) /\ ss[n] \in Seq(S)
        BY <2>3
      <3>1. ToSet(f[n - 1] \o ss[n]) = ToSet(f[n - 1]) \cup ToSet(ss[n])
        BY <3>0, ConcatIs
      <3> QED
        BY <3>1, <2>3
    <2>6. ToSet(f[n - 1]) = UNION {ToSet(ss[i]) : i \in 1..(n - 1)}
      BY <1>6, <2>2
    <2>7. ASSUME NEW i \in 1..n PROVE ToSet(ss[i]) \subseteq ToSet(f[n])
      <3>1. i \in 1..(n - 1) \/ i = n
        BY <2>2
      <3> QED
        BY <3>1, <2>4, <2>6
    <2>8. ASSUME NEW x \in ToSet(f[n]) PROVE \E i \in 1..n : x \in ToSet(ss[i])
      <3>1. CASE x \in ToSet(ss[n])
        BY <3>1
      <3>2. CASE x \in ToSet(f[n - 1])
        <4>1. PICK i \in 1..(n - 1) : x \in ToSet(ss[i])
          BY <3>2, <2>6
        <4>2. i \in 1..n
          BY <2>2
        <4> QED
          BY <4>1, <4>2
      <3> QED
        BY <3>1, <3>2, <2>4
    <2> QED
      BY <2>7, <2>8
  <1>7. \A n \in Nat : n \in T
    <2> HIDE DEF T
    <2> QED
      BY <1>5, <1>6, InductionDown
  <1>8. ASSUME NEW n \in Nat, n <= L PROVE ToSet(f[n]) = UNION {ToSet(ss[i]) : i \in 1..n}
    BY <1>7, <1>8
  <1> HIDE DEF T
  <1>9. ASSUME NEW R, \A i \in 1..L : Sorted(ss[i], R),
               \A i, j \in 1..L : i < j =>
                   \A x \in ToSet(ss[i]), y \in ToSet(ss[j]) : <<x, y>> \in R
        PROVE  Sorted(FlattenSeq(ss), R)
    <2> DEFINE U == {n \in Nat : n <= L => Sorted(f[n], R)}
    <2>1. 0 \in U
      BY <1>2 DEF Sorted
    <2>2. ASSUME NEW n \in Nat \ {0}, n - 1 \in U PROVE n \in U
      <3>1. SUFFICES ASSUME n <= L PROVE Sorted(f[n], R)
        OBVIOUS
      <3>2. n \in 1..L /\ n - 1 \in Nat /\ n - 1 <= L
        BY <3>1
      <3>3. f[n] = f[n - 1] \o ss[n] /\ f[n - 1] \in Seq(S) /\ ss[n] \in Seq(S)
        BY <3>2, <1>2
      <3>4. Sorted(f[n - 1], R) /\ Sorted(ss[n], R)
        BY <2>2, <3>2, <1>9
      <3>5. ASSUME NEW x \in ToSet(f[n - 1]), NEW y \in ToSet(ss[n]) PROVE <<x, y>> \in R
        <4>0. ToSet(f[n - 1]) = UNION {ToSet(ss[i]) : i \in 1..(n - 1)}
          BY <1>8, <3>2
        <4>1. PICK i \in 1..(n - 1) : x \in ToSet(ss[i])
          BY <4>0
        <4>2. i \in 1..L /\ n \in 1..L /\ i < n
          BY <3>1
        <4> QED
          BY <1>9, <4>1, <4>2
      <3> QED
        BY <3>3, <3>4, <3>5, ConcatSorted
    <2>3. L \in U
      <3> HIDE DEF U
      <3> QED
        BY <2>1, <2>2, InductionDown
    <2> QED
      BY <2>3, <1>1
  <1>10. L <= L
    OBVIOUS
  <1>11. ToSet(f[L]) = UNION {ToSet(ss[i]) : i \in 1..L}
    BY <1>8, <1>10
  <1>12. f[L] \in Seq(S)
    BY <1>1
  <1> QED
    BY <1>1, <1>11, <1>12, <1>9

(* Only keeps the elements in S, in their order. *)
LEMMA OnlyIs ==
    ASSUME NEW U, NEW q \in Seq(U), NEW S
    PROVE  /\ Only(q, S) \in Seq(U)
           /\ ToSet(Only(q, S)) = ToSet(q) \cap S
           /\ \A R : Sorted(q, R) => Sorted(Only(q, S), R)
  <1> DEFINE L == Len(q)
             ss == [i \in 1..L |-> IF q[i] \in S THEN <<q[i]>> ELSE <<>>]
  <1>1. L \in Nat /\ DOMAIN q = 1..L /\ \A i \in 1..L : q[i] \in U
    OBVIOUS
  <1>2. Only(q, S) = FlattenSeq(ss)
    BY <1>1 DEF Only
  <1> HIDE DEF L
  <1>3. ASSUME NEW i \in 1..L
        PROVE  /\ ss[i] \in Seq(U)
               /\ ToSet(ss[i]) = {q[i]} \cap S
               /\ \A R : Sorted(ss[i], R)
    <2>1. CASE q[i] \in S
      <3>1. ss[i] = <<q[i]>> /\ DOMAIN <<q[i]>> = {1}
        BY <2>1
      <3> QED
        BY <3>1, <1>1, <2>1 DEF ToSet, Sorted
    <2>2. CASE q[i] \notin S
      <3>1. ss[i] = <<>> /\ DOMAIN <<>> = {}
        BY <2>2
      <3>2. <<>> \in Seq(U)
        OBVIOUS
      <3> QED
        BY <3>1, <3>2, <1>1, <2>2 DEF ToSet, Sorted
    <2> QED
      BY <2>1, <2>2
  <1>4. ss \in [1..L -> Seq(U)]
    <2>1. ss = [i \in 1..L |-> ss[i]]
      OBVIOUS
    <2> HIDE DEF ss
    <2> QED
      BY <2>1, <1>3
  <1> HIDE DEF ss
  <1>5. /\ FlattenSeq(ss) \in Seq(U)
        /\ ToSet(FlattenSeq(ss)) = UNION {ToSet(ss[i]) : i \in 1..L}
        /\ \A R : /\ \A i \in 1..L : Sorted(ss[i], R)
                  /\ \A i, j \in 1..L : i < j =>
                        \A x \in ToSet(ss[i]), y \in ToSet(ss[j]) : <<x, y>> \in R
                  => Sorted(FlattenSeq(ss), R)
    BY <1>1, <1>4, FlattenIs
  <1>6. UNION {ToSet(ss[i]) : i \in 1..L} = ToSet(q) \cap S
    BY <1>1, <1>3 DEF ToSet
  <1>7. ASSUME NEW R, Sorted(q, R) PROVE Sorted(FlattenSeq(ss), R)
    <2>1. ASSUME NEW i \in 1..L, NEW j \in 1..L, i < j,
                 NEW x \in ToSet(ss[i]), NEW y \in ToSet(ss[j])
          PROVE  <<x, y>> \in R
      <3>1. x = q[i] /\ y = q[j]
        BY <1>3
      <3> QED
        BY <3>1, <1>1, <1>7, <2>1 DEF Sorted
    <2> QED
      BY <2>1, <1>3, <1>5
  <1> QED
    BY <1>2, <1>5, <1>6, <1>7
----------------------------------------------------------------------------
(* Along next one stays in S, and rank falls. *)
Falls(next, S, rank) ==
    /\ next \in [Task -> Task \cup {NULL}]
    /\ S \subseteq Task
    /\ rank \in [Task -> Nat]
    /\ \A t \in S : /\ next[t] \in S \cup {NULL}
                    /\ next[t] \in S => rank[next[t]] < rank[t]

(* The function that Chain defines. *)
Links(f, next) ==
    /\ f \in [Nat -> [Task \cup {NULL} -> Seq(Task)]]
    /\ \A q \in Task \cup {NULL} : f[0][q] = <<>>
    /\ \A n \in Nat \ {0}, q \in Task \cup {NULL} :
          f[n][q] = IF q = NULL THEN <<>> ELSE <<q>> \o f[n - 1][next[q]]

(* The function that Chain defines exists. *)
LEMMA ChainLinks ==
    ASSUME NEW next \in [Task -> Task \cup {NULL}]
    PROVE  \E f : Links(f, next) /\ \A s : Chain(next, s) = f[Cardinality(Task)][s]
  <1> DEFINE D == Task \cup {NULL}
             V == [D -> Seq(Task)]
             e == [q \in D |-> <<>>]
             step == [p \in Nat \X V |-> [q \in D |-> IF q = NULL THEN <<>> ELSE <<q>> \o p[2][next[q]]]]
             body(n, g) == [q \in D |-> IF n = 0 \/ q = NULL THEN <<>> ELSE <<q>> \o g[n - 1][next[q]]]
  <1>1. e \in V
    OBVIOUS
  <1>2. ASSUME NEW n \in Nat, NEW y \in V
        PROVE  /\ step[<<n, y>>] = [q \in D |-> IF q = NULL THEN <<>> ELSE <<q>> \o y[next[q]]]
               /\ step[<<n, y>>] \in V
    <2>1. step[<<n, y>>] = [q \in D |-> IF q = NULL THEN <<>> ELSE <<q>> \o y[next[q]]]
      OBVIOUS
    <2>2. ASSUME NEW q \in D PROVE (IF q = NULL THEN <<>> ELSE <<q>> \o y[next[q]]) \in Seq(Task)
      <3>1. CASE q = NULL
        BY <3>1
      <3>2. CASE q # NULL
        <4>1. q \in Task /\ next[q] \in D
          BY <3>2
        <4>2. y[next[q]] \in Seq(Task) /\ <<q>> \in Seq(Task)
          BY <4>1
        <4> QED
          BY <3>2, <4>2
      <3> QED
        BY <3>1, <3>2
    <2> QED
      BY <2>1, <2>2
  <1>3. step \in [Nat \X V -> V]
    <2>1. ASSUME NEW p \in Nat \X V PROVE step[p] \in V
      <3>1. p = <<p[1], p[2]>> /\ p[1] \in Nat /\ p[2] \in V
        OBVIOUS
      <3> HIDE DEF step, V
      <3> QED
        BY <3>1, <1>2
    <2>2. step = [p \in Nat \X V |-> step[p]]
      OBVIOUS
    <2> HIDE DEF step, V
    <2> QED
      BY <2>1, <2>2
  <1> HIDE DEF step, e, V
  <1>4. PICK f : Recursive(f, V, e, step)
    BY <1>1, <1>3, Recursion
  <1>5. f \in [Nat -> V] /\ f[0] = e /\ \A n \in Nat \ {0} : f[n] = step[<<n, f[n - 1]>>]
    BY <1>4 DEF Recursive
  <1>6. \A n \in Nat \ {0} : f[n] = [q \in D |-> IF q = NULL THEN <<>> ELSE <<q>> \o f[n - 1][next[q]]]
    <2>1. ASSUME NEW n \in Nat \ {0}
          PROVE  f[n] = [q \in D |-> IF q = NULL THEN <<>> ELSE <<q>> \o f[n - 1][next[q]]]
      <3>1. n - 1 \in Nat /\ f[n - 1] \in V
        BY <1>5
      <3> QED
        BY <3>1, <1>2, <1>5
    <2> QED
      BY <2>1
  <1>7. \A n \in Nat : f[n] = body(n, f)
    <2>1. ASSUME NEW n \in Nat PROVE f[n] = body(n, f)
      <3>1. CASE n = 0
        BY <3>1, <1>5 DEF e
      <3>2. CASE n # 0
        <4>1. f[n] = [q \in D |-> IF q = NULL THEN <<>> ELSE <<q>> \o f[n - 1][next[q]]]
          BY <3>2, <1>6
        <4>2. \A q \in D : (n = 0 \/ q = NULL) <=> q = NULL
          BY <3>2
        <4> QED
          BY <4>1, <4>2
      <3> QED
        BY <3>1, <3>2
    <2> QED
      BY <2>1
  <1>8. f = [n \in Nat |-> body(n, f)]
    <2> HIDE DEF body
    <2> QED
      BY <1>5, <1>7
  <1> DEFINE F == CHOOSE F : F = [n \in Nat |-> body(n, F)]
  <1>9. F = [n \in Nat |-> body(n, F)]
    BY <1>8
  <1>10. \A s : Chain(next, s) = F[Cardinality(Task)][s]
    BY DEF Chain
  <1> HIDE DEF F
  <1>11. \A n \in Nat : F[n] = body(n, F)
    <2> HIDE DEF body
    <2> QED
      BY <1>9
  <1> DEFINE T == {n \in Nat : F[n] = f[n]}
  <1>12. 0 \in T
    BY <1>7, <1>11
  <1>13. ASSUME NEW n \in Nat \ {0}, n - 1 \in T PROVE n \in T
    BY <1>13, <1>7, <1>11
  <1>14. \A n \in Nat : F[n] = f[n]
    <2>1. \A n \in Nat : n \in T
      <3> HIDE DEF T
      <3> QED
        BY <1>12, <1>13, InductionDown
    <2> QED
      BY <2>1
  <1>15. Cardinality(Task) \in Nat
    BY TaskAssumption, FS_CardinalityType
  <1>16. Links(f, next)
    <2>1. f \in [Nat -> [Task \cup {NULL} -> Seq(Task)]]
      BY <1>5 DEF V
    <2>2. \A q \in Task \cup {NULL} : f[0][q] = <<>>
      BY <1>5 DEF e
    <2>3. \A n \in Nat \ {0}, q \in Task \cup {NULL} :
              f[n][q] = IF q = NULL THEN <<>> ELSE <<q>> \o f[n - 1][next[q]]
      BY <1>6
    <2> QED
      BY <2>1, <2>2, <2>3 DEF Links
  <1> QED
    BY <1>10, <1>14, <1>15, <1>16

(* One step of Chain. *)
LEMMA ChainUnfolds ==
    ASSUME NEW next, NEW S, NEW rank, Falls(next, S, rank)
    PROVE  /\ Chain(next, NULL) = <<>>
           /\ \A s \in Task \cup {NULL} : /\ Chain(next, s) \in Seq(Task)
                                          /\ Len(Chain(next, s)) <= Cardinality(Task)
           /\ \A s \in S : Chain(next, s) = <<s>> \o Chain(next, next[s])
  <1> DEFINE N == Cardinality(Task)
             X(q) == IF q = NULL THEN {} ELSE {t \in S : rank[t] <= rank[q]}
             h == [q \in S \cup {NULL} |-> Cardinality(X(q))]
  <1>1. /\ next \in [Task -> Task \cup {NULL}]
        /\ S \subseteq Task
        /\ \A t \in S : /\ rank[t] \in Nat
                        /\ next[t] \in S \cup {NULL}
                        /\ next[t] \in S => rank[next[t]] < rank[t]
    BY DEF Falls
  <1>2. PICK f : Links(f, next) /\ \A s : Chain(next, s) = f[N][s]
    BY <1>1, ChainLinks
  <1>3. N \in Nat
    BY TaskAssumption, FS_CardinalityType
  <1>4. NULL \notin S /\ NULL \notin Task
    BY <1>1, TaskAssumption
  <1>5. ASSUME NEW q \in S \cup {NULL}
        PROVE  /\ h[q] \in Nat /\ h[q] <= N
               /\ h[q] = 0 => q = NULL
               /\ q \in S => h[next[q]] < h[q]
    <2>1. ASSUME NEW y \in S \cup {NULL}
          PROVE  IsFiniteSet(X(y)) /\ X(y) \subseteq Task /\ h[y] = Cardinality(X(y))
      <3>1. X(y) \subseteq Task
        BY <1>1
      <3>2. h[y] = Cardinality(X(y))
        BY <2>1
      <3> HIDE DEF X, h
      <3> QED
        BY <3>1, <3>2, TaskAssumption, FS_Subset
    <2>2. h[q] \in Nat /\ h[q] <= N
      <3> HIDE DEF X, h
      <3> QED
        BY <2>1, TaskAssumption, FS_CardinalityType, FS_Subset
    <2>3. h[q] = 0 => q = NULL
      <3>1. SUFFICES ASSUME q \in S PROVE h[q] # 0
        OBVIOUS
      <3>2. q \in X(q)
        BY <1>1, <1>4, <3>1
      <3> HIDE DEF X, h
      <3> QED
        BY <2>1, <3>2, FS_EmptySet
    <2>4. ASSUME q \in S PROVE h[next[q]] < h[q]
      <3>1. next[q] \in S \cup {NULL}
        BY <1>1, <2>4
      <3>2. X(next[q]) \subseteq X(q) /\ q \in X(q) /\ q \notin X(next[q])
        <4>1. CASE next[q] = NULL
          BY <4>1, <1>1, <1>4, <2>4
        <4>2. CASE next[q] # NULL
          BY <4>2, <3>1, <1>1, <1>4, <2>4
        <4> QED
          BY <4>1, <4>2
      <3>3. Cardinality(X(next[q])) < Cardinality(X(q))
        <4>1. IsFiniteSet(X(q)) /\ X(next[q]) # X(q)
          BY <2>1, <3>2
        <4> HIDE DEF X, h
        <4> QED
          BY <3>2, <4>1, FS_Subset, FS_CardinalityType
      <3> QED
        BY <3>1, <3>3, <2>1
    <2> QED
      BY <2>2, <2>3, <2>4
  <1> HIDE DEF h
  <1> DEFINE T == {k \in Nat : \A q \in S \cup {NULL}, m \in Nat : h[q] <= k /\ k <= m => f[m][q] = f[k][q]}
             U == {k \in Nat : \A q \in Task \cup {NULL} : f[k][q] \in Seq(Task) /\ Len(f[k][q]) <= k}
  <1>6. /\ f \in [Nat -> [Task \cup {NULL} -> Seq(Task)]]
        /\ \A q \in Task \cup {NULL} : f[0][q] = <<>>
        /\ \A n \in Nat \ {0}, q \in Task \cup {NULL} :
               f[n][q] = IF q = NULL THEN <<>> ELSE <<q>> \o f[n - 1][next[q]]
    BY <1>2 DEF Links
  <1>7. \A n \in Nat : f[n][NULL] = <<>>
    <2>1. ASSUME NEW n \in Nat PROVE f[n][NULL] = <<>>
      <3>1. NULL \in Task \cup {NULL} /\ (n = 0 \/ n \in Nat \ {0})
        OBVIOUS
      <3> QED
        BY <3>1, <1>6
    <2> QED
      BY <2>1
  <1>8. 0 \in T
    <2>1. ASSUME NEW q \in S \cup {NULL}, NEW m \in Nat, h[q] <= 0 PROVE f[m][q] = f[0][q]
      <3>1. q = NULL
        BY <2>1, <1>5
      <3>2. 0 \in Nat
        OBVIOUS
      <3> QED
        BY <3>1, <3>2, <1>7
    <2> QED
      BY <2>1
  <1>9. ASSUME NEW k \in Nat \ {0}, k - 1 \in T PROVE k \in T
    <2>1. ASSUME NEW q \in S \cup {NULL}, NEW m \in Nat, h[q] <= k, k <= m PROVE f[m][q] = f[k][q]
      <3>1. CASE q = NULL
        BY <3>1, <1>7
      <3>2. CASE q # NULL
        <4>1. q \in S /\ next[q] \in S \cup {NULL} /\ q \in Task
          BY <3>2, <1>1
        <4>2. m \in Nat \ {0} /\ m - 1 \in Nat /\ k - 1 \in Nat /\ k - 1 <= m - 1
          BY <2>1
        <4>3. h[next[q]] <= k - 1
          <5>1. h[next[q]] \in Nat /\ h[next[q]] < h[q] /\ h[q] \in Nat
            BY <4>1, <1>5
          <5> QED
            BY <5>1, <2>1
        <4>4. f[m - 1][next[q]] = f[k - 1][next[q]]
          BY <1>9, <4>1, <4>2, <4>3
        <4>5. f[m][q] = <<q>> \o f[m - 1][next[q]] /\ f[k][q] = <<q>> \o f[k - 1][next[q]]
          BY <4>1, <4>2, <3>2, <1>6
        <4> QED
          BY <4>4, <4>5
      <3> QED
        BY <3>1, <3>2
    <2> QED
      BY <2>1
  <1>10. \A k \in Nat : k \in T
    <2> HIDE DEF T
    <2> QED
      BY <1>8, <1>9, InductionDown
  <1>11. ASSUME NEW s \in S PROVE Chain(next, s) = <<s>> \o Chain(next, next[s])
    <2>1. /\ next[s] \in S \cup {NULL} /\ h[next[s]] \in Nat /\ h[next[s]] < h[s] /\ h[s] \in Nat
          /\ h[s] <= N
      BY <1>1, <1>5
    <2>2. N \in Nat \ {0} /\ N - 1 \in Nat /\ h[next[s]] <= N - 1 /\ N - 1 <= N
      BY <2>1, <1>3
    <2>3. f[N][next[s]] = f[N - 1][next[s]]
      BY <1>10, <2>1, <2>2
    <2>4. f[N][s] = <<s>> \o f[N - 1][next[s]]
      BY <2>2, <1>1, <1>4, <1>6
    <2> QED
      BY <2>3, <2>4, <1>2
  <1> HIDE DEF T
  <1>12. 0 \in U
    <2>1. ASSUME NEW q \in Task \cup {NULL} PROVE f[0][q] \in Seq(Task) /\ Len(f[0][q]) <= 0
      <3>1. f[0][q] = <<>>
        BY <1>6
      <3> QED
        BY <3>1
    <2> QED
      BY <2>1
  <1>13. ASSUME NEW k \in Nat \ {0}, k - 1 \in U PROVE k \in U
    <2>1. ASSUME NEW q \in Task \cup {NULL} PROVE f[k][q] \in Seq(Task) /\ Len(f[k][q]) <= k
      <3>1. CASE q = NULL
        <4>1. f[k][q] = <<>>
          BY <3>1, <1>7
        <4>2. <<>> \in Seq(Task) /\ Len(<<>>) = 0 /\ 0 <= k
          OBVIOUS
        <4> QED
          BY <4>1, <4>2
      <3>2. CASE q # NULL
        <4>1. q \in Task /\ next[q] \in Task \cup {NULL}
          BY <3>2, <1>1
        <4>2. f[k - 1][next[q]] \in Seq(Task) /\ Len(f[k - 1][next[q]]) <= k - 1
          BY <4>1, <1>13
        <4>3. f[k][q] = <<q>> \o f[k - 1][next[q]]
          BY <4>1, <3>2, <1>6
        <4>4. <<q>> \in Seq(Task) /\ Len(<<q>>) = 1
          BY <4>1
        <4>5. f[k][q] \in Seq(Task) /\ Len(f[k][q]) = 1 + Len(f[k - 1][next[q]])
          BY <4>2, <4>3, <4>4, ConcatIs
        <4>6. Len(f[k - 1][next[q]]) \in Nat
          BY <4>2
        <4> QED
          BY <4>2, <4>5, <4>6
      <3> QED
        BY <3>1, <3>2
    <2> QED
      BY <2>1
  <1>14. \A k \in Nat : k \in U
    <2> HIDE DEF U
    <2> QED
      BY <1>12, <1>13, InductionDown
  <1>15. N \in U
    <2> HIDE DEF U, N
    <2> QED
      BY <1>14, <1>3
  <1> QED
    BY <1>2, <1>3, <1>7, <1>11, <1>15

(* ch goes from s along next up to NULL, in S. *)
Walk(ch, next, S, s) ==
    /\ ch \in Seq(S) /\ Len(ch) >= 1
    /\ ch[1] = s
    /\ next[ch[Len(ch)]] = NULL
    /\ \A i \in 2..Len(ch) : ch[i] = next[ch[i - 1]]

(* Chain walks from s up to NULL, if it does not go in circles. *)
LEMMA ChainIs ==
    ASSUME NEW next, NEW S, NEW rank, Falls(next, S, rank), NEW s \in S
    PROVE  Walk(Chain(next, s), next, S, s)
  <1> DEFINE T == {k \in Nat : \A q \in S : rank[q] < k => Walk(Chain(next, q), next, S, q)}
  <1>0. \A t \in S : rank[t] \in Nat
    BY DEF Falls
  <1>1. \A t \in S : next[t] \in S \cup {NULL}
    BY DEF Falls
  <1>11. \A t \in S : next[t] \in S => rank[next[t]] < rank[t]
    BY DEF Falls
  <1>2. 0 \in T
    <2>1. ASSUME NEW q \in S PROVE ~(rank[q] < 0)
      <3>1. rank[q] \in Nat
        BY <1>0
      <3> QED
        BY <3>1
    <2> QED
      BY <2>1
  <1>3. ASSUME NEW k \in Nat \ {0}, k - 1 \in T, NEW q \in S, rank[q] < k
        PROVE  Walk(Chain(next, q), next, S, q)
    <2>1. Chain(next, q) = <<q>> \o Chain(next, next[q]) /\ Chain(next, NULL) = <<>>
      BY ChainUnfolds
    <2>2. CASE next[q] = NULL
      <3>1. Chain(next, q) = <<q>>
        BY <2>1, <2>2
      <3>2. <<q>> \in Seq(S) /\ Len(<<q>>) = 1 /\ <<q>>[1] = q /\ 2..1 = {}
        OBVIOUS
      <3> QED
        BY <3>1, <3>2, <2>2 DEF Walk
    <2>3. CASE next[q] # NULL
      <3> DEFINE w == next[q]
                 ch == Chain(next, w)
                 all == <<q>> \o ch
      <3>1. w \in S /\ rank[w] < k - 1 /\ k - 1 \in Nat
        <4>1. w \in S
          BY <2>3, <1>1
        <4>2. rank[w] \in Nat /\ rank[q] \in Nat /\ rank[w] < rank[q]
          BY <4>1, <1>0, <1>11
        <4> HIDE DEF w
        <4> QED
          BY <4>1, <4>2, <1>3
      <3>2. Walk(ch, next, S, w)
        BY <1>3, <3>1
      <3> HIDE DEF w, ch
      <3>3. /\ ch \in Seq(S) /\ Len(ch) \in Nat /\ Len(ch) >= 1 /\ <<q>> \in Seq(S)
            /\ Len(<<q>>) = 1 /\ <<q>>[1] = q
        BY <3>2 DEF Walk
      <3>4. /\ all \in Seq(S) /\ Len(all) = 1 + Len(ch) /\ all[1] = q
            /\ \A i \in 1..Len(ch) : all[1 + i] = ch[i]
        <4>1. /\ all \in Seq(S) /\ Len(all) = Len(<<q>>) + Len(ch)
              /\ \A i \in 1..Len(<<q>>) : all[i] = <<q>>[i]
              /\ \A i \in 1..Len(ch) : all[Len(<<q>>) + i] = ch[i]
          BY <3>3, ConcatIs
        <4> QED
          BY <4>1, <3>3
      <3> HIDE DEF all
      <3>5. all[Len(all)] = ch[Len(ch)]
        <4>1. all[1 + Len(ch)] = ch[Len(ch)]
          BY <3>3, <3>4
        <4> QED
          BY <4>1, <3>4
      <3>6. ASSUME NEW i \in 2..Len(all) PROVE all[i] = next[all[i - 1]]
        <4>1. i - 1 \in 1..Len(ch) /\ 1 + (i - 1) = i
          BY <3>3, <3>4
        <4>2. all[i] = ch[i - 1]
          BY <4>1, <3>4
        <4>3. CASE i = 2
          <5>1. all[2] = ch[1] /\ ch[1] = w /\ all[1] = q
            BY <4>3, <4>2, <3>2, <3>4 DEF Walk
          <5> QED
            BY <5>1, <4>3 DEF w
        <4>4. CASE i # 2
          <5>1. /\ i - 2 \in 1..Len(ch) /\ i - 1 \in 2..Len(ch) /\ 1 + (i - 2) = i - 1
                /\ (i - 1) - 1 = i - 2
            BY <4>1, <4>4, <3>3
          <5>2. all[i - 1] = ch[i - 2] /\ ch[i - 1] = next[ch[i - 2]]
            BY <5>1, <3>2, <3>4 DEF Walk
          <5> QED
            BY <5>2, <4>2
        <4> QED
          BY <4>3, <4>4
      <3>7. next[ch[Len(ch)]] = NULL
        BY <3>2 DEF Walk
      <3>8. Chain(next, q) = all
        BY <2>1 DEF all, ch, w
      <3>9. all \in Seq(S) /\ Len(all) >= 1 /\ all[1] = q /\ next[all[Len(all)]] = NULL
        BY <3>3, <3>4, <3>5, <3>7
      <3>10. Walk(all, next, S, q)
        BY <3>6, <3>9 DEF Walk
      <3> QED
        BY <3>8, <3>10
    <2> QED
      BY <2>2, <2>3
  <1>4. \A k \in Nat : k \in T
    <2>1. ASSUME NEW k \in Nat \ {0}, k - 1 \in T PROVE k \in T
      BY <1>3, <2>1
    <2> HIDE DEF T
    <2> QED
      BY <1>2, <2>1, InductionDown
  <1>5. rank[s] \in Nat
    BY <1>0
  <1>6. rank[s] + 1 \in Nat /\ rank[s] < rank[s] + 1
    BY <1>5
  <1>7. rank[s] + 1 \in T
    BY <1>4, <1>6
  <1> QED
    BY <1>6, <1>7

(* The tasks of a walk are the least set with s that next does not leave. *)
LEMMA WalkSet ==
    ASSUME NEW ch, NEW next, NEW S, NULL \notin S, NEW s \in S, Walk(ch, next, S, s)
    PROVE  /\ ToSet(ch) \subseteq S /\ s \in ToSet(ch)
           /\ \A t \in ToSet(ch) : next[t] = NULL \/ next[t] \in ToSet(ch)
           /\ \A X : s \in X /\ (\A t \in X : next[t] = NULL \/ next[t] \in X) =>
                 ToSet(ch) \subseteq X
  <1> DEFINE L == Len(ch)
  <1>1. /\ ch \in Seq(S) /\ L \in Nat /\ L >= 1 /\ DOMAIN ch = 1..L
        /\ ch[1] = s /\ next[ch[L]] = NULL /\ \A i \in 2..L : ch[i] = next[ch[i - 1]]
    BY DEF Walk
  <1> HIDE DEF L
  <1>2. ToSet(ch) \subseteq S
    BY <1>1, ToSetIs
  <1>3. s \in ToSet(ch)
    <2>1. 1 \in DOMAIN ch
      BY <1>1
    <2> QED
      BY <2>1, <1>1 DEF ToSet
  <1>4. ASSUME NEW t \in ToSet(ch) PROVE next[t] = NULL \/ next[t] \in ToSet(ch)
    <2>1. PICK i \in 1..L : t = ch[i]
      BY <1>1 DEF ToSet
    <2>2. CASE i = L
      BY <2>1, <2>2, <1>1
    <2>3. CASE i # L
      <3>1. i + 1 \in 2..L /\ (i + 1) - 1 = i /\ i + 1 \in DOMAIN ch
        BY <2>1, <2>3, <1>1
      <3>2. ch[i + 1] = next[t]
        BY <3>1, <2>1, <1>1
      <3> QED
        BY <3>1, <3>2 DEF ToSet
    <2> QED
      BY <2>2, <2>3
  <1>5. ASSUME NEW X, s \in X, \A t \in X : next[t] = NULL \/ next[t] \in X
        PROVE  ToSet(ch) \subseteq X
    <2> DEFINE T == {n \in Nat : n \in 1..L => ch[n] \in X}
    <2>1. 0 \in T
      OBVIOUS
    <2>2. ASSUME NEW n \in Nat \ {0}, n - 1 \in T PROVE n \in T
      <3>1. SUFFICES ASSUME n \in 1..L PROVE ch[n] \in X
        OBVIOUS
      <3>2. CASE n = 1
        BY <3>2, <1>1, <1>5
      <3>3. CASE n # 1
        <4>1. n - 1 \in 1..L /\ n \in 2..L
          BY <3>1, <3>3, <1>1
        <4>2. ch[n - 1] \in X /\ ch[n] = next[ch[n - 1]] /\ ch[n] \in S
          BY <4>1, <2>2, <1>1
        <4> QED
          BY <4>2, <1>5
      <3> QED
        BY <3>2, <3>3
    <2>3. \A n \in Nat : n \in T
      <3> HIDE DEF T
      <3> QED
        BY <2>1, <2>2, InductionDown
    <2> QED
      BY <2>3, <1>1 DEF ToSet
  <1> QED
    BY <1>2, <1>3, <1>4, <1>5

----------------------------------------------------------------------------
(* The tree: what is below some tasks, depth, root, order by depth.        *)

(* X has the subtasks of all its tasks that are not locked. *)
Closed(c, X) == \A u \in X \ Locked(c) : ToSet(c.ring[u]) \subseteq X

(* Below has the subtasks of the tasks of q that are not locked. *)
LEMMA BelowIs ==
    ASSUME NEW c, \A u \in Task : c.ring[u] \in Seq(Task), NEW q \in Seq(Task)
    PROVE  /\ Below(c, q) \in Seq(Task)
           /\ ToSet(Below(c, q)) = UNION {ToSet(c.ring[u]) : u \in ToSet(q) \ Locked(c)}
           /\ \A R : /\ \A u \in ToSet(q) \ Locked(c) : Sorted(c.ring[u], R)
                     /\ \A i, j \in DOMAIN q : i < j /\ q[i] \notin Locked(c) /\ q[j] \notin Locked(c) =>
                           \A x \in ToSet(c.ring[q[i]]), y \in ToSet(c.ring[q[j]]) : <<x, y>> \in R
                     => Sorted(Below(c, q), R)
  <1> DEFINE L == Len(q)
             ss == [i \in 1..L |-> IF q[i] \in Locked(c) THEN <<>> ELSE c.ring[q[i]]]
  <1>1. L \in Nat /\ DOMAIN q = 1..L /\ \A i \in 1..L : q[i] \in Task
    OBVIOUS
  <1>2. Below(c, q) = FlattenSeq(ss)
    BY <1>1 DEF Below
  <1> HIDE DEF L
  <1>3. ASSUME NEW i \in 1..L
        PROVE  /\ ss[i] \in Seq(Task)
               /\ q[i] \in Locked(c) => ToSet(ss[i]) = {} /\ \A R : Sorted(ss[i], R)
               /\ q[i] \notin Locked(c) => ss[i] = c.ring[q[i]]
    <2>1. CASE q[i] \in Locked(c)
      <3>1. ss[i] = <<>> /\ DOMAIN <<>> = {} /\ <<>> \in Seq(Task)
        BY <2>1
      <3> QED
        BY <3>1, <2>1 DEF ToSet, Sorted
    <2>2. CASE q[i] \notin Locked(c)
      BY <2>2, <1>1
    <2> QED
      BY <2>1, <2>2
  <1>4. ss \in [1..L -> Seq(Task)]
    <2>1. ss = [i \in 1..L |-> ss[i]]
      OBVIOUS
    <2> HIDE DEF ss
    <2> QED
      BY <2>1, <1>3
  <1> HIDE DEF ss
  <1>5. /\ FlattenSeq(ss) \in Seq(Task)
        /\ ToSet(FlattenSeq(ss)) = UNION {ToSet(ss[i]) : i \in 1..L}
        /\ \A R : /\ \A i \in 1..L : Sorted(ss[i], R)
                  /\ \A i, j \in 1..L : i < j =>
                        \A x \in ToSet(ss[i]), y \in ToSet(ss[j]) : <<x, y>> \in R
                  => Sorted(FlattenSeq(ss), R)
    BY <1>1, <1>4, FlattenIs
  <1>6. ToSet(q) = {q[i] : i \in 1..L}
    BY <1>1 DEF ToSet
  <1>7. UNION {ToSet(ss[i]) : i \in 1..L} = UNION {ToSet(c.ring[u]) : u \in ToSet(q) \ Locked(c)}
    <2>1. ASSUME NEW i \in 1..L, NEW x \in ToSet(ss[i])
          PROVE  x \in UNION {ToSet(c.ring[u]) : u \in ToSet(q) \ Locked(c)}
      <3>1. q[i] \notin Locked(c) /\ ss[i] = c.ring[q[i]] /\ q[i] \in ToSet(q)
        BY <2>1, <1>3, <1>6
      <3> QED
        BY <3>1, <2>1
    <2>2. ASSUME NEW u \in ToSet(q) \ Locked(c)
          PROVE  \E i \in 1..L : ToSet(c.ring[u]) = ToSet(ss[i])
      <3>1. PICK i \in 1..L : u = q[i]
        BY <1>6
      <3> QED
        BY <3>1, <1>3
    <2> QED
      BY <2>1, <2>2
  <1>8. ASSUME NEW R, \A u \in ToSet(q) \ Locked(c) : Sorted(c.ring[u], R),
               \A i, j \in 1..L : i < j /\ q[i] \notin Locked(c) /\ q[j] \notin Locked(c) =>
                   \A x \in ToSet(c.ring[q[i]]), y \in ToSet(c.ring[q[j]]) : <<x, y>> \in R
        PROVE  Sorted(FlattenSeq(ss), R)
    <2>1. ASSUME NEW i \in 1..L PROVE Sorted(ss[i], R)
      <3>1. q[i] \in ToSet(q)
        BY <1>6
      <3> QED
        BY <3>1, <1>3, <1>8
    <2>2. ASSUME NEW i \in 1..L, NEW j \in 1..L, i < j, NEW x \in ToSet(ss[i]),
                 NEW y \in ToSet(ss[j])
          PROVE  <<x, y>> \in R
      <3>1. /\ q[i] \notin Locked(c) /\ q[j] \notin Locked(c) /\ ss[i] = c.ring[q[i]]
            /\ ss[j] = c.ring[q[j]]
        BY <1>3
      <3> QED
        BY <3>1, <2>2, <1>8
    <2> QED
      BY <2>1, <2>2, <1>5
  <1> QED
    BY <1>1, <1>2, <1>5, <1>7, <1>8

(* The function that DeepStack defines. *)
Stacks(f, c) ==
    /\ f \in [Nat -> [Seq(Task) -> Seq(Task)]]
    /\ \A q \in Seq(Task) : f[0][q] = <<>>
    /\ \A n \in Nat \ {0}, q \in Seq(Task) :
          f[n][q] = IF q = <<>> THEN <<>> ELSE q \o f[n - 1][Below(c, q)]

(* The function that DeepStack defines exists. *)
LEMMA DeepStacks ==
    ASSUME NEW c, \A u \in Task : c.ring[u] \in Seq(Task)
    PROVE  \E f : Stacks(f, c) /\ \A q : DeepStack(c, q) = f[Cardinality(Task)][q]
  <1> DEFINE D == Seq(Task)
             V == [D -> D]
             e == [q \in D |-> <<>>]
             step == [p \in Nat \X V |-> [q \in D |-> IF q = <<>> THEN <<>> ELSE q \o p[2][Below(c, q)]]]
             body(n, g) == [q \in D |-> IF n = 0 \/ q = <<>> THEN <<>> ELSE q \o g[n - 1][Below(c, q)]]
  <1>0. \A q \in D : Below(c, q) \in D
    BY BelowIs
  <1>1. e \in V
    OBVIOUS
  <1>2. ASSUME NEW n \in Nat, NEW y \in V
        PROVE  /\ step[<<n, y>>] = [q \in D |-> IF q = <<>> THEN <<>> ELSE q \o y[Below(c, q)]]
               /\ step[<<n, y>>] \in V
    <2>1. step[<<n, y>>] = [q \in D |-> IF q = <<>> THEN <<>> ELSE q \o y[Below(c, q)]]
      OBVIOUS
    <2>2. ASSUME NEW q \in D PROVE (IF q = <<>> THEN <<>> ELSE q \o y[Below(c, q)]) \in D
      <3>1. CASE q = <<>>
        BY <3>1
      <3>2. CASE q # <<>>
        <4>1. y[Below(c, q)] \in D
          BY <1>0
        <4>2. q \o y[Below(c, q)] \in D
          BY <4>1
        <4> QED
          BY <3>2, <4>2
      <3> QED
        BY <3>1, <3>2
    <2> QED
      BY <2>1, <2>2
  <1>3. step \in [Nat \X V -> V]
    <2>1. ASSUME NEW p \in Nat \X V PROVE step[p] \in V
      <3>1. p = <<p[1], p[2]>> /\ p[1] \in Nat /\ p[2] \in V
        OBVIOUS
      <3> HIDE DEF step, V
      <3> QED
        BY <3>1, <1>2
    <2>2. step = [p \in Nat \X V |-> step[p]]
      OBVIOUS
    <2> HIDE DEF step, V
    <2> QED
      BY <2>1, <2>2
  <1> HIDE DEF step, e, V
  <1>4. PICK f : Recursive(f, V, e, step)
    BY <1>1, <1>3, Recursion
  <1>5. f \in [Nat -> V] /\ f[0] = e /\ \A n \in Nat \ {0} : f[n] = step[<<n, f[n - 1]>>]
    BY <1>4 DEF Recursive
  <1>6. \A n \in Nat \ {0} : f[n] = [q \in D |-> IF q = <<>> THEN <<>> ELSE q \o f[n - 1][Below(c, q)]]
    <2>1. ASSUME NEW n \in Nat \ {0}
          PROVE  f[n] = [q \in D |-> IF q = <<>> THEN <<>> ELSE q \o f[n - 1][Below(c, q)]]
      <3>1. n - 1 \in Nat /\ f[n - 1] \in V
        BY <1>5
      <3> QED
        BY <3>1, <1>2, <1>5
    <2> QED
      BY <2>1
  <1>7. \A n \in Nat : f[n] = body(n, f)
    <2>1. ASSUME NEW n \in Nat PROVE f[n] = body(n, f)
      <3>1. CASE n = 0
        BY <3>1, <1>5 DEF e
      <3>2. CASE n # 0
        <4>1. f[n] = [q \in D |-> IF q = <<>> THEN <<>> ELSE q \o f[n - 1][Below(c, q)]]
          BY <3>2, <1>6
        <4>2. \A q \in D : (n = 0 \/ q = <<>>) <=> q = <<>>
          BY <3>2
        <4> QED
          BY <4>1, <4>2
      <3> QED
        BY <3>1, <3>2
    <2> QED
      BY <2>1
  <1>8. f = [n \in Nat |-> body(n, f)]
    <2> HIDE DEF body
    <2> QED
      BY <1>5, <1>7
  <1> DEFINE F == CHOOSE F : F = [n \in Nat |-> body(n, F)]
  <1>9. F = [n \in Nat |-> body(n, F)]
    BY <1>8
  <1>10. \A q : DeepStack(c, q) = F[Cardinality(Task)][q]
    BY DEF DeepStack
  <1> HIDE DEF F
  <1>11. \A n \in Nat : F[n] = body(n, F)
    <2> HIDE DEF body
    <2> QED
      BY <1>9
  <1> DEFINE T == {n \in Nat : F[n] = f[n]}
  <1>12. 0 \in T
    BY <1>7, <1>11
  <1>13. ASSUME NEW n \in Nat \ {0}, n - 1 \in T PROVE n \in T
    BY <1>13, <1>7, <1>11
  <1>14. \A n \in Nat : F[n] = f[n]
    <2>1. \A n \in Nat : n \in T
      <3> HIDE DEF T
      <3> QED
        BY <1>12, <1>13, InductionDown
    <2> QED
      BY <2>1
  <1>15. Cardinality(Task) \in Nat
    BY TaskAssumption, FS_CardinalityType
  <1>16. Stacks(f, c)
    <2>1. f \in [Nat -> [D -> D]]
      BY <1>5 DEF V
    <2>2. \A q \in D : f[0][q] = <<>>
      BY <1>5 DEF e
    <2>3. \A n \in Nat \ {0}, q \in D :
              f[n][q] = IF q = <<>> THEN <<>> ELSE q \o f[n - 1][Below(c, q)]
      BY <1>6
    <2> QED
      BY <2>1, <2>2, <2>3 DEF Stacks
  <1> QED
    BY <1>10, <1>14, <1>15, <1>16

(* No task of q is found again below q. *)
Apart(c, q) ==
    \E X : X \cap ToSet(q) = {} /\ ToSet(Below(c, q)) \subseteq X /\ Closed(c, X)

(* s has q and all that is below q, once. *)
IsStack(c, q, s) ==
    /\ s \in Seq(Task)
    /\ ToSet(q) \subseteq ToSet(s)
    /\ Closed(c, ToSet(s))
    /\ \A X : ToSet(q) \subseteq X /\ Closed(c, X) => ToSet(s) \subseteq X
    /\ Sorted(s, Different)

(* In a tree, one level below tasks that are apart: they are apart again. *)
LEMMA TreeBelow ==
    ASSUME NEW c, NEW d, Tree(c, d), NEW q \in Seq(Task),
           ToSet(q) \subseteq Live(c), Sorted(q, Different), Apart(c, q)
    PROVE  /\ Below(c, q) \in Seq(Task)
           /\ ToSet(Below(c, q)) \subseteq Live(c)
           /\ \A v \in ToSet(Below(c, q)) : c.parent[v] \in ToSet(q) \ Locked(c)
           /\ Sorted(Below(c, q), Different)
           /\ Apart(c, Below(c, q))
  <1> DEFINE B == Below(c, q)
  <1>1. /\ \A u \in Task \cup {NULL} : c.ring[u] \in Seq(Task)
        /\ \A u \in Task \cup {NULL} : Sorted(c.ring[u], Different)
        /\ \A u \in Task \cup {NULL} : ToSet(c.ring[u]) = {t \in Live(c) : c.parent[t] = u}
    BY DEF Tree
  <1>2. ToSet(q) \subseteq Task
    BY ToSetIs
  <1>3. /\ B \in Seq(Task)
        /\ ToSet(B) = UNION {ToSet(c.ring[u]) : u \in ToSet(q) \ Locked(c)}
        /\ \A R : /\ \A u \in ToSet(q) \ Locked(c) : Sorted(c.ring[u], R)
                  /\ \A i, j \in DOMAIN q : i < j /\ q[i] \notin Locked(c) /\ q[j] \notin Locked(c) =>
                        \A x \in ToSet(c.ring[q[i]]), y \in ToSet(c.ring[q[j]]) : <<x, y>> \in R
                  => Sorted(B, R)
    BY <1>1, BelowIs
  <1> HIDE DEF B
  <1>4. \A v \in ToSet(B) : v \in Live(c) /\ c.parent[v] \in ToSet(q) \ Locked(c)
    BY <1>1, <1>2, <1>3
  <1>5. Sorted(B, Different)
    <2>1. \A u \in ToSet(q) \ Locked(c) : Sorted(c.ring[u], Different)
      BY <1>1, <1>2
    <2>2. ASSUME NEW i \in DOMAIN q, NEW j \in DOMAIN q, i < j,
                 NEW x \in ToSet(c.ring[q[i]]), NEW y \in ToSet(c.ring[q[j]])
          PROVE  <<x, y>> \in Different
      <3>1. q[i] \in Task /\ q[j] \in Task /\ q[i] # q[j]
        BY <2>2, <1>2 DEF Sorted, Different, ToSet
      <3>2. x \in Live(c) /\ y \in Live(c) /\ c.parent[x] = q[i] /\ c.parent[y] = q[j]
        BY <3>1, <1>1
      <3>3. x \in Task /\ y \in Task /\ x # y
        BY <3>1, <3>2 DEF Live
      <3> QED
        BY <3>3 DEF Different
    <2> QED
      BY <2>1, <2>2, <1>3
  <1>6. Apart(c, B)
    <2>1. PICK X : X \cap ToSet(q) = {} /\ ToSet(B) \subseteq X /\ Closed(c, X)
      BY DEF Apart, B
    <2> DEFINE Y == (X \ ToSet(B)) \cap Task
    <2>2. Closed(c, Y)
      <3>1. ASSUME NEW u \in Y \ Locked(c), NEW v \in ToSet(c.ring[u]) PROVE v \in Y
        <4>1. v \in X
          BY <2>1 DEF Closed
        <4>2. v \in Live(c) /\ c.parent[v] = u
          BY <1>1
        <4>3. v \notin ToSet(B)
          BY <4>2, <1>4, <2>1
        <4> QED
          BY <4>1, <4>2, <4>3 DEF Live
      <3> QED
        BY <3>1 DEF Closed
    <2>3. ToSet(Below(c, B)) \subseteq Y
      <3>1. ToSet(Below(c, B)) = UNION {ToSet(c.ring[u]) : u \in ToSet(B) \ Locked(c)}
        BY <1>1, <1>3, BelowIs
      <3>2. ASSUME NEW u \in ToSet(B) \ Locked(c), NEW v \in ToSet(c.ring[u]) PROVE v \in Y
        <4>1. u \in Task
          BY <1>4 DEF Live
        <4>2. v \in X
          BY <2>1 DEF Closed
        <4>3. v \in Live(c) /\ c.parent[v] = u
          BY <1>1, <4>1
        <4>4. v \notin ToSet(B)
          BY <4>3, <1>4, <2>1
        <4> QED
          BY <4>2, <4>3, <4>4 DEF Live
      <3> QED
        BY <3>1, <3>2
    <2> QED
      BY <2>2, <2>3 DEF Apart
  <1> QED
    BY <1>3, <1>4, <1>5, <1>6 DEF B

(* One step of DeepStack. *)
LEMMA StackStep ==
    ASSUME NEW c, NEW d, Tree(c, d), NEW q \in Seq(Task),
           ToSet(q) \subseteq Live(c), Sorted(q, Different), Apart(c, q),
           NEW s, IsStack(c, Below(c, q), s)
    PROVE  IsStack(c, q, q \o s)
  <1> DEFINE B == Below(c, q)
  <1>1. \A u \in Task : c.ring[u] \in Seq(Task)
    BY DEF Tree
  <1>2. B \in Seq(Task) /\ ToSet(B) = UNION {ToSet(c.ring[u]) : u \in ToSet(q) \ Locked(c)}
    BY <1>1, BelowIs
  <1>3. /\ s \in Seq(Task) /\ ToSet(B) \subseteq ToSet(s) /\ Closed(c, ToSet(s))
        /\ \A X : ToSet(B) \subseteq X /\ Closed(c, X) => ToSet(s) \subseteq X
        /\ Sorted(s, Different)
    BY DEF IsStack
  <1> HIDE DEF B
  <1>4. q \o s \in Seq(Task) /\ ToSet(q \o s) = ToSet(q) \cup ToSet(s)
    BY <1>3, ConcatIs
  <1>5. Closed(c, ToSet(q \o s))
    BY <1>2, <1>3, <1>4 DEF Closed
  <1>6. ASSUME NEW X, ToSet(q) \subseteq X, Closed(c, X) PROVE ToSet(q \o s) \subseteq X
    <2>1. ToSet(B) \subseteq X
      BY <1>6, <1>2 DEF Closed
    <2> QED
      BY <2>1, <1>3, <1>4, <1>6
  <1>7. Sorted(q \o s, Different)
    <2>1. PICK X : X \cap ToSet(q) = {} /\ ToSet(B) \subseteq X /\ Closed(c, X)
      BY DEF Apart, B
    <2>2. ToSet(s) \subseteq X /\ ToSet(s) \subseteq Task /\ ToSet(q) \subseteq Task
      BY <2>1, <1>3, ToSetIs
    <2>3. \A x \in ToSet(q), y \in ToSet(s) : <<x, y>> \in Different
      BY <2>1, <2>2 DEF Different
    <2> QED
      BY <2>3, <1>3, ConcatSorted
  <1> QED
    BY <1>4, <1>5, <1>6, <1>7 DEF IsStack

(* DeepStack has q and all that is below q, once, as long as no locked     *)
(* task comes between.                                                     *)
LEMMA DeepStackIs ==
    ASSUME NEW c, NEW d, Tree(c, d), NEW q \in Seq(Task),
           ToSet(q) \subseteq Live(c), Sorted(q, Different), Apart(c, q)
    PROVE  IsStack(c, q, DeepStack(c, q))
  <1> DEFINE N == Cardinality(Task)
             At(m) == {u \in Live(c) : d[u] >= m}
             Ready(y, m) == /\ ToSet(y) \subseteq Live(c) /\ Sorted(y, Different) /\ Apart(c, y)
                            /\ \A u \in ToSet(y) : d[u] >= m
  <1>1. \A u \in Task : c.ring[u] \in Seq(Task)
    BY DEF Tree
  <1>2. PICK f : Stacks(f, c) /\ DeepStack(c, q) = f[N][q]
    BY <1>1, DeepStacks
  <1>3. /\ \A y \in Seq(Task) : f[0][y] = <<>>
        /\ \A n \in Nat \ {0}, y \in Seq(Task) :
              f[n][y] = IF y = <<>> THEN <<>> ELSE y \o f[n - 1][Below(c, y)]
    BY <1>2 DEF Stacks
  <1>4. \A u \in Task : d[u] \in Nat
    BY DEF Tree
  <1>5. Live(c) \subseteq Task
    BY DEF Live
  <1>6. \A m : IsFiniteSet(At(m)) /\ Cardinality(At(m)) \in Nat /\ Cardinality(At(m)) <= N /\ N \in Nat
    <2>1. ASSUME NEW m PROVE At(m) \subseteq Task
      BY <1>5
    <2> HIDE DEF At
    <2> QED
      BY <2>1, TaskAssumption, FS_Subset, FS_CardinalityType
  <1>7. IsStack(c, <<>>, <<>>)
    <2>1. ToSet(<<>>) = {} /\ <<>> \in Seq(Task)
      BY DEF ToSet
    <2>2. Sorted(<<>>, Different)
      BY DEF Sorted
    <2> QED
      BY <2>1, <2>2 DEF IsStack, Closed
  <1> DEFINE T == {n \in Nat : \A y \in Seq(Task), m \in Nat :
                                  Ready(y, m) /\ Cardinality(At(m)) <= n => IsStack(c, y, f[n][y])}
  <1>8. 0 \in T
    <2>1. ASSUME NEW y \in Seq(Task), NEW m \in Nat, Ready(y, m), Cardinality(At(m)) <= 0
          PROVE  IsStack(c, y, f[0][y])
      <3>1. At(m) = {}
        <4> HIDE DEF At
        <4> QED
          BY <2>1, <1>6, FS_EmptySet
      <3>2. ToSet(y) = {}
        BY <2>1, <3>1
      <3>3. y = <<>>
        BY <3>2, ToSetIs
      <3> QED
        BY <3>3, <1>3, <1>7
    <2> QED
      BY <2>1
  <1>9. ASSUME NEW n \in Nat \ {0}, n - 1 \in T, NEW y \in Seq(Task), NEW m \in Nat,
               Ready(y, m), Cardinality(At(m)) <= n
        PROVE  IsStack(c, y, f[n][y])
    <2>1. CASE y = <<>>
      BY <2>1, <1>3, <1>7
    <2>2. CASE y # <<>>
      <3> DEFINE B == Below(c, y)
      <3>1. /\ B \in Seq(Task) /\ ToSet(B) \subseteq Live(c)
            /\ \A v \in ToSet(B) : c.parent[v] \in ToSet(y) \ Locked(c)
            /\ Sorted(B, Different) /\ Apart(c, B)
        BY <1>9, TreeBelow
      <3> HIDE DEF B
      <3>2. ToSet(y) # {} /\ ToSet(y) \subseteq Task
        BY <2>2, ToSetIs
      <3>3. PICK k \in {d[u] : u \in ToSet(y)} : \A l \in {d[u] : u \in ToSet(y)} : k <= l
        <4>1. {d[u] : u \in ToSet(y)} \in SUBSET Nat /\ {d[u] : u \in ToSet(y)} # {}
          BY <3>2, <1>4
        <4> QED
          BY <4>1, Least
      <3>4. PICK w \in ToSet(y) : d[w] = k
        BY <3>3
      <3>5. k \in Nat /\ k + 1 \in Nat /\ k >= m /\ w \in Live(c)
        BY <3>4, <3>2, <1>4, <1>9
      <3>6. At(k + 1) \subseteq At(m) /\ w \in At(m) /\ w \notin At(k + 1)
        <4>1. ASSUME NEW u \in At(k + 1) PROVE u \in At(m)
          <5>1. u \in Live(c) /\ d[u] \in Nat /\ d[u] >= k + 1
            BY <1>4, <1>5
          <5> QED
            BY <5>1, <3>5
        <4>2. w \in At(m)
          BY <3>4, <3>5
        <4>3. w \notin At(k + 1)
          BY <3>4, <3>5
        <4> QED
          BY <4>1, <4>2, <4>3
      <3>7. Cardinality(At(k + 1)) <= n - 1
        <4>1. At(k + 1) # At(m)
          BY <3>6
        <4> HIDE DEF At
        <4>2. /\ Cardinality(At(k + 1)) < Cardinality(At(m)) /\ Cardinality(At(m)) \in Nat
              /\ Cardinality(At(k + 1)) \in Nat
          BY <3>6, <4>1, <1>6, FS_Subset, FS_CardinalityType
        <4> QED
          BY <4>2, <1>9
      <3>8. \A v \in ToSet(B) : d[v] >= k + 1
        <4>1. ASSUME NEW v \in ToSet(B) PROVE d[v] >= k + 1
          <5>1. v \in Live(c) /\ c.parent[v] \in ToSet(y) /\ c.parent[v] # NULL
            BY <3>1, <3>2, TaskAssumption
          <5>2. d[c.parent[v]] < d[v]
            BY <5>1 DEF Tree
          <5>3. k <= d[c.parent[v]] /\ d[v] \in Nat /\ d[c.parent[v]] \in Nat
            BY <5>1, <3>2, <3>3, <1>4, <1>5
          <5> QED
            BY <5>2, <5>3, <3>5
        <4> QED
          BY <4>1
      <3>9. Ready(B, k + 1)
        BY <3>1, <3>8
      <3>10. IsStack(c, B, f[n - 1][B])
        <4> HIDE DEF Ready, At
        <4> QED
          BY <1>9, <3>1, <3>5, <3>7, <3>9
      <3>11. f[n][y] = y \o f[n - 1][B]
        BY <2>2, <1>3 DEF B
      <3> QED
        BY <3>10, <3>11, <1>9, StackStep DEF B
    <2> QED
      BY <2>1, <2>2
  <1>10. \A n \in Nat : n \in T
    <2>1. ASSUME NEW n \in Nat \ {0}, n - 1 \in T PROVE n \in T
      <3> HIDE DEF Ready, At
      <3> QED
        BY <1>9, <2>1
    <2> HIDE DEF T
    <2> QED
      BY <1>8, <2>1, InductionDown
  <1>11. Ready(q, 0) /\ Cardinality(At(0)) <= N
    <2>1. ASSUME NEW u \in ToSet(q) PROVE d[u] >= 0
      <3>1. d[u] \in Nat
        BY <1>4, <1>5
      <3> QED
        BY <3>1
    <2> QED
      BY <2>1, <1>6
  <1>12. N \in T
    BY <1>6, <1>10
  <1> HIDE DEF Ready, At, N
  <1> QED
    BY <1>2, <1>11, <1>12

(* From a task up to its parent the rank d falls. *)
LEMMA TreeFalls ==
    ASSUME NEW c, NEW d, Tree(c, d)
    PROVE  Falls(c.parent, Live(c), d) /\ NULL \notin Live(c) /\ Live(c) \subseteq Task
  <1>1. NULL \notin Live(c) /\ Live(c) \subseteq Task
    BY TaskAssumption DEF Live
  <1>2. c.parent \in [Task -> Task \cup {NULL}] /\ d \in [Task -> Nat]
    BY DEF Tree
  <1>3. ASSUME NEW t \in Live(c)
        PROVE  /\ c.parent[t] \in Live(c) \cup {NULL}
               /\ c.parent[t] \in Live(c) => d[c.parent[t]] < d[t]
    BY <1>1 DEF Tree
  <1> QED
    BY <1>1, <1>2, <1>3 DEF Falls

(* The depth of a task. *)
LEMMA DeepIs ==
    ASSUME NEW c, NEW d, Tree(c, d), NEW t \in Live(c)
    PROVE  /\ Deep(c, t) \in Nat /\ Deep(c, t) < Cardinality(Task)
           /\ c.parent[t] = NULL => Deep(c, t) = 0
           /\ c.parent[t] # NULL => Deep(c, t) = Deep(c, c.parent[t]) + 1
  <1> DEFINE ch == Chain(c.parent, c.parent[t])
  <1>1. Falls(c.parent, Live(c), d) /\ c.parent[t] \in Live(c) \cup {NULL} /\ Live(c) \subseteq Task
    BY TreeFalls DEF Falls
  <1>2. /\ Chain(c.parent, NULL) = <<>>
        /\ \A s \in Task \cup {NULL} : /\ Chain(c.parent, s) \in Seq(Task)
                                       /\ Len(Chain(c.parent, s)) <= Cardinality(Task)
        /\ \A s \in Live(c) : Chain(c.parent, s) = <<s>> \o Chain(c.parent, c.parent[s])
    BY <1>1, ChainUnfolds
  <1>3. Deep(c, t) = Len(ch)
    BY DEF Deep, Ancestors
  <1>4. ch \in Seq(Task)
    BY <1>1, <1>2
  <1>5. Len(Chain(c.parent, t)) = 1 + Len(ch) /\ Len(Chain(c.parent, t)) <= Cardinality(Task)
    <2>0. t \in Task
      BY <1>1
    <2>1. Chain(c.parent, t) = <<t>> \o ch /\ <<t>> \in Seq(Task) /\ Len(<<t>>) = 1
      <3>1. Chain(c.parent, t) = <<t>> \o ch
        BY <1>2
      <3>2. <<t>> \in Seq(Task) /\ Len(<<t>>) = 1
        BY <2>0
      <3> QED
        BY <3>1, <3>2
    <2> HIDE DEF ch
    <2>2. Len(<<t>> \o ch) = 1 + Len(ch)
      <3>1. <<t>> \in Seq(Task) /\ ch \in Seq(Task)
        BY <2>1, <1>4
      <3>2. Len(<<t>> \o ch) = Len(<<t>>) + Len(ch)
        BY <3>1, ConcatIs
      <3> QED
        BY <3>2, <2>1
    <2> QED
      BY <2>0, <2>1, <2>2, <1>2
  <1>6. Cardinality(Task) \in Nat
    BY TaskAssumption, FS_CardinalityType
  <1>7. Deep(c, t) \in Nat /\ Deep(c, t) < Cardinality(Task)
    <2> HIDE DEF ch
    <2>1. Len(ch) \in Nat
      BY <1>4
    <2> QED
      BY <2>1, <1>3, <1>5, <1>6
  <1>8. ASSUME c.parent[t] = NULL PROVE Deep(c, t) = 0
    <2>1. ch = <<>>
      BY <1>2, <1>8
    <2> QED
      BY <2>1, <1>3
  <1>9. ASSUME c.parent[t] # NULL PROVE Deep(c, t) = Deep(c, c.parent[t]) + 1
    <2> DEFINE u == c.parent[t]
               up == Chain(c.parent, c.parent[u])
    <2>1. u \in Live(c) /\ c.parent[u] \in Live(c) \cup {NULL} /\ u \in Task
      BY <1>1, <1>9 DEF Falls
    <2>2. ch = <<u>> \o up /\ up \in Seq(Task) /\ <<u>> \in Seq(Task) /\ Len(<<u>>) = 1
      <3>1. ch = <<u>> \o up
        BY <2>1, <1>2
      <3>2. up \in Seq(Task)
        BY <2>1, <1>1, <1>2
      <3>3. <<u>> \in Seq(Task) /\ Len(<<u>>) = 1
        BY <2>1
      <3> QED
        BY <3>1, <3>2, <3>3
    <2>3. Deep(c, u) = Len(up)
      BY DEF Deep, Ancestors
    <2> HIDE DEF u, up, ch
    <2>4. Len(ch) = 1 + Len(up) /\ Len(up) \in Nat
      <3>1. <<u>> \in Seq(Task) /\ up \in Seq(Task)
        BY <2>2
      <3>2. Len(<<u>> \o up) = Len(<<u>>) + Len(up)
        BY <3>1, ConcatIs
      <3> QED
        BY <3>2, <2>2
    <2> QED
      BY <2>3, <2>4, <1>3 DEF u
  <1> QED
    BY <1>7, <1>8, <1>9

(* The root of a task. *)
LEMMA RootIs ==
    ASSUME NEW c, NEW d, Tree(c, d), NEW r,
           \A t \in Live(c) : r[t] = IF c.parent[t] = NULL THEN t ELSE r[c.parent[t]],
           NEW t \in Live(c)
    PROVE  Root(c, t) = r[t]
  <1>1. Falls(c.parent, Live(c), d) /\ NULL \notin Live(c) /\ c.parent[t] \in Live(c) \cup {NULL}
    BY TreeFalls DEF Falls
  <1>2. CASE c.parent[t] = NULL
    BY <1>2 DEF Root, IsTask
  <1>3. CASE c.parent[t] # NULL
    <2> DEFINE u == c.parent[t]
               ch == Chain(c.parent, u)
               X == {v \in Live(c) : r[v] = r[t]}
    <2>1. u \in X
      BY <1>1, <1>3
    <2>2. \A v \in X : c.parent[v] = NULL \/ c.parent[v] \in X
      BY <1>1 DEF Falls
    <2>3. Root(c, t) = Last(ch)
      BY <1>3 DEF Root, IsTask, Ancestors
    <2>4. Walk(ch, c.parent, Live(c), u)
      BY <2>1, <1>1, ChainIs
    <2>5. ToSet(ch) \subseteq X
      <3> HIDE DEF ch, u
      <3>1. \A Y : u \in Y /\ (\A v \in Y : c.parent[v] = NULL \/ c.parent[v] \in Y) =>
               ToSet(ch) \subseteq Y
        BY <2>1, <2>4, <1>1, WalkSet
      <3> HIDE DEF X
      <3> QED
        BY <3>1, <2>1, <2>2
    <2>6. Last(ch) \in ToSet(ch) /\ c.parent[Last(ch)] = NULL
      <3> HIDE DEF ch, u
      <3>1. ch \in Seq(Live(c)) /\ Len(ch) \in DOMAIN ch /\ c.parent[ch[Len(ch)]] = NULL
        BY <2>4 DEF Walk
      <3> QED
        BY <3>1 DEF Last, ToSet
    <2> QED
      BY <2>3, <2>5, <2>6
  <1> QED
    BY <1>2, <1>3

(* Parents come before their subtasks, no task comes twice. *)
Deeper(c) == {p \in Task \X Task : p[1] # p[2] /\ Deep(c, p[1]) <= Deep(c, p[2])}

(* ByDeep sorts by depth. *)
LEMMA ByDeepIs ==
    ASSUME NEW c, NEW d, Tree(c, d), NEW q \in Seq(Task),
           ToSet(q) \subseteq Live(c), Sorted(q, Different)
    PROVE  /\ ByDeep(c, q) \in Seq(Task)
           /\ ToSet(ByDeep(c, q)) = ToSet(q)
           /\ Sorted(ByDeep(c, q), Deeper(c))
  <1> DEFINE N == Cardinality(Task)
             At(k) == {t \in Task : Deep(c, t) = k - 1}
             ss == [k \in 1..N |-> Only(q, At(k))]
  <1>1. N \in Nat
    BY TaskAssumption, FS_CardinalityType
  <1>2. ByDeep(c, q) = FlattenSeq(ss)
    BY DEF ByDeep
  <1>3. ASSUME NEW k \in 1..N
        PROVE  /\ ss[k] \in Seq(Task)
               /\ ToSet(ss[k]) = ToSet(q) \cap At(k)
               /\ Sorted(ss[k], Different)
    <2>1. ss[k] = Only(q, At(k))
      OBVIOUS
    <2> HIDE DEF ss, At
    <2> QED
      BY <2>1, OnlyIs
  <1>4. ss \in [1..N -> Seq(Task)]
    <2>1. ss = [k \in 1..N |-> ss[k]]
      OBVIOUS
    <2> HIDE DEF ss
    <2> QED
      BY <2>1, <1>3
  <1> HIDE DEF ss, N
  <1>5. /\ FlattenSeq(ss) \in Seq(Task)
        /\ ToSet(FlattenSeq(ss)) = UNION {ToSet(ss[k]) : k \in 1..N}
        /\ \A R : /\ \A k \in 1..N : Sorted(ss[k], R)
                  /\ \A k, l \in 1..N : k < l =>
                        \A x \in ToSet(ss[k]), y \in ToSet(ss[l]) : <<x, y>> \in R
                  => Sorted(FlattenSeq(ss), R)
    BY <1>1, <1>4, FlattenIs
  <1>6. ASSUME NEW t \in ToSet(q) PROVE \E k \in 1..N : t \in ToSet(ss[k])
    <2>1. Deep(c, t) \in Nat /\ Deep(c, t) < N
      BY DeepIs DEF N
    <2>2. t \in Task
      BY ToSetIs
    <2>3. Deep(c, t) + 1 \in 1..N /\ (Deep(c, t) + 1) - 1 = Deep(c, t)
      BY <2>1, <1>1
    <2>4. t \in At(Deep(c, t) + 1)
      BY <2>2, <2>3
    <2> QED
      BY <2>3, <2>4, <1>3
  <1>7. UNION {ToSet(ss[k]) : k \in 1..N} = ToSet(q)
    <2>1. \A k \in 1..N : ToSet(ss[k]) \subseteq ToSet(q)
      BY <1>3
    <2> QED
      BY <2>1, <1>6
  <1>8. ASSUME NEW k \in 1..N PROVE Sorted(ss[k], Deeper(c))
    <2>1. ASSUME NEW i \in DOMAIN ss[k], NEW j \in DOMAIN ss[k], i < j
          PROVE  <<ss[k][i], ss[k][j]>> \in Deeper(c)
      <3>1. <<ss[k][i], ss[k][j]>> \in Different
        BY <2>1, <1>3 DEF Sorted
      <3>2. ss[k][i] \in ToSet(ss[k]) /\ ss[k][j] \in ToSet(ss[k])
        BY DEF ToSet
      <3>3. Deep(c, ss[k][i]) = k - 1 /\ Deep(c, ss[k][j]) = k - 1 /\ k - 1 <= k - 1
        BY <3>2, <1>3, <1>1
      <3> QED
        BY <3>1, <3>3 DEF Different, Deeper
    <2> QED
      BY <2>1 DEF Sorted
  <1>9. ASSUME NEW k \in 1..N, NEW l \in 1..N, k < l, NEW x \in ToSet(ss[k]), NEW y \in ToSet(ss[l])
        PROVE  <<x, y>> \in Deeper(c)
    <2>1. x \in Task /\ y \in Task /\ Deep(c, x) = k - 1 /\ Deep(c, y) = l - 1
      BY <1>3
    <2>2. k - 1 <= l - 1 /\ k - 1 # l - 1
      BY <1>9, <1>1
    <2>3. x # y /\ Deep(c, x) <= Deep(c, y)
      BY <2>1, <2>2
    <2> QED
      BY <2>1, <2>3 DEF Deeper
  <1>10. Sorted(FlattenSeq(ss), Deeper(c))
    BY <1>5, <1>8, <1>9
  <1> QED
    BY <1>2, <1>5, <1>7, <1>10

----------------------------------------------------------------------------
(* Continue blocks, the path of an exception, the chain of an implosion.   *)

(* Min0 is the least number of a set that is not empty. *)
LEMMA Min0Is ==
    ASSUME NEW S \in SUBSET Nat, S # {}
    PROVE  Min0(S) \in S /\ \A j \in S : Min0(S) <= j
  <1>1. \E i \in S : \A j \in S : i <= j
    BY Least
  <1> QED
    BY <1>1 DEF Min0

(* The first elements of a sequence. *)
LEMMA PrefixIs ==
    ASSUME NEW S, NEW q \in Seq(S), NEW m \in 0..Len(q)
    PROVE  /\ SubSeq(q, 1, m) \in Seq(S) /\ Len(SubSeq(q, 1, m)) = m
           /\ \A i \in 1..m : SubSeq(q, 1, m)[i] = q[i]
           /\ ToSet(SubSeq(q, 1, m)) = {q[i] : i \in 1..m}
  <1> DEFINE s == SubSeq(q, 1, m)
  <1>1. /\ s \in Seq(S) /\ Len(s) = m
        /\ \A i \in 1..m : s[i] = q[i]
    OBVIOUS
  <1> HIDE DEF s
  <1>2. DOMAIN s = 1..m
    BY <1>1
  <1>3. ToSet(s) = {q[i] : i \in 1..m}
    BY <1>1, <1>2 DEF ToSet
  <1> QED
    BY <1>1, <1>3 DEF s

(* Rank falls along a chain. *)
LEMMA WalkFalls ==
    ASSUME NEW next, NEW S, NEW rank, Falls(next, S, rank), NEW s, NEW ch, Walk(ch, next, S, s)
    PROVE  \A i, j \in 1..Len(ch) : i < j => rank[ch[j]] < rank[ch[i]]
  <1> DEFINE L == Len(ch)
  <1>1. /\ L \in Nat /\ \A i \in 1..L : ch[i] \in S
        /\ \A i \in 2..L : ch[i] = next[ch[i - 1]]
    BY DEF Walk
  <1> HIDE DEF L
  <1>2. /\ \A t \in S : rank[t] \in Nat
        /\ \A t \in S : next[t] \in S => rank[next[t]] < rank[t]
    BY DEF Falls
  <1> DEFINE T == {n \in Nat : \A i \in 1..L, j \in 1..L : j = i + n /\ n # 0 => rank[ch[j]] < rank[ch[i]]}
  <1>3. 0 \in T
    OBVIOUS
  <1>4. ASSUME NEW n \in Nat \ {0}, n - 1 \in T PROVE n \in T
    <2>1. ASSUME NEW i \in 1..L, NEW j \in 1..L, j = i + n PROVE rank[ch[j]] < rank[ch[i]]
      <3>1. j \in 2..L /\ j - 1 \in 1..L /\ j - 1 = i + (n - 1) /\ n - 1 \in Nat
        BY <2>1, <1>1
      <3>2. rank[ch[j]] < rank[ch[j - 1]]
        <4>1. ch[j - 1] \in S /\ ch[j] \in S /\ ch[j] = next[ch[j - 1]]
          BY <3>1, <1>1
        <4> QED
          BY <4>1, <1>2
      <3>3. CASE n - 1 = 0
        <4>1. j - 1 = i
          BY <3>1, <3>3
        <4> QED
          BY <4>1, <3>2
      <3>4. CASE n - 1 # 0
        <4>1. rank[ch[j - 1]] < rank[ch[i]]
          BY <3>1, <3>4, <1>4
        <4>2. rank[ch[j]] \in Nat /\ rank[ch[j - 1]] \in Nat /\ rank[ch[i]] \in Nat
          BY <3>1, <1>1, <1>2
        <4> QED
          BY <4>1, <4>2, <3>2
      <3> QED
        BY <3>3, <3>4
    <2> QED
      BY <2>1
  <1>5. \A n \in Nat : n \in T
    <2> HIDE DEF T
    <2> QED
      BY <1>3, <1>4, InductionDown
  <1>6. ASSUME NEW i \in 1..L, NEW j \in 1..L, i < j PROVE rank[ch[j]] < rank[ch[i]]
    <2>1. j - i \in Nat /\ j = i + (j - i) /\ j - i # 0
      BY <1>6, <1>1
    <2>2. j - i \in T
      BY <2>1, <1>5
    <2> QED
      BY <2>1, <2>2
  <1> QED
    BY <1>6 DEF L
----------------------------------------------------------------------------
(* The callers of the tasks in S are in S; the label b of a task in a      *)
(* block is the head of the block.                                         *)
Blocks(c, b, S, rank) ==
    /\ Falls(c.caller, S, rank)
    /\ \A t \in S : b[t] # NULL =>
          /\ t \notin c.mark
          /\ c.exc[t].kind = "HEAD" => b[t] = t
          /\ c.exc[t].kind # "HEAD" => c.caller[t] # NULL /\ b[c.caller[t]] = b[t]

Stops(c, t) == t \in c.mark \/ c.exc[t].kind = "HEAD"

Chased(c, s) ==
    SubSeq(CallerChain(c, s), 1,
           Min0({i \in DOMAIN CallerChain(c, s) : Stops(c, CallerChain(c, s)[i])}))

(* From a task of a block that waits one comes to the head of the block. *)
LEMMA ChasedIs ==
    ASSUME NEW c, NEW b, NEW S, NEW rank, Blocks(c, b, S, rank), NULL \notin S, NEW s \in S,
           b[s] # NULL
    PROVE  /\ Chased(c, s) # <<>>
           /\ Last(Chased(c, s)) = b[s]
           /\ ToSet(Chased(c, s)) \subseteq {t \in S : b[t] = b[s]}
  <1> DEFINE ch == CallerChain(c, s)
             L == Len(ch)
             I == {i \in DOMAIN ch : Stops(c, ch[i])}
             m == Min0(I)
  <1>1. Walk(ch, c.caller, S, s)
    BY ChainIs DEF CallerChain, Blocks
  <1>2. Chased(c, s) = SubSeq(ch, 1, m)
    BY DEF Chased
  <1> HIDE DEF ch
  <1>3. /\ ch \in Seq(S) /\ L \in Nat /\ L >= 1 /\ DOMAIN ch = 1..L
        /\ ch[1] = s /\ c.caller[ch[L]] = NULL
        /\ \A i \in 2..L : ch[i] = c.caller[ch[i - 1]]
    BY <1>1 DEF Walk
  <1>4. \A i \in 1..L : ch[i] \in S
    BY <1>3
  <1> HIDE DEF L
  <1> DEFINE T == {n \in Nat : n \in 1..L /\ (\A i \in 1..(n - 1) : i \notin I) => b[ch[n]] = b[s]}
  <1>5. 0 \in T
    OBVIOUS
  <1>6. ASSUME NEW n \in Nat \ {0}, n - 1 \in T PROVE n \in T
    <2>1. SUFFICES ASSUME n \in 1..L, \A i \in 1..(n - 1) : i \notin I PROVE b[ch[n]] = b[s]
      OBVIOUS
    <2>2. CASE n = 1
      BY <2>2, <1>3
    <2>3. CASE n # 1
      <3>1. n - 1 \in 1..L /\ n \in 2..L /\ n - 1 \in 1..(n - 1) /\ \A i \in 1..((n - 1) - 1) : i \in 1..(n - 1)
        BY <2>1, <2>3, <1>3
      <3>2. b[ch[n - 1]] = b[s]
        BY <3>1, <2>1, <1>6
      <3>3. ~Stops(c, ch[n - 1])
        BY <3>1, <2>1, <1>3
      <3>4. ch[n] = c.caller[ch[n - 1]] /\ ch[n - 1] \in S
        BY <3>1, <1>3, <1>4
      <3> QED
        BY <3>2, <3>3, <3>4 DEF Blocks, Stops
    <2> QED
      BY <2>2, <2>3
  <1>7. \A n \in Nat : n \in T
    <2> HIDE DEF T
    <2> QED
      BY <1>5, <1>6, InductionDown
  <1>8. ASSUME NEW n \in 1..L, \A i \in 1..(n - 1) : i \notin I PROVE b[ch[n]] = b[s]
    <2>1. n \in T
      BY <1>7
    <2> QED
      BY <2>1, <1>8
  <1> HIDE DEF T
  <1>9. I # {}
    <2> SUFFICES ASSUME I = {} PROVE FALSE
      OBVIOUS
    <2>1. L \in 1..L
      BY <1>3
    <2>2. b[ch[L]] = b[s] /\ ch[L] \in S /\ ~Stops(c, ch[L])
      BY <2>1, <1>3, <1>4, <1>8
    <2> QED
      BY <2>2, <1>3 DEF Blocks, Stops
  <1>10. m \in I /\ \A j \in I : m <= j
    <2>1. I \in SUBSET Nat
      BY <1>3
    <2> HIDE DEF I
    <2> QED
      BY <2>1, <1>9, Min0Is
  <1> HIDE DEF m
  <1>11. m \in 1..L /\ Stops(c, ch[m]) /\ \A i \in 1..(m - 1) : i \notin I
    <2>1. m \in 1..L /\ Stops(c, ch[m])
      BY <1>3, <1>10
    <2>2. ASSUME NEW i \in 1..(m - 1), i \in I PROVE FALSE
      BY <2>1, <2>2, <1>10
    <2> QED
      BY <2>1, <2>2
  <1>12. ASSUME NEW i \in 1..m PROVE b[ch[i]] = b[s] /\ ch[i] \in S
    <2>1. i \in 1..L /\ \A j \in 1..(i - 1) : j \in 1..(m - 1)
      BY <1>11, <1>3
    <2> QED
      BY <2>1, <1>4, <1>8, <1>11
  <1>13. ch[m] = b[s]
    <2>1. b[ch[m]] = b[s] /\ ch[m] \in S
      BY <1>11, <1>12
    <2> QED
      BY <2>1, <1>11 DEF Blocks, Stops
  <1>14. /\ SubSeq(ch, 1, m) \in Seq(S) /\ Len(SubSeq(ch, 1, m)) = m
         /\ \A i \in 1..m : SubSeq(ch, 1, m)[i] = ch[i]
         /\ ToSet(SubSeq(ch, 1, m)) = {ch[i] : i \in 1..m}
    <2>1. m \in 0..Len(ch)
      BY <1>11 DEF L
    <2> QED
      BY <2>1, <1>3, PrefixIs
  <1>15. SubSeq(ch, 1, m) # <<>>
    <2>1. Len(<<>>) = 0 /\ m # 0
      BY <1>11
    <2> QED
      BY <2>1, <1>14
  <1>16. Last(SubSeq(ch, 1, m)) = b[s]
    <2>1. m \in 1..m
      BY <1>11
    <2> QED
      BY <2>1, <1>13, <1>14 DEF Last
  <1>17. ToSet(SubSeq(ch, 1, m)) \subseteq {t \in S : b[t] = b[s]}
    BY <1>12, <1>14
  <1> QED
    BY <1>2, <1>15, <1>16, <1>17

(* What is found from the tasks W that wait. *)
IsBusy(busy, c, b, S, W) ==
    /\ busy.lost = FALSE
    /\ busy.heads = {b[s] : s \in W} \ c.mark
    /\ busy.mark \subseteq c.mark \cup {t \in S : \E s \in W : b[t] = b[s]}
    /\ c.mark \subseteq busy.mark

(* zm_checkBusy finds the heads of the blocks that wait, and loses nobody. *)
LEMMA CheckBusyIs ==
    ASSUME NEW c, NEW b, NEW S, NEW rank, Blocks(c, b, S, rank), NULL \notin S, NEW q,
           NEW W, W = ToSet(q) \cap c.waiting, \A s \in W : s \in S /\ b[s] # NULL
    PROVE  IsBusy(CheckBusy(c, q), c, b, S, W)
  <1> DEFINE found == {Chased(c, s) : s \in W}
  <1>1. CheckBusy(c, q) =
           [mark  |-> c.mark \cup UNION {ToSet(p) : p \in found},
            heads |-> {Last(p) : p \in found \ {<<>>}} \ c.mark,
            lost  |-> <<>> \in found]
    BY DEF CheckBusy, Chased, Stops
  <1>2. ASSUME NEW s \in W
        PROVE  /\ Chased(c, s) # <<>>
               /\ Last(Chased(c, s)) = b[s]
               /\ ToSet(Chased(c, s)) \subseteq {t \in S : b[t] = b[s]}
    <2>1. s \in S /\ b[s] # NULL
      OBVIOUS
    <2> QED
      BY <2>1, ChasedIs
  <1>3. <<>> \notin found
    BY <1>2
  <1>4. {Last(p) : p \in found \ {<<>>}} = {b[s] : s \in W}
    BY <1>2
  <1>5. UNION {ToSet(p) : p \in found} \subseteq {t \in S : \E s \in W : b[t] = b[s]}
    BY <1>2
  <1> HIDE DEF found
  <1>6. CheckBusy(c, q).lost = FALSE
    <2>1. (<<>> \in found) = FALSE
      BY <1>3
    <2> DEFINE m == c.mark \cup UNION {ToSet(p) : p \in found}
               h == {Last(p) : p \in found \ {<<>>}} \ c.mark
               l == <<>> \in found
    <2>2. CheckBusy(c, q) = [mark |-> m, heads |-> h, lost |-> l]
      BY <1>1
    <2>3. l = FALSE
      BY <2>1
    <2> HIDE DEF m, h, l
    <2>4. CheckBusy(c, q) = [mark |-> m, heads |-> h, lost |-> FALSE]
      BY <2>2, <2>3, Zenon
    <2> QED
      BY <2>4
  <1>7. CheckBusy(c, q).heads = {b[s] : s \in W} \ c.mark
    BY <1>1, <1>4
  <1>8. CheckBusy(c, q).mark = c.mark \cup UNION {ToSet(p) : p \in found}
    BY <1>1
  <1> QED
    BY <1>5, <1>6, <1>7, <1>8 DEF IsBusy

(* What the path q of an exception of t is: h, its last task, is called by *)
(* the others in turn, and its caller catches.                             *)
IsPath(c, t, q, h, S, rank) ==
    /\ q \in Seq(S) /\ Sorted(q, Different)
    /\ \A i \in 2..Len(q) : q[i] = c.caller[q[i - 1]]
    /\ t \in ToSet(q) /\ h \in ToSet(q) /\ Last(q) = h
    /\ c.caller[h] \in S /\ HasCatch(c, c.caller[h])
    /\ \A u \in ToSet(q) : u = h \/ c.caller[u] \in ToSet(q)
    /\ \A u \in ToSet(q) : u = t \/ \E w \in ToSet(q) : c.caller[w] = u
    /\ \A u \in ToSet(q) : u = h \/ rank[h] < rank[u]

(* zm_getLastBeforeCatch finds the path up to the first caller that        *)
(* catches.                                                                *)
LEMMA ExceptionPathIs ==
    ASSUME NEW c, NEW S, NEW rank, Falls(c.caller, S, rank), NULL \notin S,
           NEW t \in S, ExceptionPath(c, t) # <<>>
    PROVE  \E h : IsPath(c, t, ExceptionPath(c, t), h, S, rank)
  <1> DEFINE ch == CallerChain(c, t)
             L == Len(ch)
             I == {i \in 2..L : HasCatch(c, ch[i])}
             k == Min0(I)
             q == ExceptionPath(c, t)
             h == ch[k - 1]
  <1>1. Walk(ch, c.caller, S, t)
    BY ChainIs DEF CallerChain
  <1>2. q = IF k = 0 THEN <<>> ELSE SubSeq(ch, 1, k - 1)
    BY DEF ExceptionPath
  <1>3. I # {}
    <2>1. Min0({}) = 0
      BY DEF Min0
    <2> QED
      BY <1>2, <2>1
  <1>4. \A i, j \in 1..L : i < j => rank[ch[j]] < rank[ch[i]]
    BY <1>1, WalkFalls
  <1> HIDE DEF ch, q
  <1>5. /\ ch \in Seq(S) /\ L \in Nat /\ L >= 1 /\ DOMAIN ch = 1..L
        /\ ch[1] = t
        /\ \A i \in 2..L : ch[i] = c.caller[ch[i - 1]]
    BY <1>1 DEF Walk
  <1>6. \A i \in 1..L : ch[i] \in S
    BY <1>5
  <1> HIDE DEF L
  <1>7. k \in I
    <2>1. I \in SUBSET Nat
      BY <1>5
    <2> HIDE DEF I
    <2> QED
      BY <2>1, <1>3, Min0Is
  <1> HIDE DEF k
  <1>8. k \in 2..L /\ k - 1 \in 1..L /\ k \in Nat /\ k # 0 /\ HasCatch(c, ch[k])
    BY <1>5, <1>7
  <1>9. /\ q \in Seq(S) /\ Len(q) = k - 1
        /\ \A i \in 1..(k - 1) : q[i] = ch[i]
        /\ ToSet(q) = {ch[i] : i \in 1..(k - 1)}
    <2>1. k - 1 \in 0..Len(ch)
      BY <1>8 DEF L
    <2> QED
      BY <2>1, <1>2, <1>5, <1>8, PrefixIs
  <1>10. DOMAIN q = 1..(k - 1) /\ \A i \in 1..(k - 1) : i \in 1..L
    BY <1>5, <1>8, <1>9
  <1>11. Sorted(q, Different)
    <2>1. ASSUME NEW i \in 1..(k - 1), NEW j \in 1..(k - 1), i < j
          PROVE  <<q[i], q[j]>> \in Different
      <3>1. rank[ch[j]] < rank[ch[i]] /\ ch[i] \in S /\ ch[j] \in S
        BY <2>1, <1>4, <1>6, <1>10
      <3>2. rank[ch[i]] \in Nat /\ ch[i] \in Task /\ ch[j] \in Task
        BY <3>1 DEF Falls
      <3>3. ch[i] # ch[j]
        BY <3>1, <3>2
      <3> QED
        BY <3>2, <3>3, <1>9 DEF Different
    <2> QED
      BY <2>1, <1>10 DEF Sorted
  <1>12. t \in ToSet(q) /\ h \in ToSet(q) /\ Last(q) = h
    <2>1. 1 \in 1..(k - 1) /\ k - 1 \in 1..(k - 1)
      BY <1>8
    <2>2. Last(q) = q[k - 1]
      BY <1>9 DEF Last
    <2> QED
      BY <2>1, <2>2, <1>5, <1>9
  <1>13. c.caller[h] = ch[k] /\ ch[k] \in S
    <2>1. k \in 1..L
      BY <1>8
    <2> QED
      BY <2>1, <1>5, <1>6, <1>8
  <1>14. ASSUME NEW u \in ToSet(q)
         PROVE  /\ u = h \/ c.caller[u] \in ToSet(q)
                /\ u = t \/ \E w \in ToSet(q) : c.caller[w] = u
                /\ u = h \/ rank[h] < rank[u]
    <2>1. PICK i \in 1..(k - 1) : u = ch[i]
      BY <1>9
    <2>2. u = h \/ (c.caller[u] \in ToSet(q) /\ rank[h] < rank[u])
      <3>1. SUFFICES ASSUME i # k - 1 PROVE c.caller[u] \in ToSet(q) /\ rank[h] < rank[u]
        BY <2>1
      <3>2. i + 1 \in 1..(k - 1) /\ i + 1 \in 2..L /\ (i + 1) - 1 = i /\ i < k - 1 /\ i \in 1..L
        BY <3>1, <1>8, <1>10
      <3>3. ch[i + 1] = c.caller[u]
        BY <3>2, <2>1, <1>5
      <3>4. ch[i + 1] \in ToSet(q)
        BY <3>2, <1>9
      <3> QED
        BY <3>2, <3>3, <3>4, <2>1, <1>4, <1>8
    <2>3. u = t \/ \E w \in ToSet(q) : c.caller[w] = u
      <3>1. SUFFICES ASSUME i # 1 PROVE \E w \in ToSet(q) : c.caller[w] = u
        BY <2>1, <1>5
      <3>2. i - 1 \in 1..(k - 1) /\ i \in 2..L
        BY <3>1, <1>8, <1>10
      <3>3. ch[i - 1] \in ToSet(q) /\ c.caller[ch[i - 1]] = u
        BY <3>2, <2>1, <1>5, <1>9
      <3> QED
        BY <3>3
    <2> QED
      BY <2>2, <2>3
  <1> HIDE DEF h
  <1>15. \A i \in 2..Len(q) : q[i] = c.caller[q[i - 1]]
    <2>1. ASSUME NEW i \in 2..(k - 1) PROVE q[i] = c.caller[q[i - 1]]
      <3>1. i \in 2..L /\ i \in 1..(k - 1) /\ i - 1 \in 1..(k - 1)
        BY <1>8, <1>10
      <3> QED
        BY <3>1, <1>5, <1>9
    <2> QED
      BY <2>1, <1>9
  <1>16. IsPath(c, t, q, h, S, rank)
    BY <1>8, <1>9, <1>11, <1>12, <1>13, <1>14, <1>15 DEF IsPath
  <1> QED
    BY <1>16 DEF q
----------------------------------------------------------------------------
(* Each task of o is to resume the one before it, the first one tail. *)
Chained(caller, o, tail) ==
    \A i \in 1..Len(o) : caller[o[i]] = IF i = 1 THEN tail ELSE o[i - 1]

(* The callers that Serialize makes. *)
Relinked(c, o, tail, linked, caller) ==
    /\ linked = {i \in DOMAIN o : (IF i = 1 THEN tail ELSE o[i - 1]) # NULL}
    /\ caller = [t \in Task |->
                    IF \E i \in linked : o[i] = t
                    THEN LET i == CHOOSE i \in linked : o[i] = t
                         IN  IF i = 1 THEN tail ELSE o[i - 1]
                    ELSE c.caller[t]]

(* zm_serializeImplosion chains the tasks of o, and nothing else. *)
LEMMA SerializeIs ==
    ASSUME NEW c, c.caller \in [Task -> Task \cup {NULL}], NEW o \in Seq(Task),
           Sorted(o, Different), o # <<>>, NEW tail \in Task \cup {NULL},
           tail # NULL \/ c.caller[o[1]] = NULL,
           NEW caller, NEW linked,
           Relinked(c, o, tail, linked, caller)
    PROVE  /\ caller \in [Task -> Task \cup {NULL}]
           /\ Chained(caller, o, tail)
           /\ \A t \in Task \ ToSet(o) : caller[t] = c.caller[t]
           /\ \A i \in linked : o[i] \in ToSet(o)
  <1>0. /\ linked = {i \in DOMAIN o : (IF i = 1 THEN tail ELSE o[i - 1]) # NULL}
        /\ caller = [t \in Task |->
                    IF \E i \in linked : o[i] = t
                    THEN LET i == CHOOSE i \in linked : o[i] = t
                         IN  IF i = 1 THEN tail ELSE o[i - 1]
                    ELSE c.caller[t]]
    BY DEF Relinked
  <1> DEFINE L == Len(o)
  <1>1. L \in Nat /\ L >= 1 /\ DOMAIN o = 1..L /\ \A i \in 1..L : o[i] \in Task
    <2>1. L \in Nat /\ DOMAIN o = 1..L /\ \A i \in 1..L : o[i] \in Task
      OBVIOUS
    <2>2. L # 0
      OBVIOUS
    <2> QED
      BY <2>1, <2>2
  <1> HIDE DEF L
  <1>2. ASSUME NEW i \in 1..L, NEW j \in 1..L, o[i] = o[j] PROVE i = j
    <2>1. ~(i < j) /\ ~(j < i)
      BY <1>1, <1>2 DEF Sorted, Different
    <2> QED
      BY <1>0, <2>1
  <1>3. ASSUME NEW i \in 1..L PROVE (IF i = 1 THEN tail ELSE o[i - 1]) \in Task \cup {NULL}
    <2>1. i # 1 => i - 1 \in 1..L
      BY <1>1
    <2> QED
      BY <2>1, <1>1
  <1>4. \A i \in linked : i \in 1..L
    BY <1>0, <1>1
  <1>5. ASSUME NEW i \in 1..L PROVE caller[o[i]] = IF i = 1 THEN tail ELSE o[i - 1]
    <2>1. CASE i \in linked
      <3>1. (CHOOSE j \in linked : o[j] = o[i]) = i
        BY <2>1, <1>2, <1>4
      <3> QED
        BY <1>0, <2>1, <3>1, <1>1
    <2>2. CASE i \notin linked
      <3>1. (IF i = 1 THEN tail ELSE o[i - 1]) = NULL
        BY <1>0, <2>2, <1>1
      <3>2. i = 1 /\ tail = NULL
        <4>1. i # 1 => i - 1 \in 1..L
          BY <1>1
        <4> QED
          BY <4>1, <3>1, <1>1, TaskAssumption
      <3>3. ~\E j \in linked : o[j] = o[i]
        BY <2>2, <1>2, <1>4
      <3>4. caller[o[i]] = c.caller[o[i]]
        BY <1>0, <3>3, <1>1
      <3> QED
        BY <3>2, <3>4
    <2> QED
      BY <2>1, <2>2
  <1>6. ASSUME NEW t \in Task PROVE caller[t] \in Task \cup {NULL}
    <2>1. CASE \E i \in linked : o[i] = t
      <3>1. PICK i \in linked : o[i] = t
        BY <2>1
      <3>2. caller[t] = IF i = 1 THEN tail ELSE o[i - 1]
        BY <3>1, <1>4, <1>5
      <3> QED
        BY <3>2, <1>3, <1>4
    <2>2. CASE ~\E i \in linked : o[i] = t
      BY <1>0, <2>2
    <2> QED
      BY <2>1, <2>2
  <1>7. ASSUME NEW t \in Task \ ToSet(o) PROVE caller[t] = c.caller[t]
    <2>1. ~\E i \in linked : o[i] = t
      BY <1>1, <1>4 DEF ToSet
    <2> QED
      BY <1>0, <2>1
  <1>8. \A i \in linked : o[i] \in ToSet(o)
    BY <1>1, <1>4 DEF ToSet
  <1>9. caller \in [Task -> Task \cup {NULL}]
    BY <1>0, <1>6
  <1> QED
    BY <1>5, <1>7, <1>8, <1>9 DEF Chained, L

(* zm_closeVM aborts the tasks of q one after the other. *)
LEMMA AbortAllIs ==
    ASSUME NEW V, NEW c \in V, NEW q \in Seq(Task),
           \A x \in V, i \in 1..Len(q) : AbortTask(x, q[i]) \in V
    PROVE  \E f \in [0..Len(q) -> V] :
              /\ f[0] = c /\ AbortAll(c, q) = f[Len(q)]
              /\ \A n \in 1..Len(q) : f[n] = AbortTask(f[n - 1], q[n])
  <1> DEFINE L == Len(q)
             step == [p \in Nat \X V |-> IF p[1] \in 1..L THEN AbortTask(p[2], q[p[1]]) ELSE p[2]]
             body(n, g) == IF n = 0 THEN c ELSE AbortTask(g[n - 1], q[n])
  <1>1. L \in Nat
    OBVIOUS
  <1>2. ASSUME NEW n \in Nat, NEW y \in V
        PROVE  /\ n \in 1..L => step[<<n, y>>] = AbortTask(y, q[n])
               /\ step[<<n, y>>] \in V
    <2>1. step[<<n, y>>] = IF n \in 1..L THEN AbortTask(y, q[n]) ELSE y
      OBVIOUS
    <2> HIDE DEF step
    <2> QED
      BY <2>1
  <1>3. step \in [Nat \X V -> V]
    <2>1. ASSUME NEW p \in Nat \X V PROVE step[p] \in V
      <3>1. p = <<p[1], p[2]>> /\ p[1] \in Nat /\ p[2] \in V
        OBVIOUS
      <3> HIDE DEF step
      <3> QED
        BY <3>1, <1>2
    <2>2. step = [p \in Nat \X V |-> step[p]]
      OBVIOUS
    <2> HIDE DEF step
    <2> QED
      BY <2>1, <2>2
  <1> HIDE DEF step
  <1>4. PICK f : Recursive(f, V, c, step)
    BY <1>3, Recursion
  <1>5. f \in [Nat -> V] /\ f[0] = c /\ \A n \in Nat \ {0} : f[n] = step[<<n, f[n - 1]>>]
    BY <1>4 DEF Recursive
  <1> HIDE DEF L
  <1>6. ASSUME NEW n \in 1..L PROVE f[n] = AbortTask(f[n - 1], q[n])
    <2>1. n \in Nat \ {0} /\ n - 1 \in Nat
      BY <1>1
    <2>2. f[n] = step[<<n, f[n - 1]>>] /\ f[n - 1] \in V
      BY <2>1, <1>5
    <2> QED
      BY <2>1, <2>2, <1>2
  <1> DEFINE h == [n \in 0..L |-> f[n]]
  <1>7. h \in [0..L -> V] /\ h[0] = c /\ \A n \in 1..L : h[n] = AbortTask(h[n - 1], q[n])
    <2>1. h \in [0..L -> V] /\ h[0] = c
      BY <1>1, <1>5
    <2>2. ASSUME NEW n \in 1..L PROVE h[n] = AbortTask(h[n - 1], q[n])
      <3>1. n \in 0..L /\ n - 1 \in 0..L
        BY <1>1
      <3> QED
        BY <3>1, <1>6
    <2> QED
      BY <2>1, <2>2
  <1> HIDE DEF h
  <1>8. \A n \in 0..L : h[n] = body(n, h)
    <2>1. ASSUME NEW n \in 0..L PROVE h[n] = body(n, h)
      <3>1. CASE n = 0
        BY <3>1, <1>7
      <3>2. CASE n # 0
        <4>1. n \in 1..L
          BY <3>2, <1>1
        <4> QED
          BY <3>2, <4>1, <1>7
      <3> QED
        BY <3>1, <3>2
    <2> QED
      BY <2>1
  <1>9. h = [n \in 0..L |-> body(n, h)]
    <2> HIDE DEF body
    <2> QED
      BY <1>7, <1>8
  <1> DEFINE F == CHOOSE F : F = [n \in 0..L |-> body(n, F)]
  <1>10. F = [n \in 0..L |-> body(n, F)]
    BY <1>9
  <1>11. AbortAll(c, q) = F[L]
    BY DEF AbortAll, L
  <1> HIDE DEF F
  <1>12. \A n \in 0..L : F[n] = body(n, F)
    <2> HIDE DEF body
    <2> QED
      BY <1>10
  <1> DEFINE T == {n \in Nat : n \in 0..L => F[n] = h[n]}
  <1>13. 0 \in T
    <2>1. 0 \in 0..L
      BY <1>1
    <2> QED
      BY <2>1, <1>8, <1>12
  <1>14. ASSUME NEW n \in Nat \ {0}, n - 1 \in T PROVE n \in T
    <2>1. SUFFICES ASSUME n \in 0..L PROVE F[n] = h[n]
      OBVIOUS
    <2>2. n - 1 \in 0..L /\ n # 0
      BY <2>1, <1>1
    <2>3. F[n - 1] = h[n - 1]
      BY <2>2, <1>14
    <2>4. F[n] = AbortTask(F[n - 1], q[n]) /\ h[n] = AbortTask(h[n - 1], q[n])
      BY <2>1, <2>2, <1>8, <1>12
    <2> QED
      BY <2>3, <2>4
  <1>15. F[L] = h[L]
    <2>1. L \in T
      <3> HIDE DEF T
      <3> QED
        BY <1>1, <1>13, <1>14, InductionDown
    <2>2. L \in 0..L
      BY <1>1
    <2> QED
      BY <2>1, <2>2
  <1>16. h \in [0..L -> V] /\ h[0] = c /\ AbortAll(c, q) = h[L] /\ \A n \in 1..L : h[n] = AbortTask(h[n - 1], q[n])
    BY <1>7, <1>11, <1>15
  <1> QED
    BY <1>16 DEF L

----------------------------------------------------------------------------
(* Changes of a good tree that close nothing.                              *)

(* e is c but for who runs, who waits, who calls and the exceptions. *)
Same(c, e) ==
    /\ e.pmode = c.pmode /\ e.parent = c.parent /\ e.ring = c.ring
    /\ e.autofree = c.autofree /\ e.mark = c.mark /\ e.start = c.start

(* Such trees have the same tasks in each mode, *)
LEMMA SameSets ==
    ASSUME NEW c, NEW e, Same(c, e)
    PROVE  /\ Live(e) = Live(c) /\ Locked(e) = Locked(c) /\ Normal(e) = Normal(c)
           /\ Closing(e) = Closing(c)
  BY DEF Same, Live, Locked, Normal, Closing

(* and the same branches. *)
LEMMA SameTree ==
    ASSUME NEW c, NEW e, Same(c, e), NEW d, NEW r, NEW N
    PROVE  (Tree(c, d) => Tree(e, d)) /\ (RootOK(c, d, r, N) => RootOK(e, d, r, N))
  BY SameSets DEF Same, Tree, RootOK

(* A suspended ptask is resumed. *)
LEMMA ResumeKeeps ==
    ASSUME NEW c, NEW d, NEW r, NEW b, NEW p, NEW N, Inv(c, d, r, b, p, N),
           NEW s \in Normal(c), c.parent[s] = NULL, s \notin Active(c),
           NEW e \in Trees, Same(c, e), e.run = c.run \cup {s}, e.waiting = c.waiting,
           e.bound = c.bound, e.caller = c.caller, e.exc = c.exc, e.catch = c.catch
    PROVE  Inv(e, d, r, b, p, N)
  <1>1. /\ c \in Trees /\ N \in Nat /\ Tree(c, d) /\ RootOK(c, d, r, N) /\ GoneOK(c) /\ RunOK(c, r)
        /\ CallOK(c, r)
        /\ WakeOK(c) /\ BlockOK(c, r, b) /\ ExcOK(c, r) /\ CloseOK(c, r, p, N) /\ StartOK(c, r)
    BY DEF Inv
  <1>2. /\ Live(e) = Live(c) /\ Locked(e) = Locked(c) /\ Normal(e) = Normal(c)
        /\ Closing(e) = Closing(c)
    BY SameSets
  <1>3. Heads(e) = Heads(c) /\ Pending(e) = Pending(c) /\ Active(e) = Active(c) \cup {s}
    BY <1>2 DEF Heads, Pending, Active
  <1>4. s \in Task /\ s \in Live(c) /\ s \notin Closing(c) /\ r[s] = s /\ c.pmode[s] = "NORMAL"
    BY <1>1 DEF Normal, Live, RootOK, Closing
  <1>5. Tokens(e) = Tokens(c) \cup {s}
    BY <1>2, <1>4 DEF Tokens
  <1>6. \A t \in Tokens(c) \cup Closing(c) : r[t] # s
    BY <1>1, <1>4 DEF RunOK
  <1>100. Tree(e, d)
    BY <1>1, SameTree
  <1>101. RootOK(e, d, r, N)
    BY <1>1, SameTree
  <1>102. GoneOK(e)
    BY <1>1, <1>2, <1>4 DEF GoneOK, Same
  <1>103. RunOK(e, r)
    BY <1>1, <1>2, <1>3, <1>4, <1>5, <1>6 DEF RunOK, Active
  <1>104. CallOK(e, r)
    BY <1>1, <1>2, <1>3, <1>4 DEF CallOK, Active, Same
  <1>105. WakeOK(e)
    BY <1>1, <1>2, <1>3, <1>4 DEF WakeOK, Same
  <1>106. BlockOK(e, r, b)
    BY <1>1, <1>2, <1>3, <1>4 DEF BlockOK, Same
  <1>107. ExcOK(e, r)
    BY <1>1, <1>2, <1>3, <1>4 DEF ExcOK, Same
  <1>108. CloseOK(e, r, p, N)
    BY <1>1, <1>2, <1>4, <1>5, <1>6 DEF CloseOK, Same
  <1>109. StartOK(e, r)
    BY <1>1, <1>2, <1>4 DEF StartOK, Same
  <1> QED
    BY <1>1, <1>100, <1>101, <1>102, <1>103, <1>104, <1>105, <1>106, <1>107, <1>108, <1>109 DEF Inv

(* A task that listens to an event is resumed. *)
LEMMA UnbindKeeps ==
    ASSUME NEW c, NEW d, NEW r, NEW b, NEW p, NEW N, Inv(c, d, r, b, p, N),
           NEW s \in c.bound,
           NEW e \in Trees, Same(c, e), e.run = c.run \cup {s}, e.waiting = c.waiting \ {s},
           e.bound = c.bound \ {s}, e.caller = c.caller, e.exc = c.exc, e.catch = c.catch
    PROVE  Inv(e, d, r, b, p, N)
  <1>1. /\ c \in Trees /\ N \in Nat /\ Tree(c, d) /\ RootOK(c, d, r, N) /\ GoneOK(c) /\ RunOK(c, r)
        /\ CallOK(c, r)
        /\ WakeOK(c) /\ BlockOK(c, r, b) /\ ExcOK(c, r) /\ CloseOK(c, r, p, N) /\ StartOK(c, r)
    BY DEF Inv
  <1>2. /\ Live(e) = Live(c) /\ Locked(e) = Locked(c) /\ Normal(e) = Normal(c)
        /\ Closing(e) = Closing(c)
    BY SameSets
  <1>3. Heads(e) = Heads(c) /\ Pending(e) = Pending(c)
    BY <1>2 DEF Heads, Pending
  <1>4. /\ s \in Task /\ s \in Live(c) /\ s \in Normal(c) /\ s \notin Closing(c) /\ s \in c.waiting
        /\ s \notin c.run /\ c.pmode[s] = "NORMAL"
    BY <1>1 DEF Normal, Live, RunOK, Closing
  <1>5. Tokens(e) = Tokens(c)
    BY <1>2, <1>4 DEF Tokens
  <1>6. Active(e) = Active(c)
    BY <1>4 DEF Active
  <1>100. Tree(e, d)
    BY <1>1, SameTree
  <1>101. RootOK(e, d, r, N)
    BY <1>1, SameTree
  <1>102. GoneOK(e)
    BY <1>1, <1>2, <1>4 DEF GoneOK, Same
  <1>103. RunOK(e, r)
    BY <1>1, <1>2, <1>3, <1>4, <1>5, <1>6 DEF RunOK
  <1>104. CallOK(e, r)
    BY <1>1, <1>2, <1>3, <1>4, <1>6, TaskAssumption DEF CallOK, Same
  <1>105. WakeOK(e)
    BY <1>1, <1>2, <1>3, <1>4 DEF WakeOK, Same
  <1>106. BlockOK(e, r, b)
    BY <1>1, <1>2, <1>3, <1>4 DEF BlockOK, Same
  <1>107. ExcOK(e, r)
    BY <1>1, <1>2, <1>3, <1>4 DEF ExcOK, Same
  <1>108. CloseOK(e, r, p, N)
    BY <1>1, <1>2, <1>4, <1>5, <1>6 DEF CloseOK, Same
  <1>109. StartOK(e, r)
    BY <1>1, <1>2, <1>4 DEF StartOK, Same
  <1> QED
    BY <1>1, <1>100, <1>101, <1>102, <1>103, <1>104, <1>105, <1>106, <1>107, <1>108, <1>109 DEF Inv

(* A ptask suspends itself. *)
LEMMA SuspendKeeps ==
    ASSUME NEW c, NEW d, NEW r, NEW b, NEW p, NEW N, Inv(c, d, r, b, p, N),
           NEW t \in Normal(c), t \in c.run, c.parent[t] = NULL, t \notin Pending(c),
           NEW e \in Trees, Same(c, e), e.run = c.run \ {t}, e.waiting = c.waiting,
           e.bound = c.bound, e.caller = c.caller, e.exc = c.exc, e.catch = c.catch
    PROVE  Inv(e, d, r, b, p, N)
  <1>1. /\ c \in Trees /\ N \in Nat /\ Tree(c, d) /\ RootOK(c, d, r, N) /\ GoneOK(c) /\ RunOK(c, r)
        /\ CallOK(c, r)
        /\ WakeOK(c) /\ BlockOK(c, r, b) /\ ExcOK(c, r) /\ CloseOK(c, r, p, N) /\ StartOK(c, r)
    BY DEF Inv
  <1>2. /\ Live(e) = Live(c) /\ Locked(e) = Locked(c) /\ Normal(e) = Normal(c)
        /\ Closing(e) = Closing(c)
    BY SameSets
  <1>3. Heads(e) = Heads(c) /\ Pending(e) = Pending(c)
    BY <1>2 DEF Heads, Pending
  <1>4. /\ t \in Task /\ t \in Live(c) /\ t \notin Closing(c) /\ c.pmode[t] = "NORMAL"
        /\ t \notin c.waiting /\ t \notin c.bound /\ t \in Tokens(c) /\ t \in Active(c)
        /\ b[t] = NULL
    BY <1>1 DEF Normal, Live, RunOK, Closing, Tokens, Active, BlockOK
  <1>5. Tokens(e) = Tokens(c) \ {t}
    BY <1>2, <1>4 DEF Tokens
  <1>6. Active(e) = Active(c) \ {t} /\ r[t] = t
    BY <1>1, <1>4 DEF Active, RootOK
  <1>7. \A u \in Tokens(e) \cup Closing(c) : r[u] # t
    BY <1>1, <1>4, <1>5, <1>6 DEF RunOK, CloseOK
  <1>8. c.caller[t] = NULL /\ t \notin Heads(c)
    BY <1>1, <1>4, <1>6 DEF CallOK, BlockOK
  <1>100. Tree(e, d)
    BY <1>1, SameTree
  <1>101. RootOK(e, d, r, N)
    BY <1>1, SameTree
  <1>102. GoneOK(e)
    BY <1>1, <1>2, <1>4 DEF GoneOK, Same
  <1>103. RunOK(e, r)
    BY <1>1, <1>2, <1>3, <1>4, <1>5, <1>6, <1>7 DEF RunOK
  <1>104. CallOK(e, r)
    BY <1>1, <1>2, <1>3, <1>4, <1>6, <1>8 DEF CallOK, Same
  <1>105. WakeOK(e)
    BY <1>1, <1>2, <1>3, <1>4 DEF WakeOK, Same
  <1>106. BlockOK(e, r, b)
    BY <1>1, <1>2, <1>3, <1>4 DEF BlockOK, Same
  <1>107. ExcOK(e, r)
    BY <1>1, <1>2, <1>3, <1>4 DEF ExcOK, Same
  <1>108. CloseOK(e, r, p, N)
    BY <1>1, <1>2, <1>4, <1>5, <1>6 DEF CloseOK, Same
  <1>109. StartOK(e, r)
    BY <1>1, <1>2, <1>4 DEF StartOK, Same
  <1> QED
    BY <1>1, <1>100, <1>101, <1>102, <1>103, <1>104, <1>105, <1>106, <1>107, <1>108, <1>109 DEF Inv

(* A task listens to an event. *)
LEMMA ListenKeeps ==
    ASSUME NEW c, NEW d, NEW r, NEW b, NEW p, NEW N, Inv(c, d, r, b, p, N),
           NEW t \in Normal(c), t \in c.run, t \notin Pending(c),
           NEW e \in Trees, Same(c, e), e.run = c.run \ {t}, e.waiting = c.waiting \cup {t},
           e.bound = c.bound \cup {t}, e.caller = c.caller, e.exc = c.exc, e.catch = c.catch
    PROVE  Inv(e, d, r, b, p, N)
  <1>1. /\ c \in Trees /\ N \in Nat /\ Tree(c, d) /\ RootOK(c, d, r, N) /\ GoneOK(c) /\ RunOK(c, r)
        /\ CallOK(c, r)
        /\ WakeOK(c) /\ BlockOK(c, r, b) /\ ExcOK(c, r) /\ CloseOK(c, r, p, N) /\ StartOK(c, r)
    BY DEF Inv
  <1>2. /\ Live(e) = Live(c) /\ Locked(e) = Locked(c) /\ Normal(e) = Normal(c)
        /\ Closing(e) = Closing(c)
    BY SameSets
  <1>3. Heads(e) = Heads(c) /\ Pending(e) = Pending(c)
    BY <1>2 DEF Heads, Pending
  <1>4. /\ t \in Task /\ t \in Live(c) /\ t \notin Closing(c) /\ c.pmode[t] = "NORMAL"
        /\ t \notin c.waiting /\ t \notin c.bound /\ t \in Tokens(c) /\ t \in Active(c)
        /\ b[t] = NULL
    BY <1>1 DEF Normal, Live, RunOK, Closing, Tokens, Active, BlockOK
  <1>5. Tokens(e) = Tokens(c)
    BY <1>2, <1>4 DEF Tokens
  <1>6. Active(e) = Active(c)
    BY <1>1, <1>4 DEF Active
  <1>7. \A u \in Live(c) : c.caller[u] # t
    BY <1>1, <1>4 DEF CallOK, Normal
  <1>100. Tree(e, d)
    BY <1>1, SameTree
  <1>101. RootOK(e, d, r, N)
    BY <1>1, SameTree
  <1>102. GoneOK(e)
    BY <1>1, <1>2, <1>4 DEF GoneOK, Same
  <1>103. RunOK(e, r)
    BY <1>1, <1>2, <1>3, <1>4, <1>5, <1>6 DEF RunOK
  <1>104. CallOK(e, r)
    BY <1>1, <1>2, <1>3, <1>4, <1>6, <1>7 DEF CallOK, Same
  <1>105. WakeOK(e)
    BY <1>1, <1>2, <1>3, <1>4 DEF WakeOK, Same
  <1>106. BlockOK(e, r, b)
    BY <1>1, <1>2, <1>3, <1>4 DEF BlockOK, Same
  <1>107. ExcOK(e, r)
    BY <1>1, <1>2, <1>3, <1>4 DEF ExcOK, Same
  <1>108. CloseOK(e, r, p, N)
    BY <1>1, <1>2, <1>4, <1>5, <1>6 DEF CloseOK, Same
  <1>109. StartOK(e, r)
    BY <1>1, <1>2, <1>4 DEF StartOK, Same
  <1> QED
    BY <1>1, <1>100, <1>101, <1>102, <1>103, <1>104, <1>105, <1>106, <1>107, <1>108, <1>109 DEF Inv

(* A subtask gives control back to its caller v. *)
LEMMA YieldKeeps ==
    ASSUME NEW c, NEW d, NEW r, NEW b, NEW p, NEW N, Inv(c, d, r, b, p, N),
           NEW t \in Normal(c), t \in c.run, c.parent[t] # NULL, t \notin Pending(c),
           NEW v, v = c.caller[t],
           NEW e \in Trees, Same(c, e), e.run = (c.run \ {t}) \cup {v}, e.waiting = c.waiting \ {v},
           e.bound = c.bound, e.caller = [c.caller EXCEPT ![t] = NULL], e.exc = c.exc,
           e.catch = c.catch
    PROVE  Inv(e, d, r, b, p, N)
  <1>1. /\ c \in Trees /\ N \in Nat /\ Tree(c, d) /\ RootOK(c, d, r, N) /\ GoneOK(c) /\ RunOK(c, r)
        /\ CallOK(c, r)
        /\ WakeOK(c) /\ BlockOK(c, r, b) /\ ExcOK(c, r) /\ CloseOK(c, r, p, N) /\ StartOK(c, r)
    BY DEF Inv
  <1>2. /\ Live(e) = Live(c) /\ Locked(e) = Locked(c) /\ Normal(e) = Normal(c)
        /\ Closing(e) = Closing(c)
    BY SameSets
  <1>3. Heads(e) = Heads(c) /\ Pending(e) = Pending(c)
    BY <1>2 DEF Heads, Pending
  <1>4. /\ t \in Task /\ t \in Live(c) /\ t \notin Closing(c) /\ c.pmode[t] = "NORMAL"
        /\ t \notin c.waiting /\ t \notin c.bound /\ t \in Tokens(c) /\ t \in Active(c)
        /\ b[t] = NULL
    BY <1>1 DEF Normal, Live, RunOK, Closing, Tokens, Active, BlockOK
  <1>5. \A u \in Live(c) : c.caller[u] # t
    BY <1>1, <1>4 DEF CallOK, Normal
  <1>6. t \notin Heads(c)
    BY <1>1, <1>4, TaskAssumption DEF BlockOK
  <1>7. v = c.parent[t] /\ v \in Live(c) /\ v \notin c.bound /\ r[v] = r[t]
    BY <1>1, <1>4, <1>6 DEF CallOK
  <1>8. v \in Task /\ v \in Normal(c)
    BY <1>1, <1>4, <1>7 DEF RootOK, Normal, Live, Closing
  <1>9. v \in c.waiting /\ v \notin c.run /\ b[v] = NULL /\ v \notin Heads(c) /\ v # t
    BY <1>1, <1>4, <1>8, TaskAssumption DEF CallOK, RunOK, BlockOK
  <1>10. Tokens(e) = (Tokens(c) \ {t}) \cup {v} /\ v \notin Closing(c)
    BY <1>2, <1>4, <1>7, <1>8 DEF Tokens, Normal, Closing
  <1>11. Active(e) = Active(c) \ {t}
    BY <1>1, <1>4, <1>9 DEF Active
  <1>12. \A u \in Task : e.caller[u] = IF u = t THEN NULL ELSE c.caller[u]
    BY <1>1 DEF Trees
  <1>13. \A u \in Live(c) : c.caller[u] = v => u = t
    BY <1>1, <1>4, <1>8, TaskAssumption DEF CallOK
  <1>14. Live(c) \subseteq Task /\ NULL \notin Task
    BY TaskAssumption DEF Live
  <1>100. Tree(e, d)
    BY <1>1, SameTree
  <1>101. RootOK(e, d, r, N)
    BY <1>1, SameTree
  <1>102. GoneOK(e)
    BY <1>1, <1>2, <1>4, <1>8, <1>12 DEF GoneOK, Same, Normal
  <1>103. RunOK(e, r)
    <2>1. e.run \cap e.waiting = {} /\ e.bound \subseteq e.waiting \cap Normal(e)
      BY <1>1, <1>2, <1>4, <1>7 DEF RunOK
    <2>2. \A u, w \in Tokens(e) : r[u] = r[w] => u = w
      BY <1>1, <1>4, <1>7, <1>10 DEF RunOK
    <2>3. \A u \in Tokens(c) \cup Closing(c) : r[u] # t
      BY <1>1 DEF RootOK, Tokens, Closing, Live, RunOK, Normal
    <2>4. \A u \in Tokens(e) \cup Closing(e) : r[u] \in Closing(e) \cup Active(e)
      BY <2>3, <1>1, <1>2, <1>4, <1>7, <1>10, <1>11 DEF RunOK
    <2> QED
      BY <2>1, <2>2, <2>4 DEF RunOK
  <1>104. CallOK(e, r)
    <2>1. \A u \in Live(e) : e.caller[u] # NULL =>
             e.caller[u] \in Live(e) \ e.bound /\ r[e.caller[u]] = r[u]
      BY <1>1, <1>2, <1>12, <1>14 DEF CallOK
    <2>2. \A u \in Live(e) : e.caller[u] \in Normal(e) => e.caller[u] \in e.waiting
      BY <1>1, <1>2, <1>12, <1>13, <1>14 DEF CallOK, Normal
    <2>3. \A u \in Live(e) : e.caller[u] \in e.run => e.pmode[e.caller[u]] = "ASYNC"
      <3>1. e.pmode = c.pmode
        BY DEF Same
      <3>2. NULL \notin c.run
        BY <1>1, TaskAssumption DEF Trees
      <3> QED
        BY <3>1, <3>2, <1>1, <1>2, <1>8, <1>12, <1>13, <1>14 DEF CallOK
    <2>4. \A w, u \in Live(e) : e.caller[w] = e.caller[u] /\ e.caller[w] # NULL => w = u
      BY <1>1, <1>2, <1>12, <1>14 DEF CallOK
    <2>5. \A u \in Normal(e) : e.caller[u] = IF u \in Active(e) \ Heads(e) THEN e.parent[u] ELSE NULL
      BY <1>1, <1>2, <1>3, <1>4, <1>6, <1>11, <1>12, <1>14 DEF CallOK, Same, Normal
    <2> QED
      BY <2>1, <2>2, <2>3, <2>4, <2>5 DEF CallOK
  <1>105. WakeOK(e)
    <2>1. ASSUME NEW x \in (e.waiting \cup Closing(e)) \ (e.run \cup e.bound)
          PROVE  x \in (c.waiting \cup Closing(c)) \ (c.run \cup c.bound) /\ x # v
      BY <1>2, <1>4
    <2> QED
      BY <2>1, <1>1, <1>2, <1>3, <1>12, <1>14 DEF WakeOK, Same
  <1>106. BlockOK(e, r, b)
    BY <1>1, <1>2, <1>3, <1>4, <1>9, <1>12, <1>14 DEF BlockOK, Same, Normal
  <1>107. ExcOK(e, r)
    BY <1>1, <1>2, <1>3, <1>4, <1>8, <1>12, <1>14 DEF ExcOK, Same, Closing
  <1>108. CloseOK(e, r, p, N)
    BY <1>1, <1>2, <1>4, <1>7, <1>8, <1>9, <1>10, <1>12, <1>14 DEF CloseOK, Same, Closing
  <1>109. StartOK(e, r)
    BY <1>1, <1>2, <1>4, <1>8, <1>12, <1>14 DEF StartOK, Same, Normal, Closing
  <1> QED
    BY <1>1, <1>100, <1>101, <1>102, <1>103, <1>104, <1>105, <1>106, <1>107, <1>108, <1>109 DEF Inv

(* A task resumes its child s and waits. *)
LEMMA SubKeeps ==
    ASSUME NEW c, NEW d, NEW r, NEW b, NEW p, NEW N, Inv(c, d, r, b, p, N),
           NEW t \in Normal(c), t \in c.run, t \notin Pending(c),
           NEW s \in Normal(c), c.parent[s] = t, s \notin Active(c),
           NEW e \in Trees, Same(c, e), e.run = (c.run \cup {s}) \ {t},
           e.waiting = (c.waiting \ {s}) \cup {t},
           e.bound = c.bound, e.caller = [c.caller EXCEPT ![s] = t], e.exc = c.exc,
           e.catch = c.catch
    PROVE  Inv(e, d, r, b, p, N)
  <1>1. /\ c \in Trees /\ N \in Nat /\ Tree(c, d) /\ RootOK(c, d, r, N) /\ GoneOK(c) /\ RunOK(c, r)
        /\ CallOK(c, r)
        /\ WakeOK(c) /\ BlockOK(c, r, b) /\ ExcOK(c, r) /\ CloseOK(c, r, p, N) /\ StartOK(c, r)
    BY DEF Inv
  <1>2. /\ Live(e) = Live(c) /\ Locked(e) = Locked(c) /\ Normal(e) = Normal(c)
        /\ Closing(e) = Closing(c)
    BY SameSets
  <1>3. Heads(e) = Heads(c) /\ Pending(e) = Pending(c)
    BY <1>2 DEF Heads, Pending
  <1>4. /\ t \in Task /\ t \in Live(c) /\ t \notin Closing(c) /\ c.pmode[t] = "NORMAL"
        /\ t \notin c.waiting /\ t \notin c.bound /\ t \in Tokens(c) /\ t \in Active(c)
        /\ b[t] = NULL
    BY <1>1 DEF Normal, Live, RunOK, Closing, Tokens, Active, BlockOK
  <1>5. \A u \in Live(c) : c.caller[u] # t
    BY <1>1, <1>4 DEF CallOK, Normal
  <1>6. /\ Live(c) \subseteq Task /\ Normal(c) \subseteq Live(c) /\ Closing(c) \subseteq Live(c)
        /\ NULL \notin Task
    BY TaskAssumption DEF Live, Normal, Closing
  <1>7. /\ s \in Task /\ s \in Live(c) /\ s \notin Closing(c) /\ s # t /\ s \notin c.waiting
        /\ s \notin c.run /\ c.pmode[s] = "NORMAL"
    BY <1>4 DEF Normal, Live, Closing, Active
  <1>8. s \notin Heads(c) /\ b[s] = NULL /\ s \notin c.bound /\ c.caller[s] = NULL
    BY <1>1, <1>7, <1>6 DEF BlockOK, RunOK, CallOK, Active
  <1>9. r[s] = r[t]
    BY <1>1, <1>7, <1>4, <1>6 DEF RootOK
  <1>10. Tokens(e) = (Tokens(c) \ {t}) \cup {s}
    BY <1>2, <1>7, <1>4 DEF Tokens
  <1>11. Active(e) = Active(c) \cup {s}
    BY <1>4, <1>7 DEF Active
  <1>12. \A u \in Task : e.caller[u] = IF u = s THEN t ELSE c.caller[u]
    BY <1>1 DEF Trees
  <1>100. Tree(e, d)
    BY <1>1, SameTree
  <1>101. RootOK(e, d, r, N)
    BY <1>1, SameTree
  <1>102. GoneOK(e)
    BY <1>1, <1>2, <1>4, <1>7, <1>12 DEF GoneOK, Same, Normal
  <1>103. RunOK(e, r)
    BY <1>1, <1>2, <1>3, <1>4, <1>7, <1>8, <1>9, <1>10, <1>11 DEF RunOK
  <1>104. CallOK(e, r)
    <2>1. \A u \in Live(e) : e.caller[u] # NULL =>
             e.caller[u] \in Live(e) \ e.bound /\ r[e.caller[u]] = r[u]
      BY <1>1, <1>2, <1>12, <1>4, <1>6, <1>9 DEF CallOK
    <2>2. \A u \in Live(e) : e.caller[u] \in Normal(e) => e.caller[u] \in e.waiting
      BY <1>1, <1>2, <1>12, <1>6, <1>7 DEF CallOK
    <2>3. \A u \in Live(e) : e.caller[u] \in e.run => e.pmode[e.caller[u]] = "ASYNC"
      <3>1. e.pmode = c.pmode
        BY DEF Same
      <3> QED
        BY <3>1, <1>1, <1>2, <1>6, <1>7, <1>12 DEF CallOK
    <2>4. \A w, u \in Live(e) : e.caller[w] = e.caller[u] /\ e.caller[w] # NULL => w = u
      BY <1>1, <1>2, <1>12, <1>5, <1>6 DEF CallOK
    <2>5. \A u \in Normal(e) : e.caller[u] = IF u \in Active(e) \ Heads(e) THEN e.parent[u] ELSE NULL
      BY <1>1, <1>2, <1>3, <1>4, <1>6, <1>8, <1>11, <1>12 DEF CallOK, Same
    <2> QED
      BY <2>1, <2>2, <2>3, <2>4, <2>5 DEF CallOK
  <1>105. WakeOK(e)
    <2>1. ASSUME NEW x \in (e.waiting \cup Closing(e)) \ (e.run \cup e.bound), x # t
          PROVE  x \in (c.waiting \cup Closing(c)) \ (c.run \cup c.bound)
      BY <2>1, <1>2, <1>4
    <2>2. \A u \in Live(c) : c.caller[u] # NULL => e.caller[u] = c.caller[u]
      BY <1>8, <1>12, <1>6
    <2>4. NULL \notin c.waiting \cup Closing(c)
      BY <1>1, <1>6 DEF Trees
    <2> QED
      BY <2>1, <2>2, <2>4, <1>1, <1>2, <1>3, <1>7, <1>12 DEF WakeOK, Same
  <1>106. BlockOK(e, r, b)
    <2>1. \A u \in Task : b[u] # NULL =>
          /\ u \in (Normal(e) \cap e.waiting) \ e.bound
          /\ b[u] \in Heads(e)
          /\ r[u] = r[b[u]]
          /\ e.parent[u] # NULL
      BY <1>1, <1>2, <1>3, <1>7 DEF BlockOK, Same
    <2>2. \A h \in Heads(e) :
          /\ b[h] = h /\ e.exc[h].before = h
          /\ e.exc[h].raise \in Task /\ b[e.exc[h].raise] = h
          /\ \A u \in Live(e) : e.caller[u] # e.exc[h].raise
      BY <1>1, <1>2, <1>3, <1>4, <1>6, <1>12, SMTT(20) DEF BlockOK, Heads
    <2>3. \A u \in Live(e) : e.caller[u] \in Normal(e) =>
          b[e.caller[u]] = IF u \in Normal(e) THEN b[u] ELSE NULL
      BY <1>1, <1>2, <1>4, <1>6, <1>8, <1>12 DEF BlockOK
    <2> QED
      BY <2>1, <2>2, <2>3, <1>1 DEF BlockOK
  <1>107. ExcOK(e, r)
    BY <1>1, <1>2, <1>3, <1>4, <1>6, <1>7, <1>12 DEF ExcOK, Same
  <1>108. CloseOK(e, r, p, N)
    BY <1>1, <1>2, <1>4, <1>7, <1>9, <1>10, <1>12, <1>6 DEF CloseOK, Same
  <1>109. StartOK(e, r)
    BY <1>1, <1>2, <1>4, <1>12, <1>6, <1>8 DEF StartOK, Same
  <1> QED
    BY <1>1, <1>100, <1>101, <1>102, <1>103, <1>104, <1>105, <1>106, <1>107, <1>108, <1>109 DEF Inv

(* A task resumes the block that its child s heads, at the task q that     *)
(* raised.                                                                 *)
LEMMA UnraiseKeeps ==
    ASSUME NEW c, NEW d, NEW r, NEW b, NEW p, NEW N, Inv(c, d, r, b, p, N),
           NEW t \in Normal(c), t \in c.run, t \notin Pending(c),
           NEW s \in Heads(c), c.parent[s] = t,
           NEW q, q = c.exc[s].raise,
           NEW e \in Trees, Same(c, e), e.run = (c.run \cup {q}) \ {t},
           e.waiting = (c.waiting \ {q}) \cup {t},
           e.bound = c.bound, e.caller = [c.caller EXCEPT ![s] = t],
           e.exc = [c.exc EXCEPT ![s] = NoExc], e.catch = c.catch
    PROVE  \E nb : Inv(e, d, r, nb, p, N)
  <1>1. /\ c \in Trees /\ N \in Nat /\ Tree(c, d) /\ RootOK(c, d, r, N) /\ GoneOK(c) /\ RunOK(c, r)
        /\ CallOK(c, r)
        /\ WakeOK(c) /\ BlockOK(c, r, b) /\ ExcOK(c, r) /\ CloseOK(c, r, p, N) /\ StartOK(c, r)
    BY DEF Inv
  <1>2. /\ Live(e) = Live(c) /\ Locked(e) = Locked(c) /\ Normal(e) = Normal(c)
        /\ Closing(e) = Closing(c)
    BY SameSets
  <1> DEFINE nb == [u \in Task |-> IF b[u] = s THEN NULL ELSE b[u]]
  <1>3. \A u \in Task : e.exc[u] = IF u = s THEN NoExc ELSE c.exc[u]
    BY <1>1 DEF Trees
  <1>4. /\ t \in Task /\ t \in Live(c) /\ t \notin Closing(c) /\ c.pmode[t] = "NORMAL"
        /\ t \notin c.waiting /\ t \notin c.bound /\ t \in Tokens(c) /\ t \in Active(c)
        /\ b[t] = NULL
    BY <1>1 DEF Normal, Live, RunOK, Closing, Tokens, Active, BlockOK
  <1>5. \A u \in Live(c) : c.caller[u] # t
    BY <1>1, <1>4 DEF CallOK, Normal
  <1>6. /\ Live(c) \subseteq Task /\ Normal(c) \subseteq Live(c) /\ Closing(c) \subseteq Live(c)
        /\ NULL \notin Task
    BY TaskAssumption DEF Live, Normal, Closing
  <1>7. /\ s \in Task /\ s \in Live(c) /\ s \in Normal(c) /\ s \notin Closing(c) /\ s # t
        /\ b[s] = s /\ s # NULL
    BY <1>1, <1>4, <1>6 DEF Heads, Normal, Live, Closing, BlockOK
  <1>8. /\ q \in Task /\ b[q] = s /\ q \in Normal(c) /\ q \in c.waiting /\ q \notin c.bound /\ q # t
        /\ q \notin c.run /\ r[q] = r[s] /\ q # NULL
    BY <1>1, <1>4, <1>7, <1>6 DEF BlockOK, RunOK
  <1>9. r[s] = r[t] /\ \A u \in Live(c) : c.caller[u] # q
    BY <1>1, <1>7, <1>4, <1>6 DEF RootOK, BlockOK
  <1>10. Tokens(e) = (Tokens(c) \ {t}) \cup {q}
    BY <1>2, <1>8, <1>4, <1>6 DEF Tokens
  <1>11. Active(e) = Active(c)
    BY <1>4, <1>8 DEF Active
  <1>12. \A u \in Task : e.caller[u] = IF u = s THEN t ELSE c.caller[u]
    BY <1>1 DEF Trees
  <1>13. Heads(e) = Heads(c) \ {s} /\ Pending(e) = Pending(c)
    BY <1>2, <1>3, <1>6, <1>7 DEF Heads, Pending, NoExc
  <1>14. s \in c.waiting /\ c.caller[s] = NULL
    BY <1>1, <1>7 DEF BlockOK, CallOK
  <1>15. \A u \in Task : nb[u] = IF b[u] = s THEN NULL ELSE b[u]
    OBVIOUS
  <1>16. nb \in [Task -> Task \cup {NULL}]
    BY <1>1 DEF BlockOK
  <1> HIDE DEF nb
  <1>100. Tree(e, d)
    BY <1>1, SameTree
  <1>101. RootOK(e, d, r, N)
    BY <1>1, SameTree
  <1>102. GoneOK(e)
    BY <1>1, <1>2, <1>3, <1>4, <1>7, <1>8, <1>12 DEF GoneOK, Same, Normal
  <1>103. RunOK(e, r)
    BY <1>1, <1>2, <1>4, <1>7, <1>8, <1>9, <1>10, <1>11 DEF RunOK
  <1>104. CallOK(e, r)
    <2>1. \A u \in Live(e) : e.caller[u] # NULL =>
             e.caller[u] \in Live(e) \ e.bound /\ r[e.caller[u]] = r[u]
      BY <1>1, <1>2, <1>12, <1>4, <1>6, <1>9 DEF CallOK
    <2>2. \A u \in Live(e) : e.caller[u] \in Normal(e) => e.caller[u] \in e.waiting
      BY <1>1, <1>2, <1>12, <1>6, <1>9 DEF CallOK
    <2>3. \A u \in Live(e) : e.caller[u] \in e.run => e.pmode[e.caller[u]] = "ASYNC"
      <3>1. e.pmode = c.pmode
        BY DEF Same
      <3> QED
        BY <3>1, <1>1, <1>2, <1>6, <1>8, <1>9, <1>12 DEF CallOK
    <2>4. \A w, u \in Live(e) : e.caller[w] = e.caller[u] /\ e.caller[w] # NULL => w = u
      BY <1>1, <1>2, <1>12, <1>5, <1>6 DEF CallOK
    <2>5. \A u \in Normal(e) : e.caller[u] = IF u \in Active(e) \ Heads(e) THEN e.parent[u] ELSE NULL
      <3>1. s \in Active(c)
        BY <1>14 DEF Active
      <3> QED
        BY <3>1, <1>1, <1>2, <1>6, <1>11, <1>12, <1>13 DEF CallOK, Same
    <2> QED
      BY <2>1, <2>2, <2>3, <2>4, <2>5 DEF CallOK
  <1>105. WakeOK(e)
    <2>1. ASSUME NEW x \in (e.waiting \cup Closing(e)) \ (e.run \cup e.bound), x # t
          PROVE  x \in (c.waiting \cup Closing(c)) \ (c.run \cup c.bound) /\ x # q
      BY <2>1, <1>2, <1>4
    <2>2. \A u \in Live(c) : c.caller[u] # NULL => e.caller[u] = c.caller[u]
      BY <1>14, <1>12, <1>6
    <2>3. \A h \in Heads(c) : c.exc[h].raise # q => h \in Heads(e) /\ e.exc[h] = c.exc[h]
      BY <1>13, <1>3 DEF Heads
    <2>4. NULL \notin c.waiting \cup Closing(c)
      BY <1>1, <1>6 DEF Trees
    <2> QED
      BY <2>1, <2>2, <2>3, <2>4, <1>1, <1>2, <1>7, <1>12 DEF WakeOK, Same
  <1>106. BlockOK(e, r, nb)
    <2>1. \A u \in Task : nb[u] # NULL =>
          /\ u \in (Normal(e) \cap e.waiting) \ e.bound
          /\ nb[u] \in Heads(e)
          /\ r[u] = r[nb[u]]
          /\ e.parent[u] # NULL
      <3>1. \A u \in Task : nb[u] # NULL => b[u] # NULL /\ nb[u] = b[u] /\ b[u] # s /\ u # q
        BY <1>15, <1>8
      <3>2. \A h \in Heads(c) : b[h] = h
        BY <1>1 DEF BlockOK
      <3>3. \A u \in Task : nb[u] # NULL => nb[nb[u]] = b[u]
        BY <3>1, <3>2, <1>15, <1>1 DEF BlockOK, Heads, Normal
      <3> QED
        BY <3>1, <1>1, <1>2, <1>13, <1>7 DEF BlockOK, Same
    <2>2. \A h \in Heads(e) :
          /\ nb[h] = h /\ e.exc[h].before = h
          /\ e.exc[h].raise \in Task /\ nb[e.exc[h].raise] = h
          /\ \A u \in Live(e) : e.caller[u] # e.exc[h].raise
      <3>1. \A h \in Heads(e) : h \in Task /\ h \in Heads(c) /\ h # s /\ e.exc[h] = c.exc[h]
        BY <1>13, <1>3 DEF Heads, Normal
      <3>2. ASSUME NEW h \in Heads(e) PROVE c.exc[h].raise # t
        BY <3>1, <1>1, <1>4, <1>6 DEF BlockOK
      <3> QED
        BY <3>1, <3>2, <1>1, <1>2, <1>6, <1>12, <1>15 DEF BlockOK
    <2>3. \A u \in Live(e) : e.caller[u] \in Normal(e) =>
          nb[e.caller[u]] = IF u \in Normal(e) THEN nb[u] ELSE NULL
      BY <1>1, <1>2, <1>4, <1>6, <1>7, <1>12, <1>15 DEF BlockOK
    <2> QED
      BY <2>1, <2>2, <2>3, <1>16 DEF BlockOK
  <1>107. ExcOK(e, r)
    BY <1>1, <1>2, <1>4, <1>6, <1>7, <1>12, <1>13 DEF ExcOK, Same
  <1>108. CloseOK(e, r, p, N)
    BY <1>1, <1>2, <1>4, <1>7, <1>8, <1>9, <1>10, <1>12, <1>6 DEF CloseOK, Same
  <1>109. StartOK(e, r)
    BY <1>1, <1>2, <1>4, <1>12, <1>6, <1>8, <1>14 DEF StartOK, Same
  <1> QED
    BY <1>1, <1>100, <1>101, <1>102, <1>103, <1>104, <1>105, <1>106, <1>107, <1>108, <1>109 DEF Inv

(* In normal mode one comes along the callers from child to parent. *)
LEMMA NormalFalls ==
    ASSUME NEW c, NEW d, NEW r, NEW b, NEW p, NEW N, Inv(c, d, r, b, p, N)
    PROVE  /\ Falls(c.caller, Normal(c), d) /\ NULL \notin Normal(c)
           /\ \A t \in Normal(c) : c.caller[t] # NULL =>
                 c.caller[t] \in Normal(c) /\ c.caller[t] = c.parent[t]
  <1>1. /\ c \in Trees /\ N \in Nat /\ Tree(c, d) /\ RootOK(c, d, r, N) /\ GoneOK(c) /\ RunOK(c, r)
        /\ CallOK(c, r)
        /\ WakeOK(c) /\ BlockOK(c, r, b) /\ ExcOK(c, r) /\ CloseOK(c, r, p, N) /\ StartOK(c, r)
    BY DEF Inv
  <1>2. NULL \notin Normal(c) /\ Normal(c) \subseteq Task
    BY TaskAssumption DEF Normal
  <1>3. c.caller \in [Task -> Task \cup {NULL}] /\ d \in [Task -> Nat]
    BY <1>1 DEF Trees, Tree
  <1>4. ASSUME NEW t \in Normal(c), c.caller[t] # NULL
        PROVE  c.caller[t] \in Normal(c) /\ c.caller[t] = c.parent[t] /\ d[c.caller[t]] < d[t]
    <2>1. c.caller[t] = c.parent[t] /\ t \in Live(c) /\ t \notin Closing(c)
      BY <1>1, <1>4 DEF CallOK, Normal, Live, Closing
    <2>2. c.parent[t] \in Live(c) /\ d[c.parent[t]] < d[t]
      BY <2>1, <1>4, <1>1 DEF Tree
    <2>3. c.parent[t] \notin Closing(c)
      BY <2>1, <1>1 DEF RootOK
    <2> QED
      BY <2>1, <2>2, <2>3 DEF Live, Closing, Normal
  <1> QED
    BY <1>2, <1>3, <1>4 DEF Falls

(* Going up a path from its start. *)
LEMMA PathInduction ==
    ASSUME NEW c, NEW t, NEW q, NEW h, NEW S, NEW rank, Falls(c.caller, S, rank),
           IsPath(c, t, q, h, S, rank),
           NEW N \in Nat, \A u \in Task : rank[u] <= N,
           NEW X, t \in X, \A w \in ToSet(q) \cap X : w # h => c.caller[w] \in X
    PROVE  ToSet(q) \subseteq X
  <1>1. /\ S \subseteq Task
        /\ \A u \in S : rank[u] \in Nat
        /\ \A u \in S : c.caller[u] \in S => rank[c.caller[u]] < rank[u]
    BY DEF Falls
  <1>2. ToSet(q) \subseteq S
    BY ToSetIs DEF IsPath
  <1>3. /\ \A u \in ToSet(q) : u = t \/ \E w \in ToSet(q) : c.caller[w] = u
        /\ \A u \in ToSet(q) : u = h \/ rank[h] < rank[u]
        /\ h \in ToSet(q)
    BY DEF IsPath
  <1>4. SUFFICES ASSUME NEW v \in ToSet(q) \ X PROVE FALSE
    OBVIOUS
  <1> DEFINE D == {n \in Nat : \E u \in ToSet(q) \ X : n = N - rank[u]}
  <1>5. \A u \in ToSet(q) : N - rank[u] \in Nat
    BY <1>1, <1>2
  <1>6. D # {} /\ D \in SUBSET Nat
    BY <1>5
  <1>7. PICK n \in D : \A m \in D : n <= m
    BY <1>6, Least
  <1>8. PICK u \in ToSet(q) \ X : n = N - rank[u]
    BY <1>7
  <1>9. PICK w \in ToSet(q) : c.caller[w] = u
    BY <1>8, <1>3
  <1>10. rank[u] < rank[w] /\ rank[u] \in Nat /\ rank[w] \in Nat
    BY <1>8, <1>9, <1>2, <1>1
  <1>11. w # h
    BY <1>10, <1>3, <1>8, <1>1, <1>2
  <1>12. w \notin X
    BY <1>11, <1>9, <1>8
  <1>13. N - rank[w] \in D
    BY <1>12, <1>5, <1>9
  <1> QED
    BY <1>13, <1>10, <1>7, <1>8

(* The path of an exception in a good tree: tasks in normal mode and out   *)
(* of any block, from child to parent; all but the first one wait.         *)
LEMMA PathIs ==
    ASSUME NEW c, NEW d, NEW r, NEW b, NEW p, NEW N, Inv(c, d, r, b, p, N),
           NEW t \in Normal(c), t \in c.run, ExceptionPath(c, t) # <<>>,
           NEW q, q = ExceptionPath(c, t)
    PROVE  \E h : /\ IsPath(c, t, q, h, Normal(c), d)
                  /\ Last(q) = h /\ h \in ToSet(q) /\ t \in ToSet(q)
                  /\ \A u \in ToSet(q) : u \in Normal(c) /\ r[u] = r[t] /\ b[u] = NULL /\ c.parent[u] # NULL
                                         /\ u \in Active(c) /\ u \notin c.bound
                                         /\ c.caller[u] = c.parent[u] /\ c.caller[u] \in Normal(c)
                  /\ \A u \in ToSet(q) : u # h => c.caller[u] \in ToSet(q) /\ d[h] < d[u]
                  /\ \A u \in ToSet(q) : u # t =>
                        u \in c.waiting /\ \E w \in ToSet(q) : w # h /\ c.caller[w] = u
                  /\ c.caller[h] \notin ToSet(q) /\ c.caller[h] \in c.waiting
                  /\ c.caller[h] \notin c.bound /\ c.caller[h] \notin c.run
                  /\ r[c.caller[h]] = r[t] /\ b[c.caller[h]] = NULL
                  /\ c.catch[c.caller[h]] = "catch"
  <1>1. /\ c \in Trees /\ N \in Nat /\ Tree(c, d) /\ RootOK(c, d, r, N) /\ GoneOK(c) /\ RunOK(c, r)
        /\ CallOK(c, r)
        /\ WakeOK(c) /\ BlockOK(c, r, b) /\ ExcOK(c, r) /\ CloseOK(c, r, p, N) /\ StartOK(c, r)
    BY DEF Inv
  <1>2. /\ Falls(c.caller, Normal(c), d) /\ NULL \notin Normal(c)
        /\ \A u \in Normal(c) : c.caller[u] # NULL =>
              c.caller[u] \in Normal(c) /\ c.caller[u] = c.parent[u]
    BY NormalFalls
  <1>3. PICK h : IsPath(c, t, q, h, Normal(c), d)
    BY <1>2, ExceptionPathIs
  <1>4. /\ ToSet(q) \subseteq Normal(c) /\ t \in ToSet(q) /\ h \in ToSet(q) /\ Last(q) = h
        /\ c.caller[h] \in Normal(c) /\ HasCatch(c, c.caller[h])
        /\ \A u \in ToSet(q) : u = h \/ c.caller[u] \in ToSet(q)
        /\ \A u \in ToSet(q) : u = t \/ \E w \in ToSet(q) : c.caller[w] = u
        /\ \A u \in ToSet(q) : u = h \/ d[h] < d[u]
    BY <1>3, ToSetIs DEF IsPath
  <1>5. /\ Normal(c) \subseteq Live(c) /\ Normal(c) \subseteq Task /\ Live(c) \subseteq Task
        /\ NULL \notin Task
    BY TaskAssumption DEF Normal, Live
  <1>5a. c.catch[c.caller[h]] = "catch"
    BY <1>1, <1>4, <1>5 DEF Trees, HasCatch
  <1>6. t \notin c.waiting /\ b[t] = NULL /\ t \notin c.bound
    BY <1>1, <1>5 DEF RunOK, BlockOK
  <1>7. \A u \in Normal(c) : c.caller[u] # NULL =>
           r[c.caller[u]] = r[u] /\ b[c.caller[u]] = b[u] /\ c.caller[u] \in c.waiting /\ c.caller[u] \notin c.bound
    BY <1>1, <1>2, <1>5 DEF CallOK, BlockOK
  <1> DEFINE X == {u \in Task : r[u] = r[t] /\ b[u] = NULL /\ (u = t \/ u \in c.waiting) /\ u \notin c.bound}
  <1>8. ToSet(q) \subseteq X
    <2>1. \A u \in Task : d[u] <= N
      BY <1>1 DEF RootOK
    <2>2. t \in X
      BY <1>5, <1>6
    <2>3. \A w \in ToSet(q) \cap X : w # h => c.caller[w] \in X
      BY <1>4, <1>5, <1>7, <1>2
    <2> HIDE DEF X
    <2> QED
      BY <2>1, <2>2, <2>3, <1>1, <1>2, <1>3, PathInduction
  <1>9. c.caller[h] \notin ToSet(q)
    <2>1. d[c.caller[h]] < d[h] /\ d[h] \in Nat /\ d[c.caller[h]] \in Nat
      BY <1>2, <1>4 DEF Falls
    <2> QED
      BY <2>1, <1>4
  <1>10. \A u \in ToSet(q) : c.caller[u] # NULL /\ c.caller[u] \in Normal(c)
    BY <1>2, <1>4
  <1>11. \A u \in ToSet(q) : u # t => \E w \in ToSet(q) : w # h /\ c.caller[w] = u
    BY <1>4, <1>9
  <1>12. \A u \in ToSet(q) : u \in Normal(c) /\ r[u] = r[t] /\ b[u] = NULL /\ c.parent[u] # NULL
                                         /\ u \in Active(c) /\ u \notin c.bound
                                         /\ (u # t => u \in c.waiting)
                                         /\ c.caller[u] = c.parent[u] /\ c.caller[u] \in Normal(c)
    BY <1>4, <1>8, <1>10, <1>2 DEF Active
  <1>13. c.caller[h] \in c.waiting /\ c.caller[h] \notin c.bound /\ c.caller[h] \notin c.run
                  /\ r[c.caller[h]] = r[t] /\ b[c.caller[h]] = NULL
    BY <1>4, <1>7, <1>10, <1>12, <1>1 DEF RunOK
  <1> HIDE DEF X
  <1>14. \A u \in ToSet(q) : u # h => c.caller[u] \in ToSet(q) /\ d[h] < d[u]
    BY <1>4
  <1> QED
    BY <1>3, <1>4, <1>5a, <1>9, <1>11, <1>12, <1>13, <1>14

(* A task begins a step: what the last one said of exceptions is           *)
(* forgotten.                                                              *)
LEMMA BegunKeeps ==
    ASSUME NEW c, NEW d, NEW r, NEW b, NEW p, NEW N, Inv(c, d, r, b, p, N),
           NEW t \in Live(c), c.pmode[t] # "END",
           NEW m, m = "reset" => c.parent[t] # NULL,
           NEW e \in Trees, Same(c, e), e.run = c.run, e.waiting = c.waiting,
           e.bound = c.bound, e.caller = c.caller,
           e.exc = c.exc \/ (t \in Pending(c) /\ e.exc = [c.exc EXCEPT ![t] = NoExc]),
           e.catch = [c.catch EXCEPT ![t] = m], t \notin Pending(e)
    PROVE  Inv(e, d, r, b, p, N)
  <1>1. /\ c \in Trees /\ N \in Nat /\ Tree(c, d) /\ RootOK(c, d, r, N) /\ GoneOK(c) /\ RunOK(c, r)
        /\ CallOK(c, r)
        /\ WakeOK(c) /\ BlockOK(c, r, b) /\ ExcOK(c, r) /\ CloseOK(c, r, p, N) /\ StartOK(c, r)
    BY DEF Inv
  <1>2. /\ Live(e) = Live(c) /\ Locked(e) = Locked(c) /\ Normal(e) = Normal(c)
        /\ Closing(e) = Closing(c)
    BY SameSets
  <1>3. Heads(e) = Heads(c) /\ Pending(e) \subseteq Pending(c)
    <2>1. \A u \in Task : e.exc[u] = c.exc[u] \/ (u \in Pending(c) /\ e.exc[u] = NoExc)
      BY <1>1 DEF Trees
    <2>2. \A u \in Task : (e.exc[u].kind = "HEAD" <=> c.exc[u].kind = "HEAD") /\ (u \in Pending(e) => u \in Pending(c))
      BY <2>1 DEF Pending, NoExc
    <2>3. Pending(e) \subseteq Pending(c)
      BY <2>2 DEF Pending
    <2> QED
      BY <2>2, <2>3, <1>2 DEF Heads, Normal
  <1>4. \A u \in Task : u \notin Pending(c) => e.exc[u] = c.exc[u]
    BY <1>1 DEF Trees
  <1>5. \A u \in Task : e.exc[u] = c.exc[u] \/ e.exc[u] = NoExc
    BY <1>1 DEF Trees
  <1>6. \A u \in Task : e.catch[u] = IF u = t THEN m ELSE c.catch[u]
    BY <1>1 DEF Trees
  <1>7. Live(c) \subseteq Task
    BY <1>1 DEF Live
  <1>8. \A h \in Heads(c) : h \in Task /\ h \notin Pending(c)
    BY <1>1 DEF Heads, Pending, Normal
  <1>9. Tokens(e) = Tokens(c) /\ Active(e) = Active(c)
    BY <1>2 DEF Tokens, Active
  <1>100. Tree(e, d)
    BY <1>1, SameTree
  <1>101. RootOK(e, d, r, N)
    BY <1>1, SameTree
  <1>102. GoneOK(e)
    BY <1>1, <1>2, <1>5, <1>6, <1>7 DEF GoneOK, Same, Live
  <1>103. RunOK(e, r)
    BY <1>1, <1>2, <1>9 DEF RunOK, Same
  <1>104. CallOK(e, r)
    BY <1>1, <1>2, <1>3, <1>9 DEF CallOK, Same
  <1>105. WakeOK(e)
    BY <1>1, <1>2, <1>3, <1>4, <1>8 DEF WakeOK, Same
  <1>106. BlockOK(e, r, b)
    BY <1>1, <1>2, <1>3, <1>4, <1>8 DEF BlockOK, Same
  <1>107. ExcOK(e, r)
    <2>1. \A u \in Pending(e) : e.catch[u] = "catch"
      <3>1. \A u \in Pending(e) : u \in Pending(c) /\ u \in Task /\ u # t
        BY <1>3 DEF Pending
      <3> QED
        BY <3>1, <1>6, <1>1 DEF ExcOK
    <2> QED
      BY <2>1, <1>1, <1>2, <1>3, <1>6, <1>7 DEF ExcOK, Same
  <1>108. CloseOK(e, r, p, N)
    BY <1>1, <1>2, <1>9 DEF CloseOK, Same
  <1>109. StartOK(e, r)
    BY <1>1, <1>2 DEF StartOK, Same
  <1> QED
    BY <1>1, <1>100, <1>101, <1>102, <1>103, <1>104, <1>105, <1>106, <1>107, <1>108, <1>109 DEF Inv

(* The tasks below k up to t, headed by h, are kept waiting; k runs. *)
Continued(c, t, h, k, e) ==
    /\ e \in Trees /\ Same(c, e) /\ e.run = (c.run \ {t}) \cup {k}
    /\ e.waiting = (c.waiting \cup {t}) \ {k}
    /\ e.bound = c.bound /\ e.caller = [c.caller EXCEPT ![h] = NULL] /\ e.catch = c.catch
    /\ e.exc = [c.exc EXCEPT ![k] = [kind |-> "CONTINUE", raise |-> t, before |-> h],
                             ![h] = [kind |-> "HEAD", raise |-> t, before |-> h]]

(* An exception zmCONTINUE makes a block of the path. *)
LEMMA BlockKeeps ==
    ASSUME NEW c, NEW d, NEW r, NEW b, NEW p, NEW N, Inv(c, d, r, b, p, N),
           NEW t \in Normal(c), t \in c.run, t \notin Pending(c), ExceptionPath(c, t) # <<>>,
           NEW h, h = Last(ExceptionPath(c, t)), NEW k, k = c.caller[h],
           NEW e, Continued(c, t, h, k, e)
    PROVE  \E nb : Inv(e, d, r, nb, p, N)
  <1>0. /\ e \in Trees /\ Same(c, e) /\ e.run = (c.run \ {t}) \cup {k}
        /\ e.waiting = (c.waiting \cup {t}) \ {k}
        /\ e.bound = c.bound /\ e.caller = [c.caller EXCEPT ![h] = NULL] /\ e.catch = c.catch
        /\ e.exc = [c.exc EXCEPT ![k] = [kind |-> "CONTINUE", raise |-> t, before |-> h],
                                 ![h] = [kind |-> "HEAD", raise |-> t, before |-> h]]
    BY DEF Continued
  <1> USE <1>0
  <1>1. /\ c \in Trees /\ N \in Nat /\ Tree(c, d) /\ RootOK(c, d, r, N) /\ GoneOK(c) /\ RunOK(c, r)
        /\ CallOK(c, r)
        /\ WakeOK(c) /\ BlockOK(c, r, b) /\ ExcOK(c, r) /\ CloseOK(c, r, p, N) /\ StartOK(c, r)
    BY DEF Inv
  <1>2. /\ Live(e) = Live(c) /\ Locked(e) = Locked(c) /\ Normal(e) = Normal(c)
        /\ Closing(e) = Closing(c)
    BY SameSets
  <1> DEFINE q == ExceptionPath(c, t)
             Q == ToSet(q)
             nb == [u \in Task |-> IF u \in Q THEN h ELSE b[u]]
  <1>3. TRUE
    OBVIOUS
  <1>4. /\ t \in Task /\ t \in Live(c) /\ t \notin Closing(c) /\ c.pmode[t] = "NORMAL"
        /\ t \notin c.waiting /\ t \notin c.bound /\ t \in Tokens(c) /\ t \in Active(c)
        /\ b[t] = NULL
    BY <1>1 DEF Normal, Live, RunOK, Closing, Tokens, Active, BlockOK
  <1>5. \A u \in Live(c) : c.caller[u] # t
    BY <1>1, <1>4 DEF CallOK, Normal
  <1>6. /\ Live(c) \subseteq Task /\ Normal(c) \subseteq Live(c) /\ Closing(c) \subseteq Live(c)
        /\ NULL \notin Task
    BY TaskAssumption DEF Live, Normal, Closing
  <1>31. PICK g : /\ Last(q) = g /\ g \in ToSet(q) /\ t \in ToSet(q)
                  /\ \A u \in ToSet(q) : u \in Normal(c) /\ r[u] = r[t] /\ b[u] = NULL /\ c.parent[u] # NULL
                                         /\ u \in Active(c) /\ u \notin c.bound
                                         /\ c.caller[u] = c.parent[u] /\ c.caller[u] \in Normal(c)
                  /\ \A u \in ToSet(q) : u # g => c.caller[u] \in ToSet(q) /\ d[g] < d[u]
                  /\ \A u \in ToSet(q) : u # t =>
                        u \in c.waiting /\ \E w \in ToSet(q) : w # g /\ c.caller[w] = u
                  /\ c.caller[g] \notin ToSet(q) /\ c.caller[g] \in c.waiting
                  /\ c.caller[g] \notin c.bound /\ c.caller[g] \notin c.run
                  /\ r[c.caller[g]] = r[t] /\ b[c.caller[g]] = NULL
                  /\ c.catch[c.caller[g]] = "catch"
    BY PathIs
  <1>32. g = h
    BY <1>31
  <1>7. /\ h \in Q /\ t \in Q /\ k \notin Q
        /\ \A u \in Q : u \in Normal(c) /\ r[u] = r[t] /\ b[u] = NULL /\ c.parent[u] # NULL
                                         /\ u \in Active(c) /\ u \notin c.bound
                                         /\ c.caller[u] = c.parent[u] /\ c.caller[u] \in Normal(c)
        /\ \A u \in Q : u # h => c.caller[u] \in Q
        /\ \A u \in Q : u # t => u \in c.waiting /\ \E w \in Q : w # h /\ c.caller[w] = u
        /\ k \in Normal(c) /\ k \in c.waiting /\ k \notin c.bound /\ k \notin c.run /\ r[k] = r[t]
        /\ b[k] = NULL /\ c.catch[k] = "catch"
    BY <1>31, <1>32
  <1> HIDE DEF Q, q
  <1>8. /\ k # t /\ k # h /\ k \in Task /\ h \in Task /\ k \in Live(c) /\ h \in Live(c)
        /\ c.pmode[k] = "NORMAL"
    BY <1>7, <1>6 DEF Normal
  <1>9. k \notin Heads(c) /\ h \notin Heads(c) /\ t \notin Heads(c)
    BY <1>1, <1>6, <1>7, <1>8 DEF BlockOK
  <1>10. \A u \in Task : e.exc[u] = IF u = h THEN [kind |-> "HEAD", raise |-> t, before |-> h]
                    ELSE IF u = k THEN [kind |-> "CONTINUE", raise |-> t, before |-> h] ELSE c.exc[u]
    BY <1>1, <1>8 DEF Trees
  <1>11. Heads(e) = Heads(c) \cup {h}
    BY <1>2, <1>6, <1>7, <1>8, <1>9, <1>10 DEF Heads
  <1>12. Pending(e) = (Pending(c) \ {h}) \cup {k}
    BY <1>8, <1>10 DEF Pending
  <1>13. Tokens(e) = (Tokens(c) \ {t}) \cup {k}
    BY <1>2, <1>4, <1>8 DEF Tokens
  <1>14. Active(e) = Active(c)
    BY <1>4, <1>7, <1>8 DEF Active
  <1>15. \A u \in Task : e.caller[u] = IF u = h THEN NULL ELSE c.caller[u]
    BY <1>1 DEF Trees
  <1>16. \A u \in Task : nb[u] = IF u \in Q THEN h ELSE b[u]
    OBVIOUS
  <1>17. nb \in [Task -> Task \cup {NULL}]
    BY <1>1, <1>8 DEF BlockOK
  <1> HIDE DEF nb
  <1>18. \A u \in Live(c) : c.caller[u] \in Q => u \in Q
    BY <1>1, <1>5, <1>6, <1>7 DEF CallOK
  <1>19. \A u \in Live(c) : c.caller[u] = k => u = h
    BY <1>1, <1>6, <1>7, <1>8 DEF CallOK
  <1>100. Tree(e, d)
    BY <1>1, SameTree
  <1>101. RootOK(e, d, r, N)
    BY <1>1, SameTree
  <1>102. GoneOK(e)
    BY <1>1, <1>2, <1>4, <1>6, <1>8, <1>10, <1>15 DEF GoneOK, Same, Normal
  <1>103. RunOK(e, r)
    BY <1>1, <1>2, <1>4, <1>7, <1>8, <1>13, <1>14 DEF RunOK
  <1>104. CallOK(e, r)
    <2>1. \A u \in Live(e) : e.caller[u] # NULL =>
             e.caller[u] \in Live(e) \ e.bound /\ r[e.caller[u]] = r[u]
      BY <1>1, <1>2, <1>15, <1>6 DEF CallOK
    <2>2. \A u \in Live(e) : e.caller[u] \in Normal(e) => e.caller[u] \in e.waiting
      BY <1>1, <1>2, <1>15, <1>6, <1>19 DEF CallOK
    <2>3. \A u \in Live(e) : e.caller[u] \in e.run => e.pmode[e.caller[u]] = "ASYNC"
      <3>1. e.pmode = c.pmode
        BY DEF Same
      <3>2. NULL \notin c.run
        BY <1>1, <1>6 DEF Trees
      <3> QED
        BY <3>1, <3>2, <1>1, <1>2, <1>6, <1>7, <1>8, <1>19, <1>15 DEF CallOK
    <2>4. \A w, u \in Live(e) : e.caller[w] = e.caller[u] /\ e.caller[w] # NULL => w = u
      BY <1>1, <1>2, <1>15, <1>6 DEF CallOK
    <2>5. \A u \in Normal(e) : e.caller[u] = IF u \in Active(e) \ Heads(e) THEN e.parent[u] ELSE NULL
      BY <1>1, <1>2, <1>6, <1>11, <1>14, <1>15 DEF CallOK, Same
    <2> QED
      BY <2>1, <2>2, <2>3, <2>4, <2>5 DEF CallOK
  <1>105. WakeOK(e)
    <2>1. ASSUME NEW x \in (e.waiting \cup Closing(e)) \ (e.run \cup e.bound), x # t
          PROVE  x \in (c.waiting \cup Closing(c)) \ (c.run \cup c.bound) /\ x # k
      BY <2>1, <1>2, <1>4
    <2>2. \A u \in Live(c) : c.caller[u] # k => e.caller[u] = c.caller[u]
      BY <1>15, <1>6
    <2>3. \A v \in Heads(c) : v \in Heads(e) /\ e.exc[v] = c.exc[v]
      BY <1>9, <1>10, <1>11 DEF Heads, Normal
    <2>4. h \in Heads(e) /\ e.exc[h].raise = t
      BY <1>10, <1>11, <1>8
    <2> QED
      BY <2>1, <2>2, <2>3, <2>4, <1>1, <1>2 DEF WakeOK, Same
  <1>106. BlockOK(e, r, nb)
    <2>1. \A u \in Task : nb[u] # NULL =>
          /\ u \in (Normal(e) \cap e.waiting) \ e.bound
          /\ nb[u] \in Heads(e)
          /\ r[u] = r[nb[u]]
          /\ e.parent[u] # NULL
      <3>1. ASSUME NEW u \in Task, u \in Q
            PROVE  /\ u \in (Normal(e) \cap e.waiting) \ e.bound
                   /\ nb[u] = h /\ r[u] = r[h] /\ e.parent[u] # NULL
        BY <3>1, <1>2, <1>7, <1>8, <1>16, <1>4 DEF Same
      <3>2. ASSUME NEW u \in Task, u \notin Q, nb[u] # NULL
            PROVE  /\ u \in (Normal(e) \cap e.waiting) \ e.bound
                   /\ nb[u] \in Heads(e) /\ r[u] = r[nb[u]] /\ e.parent[u] # NULL
        BY <3>2, <1>1, <1>2, <1>7, <1>16, <1>11 DEF BlockOK, Same
      <3> QED
        BY <3>1, <3>2, <1>11
    <2>2. \A v \in Heads(e) :
          /\ nb[v] = v /\ e.exc[v].before = v
          /\ e.exc[v].raise \in Task /\ nb[e.exc[v].raise] = v
          /\ \A u \in Live(e) : e.caller[u] # e.exc[v].raise
      <3>1. \A v \in Heads(c) : v \in Task /\ e.exc[v] = c.exc[v] /\ b[v] = v /\ v # NULL
        BY <1>9, <1>10, <1>1, <1>6 DEF Heads, Normal, BlockOK
      <3>2. \A v \in Heads(c) : nb[v] = v /\ nb[c.exc[v].raise] = v
        BY <3>1, <1>7, <1>16, <1>1 DEF BlockOK
      <3>3. nb[h] = h /\ nb[t] = h
        BY <1>7, <1>16, <1>8, <1>4
      <3>4. \A u \in Live(e) : e.caller[u] # t /\ \A v \in Heads(c) : e.caller[u] # c.exc[v].raise
        BY <1>1, <1>2, <1>5, <1>6, <1>4, <1>15 DEF BlockOK
      <3> QED
        BY <3>1, <3>2, <3>3, <3>4, <1>1, <1>10, <1>11, <1>8, <1>4 DEF BlockOK
    <2>3. \A u \in Live(e) : e.caller[u] \in Normal(e) =>
          nb[e.caller[u]] = IF u \in Normal(e) THEN nb[u] ELSE NULL
      <3>1. ASSUME NEW u \in Live(c), e.caller[u] \in Normal(c), u \in Q
            PROVE  e.caller[u] \in Q /\ u \in Normal(c)
        BY <3>1, <1>15, <1>6, <1>7
      <3>2. ASSUME NEW u \in Live(c), e.caller[u] \in Normal(c), u \notin Q
            PROVE  e.caller[u] = c.caller[u] /\ e.caller[u] \notin Q
        BY <3>2, <1>15, <1>6, <1>7, <1>18
      <3> QED
        BY <3>1, <3>2, <1>1, <1>2, <1>6, <1>16 DEF BlockOK
    <2> QED
      BY <2>1, <2>2, <2>3, <1>17 DEF BlockOK
  <1>107. ExcOK(e, r)
    BY <1>1, <1>2, <1>4, <1>6, <1>7, <1>8, <1>12, <1>15 DEF ExcOK, Same, Closing
  <1>108. CloseOK(e, r, p, N)
    BY <1>1, <1>2, <1>4, <1>6, <1>7, <1>8, <1>13, <1>15 DEF CloseOK, Same, Closing
  <1>109. StartOK(e, r)
    BY <1>1, <1>2, <1>4, <1>6, <1>7, <1>8, <1>15 DEF StartOK, Same, Closing
  <1> QED
    BY <1>1, <1>100, <1>101, <1>102, <1>103, <1>104, <1>105, <1>106, <1>107, <1>108, <1>109 DEF Inv

(* What closes in the context of a closing task that runs, ends after it. *)
LEMMA FirstToEnd ==
    ASSUME NEW c, NEW d, NEW r, NEW b, NEW p, NEW N, Inv(c, d, r, b, p, N),
           NEW t \in Closing(c), t \in c.run, c.pmode[t] # "ASYNC",
           NEW k \in Closing(c), r[k] = r[t]
    PROVE  p[t] <= p[k]
  <1>1. /\ c \in Trees /\ N \in Nat /\ Tree(c, d) /\ RootOK(c, d, r, N) /\ GoneOK(c) /\ RunOK(c, r)
        /\ CallOK(c, r)
        /\ WakeOK(c) /\ BlockOK(c, r, b) /\ ExcOK(c, r) /\ CloseOK(c, r, p, N) /\ StartOK(c, r)
    BY DEF Inv
  <1>2. /\ Live(c) \subseteq Task /\ Normal(c) \subseteq Live(c) /\ Closing(c) \subseteq Live(c)
        /\ NULL \notin Task
        /\ \A u \in Live(c) : u \in Normal(c) \/ u \in Closing(c)
        /\ Normal(c) \cap Closing(c) = {}
    BY TaskAssumption DEF Live, Normal, Closing
  <1>3. p \in [Task -> Nat]
    BY <1>1 DEF CloseOK
  <1> DEFINE D == {p[u] : u \in {v \in Closing(c) : r[v] = r[t]}}
  <1>4. D # {} /\ D \in SUBSET Nat
    BY <1>3, <1>2
  <1>5. PICK n \in D : \A m \in D : n <= m
    BY <1>4, Least
  <1>6. PICK u \in Closing(c) : r[u] = r[t] /\ p[u] = n
    BY <1>5
  <1>7. t \in Tokens(c) /\ c.run \cap Live(c) \subseteq Tokens(c) /\ c.bound \subseteq Normal(c)
    BY <1>1, <1>2 DEF Tokens, RunOK
  <1>8. SUFFICES ASSUME u # t PROVE FALSE
    BY <1>6, <1>5
  <1>9. u \notin c.run /\ u \notin c.bound
    BY <1>8, <1>7, <1>6, <1>1, <1>2 DEF RunOK
  <1>10. \/ \E w \in Live(c) : c.caller[w] = u
         \/ \E w \in Live(c) : c.start[w] = u
         \/ \E h \in Heads(c) : c.exc[h].raise = u
    BY <1>9, <1>1, <1>6 DEF WakeOK
  <1>11. CASE \E w \in Live(c) : c.caller[w] = u
    <2>1. PICK w \in Live(c) : c.caller[w] = u
      BY <1>11
    <2>2. CASE w \in Closing(c)
      <3>1. p[w] < p[u] /\ r[w] = r[t]
        BY <2>1, <2>2, <1>1, <1>2, <1>6 DEF CloseOK, CallOK
      <3>2. p[w] \in D
        BY <3>1, <2>2
      <3> QED
        BY <3>1, <3>2, <1>5, <1>6, <1>4
    <2>3. CASE w \in Normal(c)
      <3>1. c.parent[w] = u
        BY <2>1, <2>3, <1>2, <1>6, <1>1 DEF CallOK
      <3> QED
        BY <3>1, <2>3, <1>1, <1>2, <1>6 DEF RootOK
    <2> QED
      BY <2>1, <2>2, <2>3, <1>2
  <1>12. CASE \E w \in Live(c) : c.start[w] = u
    <2>1. PICK w \in Live(c) : c.start[w] = u
      BY <1>12
    <2>2. c.pmode[w] = "ASYNC" /\ w \in c.run /\ r[u] = r[w]
      BY <2>1, <1>1, <1>2, <1>6 DEF StartOK
    <2>3. w = t
      BY <2>1, <2>2, <1>7, <1>6, <1>1 DEF RunOK
    <2> QED
      BY <2>2, <2>3
  <1>13. CASE \E h \in Heads(c) : c.exc[h].raise = u
    <2>1. PICK h \in Heads(c) : c.exc[h].raise = u
      BY <1>13
    <2>2. b[u] = h /\ h # NULL
      BY <2>1, <1>1, <1>2 DEF BlockOK, Heads
    <2> QED
      BY <2>2, <1>1, <1>2, <1>6 DEF BlockOK
  <1> QED
    BY <1>10, <1>11, <1>12, <1>13

(* ... so that a task that ends has no subtask left. *)
LEMMA NothingBelow ==
    ASSUME NEW c, NEW d, NEW r, NEW b, NEW p, NEW N, Inv(c, d, r, b, p, N),
           NEW t \in Closing(c), t \in c.run, c.pmode[t] # "ASYNC"
    PROVE  c.ring[t] = <<>> /\ \A u \in Live(c) : c.parent[u] # t
  <1>1. /\ c \in Trees /\ N \in Nat /\ Tree(c, d) /\ RootOK(c, d, r, N) /\ GoneOK(c) /\ RunOK(c, r)
        /\ CallOK(c, r)
        /\ WakeOK(c) /\ BlockOK(c, r, b) /\ ExcOK(c, r) /\ CloseOK(c, r, p, N) /\ StartOK(c, r)
    BY DEF Inv
  <1>2. Live(c) \subseteq Task /\ Closing(c) \subseteq Live(c) /\ NULL \notin Task
    BY TaskAssumption DEF Live, Closing
  <1>3. \A u \in Live(c) : c.parent[u] # t
    <2>1. SUFFICES ASSUME NEW u \in Live(c), c.parent[u] = t PROVE FALSE
      OBVIOUS
    <2>2. u \in Closing(c) /\ r[u] = r[t]
      BY <2>1, <1>1, <1>2 DEF RootOK
    <2>3. p[u] < p[t] /\ p[u] \in Nat /\ p[t] \in Nat
      BY <2>1, <2>2, <1>1, <1>2 DEF CloseOK
    <2> QED
      BY <2>2, <2>3, FirstToEnd
  <1>4. c.ring[t] \in Seq(Task) /\ ToSet(c.ring[t]) = {u \in Live(c) : c.parent[u] = t}
    BY <1>1, <1>2 DEF Tree
  <1>5. c.ring[t] = <<>>
    <2>1. ToSet(c.ring[t]) = {}
      BY <1>3, <1>4
    <2> QED
      BY <2>1, <1>4, ToSetIs
  <1> QED
    BY <1>3, <1>5

(* A closing task runs its ZM_TERM. *)
LEMMA EndingKeeps ==
    ASSUME NEW c, NEW d, NEW r, NEW b, NEW p, NEW N, Inv(c, d, r, b, p, N),
           NEW t \in Task, c.pmode[t] = "CLOSE", t \in c.run, t \notin Pending(c),
           NEW e \in Trees, e.parent = c.parent, e.ring = c.ring, e.autofree = c.autofree,
           e.mark = c.mark, e.start = c.start, e.run = c.run, e.waiting = c.waiting,
           e.bound = c.bound, e.caller = c.caller, e.exc = c.exc, e.catch = c.catch,
           e.pmode = [c.pmode EXCEPT ![t] = "END"]
    PROVE  Inv(e, d, r, b, p, N)
  <1>1. /\ c \in Trees /\ N \in Nat /\ Tree(c, d) /\ RootOK(c, d, r, N) /\ GoneOK(c) /\ RunOK(c, r)
        /\ CallOK(c, r)
        /\ WakeOK(c) /\ BlockOK(c, r, b) /\ ExcOK(c, r) /\ CloseOK(c, r, p, N) /\ StartOK(c, r)
    BY DEF Inv
  <1>22. \A u \in Task : e.pmode[u] = IF u = t THEN "END" ELSE c.pmode[u]
    BY <1>1 DEF Trees
  <1>2. /\ Live(e) = Live(c) /\ Locked(e) = Locked(c) /\ Normal(e) = Normal(c)
        /\ Closing(e) = Closing(c)
    BY <1>22 DEF Live, Locked, Normal, Closing
  <1>3. /\ Heads(e) = Heads(c) /\ Pending(e) = Pending(c) /\ Tokens(e) = Tokens(c)
        /\ Active(e) = Active(c)
    BY <1>2 DEF Heads, Pending, Tokens, Active
  <1>4. /\ Live(c) \subseteq Task /\ Normal(c) \subseteq Live(c) /\ Closing(c) \subseteq Live(c)
        /\ NULL \notin Task /\ Normal(c) \cap Closing(c) = {}
    BY TaskAssumption DEF Live, Normal, Closing
  <1>5. t \in Closing(c) /\ c.pmode[t] # "ASYNC" /\ c.pmode[t] # "ABSENT"
    BY DEF Closing
  <1>6. c.ring[t] = <<>>
    BY <1>5, NothingBelow
  <1>100. Tree(e, d)
    BY <1>1, <1>2 DEF Tree
  <1>101. RootOK(e, d, r, N)
    BY <1>1, <1>2 DEF RootOK
  <1>102. GoneOK(e)
    BY <1>1, <1>2, <1>22 DEF GoneOK
  <1>103. RunOK(e, r)
    BY <1>1, <1>2, <1>3 DEF RunOK
  <1>104. CallOK(e, r)
    <2>1. t \notin {c.caller[u] : u \in Live(c)}
      BY <1>1, <1>5 DEF CallOK
    <2> QED
      BY <2>1, <1>1, <1>2, <1>3, <1>22 DEF CallOK
  <1>105. WakeOK(e)
    BY <1>1, <1>2, <1>3 DEF WakeOK
  <1>106. BlockOK(e, r, b)
    BY <1>1, <1>2, <1>3 DEF BlockOK
  <1>107. ExcOK(e, r)
    BY <1>1, <1>2, <1>3, <1>4, <1>22 DEF ExcOK
  <1>108. CloseOK(e, r, p, N)
    BY <1>1, <1>2, <1>3, <1>22, <1>6 DEF CloseOK
  <1>109. StartOK(e, r)
    BY <1>1, <1>2, <1>4, <1>22 DEF StartOK
  <1> QED
    BY <1>1, <1>100, <1>101, <1>102, <1>103, <1>104, <1>105, <1>106, <1>107, <1>108, <1>109 DEF Inv

(* The running task of an aborted context resumes the start of the         *)
(* implosion.                                                              *)
LEMMA AsyncKeeps ==
    ASSUME NEW c, NEW d, NEW r, NEW b, NEW p, NEW N, Inv(c, d, r, b, p, N),
           NEW t \in Task, c.pmode[t] = "ASYNC", t \in c.run, NEW a, a = c.start[t],
           NEW e \in Trees, e.parent = c.parent, e.ring = c.ring, e.autofree = c.autofree,
           e.mark = c.mark, e.start = [c.start EXCEPT ![t] = NULL],
           e.run = (c.run \ {t}) \cup {a}, e.waiting = (c.waiting \cup {t}) \ {a},
           e.bound = c.bound, e.caller = c.caller, e.exc = c.exc, e.catch = c.catch,
           e.pmode = [c.pmode EXCEPT ![t] = "CLOSE"]
    PROVE  Inv(e, d, r, b, p, N)
  <1>1. /\ c \in Trees /\ N \in Nat /\ Tree(c, d) /\ RootOK(c, d, r, N) /\ GoneOK(c) /\ RunOK(c, r)
        /\ CallOK(c, r)
        /\ WakeOK(c) /\ BlockOK(c, r, b) /\ ExcOK(c, r) /\ CloseOK(c, r, p, N) /\ StartOK(c, r)
    BY DEF Inv
  <1>22. \A u \in Task : e.pmode[u] = IF u = t THEN "CLOSE" ELSE c.pmode[u]
    BY <1>1 DEF Trees
  <1>2. /\ Live(e) = Live(c) /\ Locked(e) = Locked(c) /\ Normal(e) = Normal(c)
        /\ Closing(e) = Closing(c)
    BY <1>22 DEF Live, Locked, Normal, Closing
  <1>3. Heads(e) = Heads(c) /\ Pending(e) = Pending(c)
    BY <1>2 DEF Heads, Pending
  <1>4. /\ Live(c) \subseteq Task /\ Normal(c) \subseteq Live(c) /\ Closing(c) \subseteq Live(c)
        /\ NULL \notin Task /\ Normal(c) \cap Closing(c) = {}
    BY TaskAssumption DEF Live, Normal, Closing
  <1>5. /\ t \in Closing(c) /\ t \in Live(c) /\ t \in Tokens(c) /\ t \notin c.waiting
        /\ t \notin c.bound
    BY <1>1 DEF Closing, Live, Tokens, RunOK
  <1>6. /\ a \in Closing(c) /\ a \in Live(c) /\ a \in Task /\ a # NULL /\ r[a] = r[t]
        /\ (\A u \in Live(c) : c.caller[u] # a) /\ (a # t => \E u \in Live(c) : c.caller[u] = t)
    BY <1>1, <1>4, <1>5 DEF StartOK
  <1>7. a # t => a \notin c.run
    BY <1>1, <1>4, <1>5, <1>6 DEF RunOK, Tokens
  <1>8. a \notin c.bound /\ Active(e) = Active(c) \cup {a} /\ Tokens(e) = (Tokens(c) \ {t}) \cup {a}
    BY <1>1, <1>2, <1>4, <1>5, <1>6 DEF RunOK, Active, Tokens
  <1>9. \A u \in Task : e.start[u] = IF u = t THEN NULL ELSE c.start[u]
    BY <1>1 DEF Trees
  <1>10. /\ c.pmode[t] # "ABSENT" /\ a \notin Normal(c) /\ t \notin Normal(c)
         /\ c.pmode[a] # "ABSENT" /\ (a # t => c.pmode[a] # "ASYNC")
    BY <1>1, <1>6, <1>7, <1>4, <1>5 DEF Live, StartOK
  <1>100. Tree(e, d)
    BY <1>1, <1>2 DEF Tree
  <1>101. RootOK(e, d, r, N)
    BY <1>1, <1>2 DEF RootOK
  <1>102. GoneOK(e)
    BY <1>1, <1>2, <1>22, <1>5, <1>9, <1>10 DEF GoneOK
  <1>103. RunOK(e, r)
    BY <1>1, <1>2, <1>3, <1>4, <1>5, <1>6, <1>8, <1>10 DEF RunOK
  <1>104. CallOK(e, r)
    <2>1. \A u \in Normal(e) : e.caller[u] = IF u \in Active(e) \ Heads(e) THEN e.parent[u] ELSE NULL
      BY <1>1, <1>2, <1>3, <1>8, <1>10 DEF CallOK
    <2>2. \A u \in Live(e) : e.caller[u] \in Normal(e) => e.caller[u] \in e.waiting
      BY <1>1, <1>2, <1>10 DEF CallOK
    <2>3. \A u \in Live(e) : e.caller[u] \in e.run => e.pmode[e.caller[u]] = "ASYNC"
      <3>1. \A u \in Live(c) : e.caller[u] \in e.run => c.caller[u] \in c.run /\ c.caller[u] # t
        BY <1>6
      <3>2. c.run \subseteq Task
        BY <1>1 DEF Trees
      <3> QED
        BY <3>1, <3>2, <1>1, <1>2, <1>22 DEF CallOK
    <2> QED
      BY <2>1, <2>2, <2>3, <1>1, <1>2 DEF CallOK
  <1>105. WakeOK(e)
    <2>1. ASSUME NEW x \in (e.waiting \cup Closing(e)) \ (e.run \cup e.bound), x # t
          PROVE  x \in (c.waiting \cup Closing(c)) \ (c.run \cup c.bound) /\ x # a /\ x # NULL
      <3>1. NULL \notin c.waiting \cup Closing(c)
        BY <1>1, <1>4 DEF Trees
      <3> QED
        BY <2>1, <1>2, <3>1
    <2>2. \A u \in Live(c) : c.start[u] # a /\ c.start[u] # NULL => e.start[u] = c.start[u]
      BY <1>9, <1>4
    <2>3. t \in (e.waiting \cup Closing(e)) \ (e.run \cup e.bound) =>
             \E u \in Live(e) : e.caller[u] = t
      BY <1>6, <1>2
    <2> QED
      BY <2>1, <2>2, <2>3, <1>1, <1>2, <1>3 DEF WakeOK
  <1>106. BlockOK(e, r, b)
    <2>1. Normal(e) \cap c.waiting \subseteq e.waiting
      BY <1>2, <1>10
    <2>2. \A u \in Task : b[u] # NULL =>
          /\ u \in (Normal(e) \cap e.waiting) \ e.bound
          /\ b[u] \in Heads(e)
          /\ r[u] = r[b[u]]
          /\ e.parent[u] # NULL
      BY <1>1, <1>2, <1>3, <2>1 DEF BlockOK
    <2> QED
      BY <2>2, <1>1, <1>2, <1>3 DEF BlockOK
  <1>107. ExcOK(e, r)
    BY <1>1, <1>2, <1>3, <1>5, <1>4, <1>10, <1>22 DEF ExcOK
  <1>108. CloseOK(e, r, p, N)
    BY <1>1, <1>2, <1>22, <1>8, <1>5, <1>6, <1>10 DEF CloseOK
  <1>109. StartOK(e, r)
    <2>1. \A u \in Live(e) : e.pmode[u] # "ASYNC" => e.start[u] = NULL
      BY <1>1, <1>2, <1>4, <1>9, <1>22 DEF StartOK
    <2>2. \A u \in Live(e) : e.pmode[u] = "ASYNC" =>
             u # t /\ c.pmode[u] = "ASYNC" /\ e.start[u] = c.start[u]
      BY <1>2, <1>4, <1>9, <1>22
    <2> QED
      BY <2>1, <2>2, <1>1, <1>2 DEF StartOK
  <1> QED
    BY <1>1, <1>100, <1>101, <1>102, <1>103, <1>104, <1>105, <1>106, <1>107, <1>108, <1>109 DEF Inv

----------------------------------------------------------------------------
(* Siblings rings; a task is added, released or ends.                      *)

(* A ring made of two. *)
LEMMA RingConcat ==
    ASSUME NEW p \in Seq(Task), NEW q \in Seq(Task), Sorted(p, Different), Sorted(q, Different),
           ToSet(p) \cap ToSet(q) = {}
    PROVE  /\ p \o q \in Seq(Task) /\ Sorted(p \o q, Different)
           /\ ToSet(p \o q) = ToSet(p) \cup ToSet(q)
  <1>1. \A x \in ToSet(p), y \in ToSet(q) : <<x, y>> \in Different
    BY ToSetIs DEF Different
  <1> QED
    BY <1>1, ConcatIs, ConcatSorted

(* A part of a ring. *)
LEMMA RingPart ==
    ASSUME NEW q \in Seq(Task), Sorted(q, Different), NEW m \in 1..(Len(q) + 1), NEW n \in 0..Len(q),
           m <= n + 1
    PROVE  /\ SubSeq(q, m, n) \in Seq(Task) /\ Sorted(SubSeq(q, m, n), Different)
           /\ ToSet(SubSeq(q, m, n)) = {q[i] : i \in m..n}
  <1> DEFINE s == SubSeq(q, m, n)
  <1>1. s \in Seq(Task) /\ DOMAIN s = 1..(n - m + 1) /\ \A i \in 1..(n - m + 1) : s[i] = q[m + i - 1]
    OBVIOUS
  <1> HIDE DEF s
  <1>2. DOMAIN q = 1..Len(q) /\ Len(q) \in Nat
    OBVIOUS
  <1>3. \A i \in 1..(n - m + 1) : m + i - 1 \in m..n /\ m + i - 1 \in DOMAIN q
    BY <1>2
  <1>4. Sorted(s, Different)
    <2>1. SUFFICES ASSUME NEW i \in DOMAIN s, NEW j \in DOMAIN s, i < j
                   PROVE  <<s[i], s[j]>> \in Different
      BY DEF Sorted
    <2>2. m + i - 1 \in DOMAIN q /\ m + j - 1 \in DOMAIN q /\ m + i - 1 < m + j - 1
      BY <2>1, <1>1, <1>3
    <2>3. <<q[m + i - 1], q[m + j - 1]>> \in Different
      BY <2>2 DEF Sorted
    <2>4. s[i] = q[m + i - 1] /\ s[j] = q[m + j - 1]
      BY <1>1
    <2> QED
      BY <2>3, <2>4
  <1>5. ToSet(s) \subseteq {q[i] : i \in m..n}
    BY <1>1, <1>3 DEF ToSet
  <1>6. ASSUME NEW i \in m..n PROVE q[i] \in ToSet(s)
    <2>1. i - m + 1 \in 1..(n - m + 1) /\ m + (i - m + 1) - 1 = i
      OBVIOUS
    <2>2. s[i - m + 1] = q[i]
      BY <2>1, <1>1
    <2> QED
      BY <2>1, <2>2, <1>1 DEF ToSet
  <1> QED
    BY <1>1, <1>4, <1>5, <1>6 DEF s

(* A ring of one task, *)
LEMMA One ==
    ASSUME NEW s \in Task
    PROVE  <<s>> \in Seq(Task) /\ Sorted(<<s>>, Different) /\ ToSet(<<s>>) = {s}
  BY DEF Sorted, ToSet

(* or of two. *)
LEMMA Two ==
    ASSUME NEW h \in Task, NEW s \in Task, h # s
    PROVE  <<h, s>> \in Seq(Task) /\ Sorted(<<h, s>>, Different) /\ ToSet(<<h, s>>) = {h, s}
  <1> DEFINE q == <<h, s>>
  <1>1. q \in Seq(Task) /\ DOMAIN q = {1, 2} /\ q[1] = h /\ q[2] = s
    OBVIOUS
  <1> HIDE DEF q
  <1>2. ToSet(q) = {h, s}
    BY <1>1 DEF ToSet
  <1>3. \A i, j \in {1, 2} : i < j => i = 1 /\ j = 2
    OBVIOUS
  <1>4. Sorted(q, Different)
    BY <1>1, <1>3 DEF Sorted, Different
  <1> QED
    BY <1>1, <1>2, <1>4 DEF q

(* zm_addStateToSiblingsRing adds a task, *)
LEMMA AddSiblingIs ==
    ASSUME NEW q \in Seq(Task), Sorted(q, Different), NEW s \in Task \ ToSet(q)
    PROVE  /\ AddSibling(q, s) \in Seq(Task) /\ Sorted(AddSibling(q, s), Different)
           /\ ToSet(AddSibling(q, s)) = ToSet(q) \cup {s}
  <1>1. CASE q = <<>>
    BY <1>1, One, ToSetIs DEF AddSibling
  <1>2. CASE q # <<>>
    <2> DEFINE h == Head(q)
               u == SubSeq(q, 2, Len(q))
    <2>1. /\ Len(q) \in Nat /\ Len(q) >= 1 /\ h = q[1] /\ h \in Task /\ Tail(q) = u
          /\ DOMAIN q = 1..Len(q)
      BY <1>2
    <2>2. u \in Seq(Task) /\ Sorted(u, Different) /\ ToSet(u) = {q[i] : i \in 2..Len(q)}
      BY <2>1, RingPart
    <2>3. ToSet(q) = {q[i] : i \in 1..Len(q)}
      BY <2>1 DEF ToSet
    <2>4. h \notin ToSet(u)
      <3>1. ASSUME NEW i \in 2..Len(q) PROVE q[i] # q[1]
        <4>1. 1 \in DOMAIN q /\ i \in DOMAIN q /\ 1 < i
          BY <2>1
        <4>2. <<q[1], q[i]>> \in Different
          BY <4>1 DEF Sorted
        <4> QED
          BY <4>2 DEF Different
      <3> QED
        BY <3>1, <2>1, <2>2
    <2>5. ToSet(q) = {h} \cup ToSet(u)
      <3>1. 1..Len(q) = {1} \cup (2..Len(q))
        BY <2>1
      <3> QED
        BY <3>1, <2>1, <2>2, <2>3
    <2>6. s # h /\ s \notin ToSet(u)
      BY <2>5
    <2> HIDE DEF h, u
    <2>7. <<h, s>> \in Seq(Task) /\ Sorted(<<h, s>>, Different) /\ ToSet(<<h, s>>) = {h, s}
      BY <2>1, <2>6, Two
    <2>8. ToSet(<<h, s>>) \cap ToSet(u) = {}
      BY <2>7, <2>4, <2>6
    <2>9. /\ <<h, s>> \o u \in Seq(Task) /\ Sorted(<<h, s>> \o u, Different)
          /\ ToSet(<<h, s>> \o u) = {h, s} \cup ToSet(u)
      BY <2>2, <2>7, <2>8, RingConcat
    <2>10. AddSibling(q, s) = <<h, s>> \o u
      BY <1>2, <2>1 DEF AddSibling, h
    <2> QED
      BY <2>9, <2>10, <2>5
  <1> QED
    BY <1>1, <1>2

(* and zm_removeStateFromSiblings takes one out. *)
LEMMA RemoveSiblingIs ==
    ASSUME NEW q \in Seq(Task), Sorted(q, Different), NEW s \in ToSet(q)
    PROVE  /\ RemoveSibling(q, s) \in Seq(Task) /\ Sorted(RemoveSibling(q, s), Different)
           /\ ToSet(RemoveSibling(q, s)) = ToSet(q) \ {s}
  <1> DEFINE L == Len(q)
             I == {j \in DOMAIN q : q[j] = s}
             i == Min0(I)
             a == SubSeq(q, i + 1, L)
             b == SubSeq(q, 1, i - 1)
             rest == a \o b
  <1>1. L \in Nat /\ DOMAIN q = 1..L /\ ToSet(q) = {q[j] : j \in 1..L}
    BY DEF ToSet
  <1>2. I \in SUBSET Nat /\ I # {}
    BY <1>1
  <1> HIDE DEF I
  <1>3. i \in I
    BY <1>2, Min0Is
  <1> HIDE DEF i
  <1>4. i \in 1..L /\ q[i] = s
    BY <1>1, <1>3 DEF I
  <1>5. ASSUME NEW j \in 1..L, NEW k \in 1..L, j # k PROVE q[j] # q[k]
    <2>1. j < k \/ k < j
      BY <1>5, <1>1
    <2> QED
      BY <2>1, <1>1 DEF Sorted, Different
  <1>6. a \in Seq(Task) /\ Sorted(a, Different) /\ ToSet(a) = {q[j] : j \in (i + 1)..L}
    BY <1>1, <1>4, RingPart
  <1>7. b \in Seq(Task) /\ Sorted(b, Different) /\ ToSet(b) = {q[j] : j \in 1..(i - 1)}
    BY <1>1, <1>4, RingPart
  <1> HIDE DEF a, b
  <1>8. ToSet(a) \cap ToSet(b) = {}
    <2>1. ASSUME NEW j \in (i + 1)..L, NEW k \in 1..(i - 1) PROVE q[j] # q[k]
      BY <1>1, <1>4, <1>5
    <2> QED
      BY <2>1, <1>6, <1>7
  <1>9. ToSet(a) \cup ToSet(b) = ToSet(q) \ {s}
    <2>1. 1..L = ((i + 1)..L) \cup (1..(i - 1)) \cup {i}
      BY <1>1, <1>4
    <2>2. ASSUME NEW j \in ((i + 1)..L) \cup (1..(i - 1)) PROVE q[j] # s
      BY <1>1, <1>4, <1>5
    <2> QED
      BY <2>1, <2>2, <1>1, <1>4, <1>6, <1>7
  <1>10. rest \in Seq(Task) /\ Sorted(rest, Different) /\ ToSet(rest) = ToSet(q) \ {s}
    BY <1>6, <1>7, <1>8, <1>9, RingConcat
  <1>11. RemoveSibling(q, s) = IF rest = <<>> THEN rest ELSE <<Last(rest)>> \o Front(rest)
    BY DEF RemoveSibling, i, a, b, I
  <1> HIDE DEF rest
  <1>12. CASE rest = <<>>
    BY <1>10, <1>11, <1>12
  <1>13. CASE rest # <<>>
    <2> DEFINE n == Len(rest)
               f == SubSeq(rest, 1, n - 1)
    <2>1. n \in Nat /\ n >= 1 /\ DOMAIN rest = 1..n /\ rest[n] \in Task
      BY <1>10, <1>13
    <2>2. Last(rest) = rest[n] /\ Front(rest) = f
      BY DEF Last, Front
    <2>3. f \in Seq(Task) /\ Sorted(f, Different) /\ ToSet(f) = {rest[j] : j \in 1..(n - 1)}
      <3>1. 1 \in 1..(Len(rest) + 1) /\ n - 1 \in 0..Len(rest) /\ 1 <= (n - 1) + 1
        BY <2>1
      <3> QED
        BY <3>1, <1>10, RingPart
    <2> HIDE DEF n, f
    <2>4. rest[n] \notin ToSet(f)
      <3>1. ASSUME NEW j \in 1..(n - 1) PROVE rest[j] # rest[n]
        <4>1. j \in DOMAIN rest /\ n \in DOMAIN rest /\ j < n
          BY <2>1
        <4>2. <<rest[j], rest[n]>> \in Different
          BY <4>1, <1>10 DEF Sorted
        <4> QED
          BY <4>2 DEF Different
      <3> QED
        BY <3>1, <2>3
    <2>5. ToSet(rest) = {rest[n]} \cup ToSet(f)
      <3>1. 1..n = {n} \cup (1..(n - 1))
        BY <2>1
      <3>2. ToSet(rest) = {rest[j] : j \in 1..n}
        BY <2>1 DEF ToSet
      <3> QED
        BY <3>1, <3>2, <2>3
    <2>6. /\ <<rest[n]>> \o f \in Seq(Task) /\ Sorted(<<rest[n]>> \o f, Different)
          /\ ToSet(<<rest[n]>> \o f) = {rest[n]} \cup ToSet(f)
      <3>1. /\ <<rest[n]>> \in Seq(Task) /\ Sorted(<<rest[n]>>, Different)
            /\ ToSet(<<rest[n]>>) = {rest[n]}
        BY <2>1, One
      <3>2. ToSet(<<rest[n]>>) \cap ToSet(f) = {}
        BY <3>1, <2>4
      <3> QED
        BY <3>1, <3>2, <2>3, RingConcat
    <2> QED
      BY <2>2, <2>5, <2>6, <1>10, <1>11, <1>13
  <1> QED
    BY <1>12, <1>13

(* A root that closes takes its whole context. *)
LEMMA RootLocked ==
    ASSUME NEW c, NEW d, NEW r, NEW b, NEW p, NEW N, Inv(c, d, r, b, p, N),
           NEW t \in Live(c), r[t] \in Closing(c)
    PROVE  t \in Closing(c)
  <1>1. /\ c \in Trees /\ N \in Nat /\ Tree(c, d) /\ RootOK(c, d, r, N) /\ GoneOK(c) /\ RunOK(c, r)
        /\ CallOK(c, r)
        /\ WakeOK(c) /\ BlockOK(c, r, b) /\ ExcOK(c, r) /\ CloseOK(c, r, p, N) /\ StartOK(c, r)
    BY DEF Inv
  <1>2. Live(c) \subseteq Task /\ d \in [Task -> Nat]
    BY <1>1 DEF Live, Tree
  <1> DEFINE D == {d[u] : u \in {v \in Live(c) : r[v] = r[t] /\ v \notin Closing(c)}}
  <1>3. SUFFICES ASSUME D # {} PROVE FALSE
    OBVIOUS
  <1>4. D \in SUBSET Nat
    BY <1>2
  <1>5. PICK n \in D : \A m \in D : n <= m
    BY <1>3, <1>4, Least
  <1>6. PICK u \in Live(c) : r[u] = r[t] /\ u \notin Closing(c) /\ d[u] = n
    BY <1>5
  <1>7. c.parent[u] # NULL
    BY <1>1, <1>6 DEF RootOK
  <1>8. c.parent[u] \in Live(c) /\ r[c.parent[u]] = r[t] /\ d[c.parent[u]] < d[u]
    BY <1>1, <1>6, <1>7 DEF RootOK, Tree
  <1>9. c.parent[u] \notin Closing(c)
    BY <1>1, <1>6 DEF RootOK
  <1>10. d[c.parent[u]] \in D
    BY <1>8, <1>9
  <1> QED
    BY <1>10, <1>8, <1>5, <1>6, <1>4

(* A root with nothing below it is alone. *)
LEMMA RootAlone ==
    ASSUME NEW c, NEW d, NEW r, NEW b, NEW p, NEW N, Inv(c, d, r, b, p, N),
           NEW t \in Live(c), \A u \in Live(c) : c.parent[u] # t,
           NEW w \in Live(c), r[w] = t
    PROVE  w = t
  <1>1. /\ c \in Trees /\ N \in Nat /\ Tree(c, d) /\ RootOK(c, d, r, N) /\ GoneOK(c) /\ RunOK(c, r)
        /\ CallOK(c, r)
        /\ WakeOK(c) /\ BlockOK(c, r, b) /\ ExcOK(c, r) /\ CloseOK(c, r, p, N) /\ StartOK(c, r)
    BY DEF Inv
  <1>2. Live(c) \subseteq Task /\ d \in [Task -> Nat]
    BY <1>1 DEF Live, Tree
  <1> DEFINE D == {d[u] : u \in {v \in Live(c) : r[v] = t /\ v # t}}
  <1>3. SUFFICES ASSUME D # {} PROVE FALSE
    OBVIOUS
  <1>4. D \in SUBSET Nat
    BY <1>2
  <1>5. PICK n \in D : \A m \in D : n <= m
    BY <1>3, <1>4, Least
  <1>6. PICK u \in Live(c) : r[u] = t /\ u # t /\ d[u] = n
    BY <1>5
  <1>7. c.parent[u] # NULL
    BY <1>1, <1>6 DEF RootOK
  <1>8. c.parent[u] \in Live(c) /\ r[c.parent[u]] = t /\ d[c.parent[u]] < d[u]
    BY <1>1, <1>6, <1>7 DEF RootOK, Tree
  <1>10. d[c.parent[u]] \in D
    BY <1>8, <1>6
  <1>11. n <= d[c.parent[u]] /\ n \in Nat /\ d[c.parent[u]] \in Nat
    BY <1>10, <1>5, <1>4
  <1> QED
    BY <1>8, <1>11, <1>6

(* In a context whose root stays, a task that closes with no closing parent *)
(* is the only one; and if it has nothing below it, nothing else closes.    *)
LEMMA ClosesAlone ==
    ASSUME NEW c, NEW d, NEW r, NEW b, NEW p, NEW N, Inv(c, d, r, b, p, N),
           NEW t \in Closing(c), r[t] \notin Closing(c), c.parent[t] \notin Closing(c),
           \A u \in Live(c) : c.parent[u] # t,
           NEW w \in Closing(c), r[w] = r[t]
    PROVE  w = t
  <1>1. /\ c \in Trees /\ N \in Nat /\ Tree(c, d) /\ RootOK(c, d, r, N) /\ GoneOK(c) /\ RunOK(c, r)
        /\ CallOK(c, r)
        /\ WakeOK(c) /\ BlockOK(c, r, b) /\ ExcOK(c, r) /\ CloseOK(c, r, p, N) /\ StartOK(c, r)
    BY DEF Inv
  <1>2. Live(c) \subseteq Task /\ d \in [Task -> Nat] /\ Closing(c) \subseteq Live(c)
    BY <1>1 DEF Live, Closing, Tree
  <1> DEFINE D == {d[u] : u \in {v \in Closing(c) : r[v] = r[t] /\ v # t}}
  <1>3. SUFFICES ASSUME D # {} PROVE FALSE
    OBVIOUS
  <1>4. D \in SUBSET Nat
    BY <1>2
  <1>5. PICK n \in D : \A m \in D : n <= m
    BY <1>3, <1>4, Least
  <1>6. PICK u \in Closing(c) : r[u] = r[t] /\ u # t /\ d[u] = n
    BY <1>5
  <1>7. c.parent[u] \in Closing(c)
    BY <1>1, <1>6 DEF CloseOK
  <1>8. r[c.parent[u]] = r[t] /\ d[c.parent[u]] < d[u] /\ c.parent[u] # t
    BY <1>1, <1>2, <1>6, <1>7, TaskAssumption DEF RootOK, Tree
  <1>10. d[c.parent[u]] \in D
    BY <1>8, <1>7
  <1>11. n <= d[c.parent[u]] /\ n \in Nat /\ d[c.parent[u]] \in Nat
    BY <1>10, <1>5, <1>4
  <1> QED
    BY <1>8, <1>11, <1>6

(* A new task below v. *)
LEMMA AddKeeps ==
    ASSUME NEW c, NEW d, NEW r, NEW b, NEW p, NEW N, Inv(c, d, r, b, p, N),
           NEW s \in Task, c.pmode[s] = "ABSENT", NEW v, v = NULL \/ v \in Normal(c),
           NEW e \in Trees, e.pmode = [c.pmode EXCEPT ![s] = "NORMAL"],
           e.parent = [c.parent EXCEPT ![s] = v],
           e.ring = [c.ring EXCEPT ![v] = AddSibling(@, s)], c.autofree \subseteq e.autofree,
           e.autofree \subseteq c.autofree \cup {s}, e.mark = c.mark, e.start = c.start,
           e.run = c.run, e.waiting = c.waiting,
           e.bound = c.bound, e.caller = c.caller, e.exc = c.exc, e.catch = c.catch
    PROVE  \E nd, nr : Inv(e, nd, nr, b, p, N + 1)
  <1>1. /\ c \in Trees /\ N \in Nat /\ Tree(c, d) /\ RootOK(c, d, r, N) /\ GoneOK(c) /\ RunOK(c, r)
        /\ CallOK(c, r)
        /\ WakeOK(c) /\ BlockOK(c, r, b) /\ ExcOK(c, r) /\ CloseOK(c, r, p, N) /\ StartOK(c, r)
    BY DEF Inv
  <1>22. \A u \in Task : e.pmode[u] = IF u = s THEN "NORMAL" ELSE c.pmode[u]
    BY <1>1 DEF Trees
  <1>2. Live(e) = Live(c) \cup {s} /\ Normal(e) = Normal(c) \cup {s} /\ Closing(e) = Closing(c)
    BY <1>22 DEF Live, Normal, Closing
  <1> DEFINE nd == [u \in Task |-> IF u = s THEN IF v = NULL THEN 0 ELSE d[v] + 1 ELSE d[u]]
             nr == [u \in Task |-> IF u = s THEN IF v = NULL THEN s ELSE r[v] ELSE r[u]]
  <1>3. \A u \in Task : e.parent[u] = IF u = s THEN v ELSE c.parent[u]
    BY <1>1 DEF Trees
  <1>4. /\ Live(c) \subseteq Task /\ Normal(c) \subseteq Live(c) /\ Closing(c) \subseteq Live(c)
        /\ NULL \notin Task /\ Normal(c) \cap Closing(c) = {}
    BY TaskAssumption DEF Live, Normal, Closing
  <1>5. /\ s \notin Live(c) /\ c.caller[s] = NULL /\ c.start[s] = NULL /\ s \notin c.waiting
        /\ s \notin c.run /\ c.exc[s] = NoExc /\ s \notin c.mark /\ c.catch[s] = "none"
    BY <1>1 DEF Live, GoneOK
  <1>6. /\ s \notin c.bound /\ s # NULL /\ v # s
        /\ (v # NULL => v \in Live(c) /\ v \in Task /\ v \notin Closing(c))
    BY <1>1, <1>5, <1>4 DEF RunOK
  <1>7. \A u \in Task : nd[u] = IF u = s THEN IF v = NULL THEN 0 ELSE d[v] + 1 ELSE d[u]
    OBVIOUS
  <1>8. nd \in [Task -> Nat]
    BY <1>1, <1>6 DEF Tree
  <1>9. \A u \in Task : nr[u] = IF u = s THEN IF v = NULL THEN s ELSE r[v] ELSE r[u]
    OBVIOUS
  <1> HIDE DEF nd, nr
  <1>10. /\ Tokens(e) = Tokens(c) /\ Active(e) = Active(c) /\ Heads(e) = Heads(c)
         /\ Pending(e) = Pending(c)
    BY <1>2, <1>5, <1>4 DEF Tokens, Active, Heads, Pending, NoExc
  <1>11. \A u \in Live(c) : c.parent[u] # s /\ c.caller[u] # s
    BY <1>1, <1>5, <1>6 DEF Tree, CallOK
  <1>12. \A u \in Live(c) : r[u] \in Live(c) /\ nr[u] = r[u] /\ e.parent[u] = c.parent[u] /\ u # s
    BY <1>1, <1>3, <1>4, <1>5, <1>9 DEF RootOK
  <1>13. /\ e.ring[v] = AddSibling(c.ring[v], s)
         /\ \A u \in Task \cup {NULL} : u # v => e.ring[u] = c.ring[u]
    BY <1>1, <1>6 DEF Trees
  <1>14. \A u \in Tokens(c) \cup Closing(c) : u \in Live(c)
    BY <1>1, <1>4 DEF RunOK, Tokens
  <1>100. Tree(e, nd)
    <2>1. c.ring[v] \in Seq(Task) /\ Sorted(c.ring[v], Different) /\ s \notin ToSet(c.ring[v])
      BY <1>1, <1>5, <1>6 DEF Tree
    <2>2. /\ AddSibling(c.ring[v], s) \in Seq(Task) /\ Sorted(AddSibling(c.ring[v], s), Different)
          /\ ToSet(AddSibling(c.ring[v], s)) = ToSet(c.ring[v]) \cup {s}
      BY <2>1, AddSiblingIs
    <2>3. \A u \in Task \cup {NULL} : ToSet(c.ring[u]) = {w \in Live(c) : c.parent[w] = u}
      BY <1>1 DEF Tree
    <2>4. \A u \in Task \cup {NULL} : e.ring[u] \in Seq(Task) /\ Sorted(e.ring[u], Different)
      BY <2>2, <1>13, <1>1 DEF Tree
    <2>5. \A u \in Task \cup {NULL} : ToSet(e.ring[u]) = {w \in Live(e) : e.parent[w] = u}
      <3>1. ToSet(e.ring[v]) = {w \in Live(e) : e.parent[w] = v}
        BY <2>2, <2>3, <1>6, <1>13, <1>2, <1>3, <1>4, <1>5
      <3>2. ASSUME NEW u \in Task \cup {NULL}, u # v
            PROVE  ToSet(e.ring[u]) = {w \in Live(e) : e.parent[w] = u}
        BY <3>2, <2>3, <1>6, <1>13, <1>2, <1>3, <1>4, <1>5
      <3> QED
        BY <3>1, <3>2
    <2>6. \A u \in Live(e) : e.parent[u] # NULL =>
             e.parent[u] \in Live(e) /\ nd[e.parent[u]] < nd[u]
      <3>1. ASSUME NEW u \in Live(c), e.parent[u] # NULL
            PROVE  e.parent[u] \in Live(e) /\ nd[e.parent[u]] < nd[u]
        BY <3>1, <1>1, <1>2, <1>4, <1>12, <1>7, <1>11 DEF Tree
      <3>2. v # NULL => v \in Live(e) /\ nd[v] < nd[s]
        BY <1>1, <1>2, <1>6, <1>7 DEF Tree
      <3> QED
        BY <3>1, <3>2, <1>2, <1>3
    <2>7. e.parent \in [Task -> Task \cup {NULL}]
      BY DEF Trees
    <2> QED
      BY <2>4, <2>5, <2>6, <2>7, <1>8 DEF Tree
  <1>101. RootOK(e, nd, nr, N + 1)
    <2>1. \A u \in Task : nd[u] <= N + 1
      <3>1. \A u \in Task : d[u] \in Nat /\ d[u] <= N
        BY <1>1 DEF RootOK, Tree
      <3>2. N \in Nat
        BY <1>1
      <3> QED
        BY <3>1, <3>2, <1>6, <1>7
    <2>2. ASSUME NEW u \in Live(c)
          PROVE  /\ nr[u] \in Live(e) /\ e.parent[nr[u]] = NULL
                 /\ nr[u] = IF e.parent[u] = NULL THEN u ELSE nr[e.parent[u]]
                 /\ e.parent[u] \in Closing(e) => u \in Closing(e)
      <3>1. c.parent[u] # NULL => c.parent[u] \in Live(c)
        BY <1>1 DEF Tree
      <3> QED
        BY <3>1, <1>1, <1>2, <1>12 DEF RootOK
    <2>3. /\ nr[s] \in Live(e) /\ e.parent[nr[s]] = NULL
          /\ nr[s] = IF e.parent[s] = NULL THEN s ELSE nr[e.parent[s]]
          /\ e.parent[s] \in Closing(e) => s \in Closing(e)
      <3>1. CASE v = NULL
        BY <3>1, <1>2, <1>3, <1>9, <1>4
      <3>2. CASE v # NULL
        <4>1. r[v] \in Live(c) /\ c.parent[r[v]] = NULL
          BY <3>2, <1>1, <1>6 DEF RootOK
        <4> QED
          BY <4>1, <3>2, <1>2, <1>3, <1>6, <1>9, <1>12
      <3> QED
        BY <3>1, <3>2
    <2> QED
      BY <2>1, <2>2, <2>3, <1>2 DEF RootOK
  <1>102. GoneOK(e)
    BY <1>1, <1>2, <1>22 DEF GoneOK
  <1>103. RunOK(e, nr)
    <2>1. \A t, u \in Tokens(c) : nr[t] = nr[u] => t = u
      BY <1>1, <1>12, <1>14 DEF RunOK
    <2>2. \A t \in Tokens(c) \cup Closing(c) : nr[t] \in Closing(c) \cup Active(c)
      BY <1>1, <1>12, <1>14 DEF RunOK
    <2>3. c.run \cap c.waiting = {} /\ c.bound \subseteq c.waiting \cap Normal(e)
      BY <1>1, <1>2 DEF RunOK
    <2> QED
      BY <2>1, <2>2, <2>3, <1>2, <1>10 DEF RunOK
  <1>104. CallOK(e, nr)
    <2>1. \A t \in Live(e) : e.caller[t] # NULL => t \in Live(c)
      BY <1>2, <1>5
    <2>2. \A t \in Live(e) : e.caller[t] # NULL =>
             e.caller[t] \in Live(e) \ e.bound /\ nr[e.caller[t]] = nr[t]
      BY <2>1, <1>1, <1>2, <1>12 DEF CallOK
    <2>3. \A t \in Live(e) : e.caller[t] \in Normal(e) => e.caller[t] \in e.waiting
      BY <2>1, <1>1, <1>2, <1>4, <1>5, <1>6, <1>11 DEF CallOK
    <2>4. \A t \in Live(e) : e.caller[t] \in e.run => e.pmode[e.caller[t]] = "ASYNC"
      <3>1. NULL \notin c.run
        BY <1>1, <1>4 DEF Trees
      <3> QED
        BY <3>1, <2>1, <1>1, <1>2, <1>22, <1>11 DEF CallOK
    <2>5. \A t, u \in Live(e) : e.caller[t] = e.caller[u] /\ e.caller[t] # NULL => t = u
      BY <2>1, <1>1 DEF CallOK
    <2>6. \A t \in Normal(e) : e.caller[t] = IF t \in Active(e) \ Heads(e) THEN e.parent[t] ELSE NULL
      <3>1. s \notin Active(c)
        BY <1>5 DEF Active
      <3> QED
        BY <3>1, <1>1, <1>2, <1>3, <1>5, <1>10 DEF CallOK, Normal
    <2> QED
      BY <2>2, <2>3, <2>4, <2>5, <2>6 DEF CallOK
  <1>105. WakeOK(e)
    BY <1>1, <1>2, <1>10 DEF WakeOK
  <1>106. BlockOK(e, nr, b)
    <2>1. \A u \in Task : b[u] # NULL =>
          /\ u \in (Normal(e) \cap e.waiting) \ e.bound
          /\ b[u] \in Heads(e)
          /\ nr[u] = nr[b[u]]
          /\ e.parent[u] # NULL
      BY <1>1, <1>2, <1>4, <1>10, <1>12 DEF BlockOK, Heads
    <2>2. \A h \in Heads(e) :
          /\ b[h] = h /\ e.exc[h].before = h
          /\ e.exc[h].raise \in Task /\ b[e.exc[h].raise] = h
          /\ \A u \in Live(e) : e.caller[u] # e.exc[h].raise
      BY <1>1, <1>2, <1>5, <1>4, <1>10 DEF BlockOK
    <2>3. b[s] = NULL
      BY <1>1, <1>5 DEF BlockOK
    <2>4. \A t \in Live(e) : e.caller[t] \in Normal(e) =>
          b[e.caller[t]] = IF t \in Normal(e) THEN b[t] ELSE NULL
      BY <1>1, <1>2, <1>4, <1>5, <1>11 DEF BlockOK
    <2> QED
      BY <2>1, <2>2, <2>4, <1>1 DEF BlockOK
  <1>107. ExcOK(e, nr)
    <2>1. /\ c.mark \cap Normal(e) = {}
          /\ \A t \in Live(e) : e.catch[t] = "reset" => e.parent[t] # NULL
      BY <1>1, <1>2, <1>3, <1>4, <1>5 DEF ExcOK
    <2>2. \A t \in Normal(e) \cap Pending(e) : t \in Normal(c) \cap Pending(c)
      BY <1>2, <1>10, <1>5 DEF Pending, NoExc
    <2>3. \A t \in Normal(e) \cap Pending(e) : t \in e.run \/ \E k \in Closing(e) : e.caller[k] = t
      BY <2>2, <1>1, <1>2 DEF ExcOK
    <2>4. \A t \in Closing(e) \cap Pending(e) : nr[t] \in Closing(e) /\ e.pmode[t] # "END"
      BY <1>1, <1>2, <1>22, <1>4, <1>10, <1>12 DEF ExcOK
    <2>5. \A t \in Pending(e) : e.catch[t] = "catch"
      BY <1>1, <1>10 DEF ExcOK
    <2> QED
      BY <2>1, <2>3, <2>4, <2>5, <1>1 DEF ExcOK
  <1>108. CloseOK(e, nr, p, N + 1)
    <2>1. p \in [Task -> Nat] /\ \A t \in Task : p[t] <= N + 1
      BY <1>1 DEF CloseOK
    <2>2. \A t \in Tokens(e) \cap Normal(e), k \in Closing(e) : nr[k] # nr[t]
      BY <1>1, <1>2, <1>10, <1>12, <1>14 DEF CloseOK
    <2>3. \A k \in Closing(e) :
             /\ e.caller[k] \in Closing(e) => p[k] < p[e.caller[k]]
             /\ e.parent[k] \in Closing(e) => p[k] < p[e.parent[k]]
      BY <1>1, <1>2, <1>4, <1>12 DEF CloseOK
    <2>4. \A t \in Task : e.pmode[t] = "END" => t \in e.run /\ e.ring[t] = <<>>
      <3>1. ASSUME NEW t \in Task, e.pmode[t] = "END" PROVE t # v /\ c.pmode[t] = "END"
        BY <3>1, <1>22, <1>4, <1>6 DEF Normal
      <3> QED
        BY <3>1, <1>1, <1>13 DEF CloseOK
    <2>5. ASSUME NEW k \in Closing(e)
          PROVE  k \in Live(c) /\ k \in Closing(c) /\ nr[k] = r[k] /\ e.parent[k] = c.parent[k]
      BY <2>5, <1>2, <1>4, <1>12
    <2>6. \A k \in Closing(e) : nr[k] \notin Closing(e) =>
          e.caller[k] # NULL /\ (e.parent[k] \in Closing(e) <=> e.caller[k] \in Closing(e))
      BY <2>5, <1>1, <1>2 DEF CloseOK
    <2>7. \A j, k \in Closing(e) :
          nr[j] = nr[k] /\ nr[k] \notin Closing(e) /\ e.parent[j] \notin Closing(e) /\ e.parent[k] \notin Closing(e)
             => j = k
      BY <2>5, <1>1, <1>2 DEF CloseOK
    <2> QED
      BY <2>1, <2>2, <2>3, <2>4, <2>6, <2>7 DEF CloseOK
  <1>109. StartOK(e, nr)
    <2>1. \A t \in Live(e) : e.pmode[t] = "ASYNC" => t \in Live(c) /\ c.pmode[t] = "ASYNC"
      BY <1>2, <1>4, <1>22
    <2>2. \A t \in Live(e) : e.pmode[t] # "ASYNC" => e.start[t] = NULL
      BY <1>1, <1>2, <1>4, <1>22, <1>5 DEF StartOK
    <2>3. ASSUME NEW t \in Live(e), e.pmode[t] = "ASYNC"
          PROVE  /\ t \in e.run
                 /\ e.start[t] \in Closing(e) /\ nr[e.start[t]] = nr[t]
                 /\ \A u \in Live(e) : e.caller[u] # e.start[t]
                 /\ e.start[t] # t => \E u \in Live(e) : e.caller[u] = t
      <3>1. t \in Live(c) /\ c.pmode[t] = "ASYNC"
        BY <2>1, <2>3
      <3>2. c.start[t] \in Closing(c) /\ c.start[t] \in Live(c) /\ c.start[t] # NULL
        BY <3>1, <1>1, <1>4 DEF StartOK
      <3> QED
        BY <3>1, <3>2, <1>1, <1>2, <1>5, <1>12 DEF StartOK
    <2> QED
      BY <2>2, <2>3 DEF StartOK
  <1> QED
    BY <1>1, <1>100, <1>101, <1>102, <1>103, <1>104, <1>105, <1>106, <1>107, <1>108, <1>109 DEF Inv

(* The memory of a task that has ended is released. *)
LEMMA FreeKeeps ==
    ASSUME NEW c, NEW d, NEW r, NEW b, NEW p, NEW N, Inv(c, d, r, b, p, N),
           NEW s \in Task, c.pmode[s] = "OFF",
           NEW e \in Trees, e.pmode = [c.pmode EXCEPT ![s] = "ABSENT"],
           e.parent = [c.parent EXCEPT ![s] = NULL], e.ring = [c.ring EXCEPT ![s] = <<>>],
           e.autofree = c.autofree \ {s}, e.mark = c.mark \ {s}, e.start = c.start,
           e.run = c.run \ {s}, e.waiting = c.waiting \ {s}, e.bound = c.bound,
           e.caller = [c.caller EXCEPT ![s] = NULL], e.exc = [c.exc EXCEPT ![s] = NoExc],
           e.catch = [c.catch EXCEPT ![s] = "none"]
    PROVE  Inv(e, d, r, b, p, N)
  <1>1. /\ c \in Trees /\ N \in Nat /\ Tree(c, d) /\ RootOK(c, d, r, N) /\ GoneOK(c) /\ RunOK(c, r)
        /\ CallOK(c, r)
        /\ WakeOK(c) /\ BlockOK(c, r, b) /\ ExcOK(c, r) /\ CloseOK(c, r, p, N) /\ StartOK(c, r)
    BY DEF Inv
  <1>22. \A u \in Task : e.pmode[u] = IF u = s THEN "ABSENT" ELSE c.pmode[u]
    BY <1>1 DEF Trees
  <1>2. Live(e) = Live(c) /\ Normal(e) = Normal(c) /\ Closing(e) = Closing(c)
    BY <1>22 DEF Live, Normal, Closing
  <1>3. /\ \A u \in Task : e.parent[u] = IF u = s THEN NULL ELSE c.parent[u]
        /\ \A u \in Task : e.caller[u] = IF u = s THEN NULL ELSE c.caller[u]
        /\ \A u \in Task : e.catch[u] = IF u = s THEN "none" ELSE c.catch[u]
        /\ \A u \in Task : e.exc[u] = IF u = s THEN NoExc ELSE c.exc[u]
        /\ \A u \in Task \cup {NULL} : e.ring[u] = IF u = s THEN <<>> ELSE c.ring[u]
    BY <1>1 DEF Trees
  <1>4. /\ Live(c) \subseteq Task /\ Normal(c) \subseteq Live(c) /\ Closing(c) \subseteq Live(c)
        /\ NULL \notin Task /\ Normal(c) \cap Closing(c) = {}
    BY TaskAssumption DEF Live, Normal, Closing
  <1>5. s \notin Live(c) /\ s \notin c.waiting /\ c.exc[s] = NoExc /\ c.caller[s] = NULL
    BY <1>1 DEF Live, GoneOK
  <1>6. (\A u \in Live(c) : c.parent[u] # s) /\ s # NULL
    BY <1>1, <1>4, <1>5 DEF Tree
  <1>7. c.ring[s] = <<>>
    BY <1>1, <1>6, ToSetIs DEF Tree
  <1>8. e.caller = c.caller /\ e.exc = c.exc /\ e.ring = c.ring
    BY <1>1, <1>5, <1>7 DEF Trees
  <1>9. Tokens(e) = Tokens(c) /\ Heads(e) = Heads(c) /\ Pending(e) = Pending(c)
    BY <1>1, <1>2, <1>5, <1>8 DEF Tokens, Heads, Pending
  <1>10. s \notin c.bound /\ e.waiting = c.waiting
    BY <1>1, <1>4, <1>5 DEF RunOK
  <1>11. \A u \in Live(c) : u \in Active(c) => u \in Active(e)
    BY <1>5 DEF Active
  <1>12. \A u \in Live(c) : r[u] \in Live(c)
    BY <1>1 DEF RootOK
  <1>13. \A u \in Tokens(c) \cup Closing(c) : u \in Live(c)
    BY <1>1, <1>4 DEF RunOK, Tokens
  <1>14. \A u \in Live(c) : e.parent[u] = c.parent[u] /\ e.catch[u] = c.catch[u] /\ e.pmode[u] = c.pmode[u]
    BY <1>3, <1>22, <1>4, <1>5
  <1>100. Tree(e, d)
    BY <1>1, <1>2, <1>3, <1>4, <1>5, <1>6, <1>8, <1>14 DEF Tree, Trees
  <1>101. RootOK(e, d, r, N)
    BY <1>1, <1>2, <1>14 DEF RootOK
  <1>102. GoneOK(e)
    BY <1>1, <1>2, <1>22, <1>3, <1>8, <1>10 DEF GoneOK
  <1>103. RunOK(e, r)
    BY <1>1, <1>2, <1>9, <1>10, <1>11, <1>12, <1>13 DEF RunOK
  <1>104. CallOK(e, r)
    <2>1. \A u \in Live(c) : c.caller[u] \in e.run => e.pmode[c.caller[u]] = "ASYNC"
      BY <1>1, <1>22 DEF CallOK
    <2>2. \A u \in Normal(c) : c.caller[u] = IF u \in Active(e) \ Heads(e) THEN e.parent[u] ELSE NULL
      BY <1>1, <1>4, <1>5, <1>9, <1>10, <1>14 DEF CallOK, Active
    <2> QED
      BY <2>1, <2>2, <1>1, <1>2, <1>8, <1>10, <1>9 DEF CallOK
  <1>105. WakeOK(e)
    BY <1>1, <1>2, <1>8, <1>9, <1>10, <1>5, <1>4 DEF WakeOK
  <1>106. BlockOK(e, r, b)
    BY <1>1, <1>2, <1>8, <1>9, <1>10, <1>4, <1>14 DEF BlockOK
  <1>107. ExcOK(e, r)
    <2>1. \A u \in Pending(e) : e.catch[u] = "catch"
      <3>1. \A u \in Pending(c) : u \in Task /\ u # s
        BY <1>5 DEF Pending, NoExc
      <3> QED
        BY <3>1, <1>3, <1>9, <1>1 DEF ExcOK
    <2> QED
      BY <2>1, <1>1, <1>2, <1>8, <1>9, <1>5, <1>4, <1>14 DEF ExcOK
  <1>108. CloseOK(e, r, p, N)
    <2>1. \A u \in Task : e.pmode[u] = "END" => u \in e.run /\ e.ring[u] = <<>>
      BY <1>1, <1>22, <1>8 DEF CloseOK
    <2> QED
      BY <2>1, <1>1, <1>2, <1>8, <1>9, <1>4, <1>14 DEF CloseOK
  <1>109. StartOK(e, r)
    BY <1>1, <1>2, <1>8, <1>14, <1>5 DEF StartOK
  <1> QED
    BY <1>1, <1>100, <1>101, <1>102, <1>103, <1>104, <1>105, <1>106, <1>107, <1>108, <1>109 DEF Inv

(* The memory of a task is to be released when it ends. *)
LEMMA MarkFreeKeeps ==
    ASSUME NEW c, NEW d, NEW r, NEW b, NEW p, NEW N, Inv(c, d, r, b, p, N),
           NEW s \in Task, c.pmode[s] # "ABSENT",
           NEW e \in Trees, e.pmode = c.pmode, e.parent = c.parent, e.ring = c.ring,
           e.autofree = c.autofree \cup {s}, e.mark = c.mark, e.start = c.start,
           e.run = c.run, e.waiting = c.waiting, e.bound = c.bound, e.caller = c.caller,
           e.exc = c.exc, e.catch = c.catch
    PROVE  Inv(e, d, r, b, p, N)
  <1>1. /\ c \in Trees /\ N \in Nat /\ Tree(c, d) /\ RootOK(c, d, r, N) /\ GoneOK(c) /\ RunOK(c, r)
        /\ CallOK(c, r)
        /\ WakeOK(c) /\ BlockOK(c, r, b) /\ ExcOK(c, r) /\ CloseOK(c, r, p, N) /\ StartOK(c, r)
    BY DEF Inv
  <1>2. Live(e) = Live(c) /\ Normal(e) = Normal(c) /\ Closing(e) = Closing(c)
    BY DEF Live, Normal, Closing
  <1>3. /\ Tokens(e) = Tokens(c) /\ Heads(e) = Heads(c) /\ Pending(e) = Pending(c)
        /\ Active(e) = Active(c)
    BY <1>2 DEF Tokens, Heads, Pending, Active
  <1>100. Tree(e, d)
    BY <1>1, <1>2 DEF Tree
  <1>101. RootOK(e, d, r, N)
    BY <1>1, <1>2 DEF RootOK
  <1>102. GoneOK(e)
    BY <1>1, <1>2 DEF GoneOK
  <1>103. RunOK(e, r)
    BY <1>1, <1>2, <1>3 DEF RunOK
  <1>104. CallOK(e, r)
    BY <1>1, <1>2, <1>3 DEF CallOK
  <1>105. WakeOK(e)
    BY <1>1, <1>2, <1>3 DEF WakeOK
  <1>106. BlockOK(e, r, b)
    BY <1>1, <1>2, <1>3 DEF BlockOK
  <1>107. ExcOK(e, r)
    BY <1>1, <1>2, <1>3 DEF ExcOK
  <1>108. CloseOK(e, r, p, N)
    BY <1>1, <1>2, <1>3 DEF CloseOK
  <1>109. StartOK(e, r)
    BY <1>1, <1>2 DEF StartOK
  <1> QED
    BY <1>1, <1>100, <1>101, <1>102, <1>103, <1>104, <1>105, <1>106, <1>107, <1>108, <1>109 DEF Inv

(* What the end of t meets. *)
LEMMA EndMeets ==
    ASSUME NEW c, NEW d, NEW r, NEW b, NEW p, NEW N, Inv(c, d, r, b, p, N),
           NEW t \in Task, c.pmode[t] = "END", t \in c.run,
           NEW v, v = c.caller[t]
    PROVE  /\ t \notin Pending(c) /\ t \notin c.waiting /\ t \notin c.bound /\ t \in Live(c)
           /\ t \in Closing(c)
           /\ c.start[t] = NULL /\ c.ring[t] = <<>>
           /\ \A u \in Live(c) : c.parent[u] # t /\ c.caller[u] # t /\ c.start[u] # t
           /\ v = NULL => r[t] \in Closing(c)
           /\ v # NULL =>
                 /\ v \in Live(c) /\ v # t /\ v \notin c.run /\ v \notin c.bound /\ r[v] = r[t]
                 /\ \A u \in Live(c) : c.caller[u] = v => u = t
           /\ v \in Normal(c) => /\ v \in c.waiting /\ b[v] = NULL /\ v \notin Heads(c)
                                 /\ r[t] \notin Closing(c)
                                 /\ \A u \in Closing(c) : r[u] = r[t] => u = t
  <1>1. /\ c \in Trees /\ N \in Nat /\ Tree(c, d) /\ RootOK(c, d, r, N) /\ GoneOK(c) /\ RunOK(c, r)
        /\ CallOK(c, r)
        /\ WakeOK(c) /\ BlockOK(c, r, b) /\ ExcOK(c, r) /\ CloseOK(c, r, p, N) /\ StartOK(c, r)
    BY DEF Inv
  <1>2. /\ Live(c) \subseteq Task /\ Normal(c) \subseteq Live(c) /\ Closing(c) \subseteq Live(c)
        /\ NULL \notin Task
        /\ Normal(c) \cap Closing(c) = {} /\ t \in Closing(c) /\ t \in Live(c) /\ t # NULL
    BY TaskAssumption DEF Live, Closing, Normal
  <1>3. t \notin Pending(c)
    BY <1>1, <1>2 DEF ExcOK
  <1>4. t \notin c.waiting /\ t \notin c.bound /\ t \in Tokens(c)
    BY <1>1, <1>2 DEF RunOK, Tokens
  <1>5. c.start[t] = NULL
    BY <1>1, <1>2 DEF StartOK
  <1>6. c.ring[t] = <<>> /\ \A u \in Live(c) : c.parent[u] # t
    BY <1>2, NothingBelow
  <1>7. \A u \in Live(c) : c.caller[u] # t
    BY <1>1, <1>2 DEF CallOK
  <1>8. ASSUME NEW u \in Live(c), c.start[u] = t PROVE FALSE
    <2>1. c.pmode[u] = "ASYNC" /\ u \in c.run /\ r[u] = r[t]
      BY <1>8, <1>1, <1>2 DEF StartOK
    <2>2. u = t
      BY <2>1, <1>1, <1>4 DEF RunOK, Tokens
    <2> QED
      BY <2>1, <2>2
  <1>9. v = NULL => r[t] \in Closing(c)
    BY <1>1, <1>2 DEF CloseOK
  <1>10. ASSUME v # NULL
         PROVE  /\ v \in Live(c) /\ v # t /\ v \notin c.run /\ v \notin c.bound /\ r[v] = r[t]
                /\ \A u \in Live(c) : c.caller[u] = v => u = t
    <2>1. v \in Live(c) /\ v \notin c.bound /\ r[v] = r[t]
      BY <1>10, <1>1, <1>2 DEF CallOK
    <2>2. v # t
      BY <1>2, <1>7
    <2>3. v \notin c.run
      BY <2>1, <2>2, <1>1, <1>4 DEF RunOK, Tokens
    <2>4. \A u \in Live(c) : c.caller[u] = v => u = t
      BY <1>10, <1>1, <1>2 DEF CallOK
    <2> QED
      BY <2>1, <2>2, <2>3, <2>4
  <1>11. ASSUME v \in Normal(c)
         PROVE  /\ v \in c.waiting /\ b[v] = NULL /\ v \notin Heads(c)
                /\ r[t] \notin Closing(c)
                /\ \A u \in Closing(c) : r[u] = r[t] => u = t
    <2>1. v \in c.waiting /\ b[v] = NULL
      BY <1>11, <1>1, <1>2 DEF CallOK, BlockOK
    <2>2. v \notin Heads(c) /\ v # NULL
      BY <2>1, <1>1, <1>2, <1>11 DEF BlockOK
    <2>3. r[v] = r[t]
      BY <1>10, <2>2
    <2>4. r[t] \notin Closing(c)
      BY <2>3, <1>11, <1>2, RootLocked
    <2>5. c.parent[t] \notin Closing(c)
      BY <2>4, <1>11, <1>1, <1>2 DEF CloseOK
    <2>6. \A u \in Closing(c) : r[u] = r[t] => u = t
      BY <2>4, <2>5, <1>2, <1>6, ClosesAlone
    <2> QED
      BY <2>1, <2>2, <2>4, <2>6
  <1> QED
    BY <1>2, <1>3, <1>4, <1>5, <1>6, <1>7, <1>8, <1>9, <1>10, <1>11

(* A task that ends leaves the tree and gives control to its caller. *)
LEMMA LeaveKeeps ==
    ASSUME NEW c, NEW d, NEW r, NEW b, NEW p, NEW N, Inv(c, d, r, b, p, N),
           NEW t \in Task, c.pmode[t] = "END", t \in c.run, NEW v, v = c.caller[t],
           NEW e \in Trees, e.pmode = [c.pmode EXCEPT ![t] = "OFF"], e.parent = c.parent,
           e.ring = [c.ring EXCEPT ![c.parent[t]] = RemoveSibling(@, t)],
           e.run = IF v = NULL THEN c.run ELSE c.run \cup {v}, e.waiting = c.waiting \ {v}, e.bound = c.bound,
           e.caller = [c.caller EXCEPT ![t] = NULL], e.exc = [c.exc EXCEPT ![t] = NoExc],
           e.autofree = c.autofree, e.mark = c.mark, e.start = c.start, e.catch = c.catch
    PROVE  Inv(e, d, r, b, p, N)
  <1>1. /\ c \in Trees /\ N \in Nat /\ Tree(c, d) /\ RootOK(c, d, r, N) /\ GoneOK(c) /\ RunOK(c, r)
        /\ CallOK(c, r)
        /\ WakeOK(c) /\ BlockOK(c, r, b) /\ ExcOK(c, r) /\ CloseOK(c, r, p, N) /\ StartOK(c, r)
    BY DEF Inv
  <1>22. \A u \in Task : e.pmode[u] = IF u = t THEN "OFF" ELSE c.pmode[u]
    BY <1>1 DEF Trees
  <1>2. Live(e) = Live(c) \ {t} /\ Normal(e) = Normal(c) /\ Closing(e) = Closing(c) \ {t}
    BY <1>22 DEF Live, Normal, Closing
  <1>3. /\ t \notin Pending(c) /\ t \notin c.waiting /\ t \notin c.bound /\ t \in Live(c)
        /\ t \in Closing(c)
        /\ c.start[t] = NULL /\ c.ring[t] = <<>>
        /\ \A u \in Live(c) : c.parent[u] # t /\ c.caller[u] # t /\ c.start[u] # t
    BY EndMeets
  <1>4. v = NULL => r[t] \in Closing(c)
    BY EndMeets
  <1>5. v # NULL => /\ v \in Live(c) /\ v # t /\ v \notin c.run /\ v \notin c.bound /\ r[v] = r[t]
                    /\ \A u \in Live(c) : c.caller[u] = v => u = t
    BY EndMeets
  <1>6. v \in Normal(c) => /\ v \in c.waiting /\ b[v] = NULL /\ v \notin Heads(c)
                           /\ r[t] \notin Closing(c)
                           /\ \A u \in Closing(c) : r[u] = r[t] => u = t
    BY EndMeets
  <1>7. /\ Live(c) \subseteq Task /\ Normal(c) \subseteq Live(c) /\ Closing(c) \subseteq Live(c)
        /\ NULL \notin Task /\ Normal(c) \cap Closing(c) = {}
    BY TaskAssumption DEF Live, Normal, Closing
  <1>8. /\ \A u \in Task : e.caller[u] = IF u = t THEN NULL ELSE c.caller[u]
        /\ \A u \in Task : e.exc[u] = IF u = t THEN NoExc ELSE c.exc[u]
        /\ \A u \in Task \cup {NULL} : u # c.parent[t] => e.ring[u] = c.ring[u]
        /\ e.ring[c.parent[t]] = RemoveSibling(c.ring[c.parent[t]], t)
    BY <1>1 DEF Trees
  <1>9. Tokens(e) = IF v = NULL THEN Tokens(c) \ {t} ELSE (Tokens(c) \ {t}) \cup {v}
    BY <1>2, <1>3, <1>5 DEF Tokens
  <1>10. Heads(e) = Heads(c) /\ Pending(e) = Pending(c)
    BY <1>2, <1>3, <1>7, <1>8 DEF Heads, Pending, NoExc
  <1>11. ASSUME NEW u \in Live(c), r[u] = t PROVE u = t
    BY <1>11, <1>3, RootAlone
  <1>12. \A u \in Task : u \in Active(c) => u \in Active(e)
    BY <1>7 DEF Active
  <1>13. \A u \in Tokens(c) \cup Closing(c) : u \in Live(c)
    BY <1>1, <1>7 DEF RunOK, Tokens
  <1>14. NULL \notin c.run /\ NULL \notin c.waiting /\ NULL \notin c.bound
    BY <1>1, <1>7 DEF Trees
  <1>15. t \in Tokens(c)
    BY <1>3 DEF Tokens
  <1>100. Tree(e, d)
    <2>1. c.parent[t] \in Task \cup {NULL}
      BY <1>1 DEF Trees
    <2>2. /\ c.ring[c.parent[t]] \in Seq(Task) /\ Sorted(c.ring[c.parent[t]], Different)
          /\ t \in ToSet(c.ring[c.parent[t]])
      BY <2>1, <1>1, <1>3 DEF Tree
    <2>3. /\ RemoveSibling(c.ring[c.parent[t]], t) \in Seq(Task)
          /\ Sorted(RemoveSibling(c.ring[c.parent[t]], t), Different)
          /\ ToSet(RemoveSibling(c.ring[c.parent[t]], t)) = ToSet(c.ring[c.parent[t]]) \ {t}
      BY <2>2, RemoveSiblingIs
    <2>4. \A u \in Task \cup {NULL} : ToSet(c.ring[u]) = {w \in Live(c) : c.parent[w] = u}
      BY <1>1 DEF Tree
    <2>5. \A u \in Task \cup {NULL} : e.ring[u] \in Seq(Task) /\ Sorted(e.ring[u], Different)
      BY <2>3, <1>8, <1>1 DEF Tree
    <2>6. \A u \in Task \cup {NULL} : ToSet(e.ring[u]) = {w \in Live(e) : e.parent[w] = u}
      <3>1. ToSet(e.ring[c.parent[t]]) = {w \in Live(e) : e.parent[w] = c.parent[t]}
        BY <2>1, <2>3, <2>4, <1>2, <1>8
      <3>2. ASSUME NEW u \in Task \cup {NULL}, u # c.parent[t]
            PROVE  ToSet(e.ring[u]) = {w \in Live(e) : e.parent[w] = u}
        BY <3>2, <2>4, <1>2, <1>8
      <3> QED
        BY <3>1, <3>2
    <2>7. \A u \in Live(e) : e.parent[u] # NULL => e.parent[u] \in Live(e) /\ d[e.parent[u]] < d[u]
      BY <1>1, <1>2, <1>3, <1>7 DEF Tree
    <2>8. e.parent \in [Task -> Task \cup {NULL}] /\ d \in [Task -> Nat]
      BY <1>1 DEF Trees, Tree
    <2> QED
      BY <2>5, <2>6, <2>7, <2>8 DEF Tree
  <1>101. RootOK(e, d, r, N)
    BY <1>1, <1>2, <1>3, <1>11 DEF RootOK
  <1>102. GoneOK(e)
    BY <1>1, <1>2, <1>22, <1>3, <1>5, <1>7, <1>8 DEF GoneOK, Live
  <1>103. RunOK(e, r)
    <2>1. \A w, u \in Tokens(e) : r[w] = r[u] => w = u
      BY <1>1, <1>5, <1>9, <1>15 DEF RunOK
    <2>2. \A u \in Tokens(e) \cup Closing(e) : u \in Live(c) /\ u # t /\ r[u] # t
      BY <1>2, <1>9, <1>11, <1>13, <1>5
    <2>3. \A u \in Tokens(e) \cup Closing(e) : r[u] \in Closing(e) \cup Active(e)
      <3>1. ASSUME NEW u \in Tokens(e) \cup Closing(e) PROVE r[u] \in Closing(c) \cup Active(c)
        BY <1>1, <1>2, <1>5, <1>9, <1>15 DEF RunOK
      <3>2. ASSUME NEW u \in Tokens(e) \cup Closing(e) PROVE r[u] \in Task
        BY <2>2, <1>1, <1>7 DEF RootOK
      <3> QED
        BY <3>1, <3>2, <2>2, <1>2, <1>12
    <2>4. e.run \cap e.waiting = {} /\ e.bound \subseteq e.waiting \cap Normal(e)
      BY <1>1, <1>2, <1>5, <1>14 DEF RunOK
    <2> QED
      BY <2>1, <2>3, <2>4 DEF RunOK
  <1>104. CallOK(e, r)
    <2>1. \A u \in Live(e) : u \in Live(c) /\ u # t /\ e.caller[u] = c.caller[u] /\ c.caller[u] # t
      BY <1>2, <1>3, <1>7, <1>8
    <2>2. \A u \in Live(e) : e.caller[u] # NULL =>
             e.caller[u] \in Live(e) \ e.bound /\ r[e.caller[u]] = r[u]
      BY <2>1, <1>1, <1>2 DEF CallOK
    <2>3. \A u \in Live(e) : e.caller[u] # v \/ v = NULL
      BY <2>1, <1>5
    <2>4. \A u \in Live(e) : e.caller[u] \in Normal(e) => e.caller[u] \in e.waiting
      BY <2>1, <2>3, <1>1, <1>2, <1>7 DEF CallOK
    <2>5. \A u \in Live(e) : e.caller[u] \in e.run => e.pmode[e.caller[u]] = "ASYNC"
      <3>1. ASSUME NEW u \in Live(e), e.caller[u] \in e.run
            PROVE  e.caller[u] \in c.run /\ e.caller[u] \in Task
        BY <3>1, <2>1, <2>3, <1>1, <1>14 DEF Trees
      <3> QED
        BY <3>1, <2>1, <1>1, <1>22 DEF CallOK
    <2>6. \A w, u \in Live(e) : e.caller[w] = e.caller[u] /\ e.caller[w] # NULL => w = u
      BY <2>1, <1>1 DEF CallOK
    <2>7. \A u \in Normal(e) : e.caller[u] = IF u \in Active(e) \ Heads(e) THEN e.parent[u] ELSE NULL
      <3>1. ASSUME NEW u \in Normal(c) PROVE u \in Active(c) <=> u \in Active(e)
        BY <1>6, <1>7, <1>12 DEF Active
      <3> QED
        BY <3>1, <1>1, <1>2, <1>3, <1>7, <1>8, <1>10 DEF CallOK
    <2> QED
      BY <2>2, <2>4, <2>5, <2>6, <2>7 DEF CallOK
  <1>105. WakeOK(e)
    <2>1. ASSUME NEW x \in (e.waiting \cup Closing(e)) \ (e.run \cup e.bound)
          PROVE  x \in (c.waiting \cup Closing(c)) \ (c.run \cup c.bound) /\ x # v /\ x # NULL
      <3>1. x # NULL
        BY <1>2, <1>7, <1>14
      <3> QED
        BY <3>1, <1>2
    <2>2. \A u \in Live(c) : c.caller[u] # NULL /\ c.caller[u] # v =>
             u \in Live(e) /\ e.caller[u] = c.caller[u]
      BY <1>2, <1>7, <1>8
    <2>3. \A u \in Live(c) : c.start[u] # NULL => u \in Live(e)
      BY <1>2, <1>3
    <2>4. \A h \in Heads(c) : e.exc[h] = c.exc[h]
      BY <1>8, <1>7, <1>3 DEF Heads
    <2> QED
      BY <2>1, <2>2, <2>3, <2>4, <1>1, <1>10 DEF WakeOK
  <1>106. BlockOK(e, r, b)
    <2>1. \A u \in Task : b[u] # NULL =>
          /\ u \in (Normal(e) \cap e.waiting) \ e.bound
          /\ b[u] \in Heads(e)
          /\ r[u] = r[b[u]]
          /\ e.parent[u] # NULL
      BY <1>1, <1>2, <1>6, <1>10 DEF BlockOK
    <2>2. \A h \in Heads(c) : e.exc[h] = c.exc[h]
      BY <1>8, <1>7, <1>3 DEF Heads
    <2>3. \A u \in Live(e) : u \in Live(c) /\ e.caller[u] = c.caller[u]
      BY <1>2, <1>7, <1>8
    <2> QED
      BY <2>1, <2>2, <2>3, <1>1, <1>2, <1>10 DEF BlockOK
  <1>107. ExcOK(e, r)
    <2>1. ASSUME NEW u \in Normal(e) \cap Pending(e)
          PROVE  u \in e.run \/ \E k \in Closing(e) : e.caller[k] = u
      <3>1. CASE u \in c.run
        BY <3>1
      <3>2. CASE u \notin c.run
        <4>1. PICK k \in Closing(c) : c.caller[k] = u
          BY <3>2, <2>1, <1>1, <1>2, <1>10 DEF ExcOK
        <4>2. CASE k = t
          BY <4>1, <4>2, <2>1, <1>2, <1>7
        <4>3. CASE k # t
          BY <4>1, <4>3, <1>2, <1>7, <1>8
        <4> QED
          BY <4>2, <4>3
      <3> QED
        BY <3>1, <3>2
    <2>2. \A u \in Closing(e) \cap Pending(e) : r[u] \in Closing(e) /\ e.pmode[u] # "END"
      BY <1>1, <1>2, <1>22, <1>7, <1>10, <1>11 DEF ExcOK
    <2>3. \A u \in Pending(e) : e.catch[u] = "catch"
      BY <1>1, <1>10 DEF ExcOK
    <2> QED
      BY <2>1, <2>2, <2>3, <1>1, <1>2 DEF ExcOK
  <1>108. CloseOK(e, r, p, N)
    <2>1. p \in [Task -> Nat] /\ \A u \in Task : p[u] <= N
      BY <1>1 DEF CloseOK
    <2>2. ASSUME NEW u \in Tokens(e) \cap Normal(e), NEW k \in Closing(e) PROVE r[k] # r[u]
      <3>1. CASE u \in Tokens(c)
        BY <3>1, <2>2, <1>1, <1>2 DEF CloseOK
      <3>2. CASE u = v /\ v # NULL
        BY <3>2, <2>2, <1>2, <1>5, <1>6
      <3> QED
        BY <3>1, <3>2, <2>2, <1>9
    <2>3. ASSUME NEW k \in Closing(e)
          PROVE  /\ k \in Live(c) /\ k \in Closing(c) /\ e.caller[k] = c.caller[k]
                 /\ c.caller[k] # t /\ c.parent[k] # t /\ r[k] # t
      BY <2>3, <1>2, <1>3, <1>7, <1>8, <1>11
    <2>4. \A k \in Closing(e) :
             /\ e.caller[k] \in Closing(e) => p[k] < p[e.caller[k]]
             /\ e.parent[k] \in Closing(e) => p[k] < p[e.parent[k]]
      BY <2>3, <1>1, <1>2 DEF CloseOK
    <2>5. ASSUME NEW u \in Task, e.pmode[u] = "END" PROVE u \in e.run /\ e.ring[u] = <<>>
      <3>1. c.pmode[u] = "END"
        BY <2>5, <1>22
      <3>2. u \in c.run /\ c.ring[u] = <<>>
        BY <3>1, <1>1 DEF CloseOK
      <3>3. u # c.parent[t]
        BY <3>2, <1>1, <1>3, ToSetIs DEF Tree
      <3> QED
        BY <3>2, <3>3, <1>8
    <2>6. \A k \in Closing(e) : r[k] \notin Closing(e) =>
          e.caller[k] # NULL /\ (e.parent[k] \in Closing(e) <=> e.caller[k] \in Closing(e))
      BY <2>3, <1>1, <1>2 DEF CloseOK
    <2>7. \A j, k \in Closing(e) :
          r[j] = r[k] /\ r[k] \notin Closing(e) /\ e.parent[j] \notin Closing(e) /\ e.parent[k] \notin Closing(e)
             => j = k
      BY <2>3, <1>1, <1>2 DEF CloseOK
    <2> QED
      BY <2>1, <2>2, <2>4, <2>5, <2>6, <2>7 DEF CloseOK
  <1>109. StartOK(e, r)
    <2>1. \A u \in Live(e) : u \in Live(c) /\ u # t /\ e.caller[u] = c.caller[u] /\ c.caller[u] # t /\ c.start[u] # t
      BY <1>2, <1>3, <1>7, <1>8
    <2>2. \A u \in Live(e) : e.pmode[u] # "ASYNC" => e.start[u] = NULL
      BY <2>1, <1>1, <1>22, <1>7 DEF StartOK
    <2>3. ASSUME NEW u \in Live(e), e.pmode[u] = "ASYNC"
          PROVE  /\ u \in e.run
                 /\ e.start[u] \in Closing(e) /\ r[e.start[u]] = r[u]
                 /\ \A w \in Live(e) : e.caller[w] # e.start[u]
                 /\ e.start[u] # u => \E w \in Live(e) : e.caller[w] = u
      <3>1. u \in Live(c) /\ c.pmode[u] = "ASYNC" /\ c.start[u] # t
        BY <2>1, <2>3, <1>22, <1>7
      <3>2. u \in c.run /\ c.start[u] \in Closing(c) /\ r[c.start[u]] = r[u]
            /\ \A w \in Live(c) : c.caller[w] # c.start[u]
        BY <3>1, <1>1 DEF StartOK
      <3>3. ASSUME c.start[u] # u PROVE \E w \in Live(e) : e.caller[w] = u
        <4>1. PICK w \in Live(c) : c.caller[w] = u
          BY <3>1, <3>3, <1>1 DEF StartOK
        <4>2. w # t
          BY <4>1, <3>2, <1>5, <3>1, <1>7
        <4> QED
          BY <4>1, <4>2, <1>2, <1>7, <1>8
      <3> QED
        BY <3>1, <3>2, <3>3, <2>1, <1>2
    <2> QED
      BY <2>2, <2>3 DEF StartOK
  <1> QED
    BY <1>1, <1>100, <1>101, <1>102, <1>103, <1>104, <1>105, <1>106, <1>107, <1>108, <1>109 DEF Inv

----------------------------------------------------------------------------
(* Tasks begin to close.  Cut says which ones may, Cuts what becomes of    *)
(* the tree; CutKeeps is the heart of the proof.                           *)

(* What a close may take: the tasks Q of the context of x, with all that is *)
(* below them; the tasks Z are reset, and tail is resumed at the end.  J is *)
(* the task that closes already and ends before the others.                 *)
Cut(c, r, b, x, Q, Z, tail, J) ==
    /\ Q \subseteq Normal(c) /\ Z \subseteq Normal(c) /\ Q \cap Z = {}
    /\ \A u \in Q \cup Z : r[u] = x
    /\ \A u \in Normal(c) : c.parent[u] \in Q => u \in Q
    /\ \A u \in Live(c) : c.caller[u] \in Q \cup Z => u \in Q \cup Z \cup {J}
    /\ \A u \in Q \cup Z : c.caller[u] \in Q \cup Z \cup {NULL, tail}
    /\ J # NULL => J \in Closing(c) /\ c.caller[J] \in Q /\ r[J] = x /\ x \in Q
    /\ \A u \in Task : b[u] # NULL => (u \in Q <=> b[u] \in Q)
    /\ \A u \in Z : b[u] = NULL /\ u \notin c.bound /\ u # x
    /\ tail # NULL =>
          /\ tail \in Normal(c) \cap Active(c) /\ tail \notin c.bound /\ tail \notin Q \cup Z
          /\ r[tail] = x /\ b[tail] = NULL
          /\ \A u \in Live(c) : c.caller[u] = tail => u \in Q \cup Z
    /\ Q \cap Pending(c) # {} => x \in Q
    /\ Z \cap Pending(c) = {}
    /\ x \in Q \/ (tail # NULL /\ x \in Active(c) /\ \A k \in Closing(c) : r[k] # x)

(* The tasks of Q end one after the other, from last to first, by p. *)
Queue(c, caller, Q, first, last, tail, p, N) ==
    /\ first \in Q /\ last \in Q /\ caller[first] = tail
    /\ \A u \in Q : p[u] > N /\ caller[u] # last
    /\ \A u \in Q : u # first => caller[u] \in Q /\ p[u] < p[caller[u]]
    /\ \A u \in Q : u # last => \E w \in Q : caller[w] = u
    /\ \A u, w \in Q : caller[u] = caller[w] => u = w
    /\ \A u \in Q : c.parent[u] \in Q => p[u] < p[c.parent[u]]
    /\ tail # NULL => c.parent[first] \notin Q /\ \A u \in Q : c.parent[u] \in Q \/ u = first

(* The tree after it. *)
Cuts(c, e, r, x, Q, Z, tail, J, last) ==
    LET T == Q \cup Z \cup {tail}
    IN  /\ \A u \in Task \ Q : e.pmode[u] = c.pmode[u]
        /\ \A u \in Q : e.pmode[u] \in {"CLOSE", "ASYNC"}
        /\ e.parent = c.parent /\ e.ring = c.ring /\ e.autofree = c.autofree /\ e.catch = c.catch
        /\ e.mark \subseteq c.mark \cup Q /\ e.bound = c.bound \ Q
        /\ \A u \in Task : u # tail => e.exc[u] = c.exc[u]
        /\ tail # NULL =>
              e.exc[tail] = c.exc[tail] \/ (e.exc[tail].kind = "ABORT" /\ c.catch[tail] = "catch")
        /\ e.run \cap e.waiting = {}
        /\ \A u \in Task \ T : (u \in e.run <=> u \in c.run) /\ (u \in e.waiting <=> u \in c.waiting)
        /\ \A u \in Z : u \notin e.run /\ u \notin e.waiting /\ e.caller[u] = NULL
        /\ tail # NULL => IF Q = {} THEN tail \in e.run ELSE tail \in e.waiting
        /\ \A u, w \in e.run \cap T : u = w
        /\ e.run \cap T = {} \/ \A u \in Tokens(c) : r[u] = x => u \in T
        /\ \A u \in Task \ (Q \cup Z \cup {J}) : e.caller[u] = c.caller[u]
        /\ J # NULL => e.caller[J] = last
        /\ \A u \in Task : e.start[u] = IF u \in Q /\ e.pmode[u] = "ASYNC" THEN last ELSE c.start[u]
        /\ \A u \in Q : IF e.pmode[u] = "ASYNC" THEN u \in e.run ELSE u \in e.run => u = last /\ J = NULL
        /\ Q # {} => last \in e.run \/ J # NULL \/ \E u \in Q : e.pmode[u] = "ASYNC"
        /\ (\E u \in Q : e.pmode[u] = "ASYNC") => J = NULL

(* Q ends after all that closes already. *)
Ranks(Q, p, N, q, M) ==
    /\ M \in Nat /\ N <= M /\ q \in [Task -> Nat]
    /\ \A u \in Task : q[u] <= M /\ (u \notin Q => q[u] = p[u])

(* What is cut from a good tree in this way closes; the tree stays good. *)
LEMMA CutKeeps ==
    ASSUME NEW c, NEW d, NEW r, NEW b, NEW p, NEW N, Inv(c, d, r, b, p, N),
           NEW x, NEW Q, NEW Z, NEW tail, NEW J, NEW first, NEW last, NEW q, NEW M, NEW e \in Trees,
           Cut(c, r, b, x, Q, Z, tail, J),
           Q # {} => Queue(c, e.caller, Q, first, last, tail, q, N),
           Cuts(c, e, r, x, Q, Z, tail, J, last),
           Ranks(Q, p, N, q, M)
    PROVE  \E nb : Inv(e, d, r, nb, q, M)
  <1>1. /\ c \in Trees /\ N \in Nat /\ Tree(c, d) /\ RootOK(c, d, r, N) /\ GoneOK(c) /\ RunOK(c, r)
        /\ CallOK(c, r)
        /\ WakeOK(c) /\ BlockOK(c, r, b) /\ ExcOK(c, r) /\ CloseOK(c, r, p, N) /\ StartOK(c, r)
    BY DEF Inv
  <1> DEFINE nb == [u \in Task |-> IF u \in Q THEN NULL ELSE b[u]]
             T == Q \cup Z \cup {tail}
  <1>3. /\ Q \subseteq Normal(c) /\ Z \subseteq Normal(c) /\ Q \cap Z = {}
        /\ \A u \in Q \cup Z : r[u] = x
        /\ \A u \in Normal(c) : c.parent[u] \in Q => u \in Q
        /\ \A u \in Live(c) : c.caller[u] \in Q \cup Z => u \in Q \cup Z \cup {J}
        /\ \A u \in Q \cup Z : c.caller[u] \in Q \cup Z \cup {NULL, tail}
        /\ \A u \in Task : b[u] # NULL => (u \in Q <=> b[u] \in Q)
        /\ \A u \in Z : b[u] = NULL /\ u \notin c.bound /\ u # x
        /\ Q \cap Pending(c) # {} => x \in Q
        /\ Z \cap Pending(c) = {}
    BY DEF Cut
  <1>4. J # NULL => J \in Closing(c) /\ c.caller[J] \in Q /\ r[J] = x /\ x \in Q
    BY DEF Cut
  <1>5. tail # NULL =>
           /\ tail \in Normal(c) \cap Active(c) /\ tail \notin c.bound /\ tail \notin Q \cup Z
           /\ r[tail] = x /\ b[tail] = NULL
           /\ \A u \in Live(c) : c.caller[u] = tail => u \in Q \cup Z
    BY DEF Cut
  <1>6. x \in Q \/ (tail # NULL /\ x \in Active(c) /\ \A k \in Closing(c) : r[k] # x)
    BY DEF Cut
  <1>7. Q # {} =>
        /\ first \in Q /\ last \in Q /\ e.caller[first] = tail
        /\ \A u \in Q : q[u] > N /\ e.caller[u] # last
        /\ \A u \in Q : u # first => e.caller[u] \in Q /\ q[u] < q[e.caller[u]]
        /\ \A u \in Q : u # last => \E w \in Q : e.caller[w] = u
        /\ \A u, w \in Q : e.caller[u] = e.caller[w] => u = w
        /\ \A u \in Q : c.parent[u] \in Q => q[u] < q[c.parent[u]]
        /\ tail # NULL => c.parent[first] \notin Q /\ \A u \in Q : c.parent[u] \in Q \/ u = first
    BY DEF Queue
  <1>8. /\ \A u \in Task \ Q : e.pmode[u] = c.pmode[u]
        /\ \A u \in Q : e.pmode[u] \in {"CLOSE", "ASYNC"}
        /\ e.parent = c.parent /\ e.ring = c.ring /\ e.autofree = c.autofree /\ e.catch = c.catch
        /\ e.mark \subseteq c.mark \cup Q /\ e.bound = c.bound \ Q
    BY DEF Cuts
  <1>9. /\ \A u \in Task : u # tail => e.exc[u] = c.exc[u]
        /\ tail # NULL =>
              e.exc[tail] = c.exc[tail] \/ (e.exc[tail].kind = "ABORT" /\ c.catch[tail] = "catch")
    BY DEF Cuts
  <1>10. /\ e.run \cap e.waiting = {}
         /\ \A u \in Task \ T : (u \in e.run <=> u \in c.run) /\ (u \in e.waiting <=> u \in c.waiting)
         /\ \A u \in Z : u \notin e.run /\ u \notin e.waiting /\ e.caller[u] = NULL
         /\ tail # NULL => IF Q = {} THEN tail \in e.run ELSE tail \in e.waiting
         /\ \A u, w \in e.run \cap T : u = w
         /\ e.run \cap T = {} \/ \A u \in Tokens(c) : r[u] = x => u \in T
    BY DEF Cuts
  <1>11. /\ \A u \in Task \ (Q \cup Z \cup {J}) : e.caller[u] = c.caller[u]
         /\ J # NULL => e.caller[J] = last
         /\ \A u \in Task : e.start[u] = IF u \in Q /\ e.pmode[u] = "ASYNC" THEN last ELSE c.start[u]
         /\ \A u \in Q : IF e.pmode[u] = "ASYNC" THEN u \in e.run ELSE u \in e.run => u = last /\ J = NULL
         /\ Q # {} => last \in e.run \/ J # NULL \/ \E u \in Q : e.pmode[u] = "ASYNC"
         /\ (\E u \in Q : e.pmode[u] = "ASYNC") => J = NULL
    BY DEF Cuts
  <1> HIDE DEF T
  <1>12. /\ Live(c) \subseteq Task /\ Normal(c) \subseteq Live(c) /\ Closing(c) \subseteq Live(c)
         /\ NULL \notin Task /\ Normal(c) \cap Closing(c) = {}
    BY TaskAssumption DEF Live, Normal, Closing
  <1>13. T = Q \cup Z \cup {tail}
    BY DEF T
  <1>14. Live(e) = Live(c) /\ Normal(e) = Normal(c) \ Q /\ Closing(e) = Closing(c) \cup Q
    BY <1>3, <1>8, <1>12 DEF Live, Normal, Closing
  <1>15. \A u \in Task : nb[u] = IF u \in Q THEN NULL ELSE b[u]
    OBVIOUS
  <1>16. nb \in [Task -> Task \cup {NULL}]
    BY <1>1 DEF BlockOK
  <1> HIDE DEF nb
  <1>17. tail # NULL =>
            tail \in Task /\ tail \in Live(c) /\ tail \notin Closing(c) /\ tail \notin Heads(c)
    BY <1>1, <1>5, <1>12 DEF BlockOK
  <1>18. Heads(e) = Heads(c) \ Q /\ \A u \in Heads(c) : e.exc[u] = c.exc[u] /\ u # tail
    BY <1>9, <1>12, <1>14, <1>17 DEF Heads
  <1>19. \A u \in Pending(e) : u # tail => u \in Pending(c)
    BY <1>9 DEF Pending
  <1>20. /\ NULL \notin e.run /\ NULL \notin e.waiting /\ e.run \subseteq Task
         /\ e.waiting \subseteq Task /\ c.bound \subseteq Normal(c) /\ c.bound \subseteq c.waiting
    BY <1>1, <1>12 DEF Trees, RunOK
  <1>21. ASSUME NEW u \in Tokens(e) PROVE u \in e.run \cap T \/ (u \notin T /\ u \in Tokens(c))
    <2>1. CASE u \in e.bound
      <3>1. u \in c.bound /\ u \notin Q /\ u # NULL
        BY <2>1, <1>8, <1>12, <1>20
      <3> QED
        BY <3>1, <1>3, <1>5, <1>13 DEF Tokens
    <2>2. CASE u \in e.run /\ u \in Live(c) /\ u \notin T
      BY <2>2, <1>10, <1>12 DEF Tokens
    <2>3. u \in e.bound \/ (u \in e.run /\ u \in Live(c))
      BY <1>14, <1>21 DEF Tokens
    <2> QED
      BY <2>1, <2>2, <2>3, <1>21
  <1>22. \A u \in Task : u \notin Q \cup Z => (u \in Active(c) <=> u \in Active(e))
    BY <1>5, <1>10, <1>13, <1>12 DEF Active
  <1>23. x \in Closing(e) \cup Active(e)
    BY <1>6, <1>14, <1>22, <1>3, <1>1 DEF Trees, Active
  <1>24. \A u \in e.run \cap T : u \in Q \cup Z \cup {tail} /\ r[u] = x /\ u \in Task /\ u \in Live(c)
    BY <1>3, <1>5, <1>13, <1>20, <1>12
  <1>25. \A u \in Tokens(c) \cup Closing(c) : u \in Live(c)
    BY <1>12, <1>20 DEF Tokens
  <1>26. \A u \in Task \ (Q \cup Z) : c.caller[u] # NULL /\ u # J => e.caller[u] = c.caller[u]
    BY <1>11
  <1>27. \A u \in Live(c) : u \notin Q /\ u \notin Z /\ u # J =>
            e.caller[u] = c.caller[u] /\ e.caller[u] \notin Q /\ e.caller[u] \notin Z /\ (e.caller[u] = NULL \/ e.caller[u] # tail)
    BY <1>3, <1>5, <1>11, <1>12
  <1>28. Q = {} => J = NULL
    BY <1>4
  <1>29. ASSUME NEW u \in Q PROVE e.caller[u] \in Q \/ (e.caller[u] = tail /\ u = first)
    <2>1. CASE u = first
      BY <2>1, <1>7
    <2>2. CASE u # first
      <3>1. Q # {}
        OBVIOUS
      <3>2. \A w \in Q : w # first => e.caller[w] \in Q
        BY <3>1, <1>7
      <3> QED
        BY <3>2, <2>2, <1>29
    <2> QED
      BY <2>1, <2>2
  <1>30. /\ M \in Nat /\ N \in Nat /\ N <= M /\ q \in [Task -> Nat] /\ p \in [Task -> Nat]
         /\ \A u \in Task : q[u] <= M /\ p[u] <= N /\ (u \notin Q => q[u] = p[u])
    BY <1>1 DEF Ranks, CloseOK
  <1>100. Tree(e, d)
    BY <1>1, <1>8, <1>14 DEF Tree
  <1>101. RootOK(e, d, r, M)
    <2>1. \A u \in Live(c) : c.parent[u] \in Closing(c) \cup Q => u \in Closing(c) \cup Q
      <3>1. \A u \in Live(c) : u \in Normal(c) \/ u \in Closing(c)
        BY DEF Live, Normal, Closing
      <3> QED
        BY <3>1, <1>1, <1>3 DEF RootOK
    <2>2. \A u \in Task : d[u] <= M
      BY <1>1, <1>30 DEF RootOK, Tree
    <2> QED
      BY <2>1, <2>2, <1>1, <1>8, <1>14 DEF RootOK
  <1>102. GoneOK(e)
    <2>1. \A u \in Task \ Live(c) : u \notin T /\ u # J /\ u \notin Q
      BY <1>3, <1>4, <1>12, <1>13, <1>17
    <2>2. \A u \in Task \ Live(c) : e.caller[u] = c.caller[u] /\ e.start[u] = c.start[u] /\ e.exc[u] = c.exc[u] /\ (u \in e.waiting <=> u \in c.waiting)
      BY <2>1, <1>9, <1>10, <1>11, <1>13
    <2>3. \A u \in Task : e.pmode[u] = "ABSENT" => u \notin Live(c) /\ c.pmode[u] = "ABSENT"
      BY <1>8 DEF Live
    <2>4. \A u \in Task : e.pmode[u] = "ABSENT" =>
             u \notin e.run \cup e.autofree \cup e.mark /\ e.catch[u] = "none"
      BY <2>1, <2>3, <1>1, <1>8, <1>10 DEF GoneOK
    <2> QED
      BY <2>2, <2>4, <1>1, <1>14 DEF GoneOK
  <1>103. RunOK(e, r)
    <2>1. e.bound \subseteq e.waiting \cap Normal(e)
      BY <1>3, <1>5, <1>8, <1>10, <1>12, <1>13, <1>14, <1>20
    <2>2. ASSUME NEW u \in Tokens(e), NEW w \in Tokens(e), r[u] = r[w] PROVE u = w
      <3>1. CASE u \in e.run \cap T /\ w \in e.run \cap T
        BY <3>1, <1>10
      <3>2. CASE u \in e.run \cap T /\ w \notin e.run \cap T
        BY <3>2, <2>2, <1>10, <1>21, <1>24
      <3>3. CASE u \notin e.run \cap T /\ w \in e.run \cap T
        BY <3>3, <2>2, <1>10, <1>21, <1>24
      <3>4. CASE u \notin e.run \cap T /\ w \notin e.run \cap T
        BY <3>4, <2>2, <1>21, <1>1 DEF RunOK
      <3> QED
        BY <3>1, <3>2, <3>3, <3>4
    <2>3. ASSUME NEW u \in Tokens(e) \cup Closing(e) PROVE r[u] \in Closing(e) \cup Active(e)
      <3>1. CASE r[u] = x
        BY <3>1, <1>23
      <3>2. CASE r[u] # x
        <4>1. u \in Tokens(c) \cup Closing(c)
          BY <3>2, <2>3, <1>21, <1>24, <1>14, <1>3
        <4>2. r[u] \in Closing(c) \cup Active(c) /\ r[u] \in Live(c) /\ r[r[u]] = r[u]
          BY <4>1, <1>1, <1>25 DEF RunOK, RootOK
        <4>3. r[u] \notin Q \cup Z
          BY <4>2, <3>2, <1>3
        <4> QED
          BY <4>2, <4>3, <1>22, <1>14, <1>12
      <3> QED
        BY <3>1, <3>2
    <2> QED
      BY <2>1, <2>2, <2>3, <1>10 DEF RunOK
  <1>104. CallOK(e, r)
    <2>1. ASSUME NEW u \in Live(e), e.caller[u] # NULL
          PROVE  e.caller[u] \in Live(e) \ e.bound /\ r[e.caller[u]] = r[u]
      <3>1. CASE u \in Q
        BY <3>1, <2>1, <1>29, <1>3, <1>5, <1>8, <1>12, <1>14
      <3>2. CASE u \in Z
        BY <3>2, <2>1, <1>10
      <3>3. CASE u = J /\ J # NULL
        BY <3>3, <1>4, <1>7, <1>11, <1>28, <1>3, <1>8, <1>12, <1>14
      <3>4. CASE u \notin Q /\ u \notin Z /\ (u # J \/ J = NULL)
        <4>1. u # NULL /\ u \in Task
          BY <1>12, <1>14
        <4> QED
        BY <4>1, <3>4, <2>1, <1>27, <1>1, <1>8, <1>14 DEF CallOK
      <3> QED
        BY <3>1, <3>2, <3>3, <3>4
    <2>2. ASSUME NEW u \in Live(e), e.caller[u] \in Normal(e) PROVE e.caller[u] \in e.waiting
      <3>0. e.caller[u] \notin Q /\ e.caller[u] \in Normal(c) /\ e.caller[u] # NULL
        BY <2>2, <1>14, <1>12
      <3>1. CASE u \in Q
        BY <3>0, <3>1, <1>29, <1>10
      <3>2. CASE u \in Z
        BY <3>0, <3>2, <1>10
      <3>3. CASE u = J /\ J # NULL
        BY <3>0, <3>3, <1>4, <1>7, <1>11
      <3>4. CASE u \notin Q /\ u \notin Z /\ (u # J \/ J = NULL)
        <4>1. u # NULL /\ u \in Task
          BY <1>12, <1>14
        <4>2. e.caller[u] = c.caller[u] /\ e.caller[u] \notin T
          BY <4>1, <3>4, <3>0, <1>27, <1>13, <1>14
        <4>3. c.caller[u] \in c.waiting
          BY <4>2, <3>0, <1>1, <1>14 DEF CallOK
        <4> QED
          BY <4>2, <4>3, <3>0, <1>10, <1>12
      <3> QED
        BY <3>1, <3>2, <3>3, <3>4
    <2>3. ASSUME NEW u \in Live(e), e.caller[u] \in e.run PROVE e.pmode[e.caller[u]] = "ASYNC"
      <3>0. e.caller[u] # NULL /\ e.caller[u] \in Task
        BY <2>3, <1>20
      <3>1. CASE u \in Q
        <4>1. CASE e.caller[u] \in Q
          BY <4>1, <3>1, <2>3, <1>7, <1>8, <1>11
        <4>2. CASE e.caller[u] = tail
          BY <4>2, <3>0, <3>1, <2>3, <1>10
        <4> QED
          BY <4>1, <4>2, <3>1, <1>29
      <3>2. CASE u \in Z
        BY <3>0, <3>2, <1>10
      <3>3. CASE u = J /\ J # NULL
        BY <3>3, <2>3, <1>4, <1>7, <1>8, <1>11
      <3>4. CASE u \notin Q /\ u \notin Z /\ (u # J \/ J = NULL)
        <4>1. u # NULL /\ u \in Task
          BY <1>12, <1>14
        <4>2. e.caller[u] = c.caller[u] /\ e.caller[u] \notin T
          BY <4>1, <3>4, <3>0, <1>27, <1>13, <1>14
        <4>3. c.caller[u] \in c.run
          BY <4>2, <3>0, <2>3, <1>10
        <4> QED
          BY <4>2, <4>3, <3>0, <1>1, <1>14, <1>8, <1>13 DEF CallOK
      <3> QED
        BY <3>1, <3>2, <3>3, <3>4
    <2>4. ASSUME NEW u \in Live(e), NEW w \in Live(e), e.caller[u] = e.caller[w], e.caller[u] # NULL
          PROVE  u = w
      <3>0. u # NULL /\ w # NULL
        BY <1>12, <1>14
      <3>1. CASE u \in Q /\ w \in Q
        BY <3>1, <2>4, <1>7
      <3>2. CASE u \in Q /\ w = J
        BY <3>0, <3>2, <2>4, <1>7, <1>11
      <3>3. CASE w \in Q /\ u = J
        BY <3>0, <3>3, <2>4, <1>7, <1>11
      <3>4. CASE u \notin Q /\ w \notin Q /\ u # J /\ w # J
        BY <3>4, <2>4, <1>1, <1>10, <1>27, <1>14 DEF CallOK
      <3>5. CASE u \in Q \cup {J} /\ w \notin Q \cup {J}
        <4>1. e.caller[u] \in Q \/ e.caller[u] = tail
          BY <3>5, <3>0, <1>7, <1>11, <1>4, <1>29
        <4> QED
          BY <4>1, <3>5, <2>4, <1>27, <1>10, <1>14
      <3>6. CASE w \in Q \cup {J} /\ u \notin Q \cup {J}
        <4>1. e.caller[w] \in Q \/ e.caller[w] = tail
          BY <3>6, <3>0, <1>7, <1>11, <1>4, <1>29
        <4> QED
          BY <4>1, <3>6, <2>4, <1>27, <1>10, <1>14
      <3> QED
        BY <3>1, <3>2, <3>3, <3>4, <3>5, <3>6
    <2>5. ASSUME NEW u \in Normal(e)
          PROVE  e.caller[u] = IF u \in Active(e) \ Heads(e) THEN e.parent[u] ELSE NULL
      <3>1. CASE u \in Z
        BY <3>1, <1>10 DEF Active
      <3>2. CASE u \notin Z
        <4>1. u \notin Q /\ u \in Normal(c) /\ u # J /\ u \in Live(c) /\ u \in Task
          BY <2>5, <1>14, <1>12, <1>4
        <4>2. /\ e.caller[u] = c.caller[u] /\ (u \in Active(c) <=> u \in Active(e))
              /\ (u \in Heads(c) <=> u \in Heads(e))
          BY <4>1, <3>2, <1>27, <1>22, <1>18
        <4> QED
          BY <4>1, <4>2, <1>1, <1>8 DEF CallOK
      <3> QED
        BY <3>1, <3>2
    <2> QED
      BY <2>1, <2>2, <2>3, <2>4, <2>5 DEF CallOK
  <1>105. WakeOK(e)
    <2>1. SUFFICES ASSUME NEW y \in (e.waiting \cup Closing(e)) \ (e.run \cup e.bound)
                   PROVE  \/ \E u \in Live(e) : e.caller[u] = y
                          \/ \E u \in Live(e) : e.start[u] = y
                          \/ \E h \in Heads(e) : e.exc[h].raise = y
      BY DEF WakeOK
    <2>2. y # NULL /\ y \in Task
      BY <2>1, <1>20, <1>14, <1>12, <1>3
    <2>3. CASE y \in Q /\ y # last
      BY <2>3, <1>7, <1>3, <1>12, <1>14
    <2>4. CASE y \in Q /\ y = last
      BY <2>1, <2>4, <1>11, <1>4, <1>3, <1>12, <1>14
    <2>5. CASE y = tail
      BY <2>1, <2>2, <2>5, <1>7, <1>10, <1>3, <1>12, <1>14
    <2>6. CASE y \notin T
      <3>1. /\ y \in (c.waiting \cup Closing(c)) \ (c.run \cup c.bound) /\ y \notin Q /\ y \notin Z
            /\ y # tail
        BY <2>1, <2>2, <2>6, <1>8, <1>10, <1>13, <1>14
      <3>2. CASE \E u \in Live(c) : c.caller[u] = y
        <4>1. PICK u \in Live(c) : c.caller[u] = y
          BY <3>2
        <4>2. u \notin Q /\ u \notin Z /\ u # J
          BY <4>1, <3>1, <2>2, <1>3, <1>4, <1>12
        <4> QED
          BY <4>1, <4>2, <1>27, <1>14
      <3>3. CASE \E u \in Live(c) : c.start[u] = y
        <4>1. PICK u \in Live(c) : c.start[u] = y
          BY <3>3
        <4>2. u \notin Q /\ u \in Task
          BY <4>1, <2>2, <1>1, <1>3, <1>12 DEF StartOK, Normal
        <4> QED
          BY <4>1, <4>2, <1>11, <1>14
      <3>4. CASE \E h \in Heads(c) : c.exc[h].raise = y
        <4>1. PICK h \in Heads(c) : c.exc[h].raise = y
          BY <3>4
        <4>2. b[y] = h /\ h # NULL
          BY <4>1, <1>1, <1>12 DEF BlockOK, Heads
        <4> QED
          BY <4>1, <4>2, <3>1, <2>2, <1>3, <1>18
      <3> QED
        BY <3>1, <3>2, <3>3, <3>4, <1>1 DEF WakeOK
    <2>7. y \notin Z
      BY <2>1, <1>10, <1>14, <1>3, <1>12
    <2> QED
      BY <2>3, <2>4, <2>5, <2>6, <2>7, <1>13
  <1>106. BlockOK(e, r, nb)
    <2>1. ASSUME NEW u \in Task, nb[u] # NULL
          PROVE  /\ u \in (Normal(e) \cap e.waiting) \ e.bound
                 /\ nb[u] \in Heads(e)
                 /\ r[u] = r[nb[u]]
                 /\ e.parent[u] # NULL
      <3>1. u \notin Q /\ nb[u] = b[u] /\ b[u] # NULL /\ b[u] \notin Q
        BY <2>1, <1>15, <1>3
      <3>2. u \notin T
        BY <3>1, <1>3, <1>5, <1>13, <1>12
      <3>3. /\ u \in (Normal(c) \cap c.waiting) \ c.bound /\ b[u] \in Heads(c) /\ r[u] = r[b[u]]
            /\ c.parent[u] # NULL
        BY <3>1, <1>1 DEF BlockOK
      <3> QED
        BY <3>1, <3>2, <3>3, <1>8, <1>10, <1>14, <1>18
    <2>2. ASSUME NEW h \in Heads(e)
          PROVE  /\ nb[h] = h /\ e.exc[h].before = h
                 /\ e.exc[h].raise \in Task /\ nb[e.exc[h].raise] = h
                 /\ \A u \in Live(e) : e.caller[u] # e.exc[h].raise
      <3>1. h \in Heads(c) /\ h \notin Q /\ e.exc[h] = c.exc[h] /\ h \in Task /\ h # NULL
        BY <2>2, <1>18, <1>12 DEF Heads
      <3> DEFINE g == c.exc[h].raise
      <3>2. b[h] = h /\ c.exc[h].before = h /\ g \in Task /\ b[g] = h /\ \A u \in Live(c) : c.caller[u] # g
        BY <3>1, <1>1 DEF BlockOK
      <3> HIDE DEF g
      <3>3. g \notin Q /\ g # tail /\ g # NULL
        BY <3>1, <3>2, <1>3, <1>5, <1>12
      <3>4. ASSUME NEW u \in Live(e), e.caller[u] = g PROVE FALSE
        <4>1. u # NULL /\ u \in Live(c)
          BY <1>12, <1>14
        <4>2. CASE u \in Q
          BY <4>2, <3>4, <3>3, <1>29
        <4>3. CASE u \in Z
          BY <4>3, <3>4, <3>3, <1>10
        <4>4. CASE u = J
          BY <4>1, <4>4, <3>4, <3>3, <1>11, <1>7, <1>4
        <4>5. CASE u \notin Q /\ u \notin Z /\ u # J
          BY <4>1, <4>5, <3>4, <3>2, <1>27
        <4> QED
          BY <4>2, <4>3, <4>4, <4>5
      <3> QED
        BY <3>1, <3>2, <3>3, <3>4, <1>15 DEF g
    <2>3. ASSUME NEW u \in Live(e), e.caller[u] \in Normal(e)
          PROVE  nb[e.caller[u]] = IF u \in Normal(e) THEN nb[u] ELSE NULL
      <3>0. /\ e.caller[u] \notin Q /\ e.caller[u] \in Normal(c) /\ e.caller[u] # NULL /\ u # NULL
            /\ u \in Task /\ e.caller[u] \in Task
        BY <2>3, <1>14, <1>12
      <3>1. CASE u \in Q
        BY <3>0, <3>1, <1>29, <1>5, <1>14, <1>15
      <3>2. CASE u \in Z
        BY <3>0, <3>2, <1>10
      <3>3. CASE u = J
        BY <3>0, <3>3, <1>4, <1>7, <1>11
      <3>4. CASE u \notin Q /\ u \notin Z /\ u # J
        BY <3>4, <3>0, <1>27, <1>14, <1>15, <1>1 DEF BlockOK
      <3> QED
        BY <3>1, <3>2, <3>3, <3>4
    <2> QED
      BY <2>1, <2>2, <2>3, <1>16 DEF BlockOK
  <1>107. ExcOK(e, r)
    <2>1. ASSUME NEW u \in Normal(e) \cap Pending(e)
          PROVE  u \in e.run \/ \E k \in Closing(e) : e.caller[k] = u
      <3>0. u \in Normal(c) /\ u \notin Q /\ u \in Task /\ u # NULL
        BY <1>14, <1>12
      <3>1. CASE u = tail
        BY <3>0, <3>1, <1>7, <1>10, <1>14
      <3>2. CASE u # tail
        <4>1. u \in c.run \/ \E k \in Closing(c) : c.caller[k] = u
          BY <3>0, <3>2, <1>19, <1>1 DEF ExcOK
        <4>2. CASE u \in c.run /\ u \notin Z
          BY <4>2, <3>0, <3>2, <1>10, <1>13
        <4>3. CASE u \in c.run /\ u \in Z
          BY <4>3, <2>1, <3>0, <3>2, <1>19, <1>3
        <4>4. CASE u \notin c.run
          <5>1. PICK k \in Closing(c) : c.caller[k] = u
            BY <4>1, <4>4
          <5>2. k \notin Q /\ k \notin Z /\ k # J /\ k \in Live(c)
            BY <5>1, <3>0, <1>3, <1>4, <1>12
          <5> QED
            BY <5>1, <5>2, <1>27, <1>14
        <4> QED
          BY <4>2, <4>3, <4>4
      <3> QED
        BY <3>1, <3>2
    <2>2. ASSUME NEW u \in Closing(e) \cap Pending(e)
          PROVE  r[u] \in Closing(e) /\ e.pmode[u] # "END"
      <3>1. u # tail /\ u \in Pending(c) /\ u \in Task
        BY <2>2, <1>3, <1>5, <1>14, <1>17, <1>19, <1>12
      <3>2. CASE u \in Q
        BY <3>1, <3>2, <1>3, <1>8, <1>14
      <3>3. CASE u \notin Q
        BY <3>1, <3>3, <1>1, <1>8, <1>14 DEF ExcOK
      <3> QED
        BY <3>2, <3>3
    <2>3. e.mark \cap Normal(e) = {}
      BY <1>1, <1>8, <1>14 DEF ExcOK
    <2>4. ASSUME NEW u \in Pending(e) PROVE e.catch[u] = "catch"
      <3>1. CASE u \in Pending(c)
        BY <3>1, <1>1, <1>8 DEF ExcOK
      <3>2. CASE u \notin Pending(c)
        <4>1. u = tail /\ e.exc[u] # c.exc[u] /\ u \in Task
          BY <3>2, <1>19 DEF Pending
        <4> QED
          BY <4>1, <1>8, <1>9, TaskAssumption
      <3> QED
        BY <3>1, <3>2
    <2> QED
      BY <2>1, <2>2, <2>3, <2>4, <1>1, <1>8, <1>14 DEF ExcOK
  <1>108. CloseOK(e, r, q, M)
    <2>1. ASSUME NEW u \in Tokens(e) \cap Normal(e), NEW k \in Closing(e) PROVE r[k] # r[u]
      <3>0. u \notin Q /\ u \in Normal(c)
        BY <1>14
      <3>1. CASE u \in e.run \cap T
        <4>1. u = tail /\ tail # NULL /\ Q = {}
          BY <3>0, <3>1, <1>10, <1>13, <1>20
        <4> QED
          BY <4>1, <1>5, <1>6, <1>14
      <3>2. CASE u \notin T /\ u \in Tokens(c)
        <4>1. CASE k \in Closing(c)
          BY <4>1, <3>0, <3>2, <1>1 DEF CloseOK
        <4>2. CASE k \in Q
          <5>1. SUFFICES ASSUME r[u] = x PROVE FALSE
            BY <4>2, <1>3
          <5>2. e.run \cap T = {}
            BY <5>1, <3>2, <1>10
          <5>3. J # NULL
            BY <5>2, <4>2, <1>7, <1>11, <1>13
          <5> QED
            BY <5>1, <5>3, <3>0, <3>2, <1>4, <1>1 DEF CloseOK
        <4> QED
          BY <4>1, <4>2, <1>14
      <3> QED
        BY <3>1, <3>2, <1>21
    <2>2. ASSUME NEW k \in Closing(e), e.caller[k] \in Closing(e) PROVE q[k] < q[e.caller[k]]
      <3>0. k # NULL /\ e.caller[k] # NULL /\ e.caller[k] # tail /\ k \in Live(c) /\ k \notin Z
        BY <2>2, <1>14, <1>12, <1>17, <1>3, <1>5
      <3>1. CASE k \in Q
        BY <3>0, <3>1, <1>7, <1>29
      <3>2. CASE k = J
        BY <3>0, <3>2, <1>4, <1>7, <1>11, <1>28, <1>30, <1>3, <1>12
      <3>3. CASE k \notin Q /\ k # J
        <4>1. /\ e.caller[k] = c.caller[k] /\ c.caller[k] \in Closing(c) /\ c.caller[k] \notin Q
              /\ k \in Closing(c)
          BY <3>0, <3>3, <2>2, <1>27, <1>14
        <4>2. p[k] < p[c.caller[k]]
          BY <4>1, <1>1 DEF CloseOK
        <4> QED
          BY <4>1, <4>2, <3>3, <1>12, <1>30
      <3> QED
        BY <3>1, <3>2, <3>3
    <2>3. ASSUME NEW k \in Closing(e), e.parent[k] \in Closing(e) PROVE q[k] < q[e.parent[k]]
      <3>1. CASE k \in Q
        <4>1. c.parent[k] \notin Closing(c)
          BY <3>1, <1>1, <1>3, <1>12 DEF RootOK
        <4> QED
          BY <4>1, <3>1, <2>3, <1>7, <1>8, <1>14
      <3>2. CASE k \notin Q /\ c.parent[k] \in Q
        <4>1. q[k] <= N /\ q[c.parent[k]] > N /\ q[k] \in Nat /\ q[c.parent[k]] \in Nat /\ N \in Nat
          BY <3>2, <2>3, <1>7, <1>12, <1>14, <1>3, <1>1, <1>30
        <4> QED
          BY <4>1, <1>8
      <3>3. CASE k \notin Q /\ c.parent[k] \notin Q
        <4>1. k \in Closing(c) /\ c.parent[k] \in Closing(c) /\ e.parent[k] = c.parent[k]
          BY <3>3, <2>3, <1>8, <1>14
        <4>2. p[k] < p[c.parent[k]]
          BY <4>1, <1>1 DEF CloseOK
        <4> QED
          BY <4>1, <4>2, <3>3, <1>12, <1>30
      <3> QED
        BY <3>1, <3>2, <3>3
    <2>4. ASSUME NEW u \in Task, e.pmode[u] = "END" PROVE u \in e.run /\ e.ring[u] = <<>>
      <3>1. u \notin Q /\ c.pmode[u] = "END"
        BY <2>4, <1>8
      <3>2. u \in c.run /\ c.ring[u] = <<>> /\ u \notin Normal(c)
        BY <3>1, <1>1 DEF CloseOK, Normal
      <3>3. u \notin T
        BY <3>1, <3>2, <1>3, <1>5, <1>12, <1>13
      <3> QED
        BY <3>2, <3>3, <1>8, <1>10
    <2>5. ASSUME NEW k \in Closing(e), r[k] \notin Closing(e)
          PROVE  e.caller[k] # NULL /\ (e.parent[k] \in Closing(e) <=> e.caller[k] \in Closing(e))
      <3>1. CASE k \in Q
        <4>1. x \notin Q /\ tail # NULL /\ c.parent[k] \notin Closing(c)
          BY <3>1, <2>5, <1>3, <1>6, <1>14, <1>1, <1>12 DEF RootOK
        <4>2. CASE k = first
          <5>1. tail \notin Closing(e)
            BY <4>1, <1>5, <1>14, <1>17
          <5>2. c.parent[k] \notin Q
            BY <4>1, <4>2, <3>1, <1>7
          <5> QED
            BY <4>1, <4>2, <5>1, <5>2, <3>1, <1>7, <1>8, <1>14
        <4>3. CASE k # first
          BY <4>1, <4>3, <3>1, <1>7, <1>8, <1>12, <1>3, <1>14
        <4> QED
          BY <4>2, <4>3
      <3>2. CASE k \notin Q
        <4>1. k \in Closing(c) /\ r[k] \notin Closing(c) /\ k \in Live(c) /\ k \notin Z
          BY <3>2, <2>5, <1>14, <1>12, <1>3
        <4>2. r[k] # x
          BY <4>1, <2>5, <1>6, <1>14
        <4>3. k # J
          BY <4>1, <4>2, <1>4, <1>12
        <4>4. e.caller[k] = c.caller[k] /\ c.caller[k] \notin Q
          BY <4>1, <4>3, <3>2, <1>27
        <4>5. c.parent[k] \notin Q
          BY <4>1, <4>2, <1>1, <1>3, <1>12 DEF RootOK
        <4> QED
          BY <4>1, <4>4, <4>5, <1>1, <1>8, <1>14 DEF CloseOK
      <3> QED
        BY <3>1, <3>2
    <2>6. ASSUME NEW j \in Closing(e), NEW k \in Closing(e), r[j] = r[k], r[k] \notin Closing(e),
                 e.parent[j] \notin Closing(e), e.parent[k] \notin Closing(e)
          PROVE  j = k
      <3>1. CASE r[k] = x
        <4>1. tail # NULL /\ j \in Q /\ k \in Q
          BY <3>1, <2>6, <1>6, <1>14
        <4> QED
          BY <4>1, <2>6, <1>7, <1>8, <1>14
      <3>2. CASE r[k] # x
        <4>1. /\ j \in Closing(c) /\ k \in Closing(c) /\ c.parent[j] \notin Closing(c)
              /\ c.parent[k] \notin Closing(c) /\ r[k] \notin Closing(c)
          BY <3>2, <2>6, <1>3, <1>8, <1>14
        <4> QED
          BY <4>1, <2>6, <1>1 DEF CloseOK
      <3> QED
        BY <3>1, <3>2
    <2>7. q \in [Task -> Nat] /\ \A u \in Task : q[u] <= M
      BY <1>30
    <2> QED
      BY <2>1, <2>2, <2>3, <2>4, <2>5, <2>6, <2>7 DEF CloseOK
  <1>109. StartOK(e, r)
    <2>1. ASSUME NEW u \in Live(e), e.pmode[u] # "ASYNC" PROVE e.start[u] = NULL
      <3>1. c.pmode[u] # "ASYNC" /\ u \in Live(c) /\ u \in Task
        BY <2>1, <1>3, <1>8, <1>12, <1>14 DEF Normal
      <3> QED
        BY <3>1, <2>1, <1>1, <1>11 DEF StartOK
    <2>2. ASSUME NEW u \in Live(e), e.pmode[u] = "ASYNC"
          PROVE  /\ u \in e.run
                 /\ e.start[u] \in Closing(e) /\ r[e.start[u]] = r[u]
                 /\ \A w \in Live(e) : e.caller[w] # e.start[u]
                 /\ e.start[u] # u => \E w \in Live(e) : e.caller[w] = u
      <3>1. CASE u \in Q
        <4>1. e.start[u] = last /\ last \in Q /\ u \in e.run
          BY <3>1, <2>2, <1>7, <1>11, <1>12, <1>14
        <4>2. u # last => \E w \in Live(e) : e.caller[w] = u
          BY <3>1, <1>7, <1>14, <1>3, <1>12
        <4>3. J = NULL
          BY <3>1, <2>2, <1>11
        <4>4. ASSUME NEW w \in Live(e), e.caller[w] = last PROVE FALSE
          <5>1. w # NULL /\ w \in Live(c) /\ last # NULL
            BY <1>12, <1>14, <4>1, <1>3
          <5>2. CASE w \in Q
            BY <5>2, <4>4, <1>7
          <5>3. CASE w \in Z
            BY <5>1, <5>3, <4>4, <1>10
          <5>4. CASE w \notin Q /\ w \notin Z
            BY <5>1, <5>4, <4>1, <4>3, <4>4, <1>27
          <5> QED
            BY <5>2, <5>3, <5>4
        <4> QED
          BY <4>1, <4>2, <4>4, <3>1, <1>3, <1>14
      <3>2. CASE u \notin Q
        <4>1. /\ u \in Live(c) /\ c.pmode[u] = "ASYNC" /\ u \in Task /\ u \notin Normal(c)
              /\ u \in Closing(c) /\ u # NULL
          BY <3>2, <2>2, <1>8, <1>14, <1>12 DEF Normal, Closing
        <4>2. u \in c.run /\ c.start[u] \in Closing(c) /\ r[c.start[u]] = r[u] /\ \A w \in Live(c) : c.caller[w] # c.start[u]
          BY <4>1, <1>1 DEF StartOK
        <4>3. u \notin T /\ e.start[u] = c.start[u]
          BY <4>1, <3>2, <1>3, <1>5, <1>11, <1>13
        <4>4. ASSUME NEW w \in Live(e), e.caller[w] = c.start[u] PROVE FALSE
          <5>1. /\ w # NULL /\ w \in Live(c) /\ c.start[u] # NULL /\ c.start[u] \notin Q
                /\ c.start[u] # tail
            BY <1>12, <1>14, <4>2, <1>3, <1>17
          <5>2. CASE w \in Q
            BY <5>1, <5>2, <4>4, <1>29
          <5>3. CASE w \in Z
            BY <5>1, <5>3, <4>4, <1>10
          <5>4. CASE w = J
            BY <5>1, <5>4, <4>4, <1>11, <1>7, <1>4
          <5>5. CASE w \notin Q /\ w \notin Z /\ w # J
            BY <5>1, <5>5, <4>2, <4>4, <1>27
          <5> QED
            BY <5>2, <5>3, <5>4, <5>5
        <4>5. ASSUME c.start[u] # u PROVE \E w \in Live(e) : e.caller[w] = u
          <5>1. PICK w \in Live(c) : c.caller[w] = u
            BY <4>1, <4>5, <1>1 DEF StartOK
          <5>2. w \notin Q /\ w \notin Z /\ w # J
            BY <5>1, <4>1, <4>3, <1>3, <1>4, <1>12, <1>13
          <5> QED
            BY <5>1, <5>2, <1>27, <1>14
        <4> QED
          BY <4>2, <4>3, <4>4, <4>5, <1>10, <1>14, <4>1
      <3> QED
        BY <3>1, <3>2
    <2> QED
      BY <2>1, <2>2 DEF StartOK
  <1> QED
    BY <1>1, <1>30, <1>100, <1>101, <1>102, <1>103, <1>104, <1>105, <1>106, <1>107, <1>108, <1>109
       DEF Inv

(* A set of tasks has a deepest one and a shallowest one. *)
LEMMA Deepest ==
    ASSUME NEW d \in [Task -> Nat], NEW N \in Nat, \A t \in Task : d[t] <= N,
           NEW X \in SUBSET Task, X # {}
    PROVE  \E m \in X : \A u \in X : d[u] <= d[m]
  <1> DEFINE D == {n \in Nat : \E u \in X : n = N - d[u]}
  <1>1. \A u \in X : N - d[u] \in Nat
    OBVIOUS
  <1>2. D # {} /\ D \in SUBSET Nat
    BY <1>1
  <1>3. PICK n \in D : \A k \in D : n <= k
    BY <1>2, Least
  <1>4. PICK m \in X : n = N - d[m]
    BY <1>3
  <1>5. ASSUME NEW u \in X PROVE d[u] <= d[m]
    <2>1. N - d[u] \in D
      BY <1>1
    <2>2. N - d[m] <= N - d[u]
      BY <2>1, <1>3, <1>4
    <2> QED
      BY <2>2
  <1> QED
    BY <1>5

(* The other side of it. *)
LEMMA Shallowest ==
    ASSUME NEW d \in [Task -> Nat], NEW X \in SUBSET Task, X # {}
    PROVE  \E m \in X : \A u \in X : d[m] <= d[u]
  <1> DEFINE D == {n \in Nat : \E u \in X : n = d[u]}
  <1>1. D # {} /\ D \in SUBSET Nat
    OBVIOUS
  <1>2. PICK n \in D : \A k \in D : n <= k
    BY <1>1, Least
  <1>3. PICK m \in X : n = d[m]
    BY <1>2
  <1> QED
    BY <1>2, <1>3

(* Below a running task, and on its way up along P, the tasks that wait are *)
(* those of P and those of continue blocks.                                 *)
LEMMA WaitsAbove ==
    ASSUME NEW c, NEW d, NEW r, NEW b, NEW p, NEW N, Inv(c, d, r, b, p, N),
           NEW t \in Normal(c), t \in c.run,
           NEW P, t \in P, NEW n \in Nat,
           \A w \in P : c.caller[w] \in P \/ c.caller[w] = NULL \/ d[c.caller[w]] < n,
           NEW u \in Normal(c), u \in c.waiting, r[u] = r[t], b[u] = NULL, n <= d[u]
    PROVE  u \in P
  <1>1. /\ c \in Trees /\ N \in Nat /\ Tree(c, d) /\ RootOK(c, d, r, N) /\ GoneOK(c) /\ RunOK(c, r)
        /\ CallOK(c, r)
        /\ WakeOK(c) /\ BlockOK(c, r, b) /\ ExcOK(c, r) /\ CloseOK(c, r, p, N) /\ StartOK(c, r)
    BY DEF Inv
  <1>2. /\ Live(c) \subseteq Task /\ Normal(c) \subseteq Live(c) /\ Closing(c) \subseteq Live(c)
        /\ NULL \notin Task /\ Normal(c) \cap Closing(c) = {}
    BY TaskAssumption DEF Live, Normal, Closing
  <1>3. t \in Tokens(c) /\ t \notin c.waiting
    BY <1>1, <1>2 DEF Tokens, RunOK
  <1>4. SUFFICES ASSUME u \notin P PROVE FALSE
    OBVIOUS
  <1> DEFINE X == {v \in Normal(c) : v \in c.waiting /\ r[v] = r[t] /\ b[v] = NULL /\ n <= d[v] /\ v \notin P}
  <1>5. X \in SUBSET Task /\ X # {}
    BY <1>2, <1>4
  <1>6. d \in [Task -> Nat] /\ \A v \in Task : d[v] <= N
    BY <1>1 DEF Tree, RootOK
  <1>7. PICK m \in X : \A v \in X : d[v] <= d[m]
    BY <1>1, <1>5, <1>6, Deepest
  <1>8. /\ m \in Normal(c) /\ m \in c.waiting /\ m \in Task /\ r[m] = r[t] /\ b[m] = NULL
        /\ m \notin P /\ m # NULL /\ n <= d[m]
    BY <1>2, <1>7
  <1>9. m \notin c.run /\ m \notin c.bound
    BY <1>1, <1>3, <1>8 DEF RunOK, Tokens
  <1>10. \A w \in Live(c) : c.start[w] # m
    <2>1. SUFFICES ASSUME NEW w \in Live(c), c.start[w] = m PROVE FALSE
      OBVIOUS
    <2> QED
      BY <2>1, <1>1, <1>2, <1>8 DEF StartOK
  <1>11. \A h \in Heads(c) : c.exc[h].raise # m
    BY <1>1, <1>2, <1>8 DEF BlockOK, Heads
  <1>12. PICK w \in Live(c) : c.caller[w] = m
    BY <1>1, <1>8, <1>9, <1>10, <1>11 DEF WakeOK
  <1>13. r[w] = r[t] /\ w \notin Closing(c) /\ w \in Normal(c)
    <2>1. r[w] = r[t]
      BY <1>1, <1>8, <1>12 DEF CallOK
    <2>2. w \notin Closing(c)
      BY <2>1, <1>1, <1>3 DEF CloseOK
    <2> QED
      BY <2>1, <2>2, <1>2 DEF Live, Normal, Closing
  <1>14. c.caller[w] = c.parent[w] /\ w \in Active(c) /\ d[m] < d[w] /\ c.parent[w] # NULL
    <2>1. c.caller[w] = c.parent[w] /\ w \in Active(c)
      BY <1>1, <1>8, <1>12, <1>13 DEF CallOK
    <2> QED
      BY <2>1, <1>1, <1>8, <1>12 DEF Tree
  <1>15. b[w] = NULL
    BY <1>1, <1>8, <1>12, <1>13 DEF BlockOK
  <1>16. w \notin P
    BY <1>8, <1>12, <1>6, <1>2
  <1>17. w \in c.waiting
    <2>1. w \notin c.run
      BY <1>16, <1>13, <1>3, <1>1, <1>2 DEF Tokens, RunOK
    <2> QED
      BY <2>1, <1>14 DEF Active
  <1>18. w \in X
    BY <1>8, <1>13, <1>14, <1>15, <1>16, <1>17, <1>6, <1>2
  <1> QED
    BY <1>18, <1>7, <1>14, <1>6, <1>2

(* A block whose head is among tasks that are closed with all that is below *)
(* them is among them.                                                      *)
LEMMA BlockBelow ==
    ASSUME NEW c, NEW d, NEW r, NEW b, NEW p, NEW N, Inv(c, d, r, b, p, N),
           NEW Q, \A u \in Normal(c) : c.parent[u] \in Q => u \in Q,
           NEW u \in Task, b[u] # NULL, b[u] \in Q
    PROVE  u \in Q
  <1>1. /\ c \in Trees /\ N \in Nat /\ Tree(c, d) /\ RootOK(c, d, r, N) /\ GoneOK(c) /\ RunOK(c, r)
        /\ CallOK(c, r)
        /\ WakeOK(c) /\ BlockOK(c, r, b) /\ ExcOK(c, r) /\ CloseOK(c, r, p, N) /\ StartOK(c, r)
    BY DEF Inv
  <1>2. Live(c) \subseteq Task /\ Normal(c) \subseteq Live(c) /\ NULL \notin Task
    BY TaskAssumption DEF Live, Normal
  <1>3. SUFFICES ASSUME u \notin Q PROVE FALSE
    OBVIOUS
  <1> DEFINE X == {v \in Task : b[v] # NULL /\ b[v] \in Q /\ v \notin Q}
  <1>4. X \in SUBSET Task /\ X # {}
    BY <1>3
  <1>5. d \in [Task -> Nat]
    BY <1>1 DEF Tree
  <1>6. PICK m \in X : \A v \in X : d[m] <= d[v]
    BY <1>4, <1>5, Shallowest
  <1>7. /\ m \in Normal(c) /\ m \in c.waiting /\ c.parent[m] # NULL /\ m \in Task /\ b[m] # NULL
        /\ b[m] \in Q /\ m \notin Q
    BY <1>1, <1>6 DEF BlockOK
  <1>8. m \notin Heads(c)
    BY <1>1, <1>7 DEF BlockOK
  <1>9. c.caller[m] = c.parent[m] /\ c.caller[m] \in Normal(c)
    <2>1. c.caller[m] = c.parent[m]
      BY <1>1, <1>7, <1>8 DEF CallOK, Active
    <2> QED
      BY <2>1, <1>7, NormalFalls
  <1>10. b[c.parent[m]] = b[m]
    BY <1>1, <1>2, <1>7, <1>9 DEF BlockOK
  <1>11. d[c.parent[m]] < d[m] /\ c.parent[m] \in Task
    BY <1>1, <1>2, <1>7, <1>9 DEF Tree
  <1>12. c.parent[m] \in Q
    BY <1>6, <1>7, <1>10, <1>11, <1>5
  <1> QED
    BY <1>12, <1>7

(* Tasks chained the deepest first end in an order that suits the tree. *)
LEMMA QueueIs ==
    ASSUME NEW c, NEW d, NEW r, NEW b, NEW p, NEW N, Inv(c, d, r, b, p, N),
           NEW o \in Seq(Task), o # <<>>, Sorted(o, Deeper(c)), NEW Q, Q = ToSet(o),
           Q \subseteq Normal(c),
           NEW caller, NEW tail, Chained(caller, o, tail), tail \notin Q,
           tail # NULL =>
              \E f \in Q : c.parent[f] \notin Q /\ \A u \in Q : c.parent[u] \in Q \/ u = f
    PROVE  \E q : Queue(c, caller, Q, o[1], o[Len(o)], tail, q, N) /\ Ranks(Q, p, N, q, N + Len(o))
  <1>1. c \in Trees /\ N \in Nat /\ Tree(c, d) /\ p \in [Task -> Nat] /\ \A u \in Task : p[u] <= N
    BY DEF Inv, CloseOK
  <1> DEFINE L == Len(o)
  <1>2. L \in Nat /\ L >= 1 /\ 1 \in 1..L /\ L \in 1..L /\ DOMAIN o = 1..L
    BY Z3
  <1> HIDE DEF L
  <1>3. \A i \in 1..L : o[i] \in Q /\ o[i] \in Task
    BY <1>2 DEF ToSet, L
  <1>4. \A u \in Q : \E i \in 1..L : o[i] = u
    BY <1>2 DEF ToSet, L
  <1>5. \A i, j \in 1..L : i < j => o[i] # o[j] /\ Deep(c, o[i]) <= Deep(c, o[j])
    BY <1>2 DEF Sorted, Deeper, L
  <1>6. \A i, j \in 1..L : o[i] = o[j] => i = j
    <2>1. SUFFICES ASSUME NEW i \in 1..L, NEW j \in 1..L, o[i] = o[j], i # j PROVE FALSE
      OBVIOUS
    <2>2. i < j \/ j < i
      BY <1>2, <2>1
    <2> QED
      BY <2>1, <2>2, <1>5
  <1> DEFINE pos == [u \in Task |-> IF u \in Q THEN CHOOSE i \in 1..L : o[i] = u ELSE 0]
             q == [u \in Task |-> IF u \in Q THEN N + L + 1 - pos[u] ELSE p[u]]
  <1>7. \A u \in Q : u \in Task /\ u # NULL /\ u \in Live(c)
    BY TaskAssumption DEF Normal, Live
  <1>8. \A u \in Q : pos[u] \in 1..L /\ o[pos[u]] = u
    BY <1>4, <1>7
  <1>9. \A i \in 1..L : pos[o[i]] = i
    BY <1>3, <1>6, <1>8
  <1>10. \A u \in Q : q[u] = N + L + 1 - pos[u] /\ pos[u] \in 1..L
    BY <1>8, <1>7
  <1>11. \A u \in Task : u \notin Q => q[u] = p[u]
    OBVIOUS
  <1>12. q \in [Task -> Nat]
    <2>1. \A k \in 1..L : N + L + 1 - k \in Nat
      BY <1>1, <1>2
    <2>3. \A u \in Q : N + L + 1 - pos[u] \in Nat
      BY <2>1, <1>8
    <2> QED
      BY <2>3, <1>1
  <1> HIDE DEF q, pos
  <1>13. Ranks(Q, p, N, q, N + L)
    <2>1. \A u \in Task : q[u] <= N + L
      <3>1. SUFFICES ASSUME NEW u \in Task PROVE q[u] <= N + L
        OBVIOUS
      <3>2. CASE u \in Q
        BY <3>2, <1>10, <1>1, <1>2
      <3>3. CASE u \notin Q
        <4>1. q[u] = p[u] /\ p[u] <= N /\ p[u] \in Nat
          BY <3>3, <1>11, <1>1
        <4> QED
          BY <4>1, <1>1, <1>2
      <3> QED
        BY <3>2, <3>3
    <2> QED
      BY <2>1, <1>1, <1>2, <1>11, <1>12 DEF Ranks
  <1>14. \A i \in 1..L : caller[o[i]] = IF i = 1 THEN tail ELSE o[i - 1]
    BY DEF Chained, L
  <1>15. \A i \in 1..L : i # 1 => i - 1 \in 1..L
    BY <1>2
  <1>16. \A u \in Q : u # o[1] => caller[u] \in Q /\ pos[caller[u]] = pos[u] - 1
    <2>1. SUFFICES ASSUME NEW u \in Q, u # o[1] PROVE caller[u] \in Q /\ pos[caller[u]] = pos[u] - 1
      OBVIOUS
    <2>2. pos[u] \in 1..L /\ pos[u] # 1 /\ o[pos[u]] = u
      BY <2>1, <1>8
    <2>3. caller[u] = o[pos[u] - 1] /\ pos[u] - 1 \in 1..L
      BY <2>2, <1>14, <1>15
    <2> QED
      BY <2>3, <1>3, <1>9
  <1>17. caller[o[1]] = tail
    BY <1>14, <1>2
  <1>18. \A u, w \in Q : pos[u] < pos[w] => q[w] < q[u]
    BY <1>10, <1>1, <1>2
  <1>19. \A u \in Q : c.parent[u] \in Q => pos[c.parent[u]] < pos[u]
    <2>1. SUFFICES ASSUME NEW u \in Q, c.parent[u] \in Q, ~ pos[c.parent[u]] < pos[u] PROVE FALSE
      OBVIOUS
    <2>2. /\ c.parent[u] # NULL /\ Deep(c, u) = Deep(c, c.parent[u]) + 1
          /\ Deep(c, c.parent[u]) \in Nat
      BY <2>1, <1>1, <1>7, DeepIs
    <2>3. /\ pos[u] \in 1..L /\ pos[c.parent[u]] \in 1..L /\ o[pos[u]] = u
          /\ o[pos[c.parent[u]]] = c.parent[u]
      BY <2>1, <1>8
    <2>4. c.parent[u] # u
      BY <2>2
    <2>5. pos[u] < pos[c.parent[u]]
      BY <2>1, <2>3, <2>4, <1>2
    <2>6. Deep(c, u) <= Deep(c, c.parent[u])
      BY <2>5, <2>3, <1>5
    <2> QED
      BY <2>2, <2>6
  <1>20. Queue(c, caller, Q, o[1], o[L], tail, q, N)
    <2>1. o[1] \in Q /\ o[L] \in Q /\ caller[o[1]] = tail
      BY <1>2, <1>3, <1>17
    <2>2. ASSUME NEW u \in Q PROVE q[u] > N /\ caller[u] # o[L]
      <3>1. q[u] > N
        BY <1>10, <1>1, <1>2
      <3>2. CASE u = o[1]
        BY <3>1, <3>2, <2>1
      <3>3. CASE u # o[1]
        <4>1. pos[caller[u]] < L
          BY <3>3, <1>16, <1>8, <1>2
        <4> QED
          BY <3>1, <4>1, <1>9, <1>2
      <3> QED
        BY <3>2, <3>3
    <2>3. \A u \in Q : u # o[1] => caller[u] \in Q /\ q[u] < q[caller[u]]
      <3>1. SUFFICES ASSUME NEW u \in Q, u # o[1] PROVE caller[u] \in Q /\ q[u] < q[caller[u]]
        OBVIOUS
      <3>2. caller[u] \in Q /\ pos[caller[u]] < pos[u]
        BY <3>1, <1>16, <1>8, <1>2
      <3> QED
        BY <3>2, <1>18
    <2>4. \A u \in Q : u # o[L] => \E w \in Q : caller[w] = u
      <3>1. SUFFICES ASSUME NEW u \in Q, u # o[L] PROVE \E w \in Q : caller[w] = u
        OBVIOUS
      <3>2. pos[u] \in 1..L /\ pos[u] # L /\ o[pos[u]] = u
        BY <3>1, <1>8
      <3>3. pos[u] + 1 \in 1..L /\ pos[u] + 1 # 1 /\ pos[u] + 1 - 1 = pos[u]
        BY <3>2, <1>2
      <3>4. caller[o[pos[u] + 1]] = u
        BY <3>2, <3>3, <1>14
      <3> QED
        BY <3>3, <3>4, <1>3
    <2>5. ASSUME NEW u \in Q, NEW w \in Q, caller[u] = caller[w] PROVE u = w
      <3>1. CASE u = o[1] \/ w = o[1]
        BY <3>1, <2>5, <1>16, <1>17
      <3>2. CASE u # o[1] /\ w # o[1]
        <4>1. pos[u] - 1 = pos[w] - 1 /\ pos[u] \in 1..L /\ pos[w] \in 1..L
          BY <3>2, <2>5, <1>16, <1>8
        <4>2. pos[u] = pos[w]
          BY <4>1, <1>2
        <4> QED
          BY <4>2, <1>8
      <3> QED
        BY <3>1, <3>2
    <2>6. \A u \in Q : c.parent[u] \in Q => q[u] < q[c.parent[u]]
      BY <1>18, <1>19
    <2>7. c.parent[o[1]] \notin Q
      <3>1. SUFFICES ASSUME c.parent[o[1]] \in Q PROVE FALSE
        OBVIOUS
      <3>2. pos[c.parent[o[1]]] < pos[o[1]] /\ pos[c.parent[o[1]]] \in 1..L /\ pos[o[1]] = 1
        BY <3>1, <2>1, <1>19, <1>8, <1>9, <1>2
      <3> QED
        BY <3>2, <1>2
    <2>8. tail # NULL => c.parent[o[1]] \notin Q /\ \A u \in Q : c.parent[u] \in Q \/ u = o[1]
      BY <2>7, <2>1
    <2> QED
      BY <2>1, <2>2, <2>3, <2>4, <2>5, <2>6, <2>8 DEF Queue
  <1> QED
    BY <1>13, <1>20 DEF L

----------------------------------------------------------------------------
(* A task closes with what is below it.                                    *)

(* The tail of a sequence without its first element. *)
LEMMA TailIs ==
    ASSUME NEW q \in Seq(Task), Sorted(q, Different), q # <<>>
    PROVE  Tail(q) \in Seq(Task) /\ ToSet(Tail(q)) = ToSet(q) \ {q[1]}
  <1>1. Len(q) \in Nat /\ Len(q) >= 1 /\ DOMAIN q = 1..Len(q)
    BY Z3
  <1>2. /\ Tail(q) \in Seq(Task) /\ Len(Tail(q)) = Len(q) - 1 /\ DOMAIN Tail(q) = 1..(Len(q) - 1)
        /\ \A i \in 1..(Len(q) - 1) : Tail(q)[i] = q[i + 1]
    BY <1>1
  <1>3. \A i, j \in 1..Len(q) : i < j => q[i] # q[j]
    BY <1>1 DEF Sorted, Different
  <1>4. ASSUME NEW x \in ToSet(Tail(q)) PROVE x \in ToSet(q) \ {q[1]}
    <2>1. PICK i \in 1..(Len(q) - 1) : x = Tail(q)[i]
      BY <1>4, <1>2 DEF ToSet
    <2>2. i + 1 \in 1..Len(q) /\ 1 < i + 1 /\ x = q[i + 1] /\ 1 \in 1..Len(q)
      BY <2>1, <1>1, <1>2
    <2>3. x # q[1]
      BY <2>2, <1>3
    <2> QED
      BY <2>2, <2>3, <1>1 DEF ToSet
  <1>5. ASSUME NEW x \in ToSet(q), x # q[1] PROVE x \in ToSet(Tail(q))
    <2>1. PICK i \in 1..Len(q) : x = q[i]
      BY <1>5, <1>1 DEF ToSet
    <2>2. i # 1
      BY <2>1, <1>5
    <2>3. i - 1 \in 1..(Len(q) - 1) /\ i - 1 + 1 = i
      BY <2>1, <2>2, <1>1
    <2>4. Tail(q)[i - 1] = x
      BY <2>3, <2>1, <1>2
    <2> QED
      BY <2>3, <2>4, <1>2 DEF ToSet
  <1> QED
    BY <1>2, <1>4, <1>5

(* What s closes with: the tasks below s that are in normal mode. *)
Subtree(c, d, r, s, new, just, Q, S) ==
    /\ Q = ToSet(new) /\ Q = S \cap Normal(c) /\ ToSet(just) = S \cap Closing(c)
    /\ new \in Seq(Task) /\ Sorted(new, Different) /\ just \in Seq(Task) /\ Sorted(just, Different)
    /\ s \in Q /\ new # <<>> /\ new[1] = s /\ c.parent[s] \notin Q
    /\ \A u \in Live(c) : c.parent[u] \in Q => u \in S
    /\ \A u \in S : u \in Live(c) /\ r[u] = r[s] /\ (u = s \/ c.parent[u] \in Q) /\ d[s] <= d[u]

(* DeepStack finds it, in a tree whose locks are those of c. *)
LEMMA SubtreeIs ==
    ASSUME NEW c, NEW d, NEW r, NEW b, NEW p, NEW N, Inv(c, d, r, b, p, N),
           NEW s \in Normal(c),
           NEW w, w.pmode = c.pmode, w.parent = c.parent, w.ring = c.ring,
           NEW stack, stack = DeepStack(w, <<s>>),
           NEW new, new = Only(stack, Task \ Locked(w)),
           NEW just, just = Only(stack, Locked(w))
    PROVE  \E Q, S : Subtree(c, d, r, s, new, just, Q, S)
  <1>1. c \in Trees /\ Tree(c, d) /\ RootOK(c, d, r, N)
    BY DEF Inv
  <1>2. Live(c) \subseteq Task /\ Normal(c) \subseteq Live(c) /\ NULL \notin Task
    BY TaskAssumption DEF Live, Normal
  <1>3. Live(w) = Live(c) /\ Locked(w) = Locked(c)
    BY DEF Live, Locked
  <1>4. Live(c) \ Locked(c) = Normal(c) /\ Live(c) \cap Locked(c) = Closing(c)
    BY DEF Live, Locked, Normal, Closing
  <1>5. Tree(w, d)
    BY <1>1, <1>3 DEF Tree
  <1>6. <<s>> \in Seq(Task) /\ Sorted(<<s>>, Different) /\ ToSet(<<s>>) = {s}
    BY <1>2, One
  <1>7. \A u \in Task : w.ring[u] \in Seq(Task) /\ ToSet(w.ring[u]) = {t \in Live(c) : c.parent[t] = u}
    BY <1>1 DEF Tree
  <1>8. /\ d \in [Task -> Nat]
        /\ \A u \in Live(c) : c.parent[u] # NULL =>
              c.parent[u] \in Live(c) /\ d[c.parent[u]] < d[u]
    BY <1>1 DEF Tree
  <1>9. Apart(w, <<s>>)
    <2> DEFINE X == {u \in Live(c) : d[s] < d[u]}
    <2>1. X \cap ToSet(<<s>>) = {}
      BY <1>6, <1>8, <1>2
    <2>2. ToSet(Below(w, <<s>>)) \subseteq X
      <3>1. ToSet(Below(w, <<s>>)) = UNION {ToSet(w.ring[u]) : u \in {s} \ Locked(w)}
        BY <1>6, <1>7, BelowIs
      <3>2. ToSet(Below(w, <<s>>)) \subseteq ToSet(w.ring[s])
        BY <3>1
      <3>3. ToSet(w.ring[s]) = {t \in Live(c) : c.parent[t] = s}
        BY <1>7, <1>2
      <3> QED
        BY <3>2, <3>3, <1>8, <1>2
    <2>3. Closed(w, X)
      <3>1. \A u \in X, v \in Live(c) : c.parent[v] = u => v \in X
        BY <1>8, <1>2
      <3> QED
        BY <3>1, <1>7, <1>2 DEF Closed
    <2> QED
      BY <2>1, <2>2, <2>3 DEF Apart
  <1> DEFINE S == ToSet(stack)
             Q == ToSet(new)
  <1>10. IsStack(w, <<s>>, stack)
    BY <1>5, <1>6, <1>9, <1>3, <1>2, DeepStackIs
  <1>11. stack \in Seq(Task) /\ Sorted(stack, Different) /\ s \in S
    BY <1>10, <1>6 DEF IsStack
  <1>12. \A X : s \in X /\ Closed(w, X) => S \subseteq X
    BY <1>10, <1>6 DEF IsStack
  <1>13. S \subseteq Live(c)
    <2>1. Closed(w, Live(c))
      BY <1>7, <1>2 DEF Closed
    <2> QED
      BY <2>1, <1>12, <1>2
  <1>14. new \in Seq(Task) /\ Q = S \cap Normal(c) /\ Sorted(new, Different)
    <2>1. new \in Seq(Task) /\ Q = S \cap (Task \ Locked(w)) /\ Sorted(new, Different)
      BY <1>11, OnlyIs
    <2> QED
      BY <2>1, <1>3, <1>4, <1>13, <1>2
  <1>15. just \in Seq(Task) /\ ToSet(just) = S \cap Closing(c) /\ Sorted(just, Different)
    <2>1. just \in Seq(Task) /\ ToSet(just) = S \cap Locked(w) /\ Sorted(just, Different)
      BY <1>11, OnlyIs
    <2> QED
      BY <2>1, <1>3, <1>4, <1>13
  <1>16. s \in Q
    BY <1>11, <1>14
  <1> HIDE DEF S, Q
  <1>17. \A u \in Live(c) : c.parent[u] \in Q => u \in S
    <2>1. \A u \in S \ Locked(w) : ToSet(w.ring[u]) \subseteq S
      BY <1>10 DEF IsStack, Closed, S
    <2>2. \A u \in Q : u \in S \ Locked(w) /\ u \in Task
      BY <1>3, <1>4, <1>14, <1>2
    <2> QED
      BY <2>1, <2>2, <1>7
  <1>18. \A u \in S : u = s \/ c.parent[u] \in Q
    <2> DEFINE X == {u \in S : u = s \/ c.parent[u] \in Q}
    <2>1. Closed(w, X)
      <3>1. SUFFICES ASSUME NEW u \in X \ Locked(w), NEW v \in ToSet(w.ring[u]) PROVE v \in X
        BY DEF Closed
      <3>2. u \in Q /\ u \in Task
        BY <3>1, <1>3, <1>4, <1>13, <1>14, <1>2
      <3>3. v \in Live(c) /\ c.parent[v] = u
        BY <3>1, <3>2, <1>7
      <3> QED
        BY <3>2, <3>3, <1>17
    <2>2. s \in X
      BY <1>11
    <2> HIDE DEF X
    <2>3. S \subseteq X
      BY <2>1, <2>2, <1>12
    <2> QED
      BY <2>3 DEF X
  <1>19. \A u \in S : r[u] = r[s] /\ d[s] <= d[u]
    <2> DEFINE X == {u \in Live(c) : r[u] = r[s] /\ d[s] <= d[u]}
    <2>1. \A v \in Live(c) : c.parent[v] # NULL =>
             r[v] = r[c.parent[v]] /\ c.parent[v] \in Live(c) /\ d[c.parent[v]] < d[v]
      BY <1>1, <1>8 DEF RootOK
    <2>2. \A u \in X, v \in Live(c) : c.parent[v] = u => v \in X
      BY <2>1, <1>8, <1>2
    <2>3. Closed(w, X)
      BY <2>2, <1>7, <1>2 DEF Closed
    <2>4. s \in X
      BY <1>2, <1>8
    <2> HIDE DEF X
    <2>5. S \subseteq X
      BY <2>3, <2>4, <1>12
    <2> QED
      BY <2>5 DEF X
  <1>20. c.parent[s] \notin Q
    BY <1>8, <1>14, <1>19, <1>2
  <1>21. stack[1] = s
    <2>1. PICK f : Stacks(f, w) /\ \A q : DeepStack(w, q) = f[Cardinality(Task)][q]
      BY <1>7, DeepStacks
    <2>2. Cardinality(Task) \in Nat \ {0}
      <3>1. Cardinality(Task) \in Nat
        BY TaskAssumption, FS_CardinalityType
      <3>2. Deep(c, s) \in Nat /\ Deep(c, s) < Cardinality(Task)
        BY <1>1, <1>2, DeepIs
      <3> QED
        BY <3>1, <3>2
    <2> DEFINE n == Cardinality(Task)
               q == Below(w, <<s>>)
    <2>3. q \in Seq(Task)
      BY <1>6, <1>7, BelowIs
    <2>4. \A m \in Nat \ {0} : f[m][<<s>>] = <<s>> \o f[m - 1][q]
      <3>1. \A m \in Nat \ {0}, z \in Seq(Task) : f[m][z] = IF z = <<>> THEN <<>> ELSE z \o f[m - 1][Below(w, z)]
        BY <2>1 DEF Stacks
      <3>2. \A m \in Nat \ {0} : f[m][<<s>>] = IF <<s>> = <<>> THEN <<>> ELSE <<s>> \o f[m - 1][q]
        BY <3>1, <1>6
      <3>3. <<s>> # <<>>
        OBVIOUS
      <3> QED
        BY <3>2, <3>3
    <2> HIDE DEF q
    <2>8. n \in Nat \ {0}
      BY <2>2
    <2>9. stack = f[n][<<s>>]
      BY <2>1
    <2> HIDE DEF n
    <2>10. n - 1 \in Nat
      BY <2>8
    <2>5. f[n][<<s>>] = <<s>> \o f[n - 1][q]
      BY <2>4, <2>8
    <2>6. f[n - 1][q] \in Seq(Task)
      BY <2>1, <2>3, <2>10 DEF Stacks
    <2>7. stack = <<s>> \o f[n - 1][q]
      BY <2>5, <2>9
    <2> QED
      BY <2>6, <2>7, <1>6, ConcatIs, <1>2
  <1>22. new # <<>> /\ new[1] = s
    <2> DEFINE R == {x \in Task \X Task : x[2] # s}
    <2>1. DOMAIN stack = 1..Len(stack) /\ Len(stack) \in Nat
      BY <1>11
    <2>2. Sorted(stack, R)
      <3>1. SUFFICES ASSUME NEW i \in DOMAIN stack, NEW j \in DOMAIN stack,
                            i < j PROVE <<stack[i], stack[j]>> \in R
        BY DEF Sorted
      <3>2. 1 \in DOMAIN stack /\ 1 < j
        BY <2>1, <3>1
      <3>3. stack[1] # stack[j]
        BY <3>2, <1>11 DEF Sorted, Different
      <3> QED
        BY <3>3, <1>21, <1>11
    <2> HIDE DEF R
    <2>3. Sorted(new, R)
      BY <2>2, <1>11, OnlyIs
    <2>4. DOMAIN new = 1..Len(new) /\ Len(new) \in Nat
      BY <1>14
    <2>5. PICK i \in DOMAIN new : new[i] = s
      BY <1>16 DEF ToSet, Q
    <2>6. 1 \in DOMAIN new
      BY <2>4, <2>5
    <2>7. i = 1
      <3>1. SUFFICES ASSUME 1 < i PROVE FALSE
        BY <2>4, <2>5
      <3>2. <<new[1], new[i]>> \in R
        BY <3>1, <2>3, <2>5, <2>6 DEF Sorted
      <3> QED
        BY <3>2, <2>5 DEF R
    <2> QED
      BY <2>5, <2>6, <2>7
  <1>23. Subtree(c, d, r, s, new, just, Q, S)
    BY <1>13, <1>14, <1>15, <1>16, <1>17, <1>18, <1>19, <1>20, <1>22 DEF Q, Subtree
  <1> QED
    BY <1>23

(* The tasks of q are locked; at most one of them has control. *)
LockedBy(c, Q, A, e) ==
    /\ e \in Trees
    /\ e.run = c.run \cup (Q \cap c.bound) /\ e.waiting = c.waiting \ (Q \cap c.bound)
    /\ e.bound = c.bound \ Q
    /\ \A u \in Task : e.pmode[u] = IF u \in A THEN "ASYNC" ELSE IF u \in Q THEN "CLOSE" ELSE c.pmode[u]
    /\ e.parent = c.parent /\ e.ring = c.ring /\ e.caller = c.caller /\ e.autofree = c.autofree
    /\ e.mark = c.mark /\ e.catch = c.catch /\ e.exc = c.exc /\ e.start = c.start

(* zm_setImplodeLock. *)
LEMMA LockIs ==
    ASSUME NEW c \in Trees, NEW by, NEW q, NEW Q, Q = ToSet(q), Q \subseteq Task,
           NEW A, A = Q \cap (c.run \cup c.bound), A = {} \/ (by = "ROOT" /\ \A x, y \in A : x = y),
           NEW e, e = SetImplodeLock(c, by, q)
    PROVE  LockedBy(c, Q, A, e)
  <1> DEFINE locked == [c EXCEPT
                      !.run     = @ \cup (Q \cap c.bound),
                      !.waiting = @ \ (Q \cap c.bound),
                      !.bound   = @ \ Q,
                      !.pmode   = [t \in Task |->
                                     IF t \in A THEN "ASYNC"
                                     ELSE IF t \in Q THEN "CLOSE" ELSE @[t]]]
  <1>1. Cardinality(A) <= 1
    <2>1. CASE A = {}
      BY <2>1, FS_EmptySet
    <2>2. CASE \E x : A = {x}
      <3>1. PICK x : A = {x}
        BY <2>2
      <3>2. Cardinality({x}) = 1
        BY FS_Singleton
      <3> QED
        BY <3>1, <3>2
    <2> QED
      BY <2>1, <2>2
  <1>2. e = locked
    <2>1. ~ (A # {} /\ by # "ROOT")
      OBVIOUS
    <2>2. ~ (Cardinality(A) > 1)
      <3>1. Cardinality(A) \in Nat
        BY TaskAssumption, FS_CardinalityType, FS_Subset
      <3> QED
        BY <3>1, <1>1
    <2> QED
      BY <2>1, <2>2 DEF SetImplodeLock
  <1>3. locked \in Trees
    BY DEF Trees, Pmode
  <1>4. /\ locked.run = c.run \cup (Q \cap c.bound) /\ locked.waiting = c.waiting \ (Q \cap c.bound)
        /\ locked.bound = c.bound \ Q
        /\ locked.pmode = [t \in Task |-> IF t \in A THEN "ASYNC" ELSE IF t \in Q THEN "CLOSE" ELSE c.pmode[t]]
        /\ locked.parent = c.parent /\ locked.ring = c.ring /\ locked.caller = c.caller
        /\ locked.autofree = c.autofree
        /\ locked.mark = c.mark /\ locked.catch = c.catch /\ locked.exc = c.exc
        /\ locked.start = c.start
    BY DEF Trees
  <1> HIDE DEF locked
  <1> QED
    BY <1>2, <1>3, <1>4 DEF LockedBy

(* The order of the tasks that close. *)
LEMMA OrderIs ==
    ASSUME NEW c, NEW d, Tree(c, d), NEW w, w.pmode = c.pmode, w.parent = c.parent, w.ring = c.ring,
           NEW q \in Seq(Task), Sorted(q, Different), NEW Q, Q = ToSet(q), Q \subseteq Live(c),
           NEW o, o = ByDeep(w, q)
    PROVE  o \in Seq(Task) /\ ToSet(o) = Q /\ Sorted(o, Deeper(c)) /\ Sorted(o, Different)
  <1>1. Live(w) = Live(c)
    BY DEF Live
  <1>2. Tree(w, d)
    BY <1>1 DEF Tree
  <1>3. o \in Seq(Task) /\ ToSet(o) = Q /\ Sorted(o, Deeper(w))
    BY <1>1, <1>2, ByDeepIs
  <1>4. \A u : Deep(w, u) = Deep(c, u)
    BY DEF Deep, Ancestors
  <1>5. Deeper(w) = Deeper(c)
    BY <1>4 DEF Deeper
  <1>6. Deeper(c) \subseteq Different
    BY DEF Deeper, Different
  <1> QED
    BY <1>3, <1>5, <1>6 DEF Sorted

(* The tasks of o are chained. *)
Serial(c, o, tail, e) ==
    /\ e \in Trees
    /\ Chained(e.caller, o, tail) /\ \A t \in Task \ ToSet(o) : e.caller[t] = c.caller[t]
    /\ c.waiting \subseteq e.waiting /\ e.waiting \subseteq c.waiting \cup (ToSet(o) \ c.run)
    /\ e.run = c.run /\ e.pmode = c.pmode /\ e.bound = c.bound
    /\ e.parent = c.parent /\ e.ring = c.ring /\ e.autofree = c.autofree
    /\ e.mark = c.mark /\ e.catch = c.catch /\ e.exc = c.exc /\ e.start = c.start

(* zm_serializeImplosion of a tree. *)
LEMMA SerializeTree ==
    ASSUME NEW c \in Trees, NEW o \in Seq(Task), Sorted(o, Different), o # <<>>,
           NEW tail \in Task \cup {NULL},
           tail # NULL \/ c.caller[o[1]] = NULL,
           NEW e, e = Serialize(c, o, tail)
    PROVE  Serial(c, o, tail, e)
  <1> DEFINE linked == {i \in DOMAIN o : (IF i = 1 THEN tail ELSE o[i - 1]) # NULL}
             caller == [t \in Task |->
                       IF \E i \in linked : o[i] = t
                       THEN LET i == CHOOSE i \in linked : o[i] = t
                            IN  IF i = 1 THEN tail ELSE o[i - 1]
                       ELSE c.caller[t]]
             W == {o[i] : i \in linked} \ c.run
             f == [c EXCEPT !.caller = caller, !.waiting = @ \cup W]
  <1>1. c.caller \in [Task -> Task \cup {NULL}]
    BY DEF Trees
  <1>2. /\ caller \in [Task -> Task \cup {NULL}]
        /\ Chained(caller, o, tail)
        /\ \A t \in Task \ ToSet(o) : caller[t] = c.caller[t]
        /\ \A i \in linked : o[i] \in ToSet(o)
    <2>1. Relinked(c, o, tail, linked, caller)
      BY DEF Relinked
    <2> HIDE DEF linked, caller
    <2> QED
      BY <1>1, <2>1, SerializeIs
  <1>3. e = f
    BY DEF Serialize
  <1> HIDE DEF caller
  <1>4. W \subseteq ToSet(o) \ c.run /\ W \subseteq Task
    <2>1. ToSet(o) \subseteq Task
      BY ToSetIs
    <2> QED
      BY <1>2, <2>1
  <1> HIDE DEF W
  <1>5. f \in Trees
    BY <1>2, <1>4 DEF Trees
  <1>6. /\ f.caller = caller /\ f.waiting = c.waiting \cup W
        /\ f.run = c.run /\ f.pmode = c.pmode /\ f.bound = c.bound
        /\ f.parent = c.parent /\ f.ring = c.ring /\ f.autofree = c.autofree
        /\ f.mark = c.mark /\ f.catch = c.catch /\ f.exc = c.exc /\ f.start = c.start
    BY DEF Trees
  <1> HIDE DEF f
  <1> QED
    BY <1>2, <1>3, <1>4, <1>5, <1>6 DEF Serial

Resumed(c, s, e) ==
    /\ e \in Trees
    /\ e.run = c.run \cup {s} /\ e.waiting = c.waiting \ {s}
    /\ e.pmode = c.pmode /\ e.bound = c.bound /\ e.caller = c.caller
    /\ e.parent = c.parent /\ e.ring = c.ring /\ e.autofree = c.autofree
    /\ e.mark = c.mark /\ e.catch = c.catch /\ e.exc = c.exc /\ e.start = c.start

(* zm_resumeState of a task that neither runs nor listens. *)
LEMMA ResumeIs ==
    ASSUME NEW c \in Trees, NEW s \in Task, c.pmode[s] # "ABSENT", s \notin c.run, s \notin c.bound,
           NEW e, e = ResumeState(c, s)
    PROVE  Resumed(c, s, e)
  <1> DEFINE f == [c EXCEPT !.run = @ \cup {s}, !.waiting = @ \ {s}]
  <1>1. e = f
    BY TaskAssumption DEF ResumeState
  <1>2. f \in Trees
    BY DEF Trees
  <1>3. /\ f.run = c.run \cup {s} /\ f.waiting = c.waiting \ {s}
        /\ f.pmode = c.pmode /\ f.bound = c.bound /\ f.caller = c.caller
        /\ f.parent = c.parent /\ f.ring = c.ring /\ f.autofree = c.autofree
        /\ f.mark = c.mark /\ f.catch = c.catch /\ f.exc = c.exc /\ f.start = c.start
    BY DEF Trees
  <1> HIDE DEF f
  <1> QED
    BY <1>1, <1>2, <1>3 DEF Resumed

(* What a close looks for among the tasks X that wait. *)
Found(c, b, X, busy) ==
    /\ busy.lost = FALSE
    /\ busy.heads = {b[u] : u \in X}
    /\ busy.mark \subseteq c.mark \cup {t \in Normal(c) : b[t] # NULL /\ \E u \in X : b[t] = b[u]}
    /\ busy.mark \subseteq Task

(* zm_checkBusy finds the blocks of those that wait. *)
LEMMA BusyIs ==
    ASSUME NEW c, NEW d, NEW r, NEW b, NEW p, NEW N, Inv(c, d, r, b, p, N),
           NEW w \in Trees, w.mark = c.mark,
           \A u \in Task : w.exc[u].kind = "HEAD" <=> c.exc[u].kind = "HEAD",
           \A u \in Normal(c) : b[u] # NULL /\ u \notin Heads(c) => w.caller[u] = c.caller[u],
           \A u \in Normal(c) : w.caller[u] # NULL => w.caller[u] \in Normal(c) /\ d[w.caller[u]] < d[u],
           NEW q, NEW X, X = ToSet(q) \cap w.waiting, \A u \in X : u \in Normal(c) /\ b[u] # NULL,
           NEW busy, busy = CheckBusy(w, q)
    PROVE  Found(c, b, X, busy)
  <1>1. c \in Trees /\ N \in Nat /\ Tree(c, d) /\ CallOK(c, r) /\ BlockOK(c, r, b) /\ ExcOK(c, r)
    BY DEF Inv
  <1>2. NULL \notin Normal(c) /\ Normal(c) \subseteq Task
    BY TaskAssumption DEF Normal
  <1>3. Falls(w.caller, Normal(c), d)
    <2>1. w.caller \in [Task -> Task \cup {NULL}] /\ d \in [Task -> Nat]
      BY <1>1 DEF Trees, Tree
    <2> QED
      BY <2>1, <1>2 DEF Falls
  <1>4. ASSUME NEW t \in Normal(c), b[t] # NULL
        PROVE  /\ t \notin w.mark
               /\ w.exc[t].kind = "HEAD" => b[t] = t
               /\ w.exc[t].kind # "HEAD" => w.caller[t] # NULL /\ b[w.caller[t]] = b[t]
    <2>1. t \notin w.mark
      BY <1>1 DEF ExcOK
    <2>2. w.exc[t].kind = "HEAD" <=> t \in Heads(c)
      BY <1>2 DEF Heads
    <2>3. t \in Heads(c) => b[t] = t
      BY <1>1 DEF BlockOK
    <2>4. ASSUME t \notin Heads(c) PROVE c.caller[t] # NULL /\ b[c.caller[t]] = b[t]
      <3>1. t \in c.waiting /\ c.parent[t] # NULL /\ t \in Task
        BY <1>1, <1>4, <1>2 DEF BlockOK
      <3>2. c.caller[t] = c.parent[t]
        BY <3>1, <2>4, <1>1 DEF CallOK, Active
      <3>3. c.caller[t] \in Normal(c) /\ t \in Live(c)
        <4>1. c.caller[t] \in Normal(c)
          BY <3>1, <3>2, NormalFalls
        <4> QED
          BY <4>1 DEF Live, Normal
      <3> QED
        BY <3>1, <3>2, <3>3, <1>1 DEF BlockOK
    <2> QED
      BY <2>1, <2>2, <2>3, <2>4, <1>4
  <1>5. Blocks(w, b, Normal(c), d)
    BY <1>3, <1>4 DEF Blocks
  <1>6. /\ busy.lost = FALSE
        /\ busy.heads = {b[u] : u \in X} \ w.mark
        /\ busy.mark \subseteq w.mark \cup {t \in Normal(c) : \E u \in X : b[t] = b[u]}
    <2>1. IsBusy(CheckBusy(w, q), w, b, Normal(c), X)
      BY <1>2, <1>5, CheckBusyIs
    <2> QED
      BY <2>1 DEF IsBusy
  <1>7. \A u \in X : b[u] \notin w.mark /\ b[u] # NULL
    BY <1>1, <1>2 DEF BlockOK, ExcOK, Heads
  <1>8. w.mark \subseteq Task
    BY DEF Trees
  <1> QED
    BY <1>6, <1>7, <1>8, <1>2 DEF Found

(* The first one that the tasks chained end for is the highest. *)
LEMMA HighestIs ==
    ASSUME NEW c, NEW d, Tree(c, d), NEW o \in Seq(Task), o # <<>>, Sorted(o, Deeper(c)),
           ToSet(o) \subseteq Live(c)
    PROVE  /\ o[1] \in ToSet(o) /\ o[Len(o)] \in ToSet(o) /\ Last(o) = o[Len(o)]
           /\ c.parent[o[1]] \notin ToSet(o)
  <1>1. Len(o) \in Nat /\ Len(o) >= 1 /\ DOMAIN o = 1..Len(o)
    BY Z3
  <1>2. o[1] \in ToSet(o) /\ o[Len(o)] \in ToSet(o)
    BY <1>1 DEF ToSet
  <1>3. ASSUME c.parent[o[1]] \in ToSet(o) PROVE FALSE
    <2>1. PICK j \in 1..Len(o) : o[j] = c.parent[o[1]]
      BY <1>3, <1>1 DEF ToSet
    <2>2. NULL \notin Live(c)
      BY TreeFalls
    <2>3. Deep(c, o[1]) = Deep(c, o[j]) + 1 /\ Deep(c, o[j]) \in Nat
      BY <1>2, <1>3, <2>1, <2>2, DeepIs
    <2>4. j # 1
      BY <2>3, <2>1
    <2>5. 1 \in DOMAIN o /\ j \in DOMAIN o /\ 1 < j
      BY <2>4, <1>1
    <2>6. Deep(c, o[1]) <= Deep(c, o[j])
      BY <2>5 DEF Sorted, Deeper
    <2> QED
      BY <2>3, <2>6
  <1> QED
    BY <1>2, <1>3 DEF Last

(* All that is in normal mode in the context of a task without parent. *)
LEMMA ContextBelow ==
    ASSUME NEW c, NEW d, NEW r, NEW b, NEW p, NEW N, Inv(c, d, r, b, p, N),
           NEW s \in Live(c), c.parent[s] = NULL,
           NEW Q, s \in Q, \A u \in Normal(c) : c.parent[u] \in Q => u \in Q,
           NEW u \in Normal(c), r[u] = s
    PROVE  u \in Q
  <1>1. c \in Trees /\ N \in Nat /\ Tree(c, d) /\ RootOK(c, d, r, N)
    BY DEF Inv
  <1>2. /\ Live(c) \subseteq Task /\ Normal(c) \subseteq Live(c) /\ Normal(c) = Live(c) \ Closing(c)
        /\ NULL \notin Task
    BY TaskAssumption DEF Live, Normal, Closing
  <1>3. SUFFICES ASSUME u \notin Q PROVE FALSE
    OBVIOUS
  <1> DEFINE X == {v \in Normal(c) : r[v] = s /\ v \notin Q}
  <1>4. X \in SUBSET Task /\ X # {}
    BY <1>2, <1>3
  <1>5. d \in [Task -> Nat]
    BY <1>1 DEF Tree
  <1>6. PICK m \in X : \A v \in X : d[m] <= d[v]
    BY <1>4, <1>5, Shallowest
  <1>7. m \in Live(c) /\ m \in Normal(c) /\ r[m] = s /\ m \notin Q /\ m # s
    BY <1>2, <1>6
  <1>8. c.parent[m] # NULL
    BY <1>1, <1>7 DEF RootOK
  <1>9. /\ c.parent[m] \in Live(c) /\ d[c.parent[m]] < d[m] /\ r[c.parent[m]] = s
        /\ c.parent[m] \notin Closing(c)
    BY <1>1, <1>2, <1>7, <1>8 DEF RootOK, Tree
  <1>10. c.parent[m] \notin X
    BY <1>6, <1>7, <1>9, <1>5, <1>2
  <1> QED
    BY <1>2, <1>7, <1>9, <1>10

(* How an implosion that ends with last begins. *)
Started(f, last, A, J, e) ==
    /\ e \in Trees
    /\ e.pmode = f.pmode /\ e.parent = f.parent /\ e.ring = f.ring /\ e.autofree = f.autofree
    /\ e.bound = f.bound /\ e.mark = f.mark /\ e.catch = f.catch /\ e.exc = f.exc
    /\ \A u \in Task : e.caller[u] = IF u = J THEN last ELSE f.caller[u]
    /\ \A u \in Task : e.start[u] = IF u \in A THEN last ELSE f.start[u]
    /\ e.run = IF A = {} /\ J = NULL THEN f.run \cup {last} ELSE f.run
    /\ e.waiting = IF A = {} /\ J = NULL THEN f.waiting \ {last} ELSE f.waiting

(* zm_startImplosion resumes the last task of the chain at once, after the *)
(* one that runs, or after what closes already.                            *)
LEMMA StartIs ==
    ASSUME NEW f \in Trees, NEW last \in Task, NEW A, A \subseteq Task, \A x, y \in A : x = y,
           NEW just \in Seq(Task), A # {} => just = <<>>,
           \A k \in ToSet(just) : f.exc[k].kind # "ABORT",
           just = <<>> /\ A = {} =>
              f.pmode[last] # "ABSENT" /\ last \notin f.run /\ last \notin f.bound
    PROVE  Started(f, last, A, IF just = <<>> THEN NULL ELSE Last(just),
                   StartImplosion(f, last, IF A = {} THEN NULL ELSE CHOOSE t \in A : TRUE, just))
  <1> DEFINE run == IF A = {} THEN NULL ELSE CHOOSE t \in A : TRUE
             e == StartImplosion(f, last, run, just)
  <1>1. CASE just # <<>>
    <2> DEFINE J == Last(just)
               g == [f EXCEPT !.caller[J] = last]
               X == {t \in ToSet(just) : f.exc[t].kind = "ABORT"}
    <2>1. X = {}
      OBVIOUS
    <2>2. J \in Task
      <3>1. Len(just) \in 1..Len(just) /\ DOMAIN just = 1..Len(just)
        BY <1>1, Z3
      <3> QED
        BY <3>1 DEF Last
    <2>3. A = {} /\ J # NULL
      BY <1>1, <2>2, TaskAssumption
    <2>4. Cardinality(X) = 0
      BY <2>1, FS_EmptySet
    <2> HIDE DEF run
    <2>5. e = g
      BY <1>1, <2>1, <2>4 DEF StartImplosion
    <2> HIDE DEF J, e
    <2>6. g \in Trees
      BY <2>2 DEF Trees
    <2>7. /\ g.pmode = f.pmode /\ g.parent = f.parent /\ g.ring = f.ring /\ g.autofree = f.autofree
          /\ g.bound = f.bound /\ g.mark = f.mark /\ g.catch = f.catch /\ g.exc = f.exc
          /\ g.caller = [f.caller EXCEPT ![J] = last] /\ g.start = f.start /\ g.run = f.run
          /\ g.waiting = f.waiting
      BY DEF Trees
    <2>8. \A u \in Task : g.caller[u] = IF u = J THEN last ELSE f.caller[u]
      BY <2>2, <2>7 DEF Trees
    <2> HIDE DEF g
    <2>9. Started(f, last, A, J, e)
      BY <2>3, <2>5, <2>6, <2>7, <2>8 DEF Started
    <2> QED
      BY <1>1, <2>9 DEF J, e, run
  <1>2. CASE just = <<>> /\ A # {}
    <2> DEFINE g == [f EXCEPT !.start[run] = last]
    <2>1. run \in A /\ run \in Task /\ run # NULL
      BY <1>2, TaskAssumption
    <2>2. A = {run}
      BY <2>1
    <2> HIDE DEF run
    <2>3. e = g
      BY <1>2, <2>1 DEF StartImplosion
    <2> HIDE DEF e
    <2>6. g \in Trees
      BY <2>1 DEF Trees
    <2>7. /\ g.pmode = f.pmode /\ g.parent = f.parent /\ g.ring = f.ring /\ g.autofree = f.autofree
          /\ g.bound = f.bound /\ g.mark = f.mark /\ g.catch = f.catch /\ g.exc = f.exc
          /\ g.start = [f.start EXCEPT ![run] = last] /\ g.caller = f.caller /\ g.run = f.run
          /\ g.waiting = f.waiting
      BY DEF Trees
    <2>8. \A u \in Task : (g.start[u] = IF u \in A THEN last ELSE f.start[u]) /\ u # NULL
      BY <2>1, <2>2, <2>7, TaskAssumption DEF Trees
    <2> HIDE DEF g
    <2>9. Started(f, last, A, NULL, e)
      BY <1>2, <2>3, <2>6, <2>7, <2>8 DEF Started
    <2> QED
      BY <1>2, <2>9 DEF e, run
  <1>3. CASE just = <<>> /\ A = {}
    <2>1. run = NULL
      BY <1>3
    <2> HIDE DEF run
    <2>2. e = ResumeState(f, last)
      BY <1>3, <2>1 DEF StartImplosion
    <2> HIDE DEF e
    <2>3. Resumed(f, last, e)
      BY <1>3, <2>2, ResumeIs
    <2>4. \A u \in Task : u # NULL
      BY TaskAssumption
    <2>5. Started(f, last, A, NULL, e)
      BY <1>3, <2>3, <2>4 DEF Started, Resumed
    <2> QED
      BY <1>3, <2>5 DEF e, run
  <1> QED
    BY <1>1, <1>2, <1>3

(* The tree e after s and what is below it have been closed in w; e is c    *)
(* before the running task was suspended or the caller of s was set.        *)
Imploded(c, w, e, d, r, b, s, Q, J, o) ==
    /\ Q \subseteq Normal(c) /\ s \in Q /\ c.parent[s] \notin Q
    /\ \A u \in Q : r[u] = r[s] /\ (u = s \/ c.parent[u] \in Q) /\ d[s] <= d[u]
    /\ \A u \in Normal(c) : c.parent[u] \in Q => u \in Q
    /\ \A k \in Closing(c) : c.parent[k] \in Q => k = J
    /\ J # NULL => J \in Closing(c) /\ c.parent[J] \in Q /\ c.parent[s] = NULL /\ r[J] = r[s]
    /\ \A u \in Task : b[u] # NULL => (u \in Q <=> b[u] \in Q)
    /\ o \in Seq(Task) /\ o # <<>> /\ Sorted(o, Deeper(c)) /\ Q = ToSet(o)
    /\ e \in Trees /\ Chained(e.caller, o, c.parent[s])
    /\ \A u \in Task \ Q : e.pmode[u] = c.pmode[u]
    /\ \A u \in Q : e.pmode[u] \in {"CLOSE", "ASYNC"}
    /\ e.parent = c.parent /\ e.ring = c.ring /\ e.autofree = c.autofree /\ e.catch = c.catch
    /\ e.exc = c.exc
    /\ e.mark \subseteq c.mark \cup Q /\ e.bound = c.bound \ Q
    /\ e.run \cap e.waiting = {}
    /\ \A u \in Task \ Q : (u \in e.run <=> u \in w.run) /\ (u \in e.waiting <=> u \in w.waiting)
    /\ \A u, v \in e.run \cap Q : u = v
    /\ \A u \in Task \ (Q \cup {J}) : e.caller[u] = c.caller[u]
    /\ J # NULL => e.caller[J] = o[Len(o)] /\ e.run \cap Q = {}
    /\ \A u \in Task : e.start[u] = IF u \in Q /\ e.pmode[u] = "ASYNC" THEN o[Len(o)] ELSE c.start[u]
    /\ \A u \in Q : IF e.pmode[u] = "ASYNC" THEN u \in e.run /\ J = NULL
                    ELSE u \in e.run => u = o[Len(o)] /\ J = NULL
    /\ o[Len(o)] \in e.run \/ J # NULL \/ \E u \in Q : e.pmode[u] = "ASYNC"

(* The ways to close s: from outside its context, by itself, by its parent. *)
Closes(c, w, r, s, by) ==
    /\ w \in Trees /\ w.pmode = c.pmode /\ w.parent = c.parent /\ w.ring = c.ring /\ w.exc = c.exc
    /\ w.mark = c.mark
    /\ w.bound = c.bound /\ w.start = c.start /\ w.autofree = c.autofree /\ w.catch = c.catch
    /\ w.caller[s] = c.parent[s] /\ \A u \in Task : u # s => w.caller[u] = c.caller[u]
    /\ w.run \cap w.waiting = {} /\ w.run \subseteq c.run
    /\ \A u \in Task : u \notin Normal(c) \/ r[u] # r[s] =>
          (u \in w.run <=> u \in c.run) /\ (u \in w.waiting <=> u \in c.waiting)
    /\ \/ by = "ROOT" /\ c.parent[s] = NULL
       \/ by = "CUR" /\ s \in c.run /\ w.run = c.run \ {s} /\ w.waiting = c.waiting \cup {s}
       \/ by = "SUB" /\ c.parent[s] \in c.run /\ c.parent[s] \in Normal(c) /\ w.run = c.run /\ w.waiting = c.waiting

(* A close that a continue block forbids: the user's error. *)
Broken == {[x EXCEPT !.fatal = "CONTBREAK"] : x \in Trees}

(* s, below which nothing runs but s itself, closes with what is below it. *)
LEMMA LockAndImplodeIs ==
    ASSUME NEW c, NEW d, NEW r, NEW b, NEW p, NEW N, Inv(c, d, r, b, p, N),
           NEW s \in Normal(c), NEW by, NEW w, Closes(c, w, r, s, by),
           NEW e, e = LockAndImplodeBy(w, s, by), by = "ROOT" \/ e \notin Broken
    PROVE  \E Q, J, o : Imploded(c, w, e, d, r, b, s, Q, J, o)
  <1>1. /\ c \in Trees /\ N \in Nat /\ Tree(c, d) /\ RootOK(c, d, r, N) /\ GoneOK(c) /\ RunOK(c, r)
        /\ CallOK(c, r)
        /\ WakeOK(c) /\ BlockOK(c, r, b) /\ ExcOK(c, r) /\ CloseOK(c, r, p, N) /\ StartOK(c, r)
    BY DEF Inv
  <1>2. /\ Live(c) \subseteq Task /\ Normal(c) \subseteq Live(c) /\ Closing(c) \subseteq Live(c)
        /\ NULL \notin Task /\ Normal(c) \cap Closing(c) = {}
    BY TaskAssumption DEF Live, Normal, Closing
  <1>3. /\ w \in Trees /\ w.pmode = c.pmode /\ w.parent = c.parent /\ w.ring = c.ring
        /\ w.exc = c.exc /\ w.mark = c.mark
        /\ w.bound = c.bound /\ w.start = c.start /\ w.autofree = c.autofree /\ w.catch = c.catch
        /\ w.caller[s] = c.parent[s] /\ \A u \in Task : u # s => w.caller[u] = c.caller[u]
        /\ w.run \cap w.waiting = {} /\ w.run \subseteq c.run
    BY DEF Closes
  <1>4. \/ by = "ROOT" /\ c.parent[s] = NULL
        \/ by = "CUR" /\ s \in c.run /\ w.run = c.run \ {s} /\ w.waiting = c.waiting \cup {s}
        \/ by = "SUB" /\ c.parent[s] \in c.run /\ c.parent[s] \in Normal(c) /\ w.run = c.run /\ w.waiting = c.waiting
    BY DEF Closes
  <1> DEFINE stack == DeepStack(w, <<s>>)
             new == Only(stack, Task \ Locked(w))
             just == Only(stack, Locked(w))
             tail == c.parent[s]
  <1>4a. PICK Q, S : Subtree(c, d, r, s, new, just, Q, S)
    <2>1. \E X, Y : Subtree(c, d, r, s, new, just, X, Y)
      BY <1>3, SubtreeIs
    <2> QED
      BY <2>1
  <1>5. /\ Q = ToSet(new) /\ Q = S \cap Normal(c) /\ ToSet(just) = S \cap Closing(c)
        /\ new \in Seq(Task) /\ Sorted(new, Different) /\ just \in Seq(Task)
        /\ Sorted(just, Different)
        /\ s \in Q /\ new # <<>> /\ new[1] = s /\ c.parent[s] \notin Q
        /\ \A u \in Live(c) : c.parent[u] \in Q => u \in S
        /\ \A u \in S : u \in Live(c) /\ r[u] = r[s] /\ (u = s \/ c.parent[u] \in Q) /\ d[s] <= d[u]
    BY <1>4a DEF Subtree
  <1> HIDE DEF stack
  <1>6. /\ s \in Task /\ s \in Live(c) /\ tail \in Task \cup {NULL} /\ Q \subseteq Task
        /\ Q \subseteq Live(c)
    BY <1>1, <1>2, <1>5 DEF Trees
  <1>7. \A u \in Normal(c) : c.parent[u] \in Q => u \in Q
    BY <1>2, <1>5
  <1>8. tail # NULL => r[tail] = r[s] /\ d[tail] < d[s] /\ tail \in Normal(c)
    <2>1. tail # NULL => r[tail] = r[s] /\ d[tail] < d[s] /\ tail \in Live(c)
      BY <1>1, <1>6 DEF RootOK, Tree
    <2>2. tail \in Closing(c) => s \in Closing(c)
      BY <1>1, <1>6 DEF RootOK
    <2> QED
      BY <2>1, <2>2, <1>2 DEF Live, Normal, Closing
  (* The running task, when the close comes from its context. *)
  <1>9. ASSUME by # "ROOT"
        PROVE  \E t \in Normal(c) : t \in c.run /\ r[t] = r[s] /\ ((t = s /\ by = "CUR") \/ (t = tail /\ t \notin Q /\ by = "SUB"))
    BY <1>9, <1>4, <1>5, <1>8, <1>2
  <1>10. \A t \in Normal(c) : t \in c.run \cup c.bound /\ r[t] = r[s] =>
            \A k \in Closing(c) : r[k] # r[s]
    BY <1>1, <1>2 DEF CloseOK, Tokens
  <1>11. \A k \in ToSet(just) : k \in Closing(c) /\ r[k] = r[s] /\ c.parent[k] \in Q /\ c.parent[s] = NULL /\ c.exc[k].kind # "ABORT" /\ by = "ROOT"
    <2>1. SUFFICES ASSUME NEW k \in ToSet(just)
                   PROVE k \in Closing(c) /\ r[k] = r[s] /\ c.parent[k] \in Q /\ c.parent[s] = NULL /\ c.exc[k].kind # "ABORT" /\ by = "ROOT"
      OBVIOUS
    <2>2. k \in Closing(c) /\ r[k] = r[s] /\ c.parent[k] \in Q
      BY <2>1, <1>2, <1>5
    <2>3. by = "ROOT"
      BY <2>2, <1>9, <1>10
    <2>4. c.parent[s] = NULL
      BY <2>3, <1>4
    <2>5. r[k] = s
      BY <2>2, <2>4, <1>1, <1>6 DEF RootOK
    <2>6. c.exc[k].kind # "ABORT"
      BY <2>2, <2>5, <1>1, <1>2 DEF ExcOK, Pending
    <2> QED
      BY <2>2, <2>3, <2>4, <2>6
  <1>12. \A j, k \in ToSet(just) : j = k
    <2>1. \A k \in ToSet(just) : r[k] = s /\ c.parent[k] \notin Closing(c)
      BY <1>11, <1>1, <1>2, <1>5, <1>6 DEF RootOK
    <2> QED
      BY <2>1, <1>11, <1>1, <1>2 DEF CloseOK
  <1>13. \A k \in Closing(c) : c.parent[k] \in Q => k \in ToSet(just)
    BY <1>2, <1>5
  <1> DEFINE A == Q \cap (w.run \cup w.bound)
  <1>14. \A x, y \in A : x = y
    <2>1. \A x \in A : x \in Tokens(c) /\ r[x] = r[s]
      BY <1>3, <1>5, <1>6 DEF Tokens
    <2> QED
      BY <2>1, <1>1 DEF RunOK
  <1>15. by # "ROOT" => A = {}
    <2>1. SUFFICES ASSUME by # "ROOT", NEW x \in A PROVE FALSE
      OBVIOUS
    <2>2. PICK t \in Normal(c) : t \in c.run /\ r[t] = r[s] /\ ((t = s /\ by = "CUR") \/ (t = tail /\ t \notin Q /\ by = "SUB"))
      BY <2>1, <1>9
    <2>3. x \in Tokens(c) /\ r[x] = r[t] /\ t \in Tokens(c)
      BY <2>2, <1>3, <1>5, <1>6, <1>2 DEF Tokens
    <2>4. x = t
      BY <2>3, <1>1 DEF RunOK
    <2>5. by = "CUR" /\ x = s
      BY <2>2, <2>4, <2>1
    <2>6. s \notin w.run /\ s \notin c.bound
      BY <2>5, <2>2, <2>4, <1>4, <1>1 DEF RunOK
    <2> QED
      BY <2>5, <2>6, <2>1, <1>3
  <1>16. A # {} => ToSet(just) = {}
    <2>1. \A x \in A : x \in Normal(c) /\ x \in c.run \cup c.bound /\ r[x] = r[s]
      BY <1>3, <1>5
    <2> QED
      BY <2>1, <1>10, <1>11
  <1>17. A = {} \/ (by = "ROOT" /\ \A x, y \in A : x = y)
    BY <1>14, <1>15
  <1> HIDE DEF A, just
  <1> DEFINE locked == SetImplodeLock(w, by, new)
  <1>18. LockedBy(w, Q, A, locked)
    <2> HIDE DEF new
    <2>1. A = Q \cap (w.run \cup w.bound)
      BY DEF A
    <2>2. Q = ToSet(new)
      BY <1>5
    <2> QED
      BY <1>3, <1>6, <1>17, <2>1, <2>2, LockIs
  <1> DEFINE todo == IF by = "CUR" THEN Tail(new) ELSE new
             busy == CheckBusy(w, todo)
             checked == IF by = "ROOT" THEN locked ELSE CheckContinue(locked, busy)
             order == ByDeep(w, new)
             running == {t \in ToSet(new) : checked.pmode[t] = "ASYNC"}
             f == Serialize(checked, order, tail)
  <1>19. by # "ROOT" => just = <<>>
    <2>1. by # "ROOT" => ToSet(just) = {}
      BY <1>11
    <2>2. ToSet(just) = {} => just = <<>>
      BY <1>5, ToSetIs
    <2> QED
      BY <2>1, <2>2
  <1>20. e = IF checked.fatal # OK THEN checked
             ELSE StartImplosion(f, Last(order), IF running = {} THEN NULL ELSE CHOOSE t \in running : TRUE, just)
    <2>1. w.caller[s] = tail
      BY <1>3
    <2>2. (by # "ROOT" /\ just # <<>>) = FALSE
      BY <1>19
    <2> HIDE DEF tail
    <2> QED
      BY <2>1, <2>2 DEF LockAndImplodeBy, just, stack
  <1>21. by # "ROOT" => \A u \in ToSet(todo) \cap w.waiting : u \in Normal(c) /\ b[u] # NULL
    <2>1. SUFFICES ASSUME by # "ROOT", NEW u \in ToSet(todo) \cap w.waiting, b[u] = NULL PROVE FALSE
      <3>1. ToSet(todo) \subseteq Q
        BY <1>5, TailIs
      <3> QED
        BY <3>1, <1>5
    <2>2. PICK t \in Normal(c) : t \in c.run /\ r[t] = r[s] /\ ((t = s /\ by = "CUR") \/ (t = tail /\ t \notin Q /\ by = "SUB"))
      BY <2>1, <1>9
    <2>3. u \in Q /\ (by = "CUR" => u # s)
      BY <1>5, <2>1, TailIs
    <2>4. u \in c.waiting
      BY <2>1, <2>3, <1>4, <2>2
    <2>5. u \in Normal(c) /\ r[u] = r[t] /\ d[s] <= d[u] /\ s \in Normal(c) /\ d[s] \in Nat
      BY <2>2, <2>3, <1>5, <1>1, <1>6 DEF Tree
    <2>6. \A v \in {t} : c.caller[v] \in {t} \/ c.caller[v] = NULL \/ d[c.caller[v]] < d[s]
      <3>1. c.caller[t] # NULL => c.caller[t] \in Normal(c) /\ c.caller[t] = c.parent[t]
        BY NormalFalls
      <3>2. c.caller[t] # NULL => d[c.caller[t]] < d[t]
        BY <3>1, <1>1, <1>2 DEF Tree
      <3>3. d[t] <= d[s]
        BY <2>2, <2>5, <1>8, <1>1, <1>2 DEF Tree
      <3>4. \A v \in Task : d[v] \in Nat
        BY <1>1 DEF Tree
      <3>5. c.caller[t] # NULL => c.caller[t] \in Task /\ t \in Task /\ s \in Task
        BY <3>1, <1>2, <1>6
      <3> HIDE DEF tail
      <3> QED
        BY <3>2, <3>3, <3>4, <3>5
    <2>7. u \in {t}
      BY <2>1, <2>2, <2>4, <2>5, <2>6, WaitsAbove
    <2> QED
      BY <2>2, <2>3, <2>7
  <1> DEFINE X == ToSet(todo) \cap w.waiting
  <1>22. by # "ROOT" => Found(c, b, X, busy)
    <2>1. \A u \in Normal(c) : b[u] # NULL /\ u \notin Heads(c) => w.caller[u] = c.caller[u]
      <3>1. SUFFICES ASSUME b[s] # NULL, s \notin Heads(c) PROVE c.caller[s] = c.parent[s]
        BY <1>2, <1>3
      <3>2. s \in c.waiting
        BY <3>1, <1>1, <1>6 DEF BlockOK
      <3> QED
        BY <3>1, <3>2, <1>1 DEF CallOK, Active
    <2>2. ASSUME NEW u \in Normal(c), w.caller[u] # NULL
          PROVE  w.caller[u] \in Normal(c) /\ d[w.caller[u]] < d[u]
      <3>1. w.caller[u] = c.parent[u] /\ w.caller[u] \in Normal(c)
        <4>1. CASE u = s
          BY <4>1, <2>2, <1>3, <1>8
        <4>2. CASE u # s
          BY <4>2, <2>2, <1>2, <1>3, NormalFalls
        <4> QED
          BY <4>1, <4>2
      <3> QED
        BY <3>1, <2>2, <1>1, <1>2 DEF Tree
    <2> HIDE DEF todo, busy
    <2>3. busy = CheckBusy(w, todo)
      BY DEF busy
    <2>4. SUFFICES ASSUME by # "ROOT" PROVE Found(c, b, X, busy)
      OBVIOUS
    <2>5. \A u \in X : u \in Normal(c) /\ b[u] # NULL
      BY <2>4, <1>21
    <2>6. \A u \in Normal(c) : w.caller[u] # NULL =>
             w.caller[u] \in Normal(c) /\ d[w.caller[u]] < d[u]
      BY <2>2
    <2>7. w \in Trees /\ w.exc = c.exc /\ w.mark = c.mark
      BY <1>3
    <2>8. X = ToSet(todo) \cap w.waiting
      OBVIOUS
    <2> HIDE DEF X
    <2> QED
      BY <2>1, <2>3, <2>5, <2>6, <2>7, <2>8, BusyIs
  <1> HIDE DEF locked, todo, busy
  <1>23. ASSUME checked.fatal # OK PROVE FALSE
    <2>1. locked.fatal = OK
      BY <1>18 DEF LockedBy, Trees
    <2>2. by # "ROOT"
      BY <2>1, <1>23
    <2>3. checked = Fail(locked, "CONTBREAK") \/ checked = [locked EXCEPT !.mark = busy.mark]
      BY <2>2, <1>22 DEF Found, CheckContinue
    <2>4. checked = Fail(locked, "CONTBREAK")
      <3>1. [locked EXCEPT !.mark = busy.mark].fatal = OK
        BY <1>18, <1>22, <2>1, <2>2 DEF Found, LockedBy, Trees
      <3> QED
        BY <3>1, <2>3, <1>23
    <2>5. checked \in Broken
      BY <2>1, <2>4, <1>18 DEF Fail, LockedBy, Broken
    <2>6. e = checked
      BY <1>20, <1>23
    <2> QED
      BY <2>2, <2>5, <2>6
  <1>24. /\ checked \in Trees
         /\ checked.mark \subseteq c.mark \cup Q
         /\ by # "ROOT" => busy.heads \subseteq Locked(locked)
         /\ checked.run = locked.run /\ checked.waiting = locked.waiting
         /\ checked.bound = locked.bound
         /\ checked.pmode = locked.pmode /\ checked.parent = locked.parent
         /\ checked.ring = locked.ring
         /\ checked.caller = locked.caller /\ checked.autofree = locked.autofree
         /\ checked.catch = locked.catch /\ checked.exc = locked.exc /\ checked.start = locked.start
    <2>1. CASE by = "ROOT"
      BY <2>1, <1>3, <1>18 DEF LockedBy
    <2>2. CASE by # "ROOT"
      <3>1. busy.heads \subseteq Locked(locked) /\ checked = [locked EXCEPT !.mark = busy.mark]
        <4>1. checked = IF busy.heads \subseteq Locked(locked) THEN [locked EXCEPT !.mark = busy.mark]
                        ELSE Fail(locked, "CONTBREAK")
          BY <2>2, <1>22 DEF Found, CheckContinue
        <4>2. Fail(locked, "CONTBREAK").fatal = "CONTBREAK"
          BY <1>18 DEF Fail, LockedBy, Trees
        <4> HIDE DEF checked
        <4> QED
          BY <4>1, <4>2, <1>23 DEF OK
      <3>2. busy.mark \subseteq Task /\ busy.mark \subseteq c.mark \cup Q
        <4>1. \A u \in ToSet(todo) \cap w.waiting : b[u] \in Q
          <5>1. SUFFICES ASSUME NEW u \in ToSet(todo) \cap w.waiting PROVE b[u] \in Q
            OBVIOUS
          <5>2. b[u] \in Locked(locked) /\ b[u] \in Normal(c)
            BY <3>1, <2>2, <1>21, <1>22, <1>1, <5>1 DEF Found, BlockOK, Heads, Normal
          <5> QED
            BY <5>2, <1>18, <1>3, <1>15 DEF LockedBy, Locked, Normal, A
        <4>2. \A t \in Normal(c) : b[t] # NULL /\ b[t] \in Q => t \in Q
          BY <1>2, <1>7, BlockBelow
        <4> QED
          BY <4>1, <4>2, <2>2, <1>22 DEF Found
      <3> HIDE DEF checked
      <3>3. checked \in Trees
        BY <3>1, <3>2, <1>18 DEF LockedBy, Trees
      <3>4. /\ checked.mark = busy.mark
            /\ checked.run = locked.run /\ checked.waiting = locked.waiting
            /\ checked.bound = locked.bound
            /\ checked.pmode = locked.pmode /\ checked.parent = locked.parent
            /\ checked.ring = locked.ring
            /\ checked.caller = locked.caller /\ checked.autofree = locked.autofree
            /\ checked.catch = locked.catch /\ checked.exc = locked.exc
            /\ checked.start = locked.start
        BY <3>1, <1>18 DEF LockedBy, Trees
      <3> QED
        BY <3>1, <3>2, <3>3, <3>4
    <2> QED
      BY <2>1, <2>2
  (* A continue block is taken as a whole. *)
  <1>25. \A u \in Task : b[u] # NULL => (u \in Q <=> b[u] \in Q)
    <2>1. SUFFICES ASSUME NEW u \in Task, b[u] # NULL, u \in Q PROVE b[u] \in Q
      BY <1>2, <1>7, BlockBelow
    <2>2. u \in Normal(c) /\ u \in c.waiting /\ b[u] \in Normal(c) /\ r[u] = r[b[u]]
      BY <2>1, <1>1 DEF BlockOK, Heads
    <2>3. CASE by = "ROOT"
      <3>1. c.parent[s] = NULL
        BY <2>3, <1>4
      <3>2. r[s] = s
        BY <3>1, <1>1, <1>6 DEF RootOK
      <3>3. r[b[u]] = s
        BY <2>1, <2>2, <3>2, <1>5
      <3> QED
        BY <2>2, <3>1, <3>3, <1>5, <1>6, <1>7, ContextBelow
    <2>4. CASE by # "ROOT"
      <3>1. CASE u \in ToSet(todo) /\ u \in w.waiting
        <4>1. b[u] \in Locked(locked)
          BY <3>1, <2>4, <1>22, <1>24 DEF Found
        <4> QED
          BY <4>1, <2>2, <1>18, <1>3 DEF LockedBy, Locked, Normal, A
      <3>2. CASE ~(u \in ToSet(todo) /\ u \in w.waiting)
        <4>1. u \in w.waiting
          BY <2>2, <2>4, <1>4
        <4>2. by = "CUR" /\ u = s
          BY <3>2, <4>1, <2>1, <1>5, TailIs DEF todo
        <4> QED
          BY <4>2, <2>2, <1>4, <1>1 DEF RunOK
      <3> QED
        BY <3>1, <3>2
    <2> QED
      BY <2>3, <2>4
  (* The order of the close. *)
  <1> HIDE DEF new
  <1>26. /\ new \in Seq(Task) /\ Sorted(new, Different) /\ Q = ToSet(new) /\ Q \subseteq Live(c)
         /\ new # <<>>
    BY <1>5, <1>6
  <1>27. /\ order \in Seq(Task) /\ ToSet(order) = Q /\ Sorted(order, Deeper(c))
         /\ Sorted(order, Different)
    BY <1>1, <1>3, <1>26, OrderIs
  <1> HIDE DEF order
  <1>28. order # <<>>
    <2>1. order = <<>> => ToSet(order) = {}
      BY DEF ToSet
    <2> QED
      BY <2>1, <1>5, <1>27
  <1>29. /\ order[1] \in Q /\ order[Len(order)] \in Q /\ Last(order) = order[Len(order)]
         /\ c.parent[order[1]] \notin Q
         /\ order[1] = s
    <2>1. /\ order[1] \in Q /\ order[Len(order)] \in Q /\ Last(order) = order[Len(order)]
          /\ c.parent[order[1]] \notin Q
      BY <1>1, <1>6, <1>27, <1>28, HighestIs
    <2> QED
      BY <2>1, <1>5
  <1> DEFINE last == order[Len(order)]
  <1>30. A \subseteq Q /\ A = Q \cap (w.run \cup w.bound)
    BY DEF A
  <1> HIDE DEF checked
  <1>31. /\ checked \in Trees /\ checked.mark \subseteq c.mark \cup Q
         /\ checked.run = w.run \cup (Q \cap c.bound)
         /\ checked.waiting = w.waiting \ (Q \cap c.bound) /\ checked.bound = c.bound \ Q
         /\ \A u \in Task : checked.pmode[u] = IF u \in A THEN "ASYNC" ELSE IF u \in Q THEN "CLOSE" ELSE c.pmode[u]
         /\ checked.parent = c.parent /\ checked.ring = c.ring /\ checked.caller = w.caller
         /\ checked.autofree = c.autofree
         /\ checked.catch = c.catch /\ checked.exc = c.exc /\ checked.start = c.start
    BY <1>24, <1>18, <1>3 DEF LockedBy
  <1>32. running = A
    <2>1. \A u \in Q : c.pmode[u] = "NORMAL" /\ u \in Task
      BY <1>5, <1>6 DEF Normal
    <2> QED
      BY <2>1, <1>26, <1>30, <1>31
  <1> HIDE DEF running
  <1>33. Serial(checked, order, tail, f)
    <2>1. tail # NULL \/ checked.caller[order[1]] = NULL
      BY <1>29, <1>31, <1>3
    <2> DEFINE g == f
    <2>2. g = Serialize(checked, order, tail)
      OBVIOUS
    <2> HIDE DEF g
    <2>3. Serial(checked, order, tail, g)
      BY <1>6, <1>27, <1>28, <1>31, <2>1, <2>2, SerializeTree
    <2> QED
      BY <2>3 DEF g
  <1> HIDE DEF f
  <1> DEFINE J == IF just = <<>> THEN NULL ELSE Last(just)
  <1>34. last \in Q /\ last \in Task
    BY <1>29, <1>6
  <1>35. e = StartImplosion(f, last, IF A = {} THEN NULL ELSE CHOOSE t \in A : TRUE, just)
    BY <1>20, <1>23, <1>29, <1>32
  <1>36. Started(f, last, A, J, e)
    <2>1. A # {} => just = <<>>
      <3>1. ToSet(just) = {} => just = <<>>
        BY <1>5, ToSetIs
      <3> QED
        BY <3>1, <1>16
    <2>2. \A k \in ToSet(just) : f.exc[k].kind # "ABORT"
      BY <1>11, <1>31, <1>33 DEF Serial
    <2>3. A = {} => f.pmode[last] # "ABSENT" /\ last \notin f.run /\ last \notin f.bound
      <3>1. A = {} => last \notin w.run /\ last \notin w.bound /\ last \notin c.bound
        BY <1>30, <1>34, <1>3
      <3> QED
        BY <3>1, <1>34, <1>31, <1>33 DEF Serial
    <2>4. f \in Trees /\ just \in Seq(Task) /\ A \subseteq Task
      BY <1>33, <1>5, <1>6, <1>30 DEF Serial
    <2> HIDE DEF last
    <2>5. last \in Task
      BY <1>34
    <2>6. Started(f, last, A, IF just = <<>> THEN NULL ELSE Last(just),
                  StartImplosion(f, last, IF A = {} THEN NULL ELSE CHOOSE t \in A : TRUE, just))
      BY <1>14, <2>1, <2>2, <2>3, <2>4, <2>5, StartIs
    <2> QED
      BY <2>6, <1>35
  <1>37. J # NULL =>
            /\ J \in ToSet(just) /\ J \in Closing(c) /\ c.parent[J] \in Q /\ tail = NULL /\ r[J] = r[s]
            /\ A = {} /\ J \notin Q
    <2>1. just # <<>> => J \in ToSet(just)
      <3>1. just # <<>> => Len(just) \in 1..Len(just) /\ DOMAIN just = 1..Len(just)
        BY <1>5, Z3
      <3> QED
        BY <3>1 DEF ToSet, Last
    <2> HIDE DEF J
    <2>2. J # NULL => J \in ToSet(just)
      BY <2>1 DEF J
    <2> QED
      BY <2>2, <1>11, <1>16, <1>5, <1>2
  <1>38. \A k \in Closing(c) : c.parent[k] \in Q => k = J
    <2>1. SUFFICES ASSUME NEW k \in Closing(c), c.parent[k] \in Q PROVE k = J
      OBVIOUS
    <2>2. k \in ToSet(just) /\ k \in Task
      BY <2>1, <1>13, <1>2
    <2>3. just # <<>>
      BY <2>2 DEF ToSet
    <2>4. J \in ToSet(just)
      <3>1. Len(just) \in 1..Len(just) /\ DOMAIN just = 1..Len(just)
        BY <2>3, <1>5, Z3
      <3> QED
        BY <2>3, <3>1 DEF ToSet, Last
    <2> QED
      BY <2>2, <2>4, <1>12
  <1> HIDE DEF J
  <1>39. e.run = (IF A = {} /\ J = NULL THEN checked.run \cup {last} ELSE checked.run)
         /\ checked.waiting \subseteq f.waiting
         /\ f.waiting \subseteq checked.waiting \cup (Q \ checked.run)
         /\ e.waiting = (IF A = {} /\ J = NULL THEN f.waiting \ {last} ELSE f.waiting)
    BY <1>36, <1>33, <1>27 DEF Started, Serial
  <1>40. \A u \in Q : u \in checked.run <=> u \in A
    BY <1>30, <1>31, <1>3
  <1>41. \A u \in Task : e.pmode[u] = IF u \in A THEN "ASYNC" ELSE IF u \in Q THEN "CLOSE" ELSE c.pmode[u]
    BY <1>31, <1>33, <1>36 DEF Started, Serial
  <1>42. \A u \in Task : e.start[u] = IF u \in A THEN last ELSE c.start[u]
    BY <1>31, <1>33, <1>36 DEF Started, Serial
  <1>43. \A u \in Task : e.caller[u] = IF u = J THEN last ELSE f.caller[u]
    BY <1>36 DEF Started
  <1>44. /\ e \in Trees /\ e.parent = c.parent /\ e.ring = c.ring /\ e.autofree = c.autofree
         /\ e.catch = c.catch /\ e.exc = c.exc
         /\ e.mark \subseteq c.mark \cup Q /\ e.bound = c.bound \ Q
    BY <1>31, <1>33, <1>36 DEF Started, Serial
  <1>45. Chained(e.caller, order, tail)
    <2>1. \A i \in 1..Len(order) : f.caller[order[i]] = IF i = 1 THEN tail ELSE order[i - 1]
      BY <1>33 DEF Serial, Chained
    <2>2. \A i \in 1..Len(order) : order[i] \in Q /\ order[i] \in Task
      BY <1>27, <1>6, Z3 DEF ToSet
    <2>3. \A i \in 1..Len(order) : order[i] # J
      BY <2>2, <1>37, TaskAssumption
    <2>4. \A i \in 1..Len(order) : e.caller[order[i]] = f.caller[order[i]]
      BY <2>2, <2>3, <1>43
    <2> QED
      BY <2>1, <2>4 DEF Chained
  <1>46. A # {} => J = NULL
    BY <1>37
  <1>47. e.run \cap e.waiting = {}
    BY <1>39, <1>31, <1>3
  <1>48. \A u \in Task \ Q : (u \in e.run <=> u \in w.run) /\ (u \in e.waiting <=> u \in w.waiting)
    BY <1>39, <1>31, <1>34
  <1>49. \A u, v \in e.run \cap Q : u = v
    BY <1>39, <1>40, <1>14
  <1>50. \A u \in Task \ (Q \cup {J}) : e.caller[u] = c.caller[u]
    <2>1. \A u \in Task \ Q : f.caller[u] = w.caller[u]
      BY <1>33, <1>27, <1>31 DEF Serial
    <2> QED
      BY <2>1, <1>43, <1>3, <1>5
  <1>51. J # NULL => e.caller[J] = last /\ e.run \cap Q = {}
    BY <1>37, <1>43, <1>39, <1>40, <1>2
  <1>52. \A u \in Q : (e.pmode[u] = "ASYNC" <=> u \in A) /\ e.pmode[u] \in {"CLOSE", "ASYNC"}
    BY <1>41, <1>6
  <1>53. \A u \in Task : e.start[u] = IF u \in Q /\ e.pmode[u] = "ASYNC" THEN last ELSE c.start[u]
    BY <1>42, <1>52, <1>30
  <1>54. \A u \in Q : IF e.pmode[u] = "ASYNC" THEN u \in e.run /\ J = NULL ELSE u \in e.run => u = last /\ J = NULL
    BY <1>52, <1>39, <1>40, <1>46
  <1>55. last \in e.run \/ J # NULL \/ \E u \in Q : e.pmode[u] = "ASYNC"
    BY <1>52, <1>39, <1>30
  <1>56. \A u \in Task \ Q : e.pmode[u] = c.pmode[u]
    BY <1>41, <1>30
  <1>57. /\ Q \subseteq Normal(c) /\ s \in Q /\ c.parent[s] \notin Q
         /\ \A u \in Q : r[u] = r[s] /\ (u = s \/ c.parent[u] \in Q) /\ d[s] <= d[u]
    BY <1>5
  <1>58. /\ order \in Seq(Task) /\ order # <<>> /\ Sorted(order, Deeper(c)) /\ Q = ToSet(order)
    BY <1>27, <1>28
  <1>59. J # NULL => J \in Closing(c) /\ c.parent[J] \in Q /\ c.parent[s] = NULL /\ r[J] = r[s]
    BY <1>37
  <1> HIDE DEF tail, A
  <1>60. Chained(e.caller, order, c.parent[s])
    BY <1>45 DEF tail
  <1>61. Imploded(c, w, e, d, r, b, s, Q, J, order)
    BY <1>7, <1>25, <1>38, <1>44, <1>47, <1>48, <1>49, <1>50, <1>51, <1>52, <1>53, <1>54, <1>55,
       <1>56,
       <1>57, <1>58, <1>59, <1>60 DEF Imploded
  <1> QED
    BY <1>61

(* A ptask that closes alone. *)
Mono(w, s, e) ==
    /\ e \in Trees
    /\ e.run = w.run \cup {s} /\ e.waiting = w.waiting \ {s} /\ e.bound = w.bound \ {s}
    /\ e.pmode = [w.pmode EXCEPT ![s] = "CLOSE"] /\ e.caller = w.caller
    /\ e.parent = w.parent /\ e.ring = w.ring /\ e.autofree = w.autofree
    /\ e.mark = w.mark /\ e.catch = w.catch /\ e.exc = w.exc /\ e.start = w.start

(* zm_implodeMonoTask. *)
LEMMA MonoIs ==
    ASSUME NEW w \in Trees, NEW s \in Task, w.pmode[s] = "NORMAL", w.run \cap w.waiting = {},
           s \in w.bound => s \notin w.run,
           NEW e, e = ImplodeMonoTask(w, s)
    PROVE  Mono(w, s, e)
  <1> DEFINE u == [w EXCEPT !.bound = @ \ {s}]
             a == IF s \in w.bound THEN UnbindEvent(w, s) ELSE w
             l == [a EXCEPT !.pmode[s] = "CLOSE"]
  <1>1. e = IF s \in l.run THEN l ELSE ResumeState(l, s)
    BY DEF ImplodeMonoTask
  <1>2. /\ u \in Trees /\ u.bound = w.bound \ {s} /\ u.run = w.run /\ u.waiting = w.waiting
        /\ u.pmode = w.pmode /\ u.caller = w.caller /\ u.parent = w.parent /\ u.ring = w.ring
        /\ u.autofree = w.autofree
        /\ u.mark = w.mark /\ u.catch = w.catch /\ u.exc = w.exc /\ u.start = w.start
    BY DEF Trees
  <1>3. s \in w.bound => a = ResumeState(u, s)
    BY DEF UnbindEvent
  <1> HIDE DEF u
  <1>4. s \in w.bound => Resumed(u, s, ResumeState(u, s))
    BY <1>2, ResumeIs
  <1>5. /\ a \in Trees /\ a.bound = w.bound \ {s}
        /\ \/ a.run = w.run /\ a.waiting = w.waiting
           \/ a.run = w.run \cup {s} /\ a.waiting = w.waiting \ {s}
        /\ a.pmode = w.pmode /\ a.caller = w.caller /\ a.parent = w.parent /\ a.ring = w.ring
        /\ a.autofree = w.autofree
        /\ a.mark = w.mark /\ a.catch = w.catch /\ a.exc = w.exc /\ a.start = w.start
    <2>1. CASE s \in w.bound
      <3>1. Resumed(u, s, a)
        BY <2>1, <1>3, <1>4
      <3> HIDE DEF a
      <3> QED
        BY <3>1, <1>2 DEF Resumed
    <2>2. CASE s \notin w.bound
      <3>1. a = w
        BY <2>2
      <3> QED
        BY <3>1, <2>2
    <2> QED
      BY <2>1, <2>2
  <1> HIDE DEF a
  <1>6. /\ l \in Trees /\ l.pmode = [w.pmode EXCEPT ![s] = "CLOSE"]
        /\ l.bound = a.bound /\ l.run = a.run /\ l.waiting = a.waiting
        /\ l.caller = w.caller /\ l.parent = w.parent /\ l.ring = w.ring /\ l.autofree = w.autofree
        /\ l.mark = w.mark /\ l.catch = w.catch /\ l.exc = w.exc /\ l.start = w.start
    BY <1>5 DEF Trees, Pmode
  <1>7. l.pmode[s] = "CLOSE"
    BY <1>6 DEF Trees
  <1> HIDE DEF l
  <1>8. CASE s \in l.run
    BY <1>1, <1>5, <1>6, <1>8 DEF Mono
  <1>9. CASE s \notin l.run
    <2>1. Resumed(l, s, e)
      BY <1>1, <1>5, <1>6, <1>7, <1>9, ResumeIs
    <2> QED
      BY <2>1, <1>5, <1>6 DEF Mono, Resumed
  <1> QED
    BY <1>8, <1>9

(* It is what a lock of the branch would do. *)
LEMMA MonoCloses ==
    ASSUME NEW c, NEW d, NEW r, NEW b, NEW p, NEW N, Inv(c, d, r, b, p, N),
           NEW s \in Normal(c), NEW by, NEW w, Closes(c, w, r, s, by),
           c.parent[s] = NULL, c.ring[s] = <<>>,
           NEW e, e = ImplodeMonoTask(w, s)
    PROVE  Imploded(c, w, e, d, r, b, s, {s}, NULL, <<s>>)
  <1>1. /\ c \in Trees /\ N \in Nat /\ Tree(c, d) /\ RootOK(c, d, r, N) /\ GoneOK(c) /\ RunOK(c, r)
        /\ CallOK(c, r)
        /\ WakeOK(c) /\ BlockOK(c, r, b) /\ ExcOK(c, r) /\ CloseOK(c, r, p, N) /\ StartOK(c, r)
    BY DEF Inv
  <1>2. /\ Live(c) \subseteq Task /\ Normal(c) \subseteq Live(c) /\ Closing(c) \subseteq Live(c)
        /\ NULL \notin Task /\ Normal(c) \cap Closing(c) = {}
    BY TaskAssumption DEF Live, Normal, Closing
  <1>3. /\ w \in Trees /\ w.pmode = c.pmode /\ w.parent = c.parent /\ w.ring = c.ring
        /\ w.exc = c.exc /\ w.mark = c.mark
        /\ w.bound = c.bound /\ w.start = c.start /\ w.autofree = c.autofree /\ w.catch = c.catch
        /\ w.caller[s] = c.parent[s] /\ \A u \in Task : u # s => w.caller[u] = c.caller[u]
        /\ w.run \cap w.waiting = {} /\ w.run \subseteq c.run
    BY DEF Closes
  <1>4. s \in Task /\ c.pmode[s] = "NORMAL"
    BY DEF Normal
  <1>5. Mono(w, s, e)
    <2>1. s \in w.bound => s \notin w.run
      BY <1>1, <1>3 DEF RunOK
    <2> QED
      BY <2>1, <1>3, <1>4, MonoIs
  <1>6. \A u \in Live(c) : c.parent[u] # s
    <2>1. ToSet(c.ring[s]) = {}
      BY DEF ToSet
    <2> QED
      BY <2>1, <1>1, <1>4 DEF Tree
  <1>7. \A u \in Task : b[u] # NULL => (u \in {s} <=> b[u] \in {s})
    BY <1>1, <1>2 DEF BlockOK, Heads
  <1> DEFINE o == <<s>>
  <1>8. o \in Seq(Task) /\ o # <<>> /\ Len(o) = 1 /\ DOMAIN o = 1..1 /\ o[1] = s /\ ToSet(o) = {s}
    BY <1>4 DEF ToSet
  <1> HIDE DEF o
  <1>9. Sorted(o, Deeper(c)) /\ Chained(e.caller, o, c.parent[s])
    <2>1. e.caller[s] = NULL
      BY <1>3, <1>5 DEF Mono
    <2> QED
      BY <2>1, <1>8 DEF Sorted, Chained
  <1>10. {s} \subseteq Normal(c) /\ NULL \notin {s}
    BY <1>2, <1>4
  <1>11. /\ e \in Trees
         /\ e.run = w.run \cup {s} /\ e.waiting = w.waiting \ {s} /\ e.bound = c.bound \ {s}
         /\ e.pmode[s] = "CLOSE" /\ (\A u \in Task \ {s} : e.pmode[u] = c.pmode[u])
         /\ e.caller = w.caller
         /\ e.parent = c.parent /\ e.ring = c.ring /\ e.autofree = c.autofree
         /\ e.mark = c.mark /\ e.catch = c.catch /\ e.exc = c.exc /\ e.start = c.start
    BY <1>5, <1>3, <1>4 DEF Mono, Trees
  <1>12. d[s] <= d[s]
    BY <1>1, <1>4 DEF Tree
  <1>13. Imploded(c, w, e, d, r, b, s, {s}, NULL, o)
    <2>1. /\ {s} \subseteq Normal(c) /\ s \in {s} /\ c.parent[s] \notin {s}
          /\ \A u \in {s} : r[u] = r[s] /\ (u = s \/ c.parent[u] \in {s}) /\ d[s] <= d[u]
          /\ \A u \in Normal(c) : c.parent[u] \in {s} => u \in {s}
          /\ \A k \in Closing(c) : c.parent[k] \in {s} => k = NULL
      BY <1>10, <1>6, <1>2, <1>12
    <2>2. /\ \A u \in Task \ {s} : e.pmode[u] = c.pmode[u]
          /\ \A u \in {s} : e.pmode[u] \in {"CLOSE", "ASYNC"}
          /\ e.mark \subseteq c.mark \cup {s}
          /\ e.run \cap e.waiting = {}
          /\ \A u \in Task \ {s} : (u \in e.run <=> u \in w.run) /\ (u \in e.waiting <=> u \in w.waiting)
          /\ \A u, v \in e.run \cap {s} : u = v
          /\ \A u \in Task \ ({s} \cup {NULL}) : e.caller[u] = c.caller[u]
      BY <1>11, <1>3
    <2>3. /\ \A u \in Task : e.start[u] = IF u \in {s} /\ e.pmode[u] = "ASYNC" THEN o[Len(o)] ELSE c.start[u]
          /\ \A u \in {s} : IF e.pmode[u] = "ASYNC" THEN u \in e.run /\ NULL = NULL
                            ELSE u \in e.run => u = o[Len(o)] /\ NULL = NULL
          /\ o[Len(o)] \in e.run
      BY <1>11, <1>8
    <2> QED
      BY <1>7, <1>8, <1>9, <1>11, <2>1, <2>2, <2>3 DEF Imploded
  <1> QED
    BY <1>13 DEF o

(* zmTERM, zmCLOSE and zm_abort, with subtasks or without. *)
LEMMA CloseTaskIs ==
    ASSUME NEW c, NEW d, NEW r, NEW b, NEW p, NEW N, Inv(c, d, r, b, p, N),
           NEW s \in Normal(c), NEW by, NEW w, Closes(c, w, r, s, by),
           NEW e, e = CloseTask(w, s, by), by = "ROOT" \/ e \notin Broken
    PROVE  \E Q, J, o : Imploded(c, w, e, d, r, b, s, Q, J, o)
  <1>1. w.parent = c.parent /\ w.ring = c.ring
    BY DEF Closes
  <1>2. CASE c.parent[s] = NULL /\ c.ring[s] = <<>>
    <2>1. e = ImplodeMonoTask(w, s)
      BY <1>1, <1>2 DEF CloseTask, IsTask
    <2>2. Imploded(c, w, e, d, r, b, s, {s}, NULL, <<s>>)
      BY <1>2, <2>1, MonoCloses
    <2> QED
      BY <2>2
  <1>3. CASE ~(c.parent[s] = NULL /\ c.ring[s] = <<>>)
    <2>1. e = LockAndImplodeBy(w, s, by)
      BY <1>1, <1>3 DEF CloseTask, IsTask
    <2> QED
      BY <2>1, LockAndImplodeIs
  <1> QED
    BY <1>2, <1>3

(* What remains to do after a close: the parent that closed s is suspended. *)
Suspended(e, g, by, tail) ==
    /\ g \in Trees /\ g.pmode = e.pmode /\ g.parent = e.parent /\ g.ring = e.ring
    /\ g.caller = e.caller
    /\ g.bound = e.bound /\ g.autofree = e.autofree /\ g.mark = e.mark /\ g.catch = e.catch
    /\ g.exc = e.exc /\ g.start = e.start
    /\ g.run = (IF by = "SUB" THEN e.run \ {tail} ELSE e.run)
    /\ g.waiting = (IF by = "SUB" THEN e.waiting \cup {tail} ELSE e.waiting)

(* The tree stays good. *)
LEMMA ImplodedKeeps ==
    ASSUME NEW c, NEW d, NEW r, NEW b, NEW p, NEW N, Inv(c, d, r, b, p, N),
           NEW s \in Normal(c), NEW by, NEW w, Closes(c, w, r, s, by),
           by = "CUR" => s \notin Pending(c),
           NEW e, NEW Q, NEW J, NEW o, Imploded(c, w, e, d, r, b, s, Q, J, o),
           NEW g, Suspended(e, g, by, c.parent[s])
    PROVE  \E nb, q, M : Inv(g, d, r, nb, q, M)
  <1>1. /\ c \in Trees /\ N \in Nat /\ Tree(c, d) /\ RootOK(c, d, r, N) /\ GoneOK(c) /\ RunOK(c, r)
        /\ CallOK(c, r)
        /\ WakeOK(c) /\ BlockOK(c, r, b) /\ ExcOK(c, r) /\ CloseOK(c, r, p, N) /\ StartOK(c, r)
    BY DEF Inv
  <1>2. /\ Live(c) \subseteq Task /\ Normal(c) \subseteq Live(c) /\ Closing(c) \subseteq Live(c)
        /\ NULL \notin Task /\ Normal(c) \cap Closing(c) = {}
        /\ Live(c) = Normal(c) \cup Closing(c)
    BY TaskAssumption DEF Live, Normal, Closing
  <1> DEFINE tail == c.parent[s]
             x == r[s]
             last == o[Len(o)]
             T == Q \cup {} \cup {tail}
  <1>3. /\ Q \subseteq Normal(c) /\ s \in Q /\ tail \notin Q
        /\ \A u \in Q : r[u] = x /\ (u = s \/ c.parent[u] \in Q) /\ d[s] <= d[u]
        /\ \A u \in Normal(c) : c.parent[u] \in Q => u \in Q
        /\ \A k \in Closing(c) : c.parent[k] \in Q => k = J
        /\ J # NULL => J \in Closing(c) /\ c.parent[J] \in Q /\ tail = NULL /\ r[J] = x
        /\ \A u \in Task : b[u] # NULL => (u \in Q <=> b[u] \in Q)
    BY DEF Imploded
  <1>4. s \in Task /\ s \in Live(c) /\ tail \in Task \cup {NULL} /\ Q \subseteq Task
    BY <1>1, <1>2, <1>3 DEF Trees
  <1>5. tail # NULL => r[tail] = x /\ tail \in Normal(c)
    <2>1. tail # NULL => r[tail] = x /\ tail \in Live(c)
      BY <1>1, <1>4 DEF RootOK, Tree
    <2>2. tail \in Closing(c) => s \in Closing(c)
      BY <1>1, <1>4 DEF RootOK
    <2> QED
      BY <2>1, <2>2, <1>2
  <1>6. \/ by = "ROOT" /\ tail = NULL
        \/ by = "CUR" /\ s \in c.run /\ w.run = c.run \ {s} /\ w.waiting = c.waiting \cup {s}
        \/ by = "SUB" /\ tail \in c.run /\ tail \in Normal(c) /\ w.run = c.run /\ w.waiting = c.waiting
    BY DEF Closes
  <1>7. tail = NULL => x = s
    BY <1>1, <1>4 DEF RootOK
  <1>8. tail = NULL => \A u \in Normal(c) : r[u] = x => u \in Q
    BY <1>3, <1>4, <1>7, ContextBelow
  (* The task that runs, and nothing closes then in its context. *)
  <1>9. by # "ROOT" =>
           \E t \in Normal(c) : t \in c.run /\ r[t] = x /\ t \in {s, tail} /\ (by = "SUB" => t = tail) /\ (by = "CUR" => t = s)
    BY <1>2, <1>4, <1>5, <1>6
  <1>10. \A t \in Normal(c) : t \in c.run /\ r[t] = x => /\ t \in Tokens(c)
                                                         /\ \A k \in Closing(c) : r[k] # x
                                                         /\ \A u \in Tokens(c) : r[u] = x => u = t
    BY <1>1, <1>2 DEF CloseOK, RunOK, Tokens
  <1>11. \A u \in Closing(c) : c.caller[u] \in Q => u = J
    <2>1. SUFFICES ASSUME NEW u \in Closing(c), c.caller[u] \in Q PROVE u = J
      OBVIOUS
    <2>2. r[u] = x /\ c.caller[u] \in Normal(c) /\ u \in Live(c) /\ c.caller[u] # NULL
      BY <2>1, <1>1, <1>2, <1>3 DEF CallOK
    <2>3. by = "ROOT"
      BY <2>2, <1>9, <1>10
    <2>4. tail = NULL /\ x = s
      BY <2>3, <1>6, <1>7
    <2>5. c.parent[u] \notin Closing(c)
      BY <2>2, <2>4, <1>1, <1>2 DEF CloseOK
    <2>6. c.parent[u] # NULL
      BY <2>2, <2>4, <1>1, <1>2 DEF RootOK
    <2>7. c.parent[u] \in Normal(c) /\ r[c.parent[u]] = x
      BY <2>2, <2>5, <2>6, <1>1, <1>2 DEF RootOK, Tree
    <2> QED
      BY <2>4, <2>7, <1>8, <1>3
  <1>12. J # NULL => c.caller[J] \in Q /\ x \in Q
    <2>1. SUFFICES ASSUME J # NULL PROVE c.caller[J] \in Q
      BY <1>3, <1>7
    <2>2. /\ J \in Closing(c) /\ tail = NULL /\ r[J] = s /\ x = s /\ c.parent[J] \notin Closing(c)
          /\ s \notin Closing(c)
      BY <2>1, <1>2, <1>3, <1>7
    <2>3. c.caller[J] # NULL /\ c.caller[J] \notin Closing(c)
      BY <2>2, <1>1 DEF CloseOK
    <2>4. c.caller[J] \in Normal(c) /\ r[c.caller[J]] = s
      BY <2>2, <2>3, <1>1, <1>2 DEF CallOK
    <2> QED
      BY <2>2, <2>4, <1>8
  <1>13. \A u \in Live(c) : c.caller[u] \in Q => u \in Q \cup {J}
    BY <1>11, <1>2, <1>3, NormalFalls
  <1>14. \A u \in Q : c.caller[u] \in Q \cup {NULL, tail}
    BY <1>3, NormalFalls
  <1>15. \A t \in c.run : t \notin c.waiting /\ t \notin c.bound /\ b[t] = NULL /\ t \notin Heads(c)
    <2>1. c.run \subseteq Task
      BY <1>1 DEF Trees
    <2> QED
      BY <2>1, <1>1, <1>2 DEF RunOK, BlockOK, Heads, Normal
  <1>16. tail # NULL => /\ tail \in Normal(c) \cap Active(c) /\ tail \notin c.bound /\ tail \notin Q
                        /\ r[tail] = x /\ b[tail] = NULL
                        /\ \A u \in Live(c) : c.caller[u] = tail => u \in Q
                        /\ by = "CUR" => tail \in c.waiting
                        /\ by \in {"CUR", "SUB"}
    <2>1. CASE tail = NULL
      BY <2>1
    <2>2. CASE tail # NULL /\ by = "SUB"
      <3>1. tail \in c.run /\ tail \in Normal(c)
        BY <2>2, <1>6
      <3>2. \A u \in Live(c) : c.caller[u] # tail
        BY <3>1, <1>1, <1>2 DEF CallOK, Normal
      <3> QED
        BY <2>2, <3>1, <3>2, <1>3, <1>5, <1>15 DEF Active
    <2>3. CASE tail # NULL /\ by = "CUR"
      <3>1. s \in c.run
        BY <2>3, <1>6
      <3>2. c.caller[s] = tail
        BY <3>1, <1>15, <1>1 DEF CallOK, Active
      <3>3. tail \in c.waiting /\ tail \notin c.bound
        BY <2>3, <3>2, <1>1, <1>4, <1>5 DEF CallOK
      <3>4. b[tail] = NULL
        BY <3>1, <3>2, <2>3, <1>15, <1>1, <1>4, <1>5 DEF BlockOK
      <3>5. \A u \in Live(c) : c.caller[u] = tail => u = s
        BY <3>2, <2>3, <1>1, <1>4 DEF CallOK
      <3> QED
        BY <2>3, <3>3, <3>4, <3>5, <1>3, <1>5 DEF Active
    <2> QED
      BY <2>1, <2>2, <2>3, <1>6
  <1>17. Q \cap Pending(c) # {} => x \in Q
    <2>1. SUFFICES ASSUME NEW u \in Q, u \in Pending(c), by # "ROOT" PROVE FALSE
      BY <1>3, <1>6, <1>7
    <2>2. PICK t \in Normal(c) : t \in c.run /\ r[t] = x /\ t \in {s, tail} /\ (by = "SUB" => t = tail) /\ (by = "CUR" => t = s)
      BY <2>1, <1>9
    <2>3. u \in c.run
      <3>1. \A k \in Closing(c) : c.caller[k] = u => r[k] = x
        BY <2>1, <1>1, <1>2, <1>3, <1>4 DEF CallOK
      <3>2. \A k \in Closing(c) : c.caller[k] # u
        BY <3>1, <2>2, <1>10
      <3> QED
        BY <3>2, <2>1, <1>1, <1>3 DEF ExcOK
    <2>4. u \in Tokens(c) /\ r[u] = x
      BY <2>1, <2>3, <1>2, <1>3 DEF Tokens
    <2>5. u = t
      <3>1. \A v \in Tokens(c) : r[v] = x => v = t
        BY <2>2, <1>10
      <3> HIDE DEF x
      <3> QED
        BY <2>4, <3>1
    <2> QED
      BY <2>1, <2>2, <2>5, <1>3, <1>6
  <1>18. x \in Q \/ (tail # NULL /\ x \in Active(c) /\ \A k \in Closing(c) : r[k] # x)
    <2>1. CASE tail = NULL
      BY <2>1, <1>3, <1>7
    <2>2. CASE tail # NULL
      <3>1. PICK t \in Normal(c) : t \in c.run /\ r[t] = x /\ t \in {s, tail}
        BY <2>2, <1>9, <1>16
      <3>2. t \in Tokens(c) /\ \A k \in Closing(c) : r[k] # x
        BY <3>1, <1>10
      <3>3. x \notin Closing(c)
        BY <3>1, <1>2, RootLocked
      <3> QED
        BY <2>2, <3>1, <3>2, <3>3, <1>1 DEF RunOK
    <2> QED
      BY <2>1, <2>2
  <1>19. Cut(c, r, b, x, Q, {}, tail, J)
    <2> HIDE DEF tail, x
    <2>1. /\ Q \subseteq Normal(c) /\ {} \subseteq Normal(c) /\ Q \cap {} = {}
          /\ \A u \in Q \cup {} : r[u] = x
          /\ \A u \in Normal(c) : c.parent[u] \in Q => u \in Q
          /\ \A u \in Live(c) : c.caller[u] \in Q \cup {} => u \in Q \cup {} \cup {J}
          /\ \A u \in Q \cup {} : c.caller[u] \in Q \cup {} \cup {NULL, tail}
          /\ J # NULL => J \in Closing(c) /\ c.caller[J] \in Q /\ r[J] = x /\ x \in Q
          /\ \A u \in Task : b[u] # NULL => (u \in Q <=> b[u] \in Q)
          /\ \A u \in {} : b[u] = NULL /\ u \notin c.bound /\ u # x
          /\ {} \cap Pending(c) = {}
      BY <1>3, <1>12, <1>13, <1>14
    <2>2. tail # NULL =>
             /\ tail \in Normal(c) \cap Active(c) /\ tail \notin c.bound /\ tail \notin Q \cup {}
             /\ r[tail] = x /\ b[tail] = NULL
             /\ \A u \in Live(c) : c.caller[u] = tail => u \in Q \cup {}
      BY <1>16
    <2> QED
      BY <2>1, <2>2, <1>17, <1>18 DEF Cut
  <1>20. /\ o \in Seq(Task) /\ o # <<>> /\ Sorted(o, Deeper(c)) /\ Q = ToSet(o)
         /\ Chained(e.caller, o, tail)
         /\ o[1] \in Q /\ last \in Q
    <2>1. /\ o \in Seq(Task) /\ o # <<>> /\ Sorted(o, Deeper(c)) /\ Q = ToSet(o)
          /\ Chained(e.caller, o, tail)
      BY DEF Imploded
    <2>2. o[1] \in ToSet(o) /\ last \in ToSet(o)
      BY <2>1, <1>1, <1>2, <1>3, HighestIs
    <2> QED
      BY <2>1, <2>2
  <1>21. PICK q : Queue(c, e.caller, Q, o[1], last, tail, q, N) /\ Ranks(Q, p, N, q, N + Len(o))
    <2>1. tail # NULL =>
             \E f \in Q : c.parent[f] \notin Q /\ \A u \in Q : c.parent[u] \in Q \/ u = f
      BY <1>3
    <2> QED
      BY <1>20, <1>3, <2>1, QueueIs
  <1>22. /\ g \in Trees /\ g.pmode = e.pmode /\ g.parent = e.parent /\ g.ring = e.ring
         /\ g.caller = e.caller
         /\ g.bound = e.bound /\ g.autofree = e.autofree /\ g.mark = e.mark /\ g.catch = e.catch
         /\ g.exc = e.exc /\ g.start = e.start
         /\ g.run = (IF by = "SUB" THEN e.run \ {tail} ELSE e.run)
         /\ g.waiting = (IF by = "SUB" THEN e.waiting \cup {tail} ELSE e.waiting)
    BY DEF Suspended
  <1>23. \A u \in Task \ T : (u \in g.run <=> u \in c.run) /\ (u \in g.waiting <=> u \in c.waiting)
    <2>1. SUFFICES ASSUME NEW u \in Task \ T PROVE (u \in w.run <=> u \in c.run) /\ (u \in w.waiting <=> u \in c.waiting)
      <3>1. \A u \in Task \ Q : (u \in e.run <=> u \in w.run) /\ (u \in e.waiting <=> u \in w.waiting)
        BY DEF Imploded
      <3> QED
        BY <2>1, <3>1, <1>22
    <2>2. CASE u \notin Normal(c) \/ r[u] # x
      BY <2>2, <2>1 DEF Closes
    <2>3. CASE u \in Normal(c) /\ r[u] = x
      <3>1. by # "ROOT"
        BY <2>1, <2>3, <1>6, <1>8
      <3> QED
        BY <3>1, <2>1, <1>3, <1>6
    <2> QED
      BY <2>2, <2>3
  <1>24. tail # NULL => tail \in g.waiting /\ tail \notin g.run
    <2>1. tail # NULL => (tail \in e.waiting <=> tail \in w.waiting)
      BY <1>3, <1>4 DEF Imploded
    <2>2. e.run \cap e.waiting = {}
      BY DEF Imploded
    <2> HIDE DEF tail
    <2> QED
      BY <2>1, <2>2, <1>6, <1>16, <1>22
  <1>25. g.run \cap T = e.run \cap Q
    <2>1. NULL \notin g.run
      BY <1>22, <1>2 DEF Trees
    <2>2. tail \notin g.run
      BY <2>1, <1>24
    <2>3. g.run \cap Q = e.run \cap Q
      BY <1>22, <1>3
    <2> HIDE DEF tail
    <2> QED
      BY <2>2, <2>3
  <1>26. g.run \cap T = {} \/ \A u \in Tokens(c) : r[u] = x => u \in T
    <2>1. CASE by # "ROOT"
      <3>1. PICK t \in Normal(c) : t \in c.run /\ r[t] = x /\ t \in {s, tail}
        BY <2>1, <1>9
      <3>2. \A v \in Tokens(c) : r[v] = x => v = t
        BY <3>1, <1>10
      <3> HIDE DEF x, tail
      <3> QED
        BY <3>1, <3>2, <1>3
    <2>2. CASE by = "ROOT" /\ \E k \in Closing(c) : r[k] = x
      <3>1. tail = NULL /\ x = s
        BY <2>2, <1>6, <1>7
      <3> DEFINE X == {k \in Closing(c) : r[k] = x}
      <3>2. X \in SUBSET Task /\ X # {} /\ d \in [Task -> Nat]
        BY <2>2, <1>2, <1>1 DEF Tree
      <3>3. PICK m \in X : \A v \in X : d[m] <= d[v]
        BY <3>2, Shallowest
      <3>4. m \in Closing(c) /\ r[m] = s /\ m \in Live(c) /\ m # s
        BY <3>1, <3>3, <1>2
      <3>5. c.parent[m] # NULL
        BY <3>4, <1>1 DEF RootOK
      <3>6. c.parent[m] \in Live(c) /\ d[c.parent[m]] < d[m] /\ r[c.parent[m]] = x
        BY <3>1, <3>4, <3>5, <1>1 DEF RootOK, Tree
      <3>7. c.parent[m] \notin Closing(c)
        BY <3>2, <3>3, <3>6, <1>2
      <3>8. c.parent[m] \in Q
        BY <3>1, <3>6, <3>7, <1>2, <1>8
      <3>9. J # NULL
        BY <3>4, <3>8, <1>2, <1>3
      <3>10. e.run \cap Q = {}
        BY <3>9 DEF Imploded
      <3> QED
        BY <3>10, <1>25
    <2>3. CASE by = "ROOT" /\ ~ \E k \in Closing(c) : r[k] = x
      <3>1. tail = NULL
        BY <2>3, <1>6
      <3>2. \A u \in Tokens(c) : u \in Normal(c) \/ u \in Closing(c)
        BY <1>1, <1>2 DEF Tokens, RunOK
      <3> QED
        BY <2>3, <3>1, <3>2, <1>8
    <2> QED
      BY <2>1, <2>2, <2>3
  <1>27. Cuts(c, g, r, x, Q, {}, tail, J, last)
    <2>1. /\ \A u \in Task \ Q : g.pmode[u] = c.pmode[u]
          /\ \A u \in Q : g.pmode[u] \in {"CLOSE", "ASYNC"}
          /\ g.parent = c.parent /\ g.ring = c.ring /\ g.autofree = c.autofree /\ g.catch = c.catch
          /\ g.mark \subseteq c.mark \cup Q /\ g.bound = c.bound \ Q
          /\ g.exc = c.exc
          /\ \A u \in Task \ (Q \cup {J}) : g.caller[u] = c.caller[u]
          /\ J # NULL => g.caller[J] = last
          /\ \A u \in Task : g.start[u] = IF u \in Q /\ g.pmode[u] = "ASYNC" THEN last ELSE c.start[u]
      BY <1>22 DEF Imploded
    <2>2. g.run \cap g.waiting = {}
      <3>1. e.run \cap e.waiting = {}
        BY DEF Imploded
      <3> QED
        BY <3>1, <1>22
    <2>3. \A u, v \in g.run \cap T : u = v
      <3>1. \A u, v \in e.run \cap Q : u = v
        BY DEF Imploded
      <3> QED
        BY <3>1, <1>25
    <2>4. /\ \A u \in Q : IF e.pmode[u] = "ASYNC" THEN u \in e.run /\ J = NULL
                          ELSE u \in e.run => u = last /\ J = NULL
          /\ last \in e.run \/ J # NULL \/ \E u \in Q : e.pmode[u] = "ASYNC"
      BY DEF Imploded
    <2>5. \A u \in Q : u \in g.run <=> u \in e.run
      BY <1>25
    <2>6. /\ \A u \in Q : IF g.pmode[u] = "ASYNC" THEN u \in g.run ELSE u \in g.run => u = last /\ J = NULL
          /\ last \in g.run \/ J # NULL \/ \E u \in Q : g.pmode[u] = "ASYNC"
          /\ (\E u \in Q : g.pmode[u] = "ASYNC") => J = NULL
      BY <2>4, <2>5, <1>20, <1>22
    <2> HIDE DEF tail, x, last
    <2>7. /\ \A u \in Task \ (Q \cup {} \cup {J}) : g.caller[u] = c.caller[u]
          /\ \A u \in {} : u \notin g.run /\ u \notin g.waiting /\ g.caller[u] = NULL
          /\ tail # NULL => IF Q = {} THEN tail \in g.run ELSE tail \in g.waiting
          /\ \A u \in Task : u # tail => g.exc[u] = c.exc[u]
          /\ tail # NULL => g.exc[tail] = c.exc[tail] \/ g.exc[tail].kind = "ABORT"
      BY <2>1, <1>24, <1>3
    <2> QED
      BY <2>1, <2>2, <2>3, <2>6, <2>7, <1>23, <1>26 DEF Cuts
  <1> HIDE DEF tail, x, last
  <1>28. \E nb : Inv(g, d, r, nb, q, N + Len(o))
    <2>1. Queue(c, g.caller, Q, o[1], last, tail, q, N)
      BY <1>21, <1>22
    <2> QED
      BY <1>19, <1>21, <1>22, <1>27, <2>1, CutKeeps
  <1> QED
    BY <1>28

(* The tasks S of c begin to close. *)
Takes(c, e, b, S) ==
    /\ S \subseteq Normal(c)
    /\ \A u \in Task \ S : e.pmode[u] = c.pmode[u]
    /\ \A u \in S : e.pmode[u] \in {"CLOSE", "ASYNC"}
    /\ e.parent = c.parent /\ e.ring = c.ring
    /\ \A u \in Normal(c) : c.parent[u] \in S => u \in S
    /\ \A u \in Task : b[u] # NULL => (u \in S <=> b[u] \in S)

(* Only the modes, the parents and the rings tell what a close takes. *)
LEMMA TakesSame ==
    ASSUME NEW c, NEW e, NEW b, NEW S, Takes(c, e, b, S),
           NEW g, g.pmode = e.pmode, g.parent = e.parent, g.ring = e.ring
    PROVE  Takes(c, g, b, S)
  BY DEF Takes

(* A forbidden close is reported, whatever follows it in the step. *)
LEMMA BrokenIs ==
    ASSUME NEW e \in Broken
    PROVE  /\ e.fatal = "CONTBREAK"
           /\ \A t, wait : SuspendCurrentState(e, t, wait).fatal = "CONTBREAK"
  <1>1. PICK x \in Trees : e = [x EXCEPT !.fatal = "CONTBREAK"]
    BY DEF Broken
  <1> QED
    BY <1>1 DEF Trees, SuspendCurrentState

(* A task that runs in normal mode is in no block, and nothing in its      *)
(* context closes.                                                         *)
LEMMA RunsFree ==
    ASSUME NEW c, NEW d, NEW r, NEW b, NEW p, NEW N, Inv(c, d, r, b, p, N),
           NEW t \in Normal(c), t \in c.run
    PROVE  /\ t \notin c.waiting /\ t \notin c.bound /\ t \notin Heads(c) /\ b[t] = NULL
           /\ c.caller[t] = c.parent[t] /\ t \in Task /\ t \in Live(c)
           /\ \A k \in Closing(c) : r[k] # r[t]
  <1>1. c \in Trees /\ RunOK(c, r) /\ BlockOK(c, r, b) /\ CallOK(c, r) /\ CloseOK(c, r, p, N)
    BY DEF Inv
  <1>2. t \in Task /\ t \in Live(c) /\ t \in Tokens(c)
    BY DEF Normal, Live, Tokens
  <1>3. t \notin c.waiting /\ t \notin c.bound
    BY <1>1 DEF RunOK
  <1>4. b[t] = NULL /\ t \notin Heads(c)
    BY <1>1, <1>2, <1>3, TaskAssumption DEF BlockOK
  <1>5. c.caller[t] = c.parent[t]
    BY <1>1, <1>4 DEF CallOK, Active
  <1> QED
    BY <1>1, <1>2, <1>3, <1>4, <1>5 DEF CloseOK

(* zmTERM *)
LEMMA TermKeeps ==
    ASSUME NEW c, NEW d, NEW r, NEW b, NEW p, NEW N, Inv(c, d, r, b, p, N),
           NEW t \in Normal(c), t \in c.run, t \notin Pending(c),
           NEW e, e = CloseTask(SuspendCurrentState(c, t, TRUE), t, "CUR"), e.fatal # "CONTBREAK"
    PROVE  Good(e) /\ \E S : Takes(c, e, b, S)
  <1> DEFINE w == SuspendCurrentState(c, t, TRUE)
  <1>1. c \in Trees /\ c.run \cap c.waiting = {}
    BY DEF Inv, RunOK
  <1>2. c.caller[t] = c.parent[t] /\ t \in Task
    BY RunsFree
  <1>3. /\ w \in Trees /\ w.run = c.run \ {t} /\ w.waiting = c.waiting \cup {t}
        /\ w.pmode = c.pmode /\ w.parent = c.parent /\ w.ring = c.ring /\ w.exc = c.exc
        /\ w.mark = c.mark
        /\ w.bound = c.bound /\ w.start = c.start /\ w.autofree = c.autofree /\ w.catch = c.catch
        /\ w.caller = c.caller
    BY <1>1, <1>2 DEF Trees, SuspendCurrentState
  <1> HIDE DEF w
  <1>4. Closes(c, w, r, t, "CUR")
    BY <1>1, <1>2, <1>3 DEF Closes
  <1>5. e = CloseTask(w, t, "CUR") /\ e \notin Broken
    BY BrokenIs DEF w
  <1>6. PICK Q, J, o : Imploded(c, w, e, d, r, b, t, Q, J, o)
    BY <1>4, <1>5, CloseTaskIs
  <1>7. Suspended(e, e, "CUR", c.parent[t])
    BY <1>6 DEF Suspended, Imploded
  <1>8. \E nb, q, M : Inv(e, d, r, nb, q, M)
    BY <1>4, <1>6, <1>7, ImplodedKeeps
  <1>9. Takes(c, e, b, Q)
    BY <1>6 DEF Imploded, Takes
  <1> QED
    BY <1>8, <1>9 DEF Good

(* zmCLOSE *)
LEMMA CloseKeeps ==
    ASSUME NEW c, NEW d, NEW r, NEW b, NEW p, NEW N, Inv(c, d, r, b, p, N),
           NEW t \in Normal(c), t \in c.run, NEW s \in Live(c), c.parent[s] = t,
           NEW w, w = [c EXCEPT !.caller[s] = t],
           NEW g, g = SuspendCurrentState(CloseTask(w, s, "SUB"), t, TRUE), g.fatal # "CONTBREAK"
    PROVE  Good(g) /\ \E S : Takes(c, g, b, S)
  <1> DEFINE e == CloseTask(w, s, "SUB")
  <1>1. c \in Trees /\ c.run \cap c.waiting = {} /\ RootOK(c, d, r, N) /\ Live(c) \subseteq Task
    BY DEF Inv, RunOK, Live
  <1>2. t \in Task /\ t \in Live(c) /\ \A k \in Closing(c) : r[k] # r[t]
    BY RunsFree
  <1>3. r[s] = r[t]
    BY <1>1, <1>2, TaskAssumption DEF RootOK
  <1>4. s \in Normal(c) /\ s \in Task
    BY <1>1, <1>2, <1>3 DEF Live, Normal, Closing
  <1>5. /\ w \in Trees /\ w.run = c.run /\ w.waiting = c.waiting
        /\ w.caller = [c.caller EXCEPT ![s] = t]
        /\ w.pmode = c.pmode /\ w.parent = c.parent /\ w.ring = c.ring /\ w.exc = c.exc
        /\ w.mark = c.mark
        /\ w.bound = c.bound /\ w.start = c.start /\ w.autofree = c.autofree /\ w.catch = c.catch
    BY <1>1, <1>2, <1>4 DEF Trees
  <1>6. w.caller[s] = t /\ \A u \in Task : u # s => w.caller[u] = c.caller[u]
    BY <1>1, <1>4, <1>5 DEF Trees
  <1>7. Closes(c, w, r, s, "SUB")
    BY <1>1, <1>2, <1>5, <1>6 DEF Closes
  <1> HIDE DEF e
  <1>8. e \notin Broken
    BY BrokenIs DEF e
  <1>9. PICK Q, J, o : Imploded(c, w, e, d, r, b, s, Q, J, o)
    BY <1>4, <1>7, <1>8, CloseTaskIs DEF e
  <1>10. e \in Trees
    BY <1>9 DEF Imploded
  <1>11. g = SuspendCurrentState(e, t, TRUE)
    BY DEF e
  <1>12. Suspended(e, g, "SUB", c.parent[s])
    <2>1. g = [e EXCEPT !.run = @ \ {t}, !.waiting = @ \cup {t}]
      BY <1>11 DEF SuspendCurrentState
    <2>2. g \in Trees
      <3> DEFINE f == [e EXCEPT !.run = @ \ {t}, !.waiting = @ \cup {t}]
      <3>1. t \in Task
        BY <1>2
      <3>2. f \in Trees
        BY <1>10, <3>1 DEF Trees
      <3> QED
        BY <2>1, <3>2
    <2>3. /\ g.run = e.run \ {t} /\ g.waiting = e.waiting \cup {t}
          /\ g.pmode = e.pmode /\ g.parent = e.parent /\ g.ring = e.ring /\ g.caller = e.caller
          /\ g.bound = e.bound /\ g.autofree = e.autofree /\ g.mark = e.mark /\ g.catch = e.catch
          /\ g.exc = e.exc /\ g.start = e.start
      BY <2>1, <1>10 DEF Trees
    <2> QED
      BY <2>2, <2>3 DEF Suspended
  <1>13. \E nb, q, M : Inv(g, d, r, nb, q, M)
    BY <1>4, <1>7, <1>9, <1>12, ImplodedKeeps
  <1>14. Takes(c, g, b, Q)
    <2>1. Takes(c, e, b, Q)
      BY <1>9 DEF Imploded, Takes
    <2>2. g.pmode = e.pmode /\ g.parent = e.parent /\ g.ring = e.ring
      BY <1>12 DEF Suspended
    <2> QED
      BY <2>1, <2>2, TakesSame
  <1> QED
    BY <1>13, <1>14 DEF Good

(* zm_abort, and an exception that nobody catches: the running task t of    *)
(* the context has then been suspended.                                     *)
LEMMA AbortKeeps ==
    ASSUME NEW c, NEW d, NEW r, NEW b, NEW p, NEW N, Inv(c, d, r, b, p, N),
           NEW s \in Normal(c), c.parent[s] = NULL,
           NEW w,
           w = c \/ \E t \in Normal(c) : t \in c.run /\ r[t] = s /\ w = SuspendCurrentState(c, t, TRUE),
           NEW e, e = CloseTask(w, s, "ROOT")
    PROVE  \E nb, q, M, Q, J, o : Inv(e, d, r, nb, q, M) /\ Imploded(c, w, e, d, r, b, s, Q, J, o)
  <1>1. c \in Trees /\ c.run \cap c.waiting = {} /\ RootOK(c, d, r, N) /\ CallOK(c, r)
    BY DEF Inv, RunOK
  <1>2. s \in Task /\ s \in Live(c)
    BY DEF Live, Normal
  <1>3. r[s] = s /\ c.caller[s] = NULL
    BY <1>1, <1>2 DEF RootOK, CallOK
  <1>4. Closes(c, w, r, s, "ROOT")
    <2>1. CASE w = c
      BY <2>1, <1>1, <1>3 DEF Closes
    <2>2. CASE \E t \in Normal(c) : t \in c.run /\ r[t] = s /\ w = SuspendCurrentState(c, t, TRUE)
      <3>1. PICK t \in Normal(c) : t \in c.run /\ r[t] = s /\ w = SuspendCurrentState(c, t, TRUE)
        BY <2>2
      <3>2. t \in Task
        BY DEF Normal
      <3>3. /\ w \in Trees /\ w.run = c.run \ {t} /\ w.waiting = c.waiting \cup {t}
            /\ w.pmode = c.pmode /\ w.parent = c.parent /\ w.ring = c.ring /\ w.exc = c.exc
            /\ w.mark = c.mark
            /\ w.bound = c.bound /\ w.start = c.start /\ w.autofree = c.autofree
            /\ w.catch = c.catch /\ w.caller = c.caller
        BY <1>1, <3>1, <3>2 DEF Trees, SuspendCurrentState
      <3>4. w.run \cap w.waiting = {}
        BY <1>1, <3>3
      <3>5. \A u \in Task : u \notin Normal(c) \/ r[u] # r[s] => u # t
        BY <1>3, <3>1
      <3> QED
        BY <1>3, <3>3, <3>4, <3>5 DEF Closes
    <2> QED
      BY <2>1, <2>2
  <1>6. PICK Q, J, o : Imploded(c, w, e, d, r, b, s, Q, J, o)
    BY <1>4, CloseTaskIs
  <1>7. Suspended(e, e, "ROOT", c.parent[s])
    BY <1>6 DEF Suspended, Imploded
  <1>8. \E nb, q, M : Inv(e, d, r, nb, q, M)
    BY <1>4, <1>6, <1>7, ImplodedKeeps
  <1> QED
    BY <1>6, <1>8
=============================================================================
