---------------------------- MODULE NumberProofs ----------------------------
(***************************************************************************)
(* Least elements and induction over natural numbers, for sets of numbers  *)
(* instead of predicates: in this form the other proofs can use them.      *)
(***************************************************************************)
EXTENDS Integers, FiniteSetsExt, FiniteSetTheorems, WellFoundedInduction, TLAPS

\* Every nonempty set of numbers below a bound has a least element
LEMMA LeastElement ==
  ASSUME NEW n \in Nat, NEW T \in SUBSET (0 .. n), T # {}
  PROVE  \E i \in T : \A j \in T : i <= j
<1> DEFINE Upto(i) == {j \in T : j <= i}
<1> DEFINE F == {Upto(i) : i \in T}
<1>1. IsFiniteSet(T)
  <2>1. IsFiniteSet(0 .. n) BY FS_Interval
  <2> QED BY <2>1, FS_Subset
<1>2. IsWellFoundedOn(StrictSubsetOrdering(T), FiniteSubsetsOf(T))
  BY FS_StrictSubsetOrderingWellFounded
<1>3. F \subseteq FiniteSubsetsOf(T)
  <2> SUFFICES ASSUME NEW i \in T PROVE Upto(i) \in FiniteSubsetsOf(T)
    OBVIOUS
  <2> QED BY <1>1, FS_Subset DEF FiniteSubsetsOf
<1>4. F # {}
  OBVIOUS
<1> HIDE DEF F
<1>5. PICK x \in F : \A y \in F : ~ (<<y, x>> \in StrictSubsetOrdering(T))
  BY <1>2, <1>3, <1>4, WFMin
<1>6. PICK i \in T : x = Upto(i)
  BY DEF F
<1>7. ASSUME NEW j \in T, ~(i <= j) PROVE FALSE
  <2>1. Upto(j) \in F
    BY DEF F
  <2>2. <<Upto(j), Upto(i)>> \in StrictSubsetOrdering(T)
    <3>1. Upto(j) \subseteq Upto(i)
      <4> SUFFICES ASSUME NEW m \in T, m <= j PROVE m <= i
        OBVIOUS
      <4>1. m \in Nat /\ i \in Nat /\ j \in Nat
        OBVIOUS
      <4> QED BY <1>7, <4>1
    <3>2. i \in Upto(i) /\ i \notin Upto(j)
      BY <1>7
    <3>3. Upto(j) # Upto(i)
      BY <3>2
    <3> HIDE DEF Upto
    <3>4. Upto(j) \in SUBSET T /\ Upto(i) \in SUBSET T
      BY DEF Upto
    <3> QED BY <3>1, <3>3, <3>4 DEF StrictSubsetOrdering
  <2> QED BY <1>5, <1>6, <2>1, <2>2
<1> QED BY <1>7

\* A set of numbers with 0 and the successor of each of its elements has all of
\* them
LEMMA NatSets ==
  ASSUME NEW K \in SUBSET Nat, 0 \in K, \A n \in K : n + 1 \in K
  PROVE  K = Nat
<1> SUFFICES ASSUME NEW n \in Nat, n \notin K PROVE FALSE
  OBVIOUS
<1> DEFINE T == {i \in 0 .. n : i \notin K}
<1>1. PICK i \in T : \A j \in T : i <= j
  <2>1. n \in T
    OBVIOUS
  <2> HIDE DEF T
  <2>2. T \in SUBSET (0 .. n)
    BY DEF T
  <2> QED BY <2>1, <2>2, LeastElement
<1>2. i # 0 /\ i \in Nat /\ i <= n
  OBVIOUS
<1>3. i - 1 \in 0 .. n
  BY <1>2
<1>4. i - 1 \in K
  BY <1>1, <1>2, <1>3
<1>5. (i - 1) + 1 = i
  BY <1>2
<1> QED BY <1>4, <1>5

-----------------------------------------------------------------------------
(* Folds *)

\* A nonempty set of numbers below a bound has a greatest element
LEMMA MaxIn ==
  ASSUME NEW n \in Nat, NEW s \in SUBSET (1 .. n), s # {}
  PROVE  Max(s) \in s /\ \A y \in s : Max(s) >= y
<1> DEFINE T == {n - i : i \in s}
<1>1. T \in SUBSET (0 .. n) /\ T # {}
  <2>1. \A i \in s : i \in Nat /\ n - i \in 0 .. n
    OBVIOUS
  <2> QED BY <2>1
<1>2. PICK t \in T : \A j \in T : t <= j
  <2> HIDE DEF T
  <2> QED BY <1>1, LeastElement
<1>3. PICK x \in s : t = n - x
  OBVIOUS
<1>4. \A y \in s : x >= y
  <2> SUFFICES ASSUME NEW y \in s PROVE x >= y
    OBVIOUS
  <2>1. n - y \in T
    OBVIOUS
  <2>2. n - x <= n - y
    BY <1>2, <1>3, <2>1
  <2>3. x \in Nat /\ y \in Nat
    OBVIOUS
  <2> QED BY <2>2, <2>3
<1> QED BY <1>4 DEF Max

\* Without its greatest element a set is smaller
LEMMA MaxLess ==
  ASSUME NEW n \in Nat, NEW s \in SUBSET (1 .. n), s # {}
  PROVE  /\ IsFiniteSet(s) /\ Cardinality(s) \in Nat
         /\ s \ {Max(s)} \in SUBSET (1 .. n) /\ IsFiniteSet(s \ {Max(s)})
         /\ Cardinality(s \ {Max(s)}) = Cardinality(s) - 1
<1>1. IsFiniteSet(s)
  <2>1. IsFiniteSet(1 .. n) BY FS_Interval
  <2> QED BY <2>1, FS_Subset
<1>2. Max(s) \in s
  BY MaxIn
<1> QED BY <1>1, <1>2, FS_CardinalityType, FS_RemoveElement

\* The equation of the recursive function behind FoldLeft: f[s] is the fold over
\* the numbers in s, in their order, and g[i] is the step of element i
IsFold(f, n, base, g) ==
  \A s \in SUBSET (1 .. n) : f[s] = IF s = {} THEN base ELSE g[Max(s)][f[s \ {Max(s)}]]

\* The recursive function behind FoldLeft exists, for a step that is given as a
\* function g: this is what makes the CHOOSE in its definition mean something
LEMMA FoldExists ==
  ASSUME NEW n \in Nat, NEW V, NEW base \in V, NEW g \in [1 .. n -> [V -> V]]
  PROVE  \E f \in [SUBSET (1 .. n) -> V] : IsFold(f, n, base, g)
<1> DEFINE Sub(k) == {s \in SUBSET (1 .. n) : Cardinality(s) <= k}
           P(k) == \E f \in [Sub(k) -> V] :
                     \A s \in Sub(k) :
                       f[s] = IF s = {} THEN base ELSE g[Max(s)][f[s \ {Max(s)}]]
           K == {k \in Nat : P(k)}
<1>1. \A s \in SUBSET (1 .. n) : IsFiniteSet(s) /\ Cardinality(s) \in Nat /\ Cardinality(s) <= n
  <2> SUFFICES ASSUME NEW s \in SUBSET (1 .. n)
               PROVE  IsFiniteSet(s) /\ Cardinality(s) \in Nat /\ Cardinality(s) <= n
    OBVIOUS
  <2>1. IsFiniteSet(1 .. n) /\ Cardinality(1 .. n) = n
    BY FS_Interval
  <2>2. IsFiniteSet(s) /\ Cardinality(s) <= Cardinality(1 .. n)
    BY <2>1, FS_Subset
  <2> QED BY <2>1, <2>2, FS_CardinalityType
<1>2. 0 \in K
  <2>1. Sub(0) = {{}}
    <3>1. \A s \in Sub(0) : s = {}
      BY <1>1, FS_EmptySet
    <3>2. Cardinality({}) = 0
      BY FS_EmptySet
    <3> QED BY <3>1, <3>2
  <2> DEFINE f == [s \in Sub(0) |-> base]
  <2>2. f \in [Sub(0) -> V]
    OBVIOUS
  <2>3. \A s \in Sub(0) : f[s] = IF s = {} THEN base ELSE g[Max(s)][f[s \ {Max(s)}]]
    BY <2>1
  <2> HIDE DEF f
  <2>4. P(0)
    BY <2>2, <2>3
  <2> QED BY <2>4
<1>3. ASSUME NEW k \in K PROVE k + 1 \in K
  <2>1. k \in Nat /\ P(k)
    OBVIOUS
  <2>2. PICK f \in [Sub(k) -> V] :
          \A s \in Sub(k) : f[s] = IF s = {} THEN base ELSE g[Max(s)][f[s \ {Max(s)}]]
    BY <2>1
  <2> HIDE DEF K, P
  <2> DEFINE h == [s \in Sub(k + 1) |-> IF s = {} THEN base ELSE g[Max(s)][f[s \ {Max(s)}]]]
  <2>3. ASSUME NEW s \in Sub(k + 1), s # {}
        PROVE  s \ {Max(s)} \in Sub(k) /\ Max(s) \in 1 .. n
    <3>1. s \in SUBSET (1 .. n) /\ Cardinality(s) <= k + 1
      OBVIOUS
    <3>2. Max(s) \in s
      BY <2>3, <3>1, MaxIn
    <3>3. /\ s \ {Max(s)} \in SUBSET (1 .. n) /\ Cardinality(s) \in Nat
          /\ Cardinality(s \ {Max(s)}) = Cardinality(s) - 1
      BY <2>3, <3>1, MaxLess
    <3>4. Cardinality(s \ {Max(s)}) <= k
      BY <2>1, <3>1, <3>3
    <3> QED BY <3>1, <3>2, <3>3, <3>4
  <2>4. h \in [Sub(k + 1) -> V]
    <3> SUFFICES ASSUME NEW s \in Sub(k + 1)
                 PROVE  (IF s = {} THEN base ELSE g[Max(s)][f[s \ {Max(s)}]]) \in V
      OBVIOUS
    <3>1. CASE s = {}
      BY <3>1
    <3>2. CASE s # {}
      <4>1. f[s \ {Max(s)}] \in V /\ Max(s) \in 1 .. n
        BY <2>3, <3>2
      <4> QED BY <3>2, <4>1
    <3> QED BY <3>1, <3>2
  <2>5. Sub(k) \subseteq Sub(k + 1)
    BY <1>1, <2>1
  <2>6. \A t \in Sub(k) : h[t] = f[t]
    BY <2>2, <2>5
  <2>7. \A s \in Sub(k + 1) : h[s] = IF s = {} THEN base ELSE g[Max(s)][h[s \ {Max(s)}]]
    <3> SUFFICES ASSUME NEW s \in Sub(k + 1)
                 PROVE  h[s] = IF s = {} THEN base ELSE g[Max(s)][h[s \ {Max(s)}]]
      OBVIOUS
    <3>1. h[s] = IF s = {} THEN base ELSE g[Max(s)][f[s \ {Max(s)}]]
      OBVIOUS
    <3>2. s # {} => h[s \ {Max(s)}] = f[s \ {Max(s)}]
      BY <2>3, <2>6
    <3> QED BY <3>1, <3>2
  <2> HIDE DEF h, Sub
  <2>8. P(k + 1)
    BY <2>4, <2>7, Zenon DEF P
  <2> QED BY <2>1, <2>8 DEF K
<1>4. K = Nat
  <2> HIDE DEF P
  <2>1. K \in SUBSET Nat
    OBVIOUS
  <2> HIDE DEF K
  <2> QED BY <1>2, <1>3, <2>1, NatSets
<1>5. P(n)
  <2> HIDE DEF P
  <2> QED BY <1>4
<1>6. Sub(n) = SUBSET (1 .. n)
  BY <1>1
<1> QED BY <1>5, <1>6 DEF IsFold


\* A function that satisfies the equation of a fold as long as its values are in V
FoldsIn(iter, n, V, base, g) ==
  /\ iter[{}] = base
  /\ \A s \in SUBSET (1 .. n) :
       s # {} /\ iter[s \ {Max(s)}] \in V => iter[s] = g[Max(s)][iter[s \ {Max(s)}]]

\* On 1 .. k it is the value after k steps, in V
LEMMA FoldPrefix ==
  ASSUME NEW n \in Nat, NEW V, NEW base \in V, NEW g \in [1 .. n -> [V -> V]], NEW iter,
         FoldsIn(iter, n, V, base, g)
  PROVE  /\ iter[1 .. 0] = base
         /\ \A k \in 0 .. n : iter[1 .. k] \in V
         /\ \A k \in 1 .. n : iter[1 .. k] = g[k][iter[1 .. k - 1]]
<1>1. iter[1 .. 0] = base
  <2>1. 1 .. 0 = {}
    OBVIOUS
  <2> QED BY <2>1 DEF FoldsIn
<1>2. ASSUME NEW k \in 1 .. n, iter[1 .. k - 1] \in V
      PROVE  iter[1 .. k] = g[k][iter[1 .. k - 1]] /\ iter[1 .. k] \in V
  <2>1. 1 .. k \in SUBSET (1 .. n) /\ 1 .. k # {} /\ k \in Nat
    OBVIOUS
  <2>2. Max(1 .. k) \in 1 .. k /\ \A y \in 1 .. k : Max(1 .. k) >= y
    BY <2>1, MaxIn
  <2>3. Max(1 .. k) = k
    BY <2>1, <2>2
  <2>4. (1 .. k) \ {k} = 1 .. k - 1
    OBVIOUS
  <2>5. iter[1 .. k] = g[k][iter[1 .. k - 1]]
    BY <1>2, <2>1, <2>3, <2>4 DEF FoldsIn
  <2>6. g[k] \in [V -> V]
    OBVIOUS
  <2> QED BY <1>2, <2>5, <2>6
<1> DEFINE K == {k \in Nat : k <= n => iter[1 .. k] \in V}
<1>3. K = Nat
  <2>1. 0 \in K
    BY <1>1
  <2>2. ASSUME NEW k \in K PROVE k + 1 \in K
    <3>1. k \in Nat /\ (k + 1) - 1 = k
      OBVIOUS
    <3>2. CASE k + 1 <= n
      <4>1. k + 1 \in 1 .. n /\ iter[1 .. k] \in V
        BY <3>1, <3>2
      <4> QED BY <1>2, <3>1, <4>1
    <3>3. CASE ~(k + 1 <= n)
      BY <3>1, <3>3
    <3> QED BY <3>2, <3>3
  <2>3. K \in SUBSET Nat
    OBVIOUS
  <2> HIDE DEF K
  <2> QED BY <2>1, <2>2, <2>3, NatSets
<1>4. \A k \in 0 .. n : iter[1 .. k] \in V
  BY <1>3
<1>5. ASSUME NEW k \in 1 .. n PROVE iter[1 .. k] = g[k][iter[1 .. k - 1]]
  <2>1. k - 1 \in 0 .. n
    OBVIOUS
  <2> QED BY <1>2, <1>4, <2>1
<1> QED BY <1>1, <1>4, <1>5

\* The values after each number of steps, up to the end
FoldValues(end, n, V, base, g) ==
  \E h \in [0 .. n -> V] : h[0] = base /\ h[n] = end /\ \A k \in 1 .. n : h[k] = g[k][h[k - 1]]

\* A fold has them
LEMMA FoldRun ==
  ASSUME NEW n \in Nat, NEW V, NEW base \in V, NEW g \in [1 .. n -> [V -> V]], NEW iter,
         FoldsIn(iter, n, V, base, g)
  PROVE  FoldValues(iter[1 .. n], n, V, base, g)
<1>1. /\ iter[1 .. 0] = base
      /\ \A k \in 0 .. n : iter[1 .. k] \in V
      /\ \A k \in 1 .. n : iter[1 .. k] = g[k][iter[1 .. k - 1]]
  BY FoldPrefix
<1> DEFINE h == [k \in 0 .. n |-> iter[1 .. k]]
<1>2. h \in [0 .. n -> V]
  BY <1>1
<1>3. \A k \in 0 .. n : h[k] = iter[1 .. k]
  OBVIOUS
<1>4. 0 \in 0 .. n /\ n \in 0 .. n /\ \A k \in 1 .. n : k \in 0 .. n /\ k - 1 \in 0 .. n
  OBVIOUS
<1> HIDE DEF h
<1>5. h[0] = base /\ h[n] = iter[1 .. n] /\ \A k \in 1 .. n : h[k] = g[k][h[k - 1]]
  BY <1>1, <1>3, <1>4
<1> QED BY <1>2, <1>5 DEF FoldValues

=============================================================================
