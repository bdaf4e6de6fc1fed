--------------------------------- MODULE Sums ---------------------------------
(***************************************************************************)
(* Facts about the sums over finite sets that MapThenSumSet computes.      *)
(*                                                                         *)
(* Its recursion goes through the subsets of the set, always leaving out   *)
(* the element that CHOOSE picks.  That element does not depend on what is *)
(* summed up, so two sums over one set go through the same subsets and can *)
(* be compared along the way.  Induction is that of a minimal              *)
(* counterexample: WFMin, of the finite subsets under strict inclusion.    *)
(***************************************************************************)
EXTENDS Integers, FiniteSets, FiniteSetsExt, FiniteSetTheorems, WellFoundedInduction, TLAPS

\* The sum of the values of f over S.
SumOf(f, S) == MapThenSumSet(LAMBDA x : f[x], S)

Pick(T) == CHOOSE x \in T : TRUE

\* g is the recursion by which the sum is computed.
Adds(g, f, S) ==
    g = [T \in SUBSET S |-> IF T = {} THEN 0 ELSE f[Pick(T)] + g[T \ {Pick(T)}]]

\* The same, but only for the subsets in C.
AddsOn(C, g, f) ==
    \A T \in C : g[T] = IF T = {} THEN 0 ELSE f[Pick(T)] + g[T \ {Pick(T)}]

-------------------------------------------------------------------------------
(* Induction. *)

\* A set of subsets of a finite set that has with a set's strict subsets the
\* set itself has them all.
LEMMA SubsetInduction ==
    ASSUME NEW S, IsFiniteSet(S), NEW C, C \subseteq SUBSET S,
           \A T \in SUBSET S : (\A U \in SUBSET T : U # T => U \in C) => T \in C
    PROVE  C = SUBSET S
<1> DEFINE D == (SUBSET S) \ C
<1>1. SUFFICES ASSUME D # {} PROVE FALSE
  OBVIOUS
<1>2. IsWellFoundedOn(StrictSubsetOrdering(S), SUBSET S)
  BY FS_StrictSubsetOrderingWellFounded, FS_FiniteSubsetsOfFinite
<1>3. D \subseteq SUBSET S
  OBVIOUS
<1>4. PICK T \in D : \A U \in D : ~(<<U, T>> \in StrictSubsetOrdering(S))
  <2> HIDE DEF D
  <2>1. QED BY <1>1, <1>2, <1>3, WFMin
<1>5. ASSUME NEW U \in SUBSET T, U # T
      PROVE  U \in C
  <2>1. <<U, T>> \in StrictSubsetOrdering(S)
    BY <1>4, <1>5 DEF StrictSubsetOrdering
  <2>2. QED BY <1>4, <1>5, <2>1
<1>6. QED BY <1>4, <1>5

\* The element picked is one of the set's.
LEMMA PickIsOne ==
    ASSUME NEW T, T # {}
    PROVE  Pick(T) \in T
BY DEF Pick

-------------------------------------------------------------------------------
(* The recursion defines a sum. *)

\* A recursion that holds for all subsets with fewer than n elements can be
\* carried on to those with n.
LEMMA AddsMore ==
    ASSUME NEW S, IsFiniteSet(S), NEW f \in [S -> Int], NEW n \in Nat,
           NEW g \in [SUBSET S -> Int],
           AddsOn({T \in SUBSET S : Cardinality(T) < n}, g, f)
    PROVE  \E h \in [SUBSET S -> Int] :
               AddsOn({T \in SUBSET S : Cardinality(T) < n + 1}, h, f)
<1> DEFINE h == [T \in SUBSET S |->
                   IF T = {} THEN 0
                   ELSE IF Cardinality(T) < n THEN g[T]
                   ELSE f[Pick(T)] + g[T \ {Pick(T)}]]
<1>1. h \in [SUBSET S -> Int]
  BY PickIsOne
<1>2. ASSUME NEW T \in SUBSET S, Cardinality(T) < n + 1
      PROVE  h[T] = IF T = {} THEN 0 ELSE f[Pick(T)] + h[T \ {Pick(T)}]
  <2>1. CASE T = {}
    BY <2>1
  <2>2. CASE T # {}
    <3> DEFINE R == T \ {Pick(T)}
    <3>1. Pick(T) \in T /\ R \in SUBSET S
      BY <2>2, PickIsOne
    <3>2. IsFiniteSet(T) /\ Cardinality(T) \in Nat /\ Cardinality(R) = Cardinality(T) - 1
      BY <3>1, FS_Subset, FS_RemoveElement, FS_CardinalityType
    <3>3. Cardinality(R) < n
      BY <1>2, <3>2
    <3>4. h[R] = g[R]
      <4>1. CASE R = {}
        BY <4>1, <3>1, <3>3 DEF AddsOn
      <4>2. CASE R # {}
        BY <4>2, <3>1, <3>3
      <4>3. QED BY <4>1, <4>2
    <3>5. h[T] = f[Pick(T)] + g[R]
      <4>1. CASE Cardinality(T) < n
        BY <4>1, <2>2 DEF AddsOn
      <4>2. CASE ~(Cardinality(T) < n)
        BY <4>2, <2>2
      <4>3. QED BY <4>1, <4>2
    <3>6. QED BY <2>2, <3>4, <3>5
  <2>3. QED BY <2>1, <2>2
<1>3. AddsOn({T \in SUBSET S : Cardinality(T) < n + 1}, h, f)
  <2> HIDE DEF h
  <2>1. QED BY <1>2 DEF AddsOn
<1>4. QED BY <1>1, <1>3

\* There is a recursion for every finite set, and its values are integers.
LEMMA AddsExists ==
    ASSUME NEW S, IsFiniteSet(S), NEW f \in [S -> Int]
    PROVE  \E g \in [SUBSET S -> Int] : Adds(g, f, S)
<1> DEFINE Below(n) == {T \in SUBSET S : Cardinality(T) < n}
           Bad == {n \in Nat : ~ \E g \in [SUBSET S -> Int] : AddsOn(Below(n), g, f)}
<1>1. Bad = {}
  <2>1. SUFFICES ASSUME Bad # {} PROVE FALSE
    OBVIOUS
  <2>2. PICK n \in Bad : \A m \in Bad : <<m, n>> \notin OpToRel(<, Nat)
    <3>1. Bad \subseteq Nat
      OBVIOUS
    <3>2. QED BY <2>1, <3>1, NatLessThanWellFounded, WFMin
  <2>3. \A m \in Bad : ~(m < n)
    BY <2>2 DEF OpToRel
  <2>4. n # 0
    <3>1. Below(0) = {}
      BY FS_Subset, FS_CardinalityType
    <3>2. [T \in SUBSET S |-> 0] \in [SUBSET S -> Int]
      OBVIOUS
    <3>3. AddsOn(Below(0), [T \in SUBSET S |-> 0], f)
      BY <3>1 DEF AddsOn
    <3>4. 0 \notin Bad
      BY <3>2, <3>3
    <3>5. QED BY <3>4
  <2>5. n - 1 \in Nat /\ n - 1 \notin Bad
    <3>1. n \in Nat
      OBVIOUS
    <3> HIDE DEF Bad
    <3>2. QED BY <2>3, <2>4, <3>1
  <2>6. PICK g \in [SUBSET S -> Int] : AddsOn(Below(n - 1), g, f)
    BY <2>5
  <2>7. \E h \in [SUBSET S -> Int] : AddsOn(Below((n - 1) + 1), h, f)
    BY <2>5, <2>6, AddsMore
  <2>8. (n - 1) + 1 = n
    BY <2>5
  <2>9. QED BY <2>2, <2>7, <2>8
<1>2. Cardinality(S) \in Nat
  BY FS_CardinalityType
<1>3. PICK g \in [SUBSET S -> Int] : AddsOn(Below(Cardinality(S) + 1), g, f)
  <2>1. Cardinality(S) + 1 \in Nat
    BY <1>2
  <2>2. QED BY <1>1, <2>1
<1>4. \A T \in SUBSET S : T \in Below(Cardinality(S) + 1)
  BY <1>2, FS_Subset, FS_CardinalityType
<1>5. \A T \in SUBSET S : g[T] = IF T = {} THEN 0 ELSE f[Pick(T)] + g[T \ {Pick(T)}]
  <2> HIDE DEF Below
  <2>1. QED BY <1>3, <1>4 DEF AddsOn
<1>6. Adds(g, f, S)
  BY <1>5 DEF Adds
<1>7. QED BY <1>6

\* What the recursion says of one subset.
LEMMA AddsAt ==
    ASSUME NEW S, NEW f, NEW g, Adds(g, f, S), NEW T \in SUBSET S
    PROVE  g[T] = IF T = {} THEN 0 ELSE f[Pick(T)] + g[T \ {Pick(T)}]
BY DEF Adds

\* Two recursions for one function agree.
LEMMA AddsUnique ==
    ASSUME NEW S, IsFiniteSet(S), NEW f, NEW g, NEW h, Adds(g, f, S), Adds(h, f, S)
    PROVE  g[S] = h[S]
<1> DEFINE C == {T \in SUBSET S : g[T] = h[T]}
<1>1. ASSUME NEW T \in SUBSET S, \A U \in SUBSET T : U # T => U \in C
      PROVE  T \in C
  <2>1. CASE T = {}
    BY <2>1, AddsAt
  <2>2. CASE T # {}
    <3>1. T \ {Pick(T)} \in C
      BY <1>1, <2>2, PickIsOne
    <3>2. g[T \ {Pick(T)}] = h[T \ {Pick(T)}]
      BY <3>1
    <3>3. g[T] = f[Pick(T)] + g[T \ {Pick(T)}] /\ h[T] = f[Pick(T)] + h[T \ {Pick(T)}]
      BY <2>2, AddsAt
    <3>4. QED BY <3>2, <3>3
  <2>3. QED BY <2>1, <2>2
<1>2. C = SUBSET S
  <2>1. C \subseteq SUBSET S
    OBVIOUS
  <2> HIDE DEF C
  <2>2. QED BY <1>1, <2>1, SubsetInduction
<1>3. QED BY <1>2

\* The sum is what the recursion comes to.
LEMMA SumByRecursion ==
    ASSUME NEW S, IsFiniteSet(S), NEW f \in [S -> Int]
    PROVE  \E g \in [SUBSET S -> Int] : Adds(g, f, S) /\ SumOf(f, S) = g[S]
<1>1. SumOf(f, S) = (CHOOSE g : Adds(g, f, S))[S]
  BY DEF SumOf, MapThenSumSet, MapThenFoldSet, Adds, Pick
<1>2. PICK g \in [SUBSET S -> Int] : Adds(g, f, S)
  BY AddsExists
<1>3. Adds(CHOOSE h : Adds(h, f, S), f, S)
  BY <1>2
<1>4. SumOf(f, S) = g[S]
  BY <1>1, <1>2, <1>3, AddsUnique
<1>5. QED BY <1>2, <1>4

-------------------------------------------------------------------------------
(* What the invariants need of sums. *)

LEMMA SumIsInt ==
    ASSUME NEW S, IsFiniteSet(S), NEW f \in [S -> Int]
    PROVE  SumOf(f, S) \in Int
<1>1. PICK g \in [SUBSET S -> Int] : Adds(g, f, S) /\ SumOf(f, S) = g[S]
  BY SumByRecursion
<1>2. QED BY <1>1

\* A sum of zeros is zero.
LEMMA SumOfZeros ==
    ASSUME NEW S, IsFiniteSet(S), NEW f \in [S -> Int], \A x \in S : f[x] = 0
    PROVE  SumOf(f, S) = 0
<1>1. PICK g \in [SUBSET S -> Int] : Adds(g, f, S) /\ SumOf(f, S) = g[S]
  BY SumByRecursion
<1> DEFINE C == {T \in SUBSET S : g[T] = 0}
<1>2. ASSUME NEW T \in SUBSET S, \A U \in SUBSET T : U # T => U \in C
      PROVE  T \in C
  <2>1. CASE T = {}
    BY <1>1, <2>1, AddsAt
  <2>2. CASE T # {}
    <3>1. T \ {Pick(T)} \in C /\ f[Pick(T)] = 0
      BY <1>2, <2>2, PickIsOne
    <3>2. g[T] = f[Pick(T)] + g[T \ {Pick(T)}]
      BY <1>1, <2>2, AddsAt
    <3>3. QED BY <3>1, <3>2
  <2>3. QED BY <2>1, <2>2
<1>3. C = SUBSET S
  <2>1. C \subseteq SUBSET S
    OBVIOUS
  <2> HIDE DEF C
  <2>2. QED BY <1>2, <2>1, SubsetInduction
<1>4. QED BY <1>1, <1>3

\* When one value changes, the sum changes as much.
LEMMA SumOfChanged ==
    ASSUME NEW S, IsFiniteSet(S), NEW f \in [S -> Int], NEW h \in [S -> Int],
           NEW p \in S, \A x \in S : x # p => h[x] = f[x]
    PROVE  SumOf(h, S) = SumOf(f, S) + h[p] - f[p]
<1>1. PICK g \in [SUBSET S -> Int] : Adds(g, f, S) /\ SumOf(f, S) = g[S]
  BY SumByRecursion
<1>2. PICK k \in [SUBSET S -> Int] : Adds(k, h, S) /\ SumOf(h, S) = k[S]
  BY SumByRecursion
<1> DEFINE C == {T \in SUBSET S : k[T] = g[T] + IF p \in T THEN h[p] - f[p] ELSE 0}
<1>3. ASSUME NEW T \in SUBSET S, \A U \in SUBSET T : U # T => U \in C
      PROVE  T \in C
  <2>1. CASE T = {}
    <3>1. g[T] = 0 /\ k[T] = 0
      BY <1>1, <1>2, <2>1, AddsAt
    <3>2. QED BY <2>1, <3>1
  <2>2. CASE T # {}
    <3> DEFINE x == Pick(T)
               R == T \ {x}
    <3>1. x \in T /\ R \in C /\ R \in SUBSET S
      BY <1>3, <2>2, PickIsOne
    <3>2. g[T] = f[x] + g[R] /\ k[T] = h[x] + k[R]
      BY <1>1, <1>2, <2>2, AddsAt
    <3>3. k[R] = g[R] + IF p \in R THEN h[p] - f[p] ELSE 0
      BY <3>1
    <3>4. g[R] \in Int /\ f[x] \in Int /\ h[x] \in Int /\ h[p] \in Int /\ f[p] \in Int
      BY <3>1
    <3> HIDE DEF x
    <3>5. CASE x = p
      BY <3>1, <3>2, <3>3, <3>4, <3>5
    <3>6. CASE x # p
      <4>1. h[x] = f[x] /\ (p \in R <=> p \in T)
        BY <3>1, <3>6
      <4>2. QED BY <3>2, <3>3, <3>4, <4>1
    <3>7. QED BY <3>5, <3>6
  <2>3. QED BY <2>1, <2>2
<1>4. C = SUBSET S
  <2>1. C \subseteq SUBSET S
    OBVIOUS
  <2> HIDE DEF C
  <2>2. QED BY <1>3, <2>1, SubsetInduction
<1>5. S \in C
  BY <1>4
<1>6. g[S] \in Int /\ h[p] \in Int /\ f[p] \in Int
  OBVIOUS
<1>7. QED BY <1>1, <1>2, <1>5, <1>6

===============================================================================
