---------------------------- MODULE NumberLemmas ----------------------------
(* Facts about the natural numbers that the proofs of several components use. *)
EXTENDS Integers, FiniteSets, FiniteSetTheorems, WellFoundedInduction, TLAPS

\* A set of natural numbers that is not empty has a least element.
LEMMA LeastNumber ==
  ASSUME NEW S, S \subseteq Nat, S # {}
  PROVE  \E n \in S : \A x \in S : n <= x
<1>. DEFINE T == {0..k : k \in S}
            R == StrictSubsetOrdering(Nat)
            F == FiniteSubsetsOf(Nat)
<1>1. IsWellFoundedOn(R, F)
  BY FS_StrictSubsetOrderingWellFounded
<1>2. \A k \in S : 0..k \in F
  <2>1. \A k \in S : IsFiniteSet(0..k)
    BY FS_Interval
  <2>. QED
    BY <2>1 DEF FiniteSubsetsOf
<1>3. PICK m \in T : \A y \in T : ~ (<<y, m>> \in R)
  <2>1. T \subseteq F /\ T # {}
    BY <1>2, Zenon
  <2>. HIDE DEF T, R, F
  <2>. QED BY <1>1, <2>1, WFMin
<1>4. PICK k \in S : m = 0..k
  OBVIOUS
<1>5. \A x \in S : k <= x
  <2>. SUFFICES ASSUME NEW x \in S, x < k PROVE FALSE
    OBVIOUS
  <2>1. <<0..x, 0..k>> \in R
    BY DEF StrictSubsetOrdering
  <2>. QED
    BY <1>3, <1>4, <2>1
<1>. QED
  BY <1>5

\* Induction, for a set: one that holds 0 and the successor of each of its members holds
\* every natural number.
LEMMA SetInduction ==
  ASSUME NEW S, 0 \in S, \A n \in Nat : n \in S => n + 1 \in S
  PROVE  Nat \subseteq S
<1>. SUFFICES ASSUME Nat \ S # {} PROVE FALSE
  OBVIOUS
<1>1. PICK n \in Nat \ S : \A x \in Nat \ S : n <= x
  BY LeastNumber
<1>2. n - 1 \in Nat /\ n - 1 \notin Nat \ S
  BY <1>1
<1>. QED
  BY <1>1, <1>2

\* A finite set of integers that is not empty has a greatest element.
LEMMA GreatestNumber ==
  ASSUME NEW S, IsFiniteSet(S), S \subseteq Int, S # {}
  PROVE  \E n \in S : \A x \in S : x <= n
<1>. DEFINE Max(U) == \E n \in U : \A x \in U : x <= n
            T == {n \in Nat : \A U \in SUBSET S : Cardinality(U) = n + 1 => Max(U)}
<1>1. 0 \in T
  <2>1. ASSUME NEW U \in SUBSET S, Cardinality(U) = 1 PROVE Max(U)
    <3>1. IsFiniteSet(U)
      BY FS_Subset
    <3>2. PICK x : U = {x}
      BY <2>1, <3>1, FS_Singleton
    <3>. QED
      BY <3>2
  <2>. HIDE DEF Max
  <2>. QED
    BY <2>1
<1>2. ASSUME NEW n \in Nat, n \in T PROVE n + 1 \in T
  <2>1. ASSUME NEW U \in SUBSET S, Cardinality(U) = n + 2 PROVE Max(U)
    <3>1. IsFiniteSet(U)
      BY FS_Subset
    <3>2. PICK u : u \in U
      <4>1. n + 2 # 0
        OBVIOUS
      <4>. QED
        BY <2>1, <4>1, FS_EmptySet, Zenon
    <3>3. Cardinality(U \ {u}) = n + 1
      <4>1. Cardinality(U \ {u}) = Cardinality(U) - 1
        BY <3>1, <3>2, FS_RemoveElement
      <4>. QED
        BY <2>1, <4>1
    <3>4. Max(U \ {u})
      BY <1>2, <3>3
    <3>5. PICK m \in U \ {u} : \A x \in U \ {u} : x <= m
      BY <3>4
    <3>6. CASE u <= m
      BY <3>2, <3>5, <3>6
    <3>7. CASE m <= u
      BY <3>2, <3>5, <3>7
    <3>. QED
      BY <3>2, <3>5, <3>6, <3>7
  <2>. HIDE DEF Max
  <2>2. \A U \in SUBSET S : Cardinality(U) = (n + 1) + 1 => Max(U)
    BY <2>1
  <2>. QED
    BY <2>2
<1>3. Nat \subseteq T
  <2>. HIDE DEF T
  <2>. QED
    BY <1>1, <1>2, SetInduction
<1>4. Cardinality(S) - 1 \in Nat /\ Cardinality(S) \in Nat
  BY FS_CardinalityType, FS_EmptySet
<1>5. Max(S)
  <2>. HIDE DEF Max
  <2>1. Cardinality(S) - 1 \in T
    BY <1>3, <1>4
  <2>2. Cardinality(S) = (Cardinality(S) - 1) + 1
    BY <1>4
  <2>. QED
    BY <2>1, <2>2
<1>. QED
  BY <1>5

\* A finite set of integers that is not empty has a least element.
LEMMA LeastInteger ==
  ASSUME NEW S, IsFiniteSet(S), S \subseteq Int, S # {}
  PROVE  \E n \in S : \A x \in S : n <= x
<1>. DEFINE T == {0 - x : x \in S}
            f == [x \in S |-> 0 - x]
<1>1. f \in Surjection(S, T)
  BY DEF Surjection
<1>2. T \subseteq Int /\ T # {}
  <2>1. PICK x \in S : TRUE
    OBVIOUS
  <2>2. 0 - x \in T
    BY <2>1
  <2>3. \A z \in S : 0 - z \in Int
    OBVIOUS
  <2>4. T \subseteq Int
    BY <2>3, Zenon
  <2>. QED
    BY <2>2, <2>4, Zenon
<1>. HIDE DEF f
<1>3. IsFiniteSet(T)
  <2>. HIDE DEF T
  <2>. QED
    BY <1>1, FS_Surjection
<1>4. PICK m \in T : \A y \in T : y <= m
  <2>. HIDE DEF T
  <2>. QED
    BY <1>2, <1>3, GreatestNumber
<1>5. PICK n \in S : m = 0 - n
  OBVIOUS
<1>6. \A x \in S : n <= x
  BY <1>4, <1>5
<1>. QED
  BY <1>6

\* The sums of the values of f over the subsets of a set, as a fold adds them up.
Folded(g, D, f) == [T \in SUBSET D |-> IF T = {} THEN 0 ELSE f[CHOOSE x \in T : TRUE] + g[T \ {CHOOSE x \in T : TRUE}]]

\* There are such sums,
LEMMA SumsExist ==
  ASSUME NEW D, IsFiniteSet(D), NEW f
  PROVE  \E g : g = Folded(g, D, f)
<1>. DEFINE Body(g, T) == IF T = {} THEN 0 ELSE f[CHOOSE x \in T : TRUE] + g[T \ {CHOOSE x \in T : TRUE}]
            UpTo(g, n) == \A T \in SUBSET D : Cardinality(T) <= n => g[T] = Body(g, T)
            S == {n \in Nat : \E g : g = [T \in SUBSET D |-> g[T]] /\ UpTo(g, n)}
<1>0. \A T \in SUBSET D : IsFiniteSet(T) /\ Cardinality(T) \in Nat /\ (Cardinality(T) = 0 <=> T = {})
  BY FS_Subset, FS_CardinalityType, FS_EmptySet
<1>00. \A T \in SUBSET D : T # {} => /\ T \ {CHOOSE x \in T : TRUE} \in SUBSET D
                                    /\ Cardinality(T \ {CHOOSE x \in T : TRUE}) = Cardinality(T) - 1
  <2>. SUFFICES ASSUME NEW T \in SUBSET D, T # {}
                PROVE  /\ T \ {CHOOSE x \in T : TRUE} \in SUBSET D
                       /\ Cardinality(T \ {CHOOSE x \in T : TRUE}) = Cardinality(T) - 1
    OBVIOUS
  <2>. DEFINE x == CHOOSE x \in T : TRUE
  <2>1. x \in T
    OBVIOUS
  <2>. HIDE DEF x
  <2>2. Cardinality(T \ {x}) = Cardinality(T) - 1
    BY <1>0, <2>1, FS_RemoveElement
  <2>. QED
    BY <2>2 DEF x
<1>1. 0 \in S
  <2>. DEFINE g == [T \in SUBSET D |-> 0]
  <2>1. g = [T \in SUBSET D |-> g[T]]
    OBVIOUS
  <2>2. UpTo(g, 0)
    BY <1>0
  <2>. HIDE DEF g, UpTo
  <2>. QED
    BY <2>1, <2>2
<1>2. ASSUME NEW n \in Nat, n \in S PROVE n + 1 \in S
  <2>1. PICK g : g = [T \in SUBSET D |-> g[T]] /\ UpTo(g, n)
    BY <1>2
  <2>. DEFINE h == [T \in SUBSET D |-> IF Cardinality(T) <= n THEN g[T] ELSE Body(g, T)]
  <2>2. \A T \in SUBSET D : Cardinality(T) <= n => h[T] = g[T]
    OBVIOUS
  <2>3. \A T \in SUBSET D : h[T] = Body(g, T) \/ Cardinality(T) > n + 1
    <3>1. \A T \in SUBSET D : h[T] = IF Cardinality(T) <= n THEN g[T] ELSE Body(g, T)
      BY Zenon
    <3>. HIDE DEF h, Body
    <3>. QED
      BY <2>1, <3>1
  <2>4. h = [T \in SUBSET D |-> h[T]]
    <3>. HIDE DEF Body
    <3>. QED
      OBVIOUS
  <2>. HIDE DEF h
  <2>5. ASSUME NEW T \in SUBSET D, Cardinality(T) <= n + 1 PROVE h[T] = Body(h, T)
    <3>1. CASE T = {}
      <4>1. h[T] = Body(g, T)
        BY <1>0, <2>3, <2>5
      <4>. QED
        BY <3>1, <4>1
    <3>2. CASE T # {}
      <4>. DEFINE U == T \ {CHOOSE x \in T : TRUE}
      <4>1. U \in SUBSET D /\ Cardinality(U) <= n
        BY <1>0, <1>00, <2>5, <3>2
      <4>. HIDE DEF U
      <4>2. h[U] = g[U]
        BY <2>2, <4>1
      <4>3. h[T] = Body(g, T)
        BY <1>0, <2>3, <2>5
      <4>. QED
        BY <3>2, <4>2, <4>3 DEF U
    <3>. QED
      BY <3>1, <3>2
  <2>. HIDE DEF Body
  <2>6. UpTo(h, n + 1)
    BY <2>5
  <2>. HIDE DEF UpTo
  <2>. QED
    BY <2>4, <2>6
<1>3. Cardinality(D) \in S
  <2>1. Nat \subseteq S
    <3>. HIDE DEF S
    <3>. QED
      BY <1>1, <1>2, SetInduction
  <2>. HIDE DEF S
  <2>. QED
    BY <1>0, <2>1
<1>4. PICK g : g = [T \in SUBSET D |-> g[T]] /\ UpTo(g, Cardinality(D))
  BY <1>3
<1>5. \A T \in SUBSET D : g[T] = Body(g, T)
  <2>1. \A T \in SUBSET D : Cardinality(T) <= Cardinality(D)
    BY FS_Subset
  <2>. QED
    BY <1>4, <2>1
<1>6. g = [T \in SUBSET D |-> Body(g, T)]
  <2>. HIDE DEF Body
  <2>. QED
    BY <1>4, <1>5
<1>7. g = Folded(g, D, f)
  BY <1>6, Zenon DEF Folded
<1>. QED
  BY <1>7

\* and of integers they are integers.
LEMMA SumsAreIntegers ==
  ASSUME NEW D, IsFiniteSet(D), NEW f, \A x \in D : f[x] \in Int, NEW g, g = Folded(g, D, f)
  PROVE  g[D] \in Int
<1>. DEFINE S == {n \in Nat : \A T \in SUBSET D : Cardinality(T) = n => g[T] \in Int}
<1>0. \A T \in SUBSET D : IsFiniteSet(T) /\ Cardinality(T) \in Nat /\ (Cardinality(T) = 0 <=> T = {})
  BY FS_Subset, FS_CardinalityType, FS_EmptySet
<1>1. \A T \in SUBSET D : g[T] = IF T = {} THEN 0 ELSE f[CHOOSE x \in T : TRUE] + g[T \ {CHOOSE x \in T : TRUE}]
  BY DEF Folded
<1>2. 0 \in S
  <2>1. \A T \in SUBSET D : Cardinality(T) = 0 => g[T] = 0
    BY <1>0, <1>1
  <2>. QED
    BY <2>1
<1>3. ASSUME NEW n \in Nat, n \in S PROVE n + 1 \in S
  <2>. SUFFICES ASSUME NEW T \in SUBSET D, Cardinality(T) = n + 1 PROVE g[T] \in Int
    OBVIOUS
  <2>. DEFINE x == CHOOSE x \in T : TRUE
  <2>1. T # {} /\ x \in T
    BY <1>0
  <2>2. g[T] = f[x] + g[T \ {x}]
    BY <1>1, <2>1, Zenon
  <2>. HIDE DEF x
  <2>3. Cardinality(T \ {x}) = n
    <3>1. Cardinality(T \ {x}) = Cardinality(T) - 1
      BY <1>0, <2>1, FS_RemoveElement
    <3>. QED
      BY <3>1
  <2>4. g[T \ {x}] \in Int /\ f[x] \in Int
    BY <1>3, <2>1, <2>3
  <2>. QED
    BY <2>2, <2>4
<1>4. Cardinality(D) \in S
  <2>. HIDE DEF S
  <2>. QED
    BY <1>0, <1>2, <1>3, SetInduction
<1>. QED
  BY <1>4
=============================================================================
