------------------------------ MODULE SumLemmas ------------------------------
(***************************************************************************)
(* Sums of a function over a finite set: MapThenSumSet and what changes it.*)
(* Induction is over sets of numbers, as a minimal counterexample.         *)
(***************************************************************************)
EXTENDS Integers, FiniteSets, FiniteSetsExt, FiniteSetTheorems, WellFoundedInduction, TLAPS

Total(f, S) == MapThenSumSet(LAMBDA x : f[x], S)

-----------------------------------------------------------------------------
\* A set of numbers that has 0 and is closed under successor has all of them.
LEMMA NumbersByInduction ==
  ASSUME NEW A, 0 \in A, \A n \in Nat : n \in A => n + 1 \in A
  PROVE  Nat \subseteq A
<1> SUFFICES ASSUME Nat \ A # {} PROVE FALSE
  OBVIOUS
<1>1. IsWellFoundedOn(OpToRel(<, Nat), Nat)
  BY NatLessThanWellFounded
<1>2. PICK x \in Nat \ A : \A y \in Nat \ A : ~(<<y, x>> \in OpToRel(<, Nat))
  BY <1>1, WFMin
<1>3. x # 0 /\ x - 1 \in Nat
  OBVIOUS
<1>4. <<x - 1, x>> \in OpToRel(<, Nat)
  BY <1>3 DEF OpToRel
<1>5. x - 1 \in A
  BY <1>2, <1>3, <1>4
<1> QED
  BY <1>3, <1>5

-----------------------------------------------------------------------------
(* The fold behind a sum is a recursive function on the subsets.           *)

Some(s) == CHOOSE x \in s : TRUE
Rest(s) == s \ {Some(s)}
Summer(g, f, S) == g = [s \in SUBSET S |-> IF s = {} THEN 0 ELSE f[Some(s)] + g[Rest(s)]]

LEMMA SomeRest ==
  ASSUME NEW s, IsFiniteSet(s), s # {}
  PROVE  /\ Some(s) \in s
         /\ IsFiniteSet(Rest(s))
         /\ Cardinality(s) \in Nat /\ Cardinality(Rest(s)) = Cardinality(s) - 1
<1>1. Some(s) \in s
  BY DEF Some
<1> QED
  BY <1>1, FS_RemoveElement, FS_CardinalityType DEF Rest

LEMMA SummerExists ==
  ASSUME NEW f, NEW S, IsFiniteSet(S)
  PROVE  \E g : Summer(g, f, S)
<1> DEFINE Upto(g, n) ==
             \A s \in SUBSET S : Cardinality(s) <= n =>
               g[s] = IF s = {} THEN 0 ELSE f[Some(s)] + g[Rest(s)]
           A == {n \in Nat : \E g : Upto(g, n)}
<1>1. \A s \in SUBSET S : IsFiniteSet(s) /\ Cardinality(s) \in Nat /\ Cardinality(s) <= Cardinality(S)
  BY FS_Subset, FS_CardinalityType
<1>2. 0 \in A
  <2>1. Upto([s \in SUBSET S |-> 0], 0)
    BY <1>1, FS_EmptySet
  <2> HIDE DEF Upto
  <2> QED
    BY <2>1
<1>3. ASSUME NEW n \in Nat, n \in A
      PROVE  n + 1 \in A
  <2>1. PICK g : Upto(g, n)
    BY <1>3
  <2> DEFINE h == [s \in SUBSET S |->
                    IF Cardinality(s) <= n THEN g[s]
                    ELSE f[Some(s)] + g[Rest(s)]]
  <2>2. ASSUME NEW s \in SUBSET S, Cardinality(s) <= n + 1
        PROVE  h[s] = IF s = {} THEN 0 ELSE f[Some(s)] + h[Rest(s)]
    <3>1. CASE s = {}
      <4>1. Cardinality(s) = 0
        BY <3>1, FS_EmptySet
      <4>2. h[s] = g[s] /\ g[s] = 0
        BY <2>1, <3>1, <4>1
      <4> QED
        BY <3>1, <4>2
    <3>2. CASE s # {}
      <4>1. Rest(s) \in SUBSET S /\ Cardinality(Rest(s)) = Cardinality(s) - 1 /\ Cardinality(s) \in Nat
        BY <1>1, <3>2, SomeRest DEF Rest
      <4>2. h[Rest(s)] = g[Rest(s)]
        BY <2>2, <4>1
      <4>3. CASE Cardinality(s) <= n
        <5>1. h[s] = g[s] /\ g[s] = f[Some(s)] + g[Rest(s)]
          BY <2>1, <3>2, <4>3
        <5> QED
          BY <3>2, <4>2, <5>1
      <4>4. CASE ~(Cardinality(s) <= n)
        <5>1. h[s] = f[Some(s)] + g[Rest(s)]
          BY <4>4
        <5> QED
          BY <3>2, <4>2, <5>1
      <4> QED
        BY <4>3, <4>4
    <3> QED
      BY <3>1, <3>2
  <2>3. Upto(h, n + 1)
    BY <2>2
  <2> HIDE DEF Upto, h
  <2> QED
    BY <2>3
<1>4. Cardinality(S) \in A
  <2> HIDE DEF A
  <2> QED
    BY <1>1, <1>2, <1>3, NumbersByInduction
<1>5. PICK g : Upto(g, Cardinality(S))
  BY <1>4
<1> DEFINE h == [s \in SUBSET S |-> g[s]]
<1>6. ASSUME NEW s \in SUBSET S
      PROVE  h[s] = IF s = {} THEN 0 ELSE f[Some(s)] + h[Rest(s)]
  <2>1. Rest(s) \in SUBSET S
    BY DEF Rest
  <2> QED
    BY <1>1, <1>5, <2>1
<1>7. Summer(h, f, S)
  BY <1>6 DEF Summer
<1> QED
  BY <1>7

\* The fold picks such a function.
LEMMA TotalByFold ==
  ASSUME NEW f, NEW S, IsFiniteSet(S)
  PROVE  \E h : Summer(h, f, S) /\ Total(f, S) = h[S]
<1> DEFINE h == CHOOSE iter : iter = [s \in SUBSET S |->
                   IF s = {} THEN 0 ELSE f[Some(s)] + iter[Rest(s)]]
<1>1. Summer(h, f, S)
  BY SummerExists, SMTT(20) DEF Summer
<1>2. Total(f, S) = h[S]
  BY DEF Total, MapThenSumSet, MapThenFoldSet, Some, Rest
<1> QED
  BY <1>1, <1>2

\* Two such functions agree where both are defined.
LEMMA SummersAgree ==
  ASSUME NEW f, NEW S, NEW T, IsFiniteSet(S), T \subseteq S, NEW g, NEW h,
         Summer(g, f, S), Summer(h, f, T)
  PROVE  g[T] = h[T]
<1> DEFINE A == {n \in Nat : \A t \in SUBSET T : Cardinality(t) <= n => g[t] = h[t]}
<1>1. \A t \in SUBSET T : IsFiniteSet(t) /\ Cardinality(t) \in Nat
  BY FS_Subset, FS_CardinalityType
<1>2. \A t \in SUBSET T :
        /\ g[t] = IF t = {} THEN 0 ELSE f[Some(t)] + g[Rest(t)]
        /\ h[t] = IF t = {} THEN 0 ELSE f[Some(t)] + h[Rest(t)]
  BY DEF Summer
<1>3. 0 \in A
  <2>1. \A t \in SUBSET T : Cardinality(t) <= 0 => t = {}
    BY <1>1, FS_EmptySet
  <2>2. g[{}] = h[{}]
    BY <1>2
  <2> QED
    BY <2>1, <2>2
<1>4. ASSUME NEW n \in Nat, n \in A
      PROVE  n + 1 \in A
  <2>1. ASSUME NEW t \in SUBSET T, Cardinality(t) <= n + 1
        PROVE  g[t] = h[t]
    <3>1. CASE t = {}
      BY <1>2, <3>1
    <3>2. CASE t # {}
      <4>1. Rest(t) \in SUBSET T /\ Cardinality(Rest(t)) <= n
        BY <1>1, <2>1, <3>2, SomeRest DEF Rest
      <4>2. g[Rest(t)] = h[Rest(t)]
        BY <1>4, <4>1
      <4> QED
        BY <1>2, <3>2, <4>2
    <3> QED
      BY <3>1, <3>2
  <2> QED
    BY <2>1
<1>5. Cardinality(T) \in A
  <2>1. Cardinality(T) \in Nat
    BY <1>1
  <2> HIDE DEF A
  <2> QED
    BY <1>3, <1>4, <2>1, NumbersByInduction
<1> QED
  BY <1>1, <1>5

-----------------------------------------------------------------------------
(* What a sum is.                                                          *)

LEMMA TotalEmpty ==
  ASSUME NEW f
  PROVE  Total(f, {}) = 0
<1>1. PICK h : Summer(h, f, {}) /\ Total(f, {}) = h[{}]
  BY TotalByFold, FS_EmptySet
<1> QED
  BY <1>1 DEF Summer

LEMMA TotalUnfolds ==
  ASSUME NEW f, NEW S, IsFiniteSet(S), S # {}
  PROVE  Total(f, S) = f[Some(S)] + Total(f, Rest(S))
<1>1. PICK h : Summer(h, f, S) /\ Total(f, S) = h[S]
  BY TotalByFold
<1>2. PICK r : r = Rest(S) /\ r \subseteq S /\ IsFiniteSet(r)
  BY SomeRest DEF Rest
<1>3. PICK k : Summer(k, f, r) /\ Total(f, r) = k[r]
  BY <1>2, TotalByFold
<1>4. h[S] = f[Some(S)] + h[r]
  BY <1>1, <1>2 DEF Summer
<1>5. h[r] = k[r]
  BY <1>1, <1>2, <1>3, SummersAgree
<1> QED
  BY <1>1, <1>2, <1>3, <1>4, <1>5

\* Functions that agree on a set have the same sum over it.
LEMMA TotalExtends ==
  ASSUME NEW f, NEW g, NEW S, IsFiniteSet(S), \A x \in S : f[x] = g[x]
  PROVE  Total(f, S) = Total(g, S)
<1> DEFINE A == {n \in Nat : \A s \in SUBSET S : Cardinality(s) <= n => Total(f, s) = Total(g, s)}
<1>1. \A s \in SUBSET S : IsFiniteSet(s) /\ Cardinality(s) \in Nat
  BY FS_Subset, FS_CardinalityType
<1>2. 0 \in A
  BY <1>1, FS_EmptySet, TotalEmpty
<1>3. ASSUME NEW n \in Nat, n \in A
      PROVE  n + 1 \in A
  <2>1. ASSUME NEW s \in SUBSET S, Cardinality(s) <= n + 1, s # {}
        PROVE  Total(f, s) = Total(g, s)
    <3>1. Some(s) \in S /\ Rest(s) \in SUBSET S /\ Cardinality(Rest(s)) <= n
      BY <1>1, <2>1, SomeRest DEF Rest
    <3>2. Total(f, Rest(s)) = Total(g, Rest(s))
      BY <1>3, <3>1
    <3>3. Total(f, s) = f[Some(s)] + Total(f, Rest(s))
      BY <1>1, <2>1, TotalUnfolds
    <3>4. Total(g, s) = g[Some(s)] + Total(g, Rest(s))
      BY <1>1, <2>1, TotalUnfolds
    <3> QED
      BY <3>1, <3>2, <3>3, <3>4
  <2>2. \A s \in SUBSET S : Cardinality(s) <= n + 1 => Total(f, s) = Total(g, s)
    BY <2>1, TotalEmpty
  <2> QED
    BY <2>2
<1>4. Cardinality(S) \in A
  <2> HIDE DEF A
  <2> QED
    BY <1>1, <1>2, <1>3, NumbersByInduction
<1> QED
  BY <1>1, <1>4

-----------------------------------------------------------------------------
(* Sums of integers, in whatever order.                                    *)

LEMMA TotalInt ==
  ASSUME NEW f, NEW S, IsFiniteSet(S), \A x \in S : f[x] \in Int
  PROVE  Total(f, S) \in Int
<1> DEFINE A == {n \in Nat : \A s \in SUBSET S : Cardinality(s) <= n => Total(f, s) \in Int}
<1>1. \A s \in SUBSET S : IsFiniteSet(s) /\ Cardinality(s) \in Nat
  BY FS_Subset, FS_CardinalityType
<1>2. 0 \in A
  BY <1>1, FS_EmptySet, TotalEmpty
<1>3. ASSUME NEW n \in Nat, n \in A
      PROVE  n + 1 \in A
  <2>1. ASSUME NEW s \in SUBSET S, Cardinality(s) <= n + 1, s # {}
        PROVE  Total(f, s) \in Int
    <3>1. Some(s) \in S /\ Rest(s) \in SUBSET S /\ Cardinality(Rest(s)) <= n
      BY <1>1, <2>1, SomeRest DEF Rest
    <3>2. Total(f, Rest(s)) \in Int
      BY <1>3, <3>1
    <3>3. Total(f, s) = f[Some(s)] + Total(f, Rest(s))
      BY <1>1, <2>1, TotalUnfolds
    <3> QED
      BY <3>1, <3>2, <3>3
  <2>2. \A s \in SUBSET S : Cardinality(s) <= n + 1 => Total(f, s) \in Int
    BY <2>1, TotalEmpty
  <2> QED
    BY <2>2
<1>4. Cardinality(S) \in A
  <2> HIDE DEF A
  <2> QED
    BY <1>1, <1>2, <1>3, NumbersByInduction
<1> QED
  BY <1>1, <1>4

\* Any element may be taken out first.
LEMMA TotalRemove ==
  ASSUME NEW f, NEW S, IsFiniteSet(S), \A x \in S : f[x] \in Int, NEW x \in S
  PROVE  Total(f, S) = f[x] + Total(f, S \ {x})
<1> DEFINE A == {n \in Nat : \A s \in SUBSET S : Cardinality(s) <= n =>
                    \A y \in s : Total(f, s) = f[y] + Total(f, s \ {y})}
<1>1. \A s \in SUBSET S : IsFiniteSet(s) /\ Cardinality(s) \in Nat /\ Total(f, s) \in Int
  <2>1. \A s \in SUBSET S : IsFiniteSet(s) /\ Cardinality(s) \in Nat
    BY FS_Subset, FS_CardinalityType
  <2> QED
    BY <2>1, TotalInt
<1>2. 0 \in A
  BY <1>1, FS_EmptySet
<1>3. ASSUME NEW n \in Nat, n \in A
      PROVE  n + 1 \in A
  <2>1. ASSUME NEW s \in SUBSET S, Cardinality(s) <= n + 1, NEW y \in s
        PROVE  Total(f, s) = f[y] + Total(f, s \ {y})
    <3>1. PICK z \in s : z = Some(s) /\ s \ {z} = Rest(s)
      BY <1>1, SomeRest DEF Rest
    <3>2. Total(f, s) = f[z] + Total(f, s \ {z})
      BY <1>1, <3>1, TotalUnfolds
    <3>3. CASE z = y
      BY <3>2, <3>3
    <3>4. CASE z # y
      <4>1. /\ s \ {z} \in SUBSET S /\ Cardinality(s \ {z}) <= n /\ y \in s \ {z}
            /\ s \ {y} \in SUBSET S /\ Cardinality(s \ {y}) <= n /\ z \in s \ {y}
        BY <1>1, <2>1, <3>4, FS_RemoveElement
      <4>2. PICK r \in SUBSET S : r = (s \ {z}) \ {y} /\ r = (s \ {y}) \ {z}
        OBVIOUS
      <4>3. Total(f, s \ {z}) = f[y] + Total(f, r)
        BY <1>3, <4>1, <4>2
      <4>4. Total(f, s \ {y}) = f[z] + Total(f, r)
        BY <1>3, <4>1, <4>2
      <4>5. f[y] \in Int /\ f[z] \in Int /\ Total(f, r) \in Int
        BY <1>1, <4>2
      <4> HIDE DEF A
      <4> QED
        BY <3>2, <4>3, <4>4, <4>5
    <3> QED
      BY <3>3, <3>4
  <2> QED
    BY <2>1
<1>4. Cardinality(S) \in A
  <2> HIDE DEF A
  <2> QED
    BY <1>1, <1>2, <1>3, NumbersByInduction
<1> QED
  BY <1>1, <1>4

LEMMA TotalAdd ==
  ASSUME NEW f, NEW S, IsFiniteSet(S), \A y \in S : f[y] \in Int, NEW x, x \notin S, f[x] \in Int
  PROVE  Total(f, S \cup {x}) = f[x] + Total(f, S)
<1>1. IsFiniteSet(S \cup {x})
  BY FS_AddElement
<1>2. (S \cup {x}) \ {x} = S
  OBVIOUS
<1> QED
  BY <1>1, <1>2, TotalRemove

\* Sums add up.
LEMMA TotalPlus ==
  ASSUME NEW f, NEW d, NEW g, NEW S, IsFiniteSet(S),
         \A x \in S : f[x] \in Int /\ d[x] \in Int /\ g[x] = f[x] + d[x]
  PROVE  Total(g, S) = Total(f, S) + Total(d, S)
<1> DEFINE A == {n \in Nat : \A s \in SUBSET S : Cardinality(s) <= n =>
                    Total(g, s) = Total(f, s) + Total(d, s)}
<1>1. \A s \in SUBSET S : /\ IsFiniteSet(s) /\ Cardinality(s) \in Nat
                          /\ Total(f, s) \in Int /\ Total(d, s) \in Int
  <2>1. \A s \in SUBSET S : IsFiniteSet(s) /\ Cardinality(s) \in Nat
    BY FS_Subset, FS_CardinalityType
  <2> QED
    BY <2>1, TotalInt
<1>2. 0 \in A
  <2>1. \A s \in SUBSET S : Cardinality(s) <= 0 => s = {}
    BY <1>1, FS_EmptySet
  <2>2. Total(g, {}) = Total(f, {}) + Total(d, {})
    BY TotalEmpty
  <2> QED
    BY <2>1, <2>2
<1>3. ASSUME NEW n \in Nat, n \in A
      PROVE  n + 1 \in A
  <2>1. ASSUME NEW s \in SUBSET S, Cardinality(s) <= n + 1, s # {}
        PROVE  Total(g, s) = Total(f, s) + Total(d, s)
    <3>0. PICK x, r : x = Some(s) /\ r = Rest(s)
      OBVIOUS
    <3>1. x \in S /\ r \in SUBSET S /\ Cardinality(r) <= n
      BY <1>1, <2>1, <3>0, SomeRest DEF Rest
    <3>2. Total(g, r) = Total(f, r) + Total(d, r)
      BY <1>3, <3>1
    <3>3. Total(g, s) = g[x] + Total(g, r)
      BY <1>1, <2>1, <3>0, TotalUnfolds
    <3>4. Total(f, s) = f[x] + Total(f, r)
      BY <1>1, <2>1, <3>0, TotalUnfolds
    <3>5. Total(d, s) = d[x] + Total(d, r)
      BY <1>1, <2>1, <3>0, TotalUnfolds
    <3>6. /\ Total(f, r) \in Int /\ Total(d, r) \in Int
          /\ f[x] \in Int /\ d[x] \in Int /\ g[x] = f[x] + d[x]
      BY <1>1, <3>1
    <3> HIDE DEF A
    <3> QED
      BY <3>2, <3>3, <3>4, <3>5, <3>6
  <2>2. Total(g, {}) = Total(f, {}) + Total(d, {})
    BY TotalEmpty
  <2> QED
    BY <2>1, <2>2
<1>4. Cardinality(S) \in A
  <2> HIDE DEF A
  <2> QED
    BY <1>1, <1>2, <1>3, NumbersByInduction
<1> QED
  BY <1>1, <1>4

\* A sum changes by what one of its terms changes.
LEMMA TotalChange ==
  ASSUME NEW f, NEW g, NEW S, IsFiniteSet(S), \A x \in S : f[x] \in Int /\ g[x] \in Int,
         NEW k \in S, \A x \in S : x # k => g[x] = f[x]
  PROVE  Total(g, S) = Total(f, S) + g[k] - f[k]
<1>1. Total(g, S) = g[k] + Total(g, S \ {k})
  BY TotalRemove
<1>2. Total(f, S) = f[k] + Total(f, S \ {k})
  BY TotalRemove
<1>3. IsFiniteSet(S \ {k})
  BY FS_Subset
<1>4. Total(g, S \ {k}) = Total(f, S \ {k})
  BY <1>3, TotalExtends
<1>5. Total(f, S \ {k}) \in Int
  BY <1>3, TotalInt
<1> QED
  BY <1>1, <1>2, <1>4, <1>5

LEMMA TotalZero ==
  ASSUME NEW f, NEW S, IsFiniteSet(S), \A x \in S : f[x] = 0
  PROVE  Total(f, S) = 0
<1>1. Total(f, S) = Total(f, S) + Total(f, S)
  BY TotalPlus
<1>2. Total(f, S) \in Int
  BY TotalInt
<1>3. \A t \in Int : t = t + t => t = 0
  OBVIOUS
<1> QED
  BY <1>1, <1>2, <1>3

\* Terms that are zero do not count.
LEMMA TotalWithin ==
  ASSUME NEW f, NEW S, NEW T, IsFiniteSet(T), S \subseteq T,
         \A x \in T : f[x] \in Int, \A x \in T \ S : f[x] = 0
  PROVE  Total(f, T) = Total(f, S)
<1> DEFINE A == {n \in Nat : \A r \in SUBSET (T \ S) : Cardinality(r) <= n =>
                    Total(f, S \cup r) = Total(f, S)}
<1>1. /\ \A s \in SUBSET T : IsFiniteSet(s) /\ Cardinality(s) \in Nat
      /\ \A s \in SUBSET T : Total(f, s) \in Int
  <2>1. \A s \in SUBSET T : IsFiniteSet(s) /\ Cardinality(s) \in Nat
    BY FS_Subset, FS_CardinalityType
  <2> QED
    BY <2>1, TotalInt
<1>2. 0 \in A
  <2>1. \A r \in SUBSET (T \ S) : Cardinality(r) <= 0 => S \cup r = S
    BY <1>1, FS_EmptySet
  <2> QED
    BY <2>1
<1>3. ASSUME NEW n \in Nat, n \in A
      PROVE  n + 1 \in A
  <2>1. ASSUME NEW r \in SUBSET (T \ S), Cardinality(r) <= n + 1
        PROVE  Total(f, S \cup r) = Total(f, S)
    <3>1. CASE r = {}
      <4>1. S \cup r = S
        BY <3>1
      <4> QED
        BY <4>1
    <3>2. CASE r # {}
      <4>1. PICK x \in r : TRUE
        BY <3>2
      <4>2. /\ IsFiniteSet(r) /\ r \ {x} \in SUBSET (T \ S)
            /\ Cardinality(r \ {x}) = Cardinality(r) - 1 /\ Cardinality(r) \in Nat
        BY <1>1, <4>1, FS_RemoveElement
      <4>3. Total(f, S \cup (r \ {x})) = Total(f, S)
        BY <1>3, <2>1, <4>2
      <4>4. /\ S \cup r \in SUBSET T /\ IsFiniteSet(S \cup r)
            /\ x \in S \cup r /\ (S \cup r) \ {x} = S \cup (r \ {x})
        BY <1>1, <4>1
      <4>5. Total(f, S \cup r) = f[x] + Total(f, S \cup (r \ {x}))
        <5>1. \A y \in S \cup r : f[y] \in Int
          BY <4>4
        <5>2. Total(f, S \cup r) = f[x] + Total(f, (S \cup r) \ {x})
          BY <4>4, <5>1, TotalRemove
        <5> QED
          BY <4>4, <5>2
      <4>6. f[x] = 0 /\ Total(f, S) \in Int
        BY <1>1, <4>1
      <4> HIDE DEF A
      <4> QED
        BY <4>3, <4>4, <4>5, <4>6
    <3> QED
      BY <3>1, <3>2
  <2> QED
    BY <2>1
<1>4. Cardinality(T \ S) \in A
  <2> HIDE DEF A
  <2> QED
    BY <1>1, <1>2, <1>3, NumbersByInduction
<1>5. S \cup (T \ S) = T
  OBVIOUS
<1> QED
  BY <1>1, <1>4, <1>5

LEMMA TotalNat ==
  ASSUME NEW f, NEW S, IsFiniteSet(S), \A x \in S : f[x] \in Nat
  PROVE  Total(f, S) \in Nat
<1> DEFINE A == {n \in Nat : \A s \in SUBSET S : Cardinality(s) <= n => Total(f, s) \in Nat}
<1>1. \A s \in SUBSET S : IsFiniteSet(s) /\ Cardinality(s) \in Nat
  BY FS_Subset, FS_CardinalityType
<1>2. 0 \in A
  <2>1. \A s \in SUBSET S : Cardinality(s) <= 0 => s = {}
    BY <1>1, FS_EmptySet
  <2> QED
    BY <2>1, TotalEmpty
<1>3. ASSUME NEW n \in Nat, n \in A
      PROVE  n + 1 \in A
  <2>1. ASSUME NEW s \in SUBSET S, Cardinality(s) <= n + 1, s # {}
        PROVE  Total(f, s) \in Nat
    <3>0. PICK x, r : x = Some(s) /\ r = Rest(s)
      OBVIOUS
    <3>1. x \in S /\ r \in SUBSET S /\ Cardinality(r) <= n
      BY <1>1, <2>1, <3>0, SomeRest DEF Rest
    <3>2. Total(f, r) \in Nat
      BY <1>3, <3>1
    <3>3. Total(f, s) = f[x] + Total(f, r)
      BY <1>1, <2>1, <3>0, TotalUnfolds
    <3> QED
      BY <3>1, <3>2, <3>3
  <2>2. Total(f, {}) \in Nat
    BY TotalEmpty
  <2> QED
    BY <2>1, <2>2
<1>4. Cardinality(S) \in A
  <2> HIDE DEF A
  <2> QED
    BY <1>1, <1>2, <1>3, NumbersByInduction
<1> QED
  BY <1>1, <1>4

\* Sums along a range of numbers.
LEMMA RangeSum ==
  ASSUME NEW f, NEW n \in Nat, \A x \in 1..(n + 1) : f[x] \in Int
  PROVE  Total(f, 1..(n + 1)) = Total(f, 1..n) + f[n + 1] /\ Total(f, 1..n) \in Int
<1>1. IsFiniteSet(1..n) /\ 1..(n + 1) = (1..n) \cup {n + 1} /\ n + 1 \notin 1..n
  <2>1. IsFiniteSet(1..n)
    BY FS_Interval
  <2> QED
    BY <2>1
<1>2. Total(f, (1..n) \cup {n + 1}) = f[n + 1] + Total(f, 1..n)
  BY <1>1, TotalAdd
<1>3. Total(f, 1..n) \in Int
  BY <1>1, TotalInt
<1>4. f[n + 1] \in Int
  OBVIOUS
<1>5. Total(f, 1..(n + 1)) = Total(f, (1..n) \cup {n + 1})
  BY <1>1
<1> QED
  BY <1>2, <1>3, <1>4, <1>5
=============================================================================
