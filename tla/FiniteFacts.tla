------------------------------ MODULE FiniteFacts -----------------------------
(***************************************************************************)
(* Induction over numbers and finite sets, stated for sets rather than for *)
(* predicates, and what follows from it: least elements, the sequence of a *)
(* set's elements in order, and SumFunctionOnSet of module Functions, by   *)
(* which totals over rows, nodes and threads are defined.  FlattenSeq of   *)
(* sequences put together.                                                 *)
(***************************************************************************)
EXTENDS SortedSets, FiniteSetTheorems, SequenceTheorems, WellFoundedInduction, TLAPS

\* A set of numbers that holds 0 and every successor holds all of them.
LEMMA NatSetInduction ==
  ASSUME NEW S, 0 \in S, \A n \in Nat : n \in S => n + 1 \in S
  PROVE  Nat \subseteq S
<1> DEFINE Bad == {n \in Nat : n \notin S}
           R == OpToRel(<, Nat)
<1> SUFFICES ASSUME Bad # {} PROVE FALSE
  OBVIOUS
<1>1. \E m \in Bad : \A n \in Bad : <<n, m>> \notin R
  <2>1. IsWellFoundedOn(R, Nat) /\ Bad \subseteq Nat
    BY NatLessThanWellFounded
  <2> HIDE DEF Bad, R
  <2> QED
    BY <2>1, WFMin
<1>2. PICK m \in Bad : \A n \in Bad : <<n, m>> \notin R
  BY <1>1
<1>3. m - 1 \in Nat /\ m - 1 < m
  OBVIOUS
<1>4. m - 1 \in S
  BY <1>2, <1>3 DEF OpToRel
<1> QED
  BY <1>3, <1>4

\* The values of f applied again and again, beginning with a.
Iterates(g, f, a) == g[0] = a /\ \A n \in Nat : g[n + 1] = f[g[n]]

\* They are a function of how often f is applied.
LEMMA Iteration ==
  ASSUME NEW A, NEW a \in A, NEW f, \A x \in A : f[x] \in A
  PROVE  \E g \in [Nat -> A] : Iterates(g, f, a)
<1> DEFINE Follows(g, n) == g \in [Nat -> A] /\ g[0] = a /\ \A m \in 0 .. n - 1 : g[m + 1] = f[g[m]]
           Good == {n \in Nat : \E g : Follows(g, n)}
           step == [n \in Nat |-> CHOOSE g : Follows(g, n)]
<1>1. 0 \in Good
  <2>1. Follows([m \in Nat |-> a], 0)
    OBVIOUS
  <2> QED
    BY <2>1
<1>2. ASSUME NEW n \in Nat, n \in Good PROVE n + 1 \in Good
  <2>1. PICK g : Follows(g, n)
    BY <1>2
  <2> DEFINE h == [g EXCEPT ![n + 1] = f[g[n]]]
  <2>2. h \in [Nat -> A] /\ h[0] = a
    BY <2>1
  <2>3. \A m \in 0 .. n : h[m + 1] = f[h[m]]
    BY <2>1
  <2>4. Follows(h, n + 1)
    BY <2>2, <2>3
  <2>5. n + 1 \in Nat
    OBVIOUS
  <2> HIDE DEF Follows, h
  <2> QED
    BY <2>4, <2>5
<1>3. \A n \in Nat : Follows(step[n], n)
  <2>1. Nat \subseteq Good
    <3> HIDE DEF Good
    <3> QED
      BY <1>1, <1>2, NatSetInduction
  <2>2. \A n \in Nat : \E g : Follows(g, n)
    BY <2>1
  <2> HIDE DEF Follows
  <2> QED
    BY <2>2
<1> HIDE DEF step
<1>4. ASSUME NEW n \in Nat PROVE step[n + 1][n] = step[n][n]
  <2> DEFINE Same == {m \in Nat : m <= n => step[n + 1][m] = step[n][m]}
  <2>1. 0 \in Same
    BY <1>3
  <2>2. ASSUME NEW m \in Nat, m \in Same PROVE m + 1 \in Same
    <3>1. CASE m + 1 <= n
      <4>1. m \in 0 .. n - 1 /\ m \in 0 .. (n + 1) - 1 /\ step[n + 1][m] = step[n][m]
        BY <2>2, <3>1
      <4>2. step[n + 1][m + 1] = f[step[n + 1][m]] /\ step[n][m + 1] = f[step[n][m]]
        BY <1>3, <4>1
      <4> QED
        BY <4>1, <4>2
    <3> QED
      BY <3>1
  <2>3. Nat \subseteq Same
    <3> HIDE DEF Same
    <3> QED
      BY <2>1, <2>2, NatSetInduction
  <2> QED
    BY <2>3
<1> DEFINE g == [n \in Nat |-> step[n][n]]
<1>5. g \in [Nat -> A] /\ g[0] = a
  BY <1>3
<1>6. ASSUME NEW n \in Nat PROVE g[n + 1] = f[g[n]]
  <2>1. step[n + 1][n + 1] = f[step[n + 1][n]]
    <3>1. n \in 0 .. (n + 1) - 1 /\ Follows(step[n + 1], n + 1)
      BY <1>3
    <3> QED
      BY <3>1
  <2> QED
    BY <1>4, <2>1
<1> QED
  BY <1>5, <1>6 DEF Iterates

\* A family of sets that holds every subset of a finite set all of whose proper
\* subsets it holds, holds all of its subsets.
LEMMA SubsetInduction ==
  ASSUME NEW S, IsFiniteSet(S), NEW F,
         \A T \in SUBSET S : (\A U \in SUBSET T : U # T => U \in F) => T \in F
  PROVE  SUBSET S \subseteq F
<1> DEFINE Bad == {T \in SUBSET S : T \notin F}
           R == StrictSubsetOrdering(S)
<1> SUFFICES ASSUME Bad # {} PROVE FALSE
  OBVIOUS
<1>1. \E m \in Bad : \A T \in Bad : <<T, m>> \notin R
  <2>1. IsWellFoundedOn(R, SUBSET S)
    <3>1. FiniteSubsetsOf(S) = SUBSET S
      BY FS_FiniteSubsetsOfFinite
    <3>2. IsWellFoundedOn(R, FiniteSubsetsOf(S))
      BY FS_StrictSubsetOrderingWellFounded
    <3> QED
      BY <3>1, <3>2
  <2>2. Bad \subseteq SUBSET S
    OBVIOUS
  <2> HIDE DEF Bad, R
  <2> QED
    BY <2>1, <2>2, WFMin
<1>2. PICK m \in Bad : \A T \in Bad : <<T, m>> \notin R
  BY <1>1
<1>3. ASSUME NEW U \in SUBSET m, U # m PROVE U \in F
  BY <1>2, <1>3 DEF StrictSubsetOrdering
<1> QED
  BY <1>3
-----------------------------------------------------------------------------
\* A set of numbers has a least element.
LEMMA LeastNumber ==
  ASSUME NEW S \in SUBSET Nat, S # {}
  PROVE  \E x \in S : \A y \in S : x <= y
<1> DEFINE R == OpToRel(<, Nat)
<1>1. \E m \in S : \A n \in S : <<n, m>> \notin R
  <2>1. IsWellFoundedOn(R, Nat)
    BY NatLessThanWellFounded
  <2> HIDE DEF R
  <2> QED
    BY <2>1, WFMin
<1>2. PICK m \in S : \A n \in S : <<n, m>> \notin R
  BY <1>1
<1>3. ASSUME NEW n \in S PROVE m <= n
  <2>1. m \in Nat /\ n \in Nat /\ <<n, m>> \notin R
    BY <1>2
  <2> QED
    BY <2>1 DEF OpToRel
<1> QED
  BY <1>3

\* A sequence without repetitions is as long as its elements are many.
LEMMA WithoutRepetition ==
  ASSUME NEW n \in Nat, NEW T, NEW s \in [1 .. n -> T],
         \A x \in T : \E p \in 1 .. n : s[p] = x,
         \A p, q \in 1 .. n : s[p] = s[q] => p = q
  PROVE  IsFiniteSet(T) /\ Cardinality(T) = n
<1>1. s \in Bijection(1 .. n, T)
  BY DEF Bijection, Injection, Surjection, IsInjective
<1>2. IsFiniteSet(1 .. n) /\ Cardinality(1 .. n) = n
  BY FS_Interval
<1> QED
  BY <1>1, <1>2, FS_Bijection DEF ExistsBijection

\* How many elements of S are less than x.
RankIn(S, x) == Cardinality({y \in S : y < x})

\* For every place there is one element of S that has so many smaller ones.
LEMMA Ranks ==
  ASSUME NEW S, IsFiniteSet(S), S \subseteq Int
  PROVE  /\ \A x \in S : RankIn(S, x) \in 0 .. Cardinality(S) - 1
         /\ \A x, y \in S : x < y <=> RankIn(S, x) < RankIn(S, y)
         /\ \A r \in 0 .. Cardinality(S) - 1 : \E x \in S : RankIn(S, x) = r
<1> DEFINE below(x) == {y \in S : y < x}
           n == Cardinality(S)
<1>1. n \in Nat
  BY FS_CardinalityType
<1>2. ASSUME NEW x \in S PROVE IsFiniteSet(below(x)) /\ RankIn(S, x) \in 0 .. n - 1
  <2>1. below(x) \in SUBSET S /\ below(x) # S
    <3>1. x \in Int
      OBVIOUS
    <3> QED
      BY <3>1
  <2> HIDE DEF below
  <2>2. IsFiniteSet(below(x)) /\ Cardinality(below(x)) <= n /\ Cardinality(below(x)) # n
    BY <2>1, FS_Subset
  <2>3. Cardinality(below(x)) \in Nat
    BY <2>2, FS_CardinalityType
  <2> USE DEF below
  <2> QED
    BY <1>1, <2>2, <2>3 DEF RankIn
<1>3. ASSUME NEW x \in S PROVE RankIn(S, x) \in Int
  <2>1. RankIn(S, x) \in 0 .. n - 1
    BY <1>2
  <2> HIDE DEF n
  <2> QED
    BY <1>1, <2>1
<1>4. ASSUME NEW x \in S, NEW y \in S, x < y PROVE RankIn(S, x) < RankIn(S, y)
  <2>1. below(x) \in SUBSET below(y) /\ x \in below(y) /\ x \notin below(x)
    <3>1. x \in Int /\ y \in Int
      OBVIOUS
    <3>2. ASSUME NEW z \in S, z < x PROVE z < y
      <4>1. z \in Int
        OBVIOUS
      <4> QED
        BY <1>4, <3>1, <3>2, <4>1
    <3>3. ~(x < x)
      BY <3>1
    <3> QED
      BY <1>4, <3>2, <3>3
  <2>2. IsFiniteSet(below(x)) /\ IsFiniteSet(below(y))
    BY <1>2
  <2> HIDE DEF below
  <2>3. Cardinality(below(x)) <= Cardinality(below(y))
        /\ Cardinality(below(x)) # Cardinality(below(y))
    BY <2>1, <2>2, FS_Subset
  <2>4. Cardinality(below(x)) \in Nat /\ Cardinality(below(y)) \in Nat
    BY <2>2, FS_CardinalityType
  <2> USE DEF below
  <2> QED
    BY <2>3, <2>4 DEF RankIn
<1>5. ASSUME NEW x \in S, NEW y \in S PROVE x < y <=> RankIn(S, x) < RankIn(S, y)
  <2>1. x \in Int /\ y \in Int /\ RankIn(S, x) \in Int /\ RankIn(S, y) \in Int
    BY <1>3
  <2>2. x = y \/ x < y \/ y < x
    BY <2>1
  <2> QED
    BY <1>4, <2>1, <2>2
<1> DEFINE rank == [x \in S |-> RankIn(S, x)]
<1>6. rank \in Injection(S, 0 .. n - 1)
  <2>1. rank \in [S -> 0 .. n - 1]
    BY <1>2
  <2>2. ASSUME NEW x \in S, NEW y \in S, rank[x] = rank[y] PROVE x = y
    <3>1. x \in Int /\ y \in Int /\ RankIn(S, x) \in Int /\ RankIn(S, x) = RankIn(S, y)
      BY <1>3, <2>2
    <3>2. ~(RankIn(S, x) < RankIn(S, y)) /\ ~(RankIn(S, y) < RankIn(S, x))
      BY <3>1
    <3>3. ~(x < y) /\ ~(y < x)
      BY <1>5, <3>2
    <3> QED
      BY <3>1, <3>3
  <2> HIDE DEF rank
  <2> QED
    BY <2>1, <2>2 DEF Injection, IsInjective
<1>7. IsFiniteSet(0 .. n - 1) /\ Cardinality(0 .. n - 1) = n
  BY <1>1, FS_Interval
<1>8. rank \in Surjection(S, 0 .. n - 1)
  <2> HIDE DEF rank
  <2> QED
    BY <1>6, <1>7, FS_Injection
<1>9. \A r \in 0 .. n - 1 : \E x \in S : RankIn(S, x) = r
  BY <1>8 DEF Surjection
<1> QED
  BY <1>2, <1>5, <1>9

\* So the elements of S can be placed by their ranks; this gives them in order.
LEMMA PlacedByRank ==
  ASSUME NEW S, IsFiniteSet(S), S \subseteq Int,
         NEW s \in [1 .. Cardinality(S) -> S],
         \A p \in 1 .. Cardinality(S) : RankIn(S, s[p]) = p - 1
  PROVE  /\ Cardinality(S) \in Nat
         /\ \A x \in S : \E p \in 1 .. Cardinality(S) : s[p] = x /\ p = RankIn(S, x) + 1
         /\ \A p, q \in 1 .. Cardinality(S) : s[p] < s[q] <=> p < q
         /\ \A p, q \in 1 .. Cardinality(S) : s[p] = s[q] => p = q
<1> DEFINE n == Cardinality(S)
<1>1. n \in Nat
  BY FS_CardinalityType
<1>2. \A p \in 1 .. n : s[p] \in S /\ RankIn(S, s[p]) = p - 1
  OBVIOUS
<1>3. ASSUME NEW x \in S PROVE \E p \in 1 .. n : s[p] = x /\ p = RankIn(S, x) + 1
  <2>1. RankIn(S, x) \in 0 .. n - 1
    BY Ranks
  <2>2. RankIn(S, x) + 1 \in 1 .. n
    BY <1>1, <2>1
  <2>3. s[RankIn(S, x) + 1] \in S /\ RankIn(S, s[RankIn(S, x) + 1]) = RankIn(S, x)
    BY <1>2, <2>1, <2>2
  <2>4. s[RankIn(S, x) + 1] \in Int /\ x \in Int
    BY <2>3
  <2>5. ~(s[RankIn(S, x) + 1] < x) /\ ~(x < s[RankIn(S, x) + 1])
    <3> DEFINE z == s[RankIn(S, x) + 1]
    <3>1. z \in S /\ RankIn(S, z) = RankIn(S, x) /\ RankIn(S, x) \in Int
      BY <1>1, <2>1, <2>3
    <3> HIDE DEF z
    <3>2. (z < x <=> RankIn(S, z) < RankIn(S, x)) /\ (x < z <=> RankIn(S, x) < RankIn(S, z))
      BY <3>1, Ranks
    <3>3. ~(z < x) /\ ~(x < z)
      BY <3>1, <3>2
    <3> QED
      BY <3>3 DEF z
  <2> QED
    BY <2>2, <2>4, <2>5
<1>4. ASSUME NEW p \in 1 .. n, NEW q \in 1 .. n
      PROVE  (s[p] < s[q] <=> p < q) /\ (s[p] = s[q] => p = q)
  <2>1. RankIn(S, s[p]) = p - 1 /\ RankIn(S, s[q]) = q - 1 /\ s[p] \in S /\ s[q] \in S
    BY <1>2
  <2>2. s[p] < s[q] <=> RankIn(S, s[p]) < RankIn(S, s[q])
    BY <2>1, Ranks
  <2> QED
    BY <1>1, <2>1, <2>2
<1> QED
  BY <1>1, <1>3, <1>4
\* The sequence of a set's elements in order.
LEMMA IncreasingPlaces ==
  ASSUME NEW S, IsFiniteSet(S), S \subseteq Int
  PROVE  /\ Cardinality(S) \in Nat
         /\ Increasing(S) \in Seq(S) /\ Len(Increasing(S)) = Cardinality(S)
         /\ ToSet(Increasing(S)) = S
         /\ \A p \in 1 .. Cardinality(S) :
              Increasing(S)[p] \in S /\ RankIn(S, Increasing(S)[p]) = p - 1
         /\ \A x \in S : /\ RankIn(S, x) + 1 \in 1 .. Cardinality(S)
                         /\ Increasing(S)[RankIn(S, x) + 1] = x
         /\ \A p, q \in 1 .. Cardinality(S) : Increasing(S)[p] = Increasing(S)[q] => p = q
<1> DEFINE s == Increasing(S)
           n == Cardinality(S)
<1>1. s = [p \in 1 .. n |-> CHOOSE x \in S : RankIn(S, x) = p - 1]
  BY DEF Increasing, RankIn
<1>2. n \in Nat
  BY FS_CardinalityType
<1> HIDE DEF s
<1>3. \A p \in 1 .. n : \E x \in S : RankIn(S, x) = p - 1
  <2>1. \A p \in 1 .. n : p - 1 \in 0 .. n - 1
    BY <1>2
  <2>2. \A r \in 0 .. n - 1 : \E x \in S : RankIn(S, x) = r
    BY Ranks
  <2> QED
    BY <2>1, <2>2
<1>4. s \in [1 .. n -> S] /\ \A p \in 1 .. n : RankIn(S, s[p]) = p - 1
  BY <1>1, <1>3
<1>5. /\ \A x \in S : \E p \in 1 .. n : s[p] = x /\ p = RankIn(S, x) + 1
      /\ \A p, q \in 1 .. n : s[p] = s[q] => p = q
  BY <1>4, PlacedByRank
<1>6. s \in Seq(S) /\ Len(s) = n
  BY <1>2, <1>4
<1>7. ToSet(s) = S
  <2>1. DOMAIN s = 1 .. n
    BY <1>4
  <2>2. \A p \in DOMAIN s : s[p] \in S
    BY <1>4, <2>1
  <2>3. \A x \in S : \E p \in DOMAIN s : s[p] = x
    BY <1>5, <2>1
  <2>4. ToSet(s) = {s[p] : p \in DOMAIN s}
    BY DEF ToSet
  <2> QED
    BY <2>2, <2>3, <2>4
<1> QED
  BY <1>2, <1>4, <1>5, <1>6, <1>7 DEF s

\* The images of a set's elements, all different, are as many.
LEMMA ImagesCounted ==
  ASSUME NEW S, IsFiniteSet(S), NEW T, NEW f \in [S -> T],
         \A a, b \in S : f[a] = f[b] => a = b,
         \A t \in T : \E a \in S : f[a] = t
  PROVE  IsFiniteSet(T) /\ Cardinality(T) = Cardinality(S)
<1>1. f \in Bijection(S, T)
  BY DEF Bijection, Injection, Surjection, IsInjective
<1> QED
  BY <1>1, FS_Bijection DEF ExistsBijection

\* A set to which others are added.
LEMMA DisjointUnion ==
  ASSUME NEW S, IsFiniteSet(S), NEW T, IsFiniteSet(T), S \cap T = {}
  PROVE  /\ IsFiniteSet(S \cup T)
         /\ Cardinality(S \cup T) = Cardinality(S) + Cardinality(T)
<1>1. Cardinality(S) \in Nat /\ Cardinality(T) \in Nat
  BY FS_CardinalityType
<1>2. Cardinality(S \cap T) = 0
  BY FS_EmptySet
<1>3. /\ IsFiniteSet(S \cup T)
      /\ Cardinality(S \cup T) = Cardinality(S) + Cardinality(T) - Cardinality(S \cap T)
  BY FS_Union
<1> QED
  BY <1>1, <1>2, <1>3
-----------------------------------------------------------------------------
First(s) == CHOOSE x \in s : TRUE

\* The recursion that defines the sums of f over the subsets of S.
Adds(f, S, g) ==
  g = [s \in SUBSET S |-> IF s = {} THEN 0 ELSE f[First(s)] + g[s \ {First(s)}]]

Sums(f, S) == CHOOSE g : Adds(f, S, g)

LEMMA SumIsRecursion ==
  ASSUME NEW f, NEW S
  PROVE  SumFunctionOnSet(f, S) = Sums(f, S)[S]
BY DEF SumFunctionOnSet, FoldFunctionOnSet, MapThenFoldSet, Sums, Adds, First

\* There is a function that satisfies the recursion.
LEMMA RecursionSatisfied ==
  ASSUME NEW S, IsFiniteSet(S), NEW f
  PROVE  \E g : Adds(f, S, g)
<1> DEFINE Small(n) == {s \in SUBSET S : Cardinality(s) <= n}
           Step(g, s) == IF s = {} THEN 0 ELSE f[First(s)] + g[s \ {First(s)}]
           Good == {n \in Nat : \E g : g = [s \in Small(n) |-> Step(g, s)]}
<1>1. \A s \in SUBSET S : IsFiniteSet(s) /\ Cardinality(s) \in Nat
  BY FS_Subset, FS_CardinalityType
<1>2. \A s \in SUBSET S : s # {} =>
        /\ First(s) \in s
        /\ s \ {First(s)} \in SUBSET S
        /\ Cardinality(s \ {First(s)}) = Cardinality(s) - 1
  BY <1>1, FS_RemoveElement DEF First
<1>3. 0 \in Good
  <2>1. \A s \in Small(0) : s = {}
    BY <1>1, FS_EmptySet
  <2> DEFINE g == [s \in Small(0) |-> 0]
  <2>2. g = [s \in Small(0) |-> Step(g, s)]
    BY <2>1
  <2> HIDE DEF g, Small, Step
  <2> QED
    BY <2>2
<1>4. ASSUME NEW n \in Good PROVE n + 1 \in Good
  <2>1. PICK g : g = [s \in Small(n) |-> Step(g, s)]
    OBVIOUS
  <2> DEFINE h == [s \in Small(n + 1) |-> IF s \in Small(n) THEN g[s] ELSE Step(g, s)]
  <2>2. ASSUME NEW s \in Small(n + 1), s # {}
        PROVE  s \ {First(s)} \in Small(n) /\ s \ {First(s)} \in Small(n + 1)
    BY <1>1, <1>2, <2>2
  <2>3. ASSUME NEW s \in Small(n + 1) PROVE h[s] = Step(h, s)
    <3>1. CASE s = {}
      <4>1. s \in Small(n)
        BY <3>1, FS_EmptySet
      <4> QED
        BY <2>1, <3>1, <4>1
    <3>2. CASE s # {}
      <4>1. h[s \ {First(s)}] = g[s \ {First(s)}]
        BY <2>2, <3>2
      <4>2. h[s] = Step(g, s)
        BY <2>1
      <4> QED
        BY <3>2, <4>1, <4>2
    <3> QED
      BY <3>1, <3>2
  <2>4. h = [s \in Small(n + 1) |-> Step(h, s)]
    BY <2>3
  <2> HIDE DEF h, Small, Step
  <2> QED
    BY <2>4
<1>5. Cardinality(S) \in Good
  <2> HIDE DEF Good
  <2>1. Nat \subseteq Good
    BY <1>3, <1>4, NatSetInduction
  <2> QED
    BY <1>1, <2>1
<1>6. Small(Cardinality(S)) = SUBSET S
  BY FS_Subset
<1> HIDE DEF Small
<1> QED
  BY <1>5, <1>6 DEF Adds

\* So the function chosen satisfies it, and its values are numbers.
LEMMA Recursion ==
  ASSUME NEW S, IsFiniteSet(S), NEW f, \A x \in S : f[x] \in Nat
  PROVE  /\ Sums(f, S) \in [SUBSET S -> Nat]
         /\ Sums(f, S)[{}] = 0
         /\ \A s \in SUBSET S : s # {} =>
              /\ First(s) \in s
              /\ Sums(f, S)[s] = f[First(s)] + Sums(f, S)[s \ {First(s)}]
<1> DEFINE g == Sums(f, S)
<1>1. Adds(f, S, g)
  BY RecursionSatisfied DEF Sums
<1> HIDE DEF g
<1>2. \A s \in SUBSET S : s # {} => First(s) \in s
  BY DEF First
<1>3. g[{}] = 0
  BY <1>1 DEF Adds
<1>4. \A s \in SUBSET S : s # {} => g[s] = f[First(s)] + g[s \ {First(s)}]
  BY <1>1 DEF Adds
<1> DEFINE Numbers == {s \in SUBSET S : g[s] \in Nat}
<1>5. ASSUME NEW T \in SUBSET S, \A U \in SUBSET T : U # T => U \in Numbers
      PROVE  T \in Numbers
  <2>1. CASE T = {}
    BY <1>3, <2>1
  <2>2. CASE T # {}
    <3>1. First(T) \in T /\ T \ {First(T)} \in SUBSET T /\ T \ {First(T)} # T
      BY <1>2, <2>2
    <3>2. g[T \ {First(T)}] \in Nat /\ f[First(T)] \in Nat
      BY <1>5, <3>1
    <3>3. g[T] = f[First(T)] + g[T \ {First(T)}]
      BY <1>4, <2>2
    <3>4. g[T] \in Nat
      BY <3>2, <3>3
    <3> QED
      BY <3>4
  <2> QED
    BY <2>1, <2>2
<1>6. SUBSET S \subseteq Numbers
  <2> HIDE DEF Numbers
  <2> QED
    BY <1>5, SubsetInduction
<1>7. g \in [SUBSET S -> Nat]
  BY <1>1, <1>6 DEF Adds
<1> QED
  BY <1>2, <1>3, <1>4, <1>7 DEF g

\* The sum over a set depends on its elements' values only, not on the set of which
\* it is a part.
LEMMA RecursionAgrees ==
  ASSUME NEW S, IsFiniteSet(S), NEW f, \A x \in S : f[x] \in Nat,
         NEW T \in SUBSET S, NEW h, \A x \in T : h[x] = f[x]
  PROVE  Sums(f, S)[T] = Sums(h, T)[T]
<1> DEFINE g == Sums(f, S)
           d == Sums(h, T)
<1>1. IsFiniteSet(T) /\ \A x \in T : h[x] \in Nat
  BY FS_Subset
<1>2. g[{}] = 0 /\ \A s \in SUBSET S : s # {} =>
        First(s) \in s /\ g[s] = f[First(s)] + g[s \ {First(s)}]
  BY ONLY IsFiniteSet(S), \A x \in S : f[x] \in Nat, Recursion
<1>3. d[{}] = 0 /\ \A s \in SUBSET T : s # {} =>
        First(s) \in s /\ d[s] = h[First(s)] + d[s \ {First(s)}]
  BY ONLY <1>1, Recursion
<1> DEFINE Same == {s \in SUBSET T : g[s] = d[s]}
<1>4. ASSUME NEW s \in SUBSET T, \A u \in SUBSET s : u # s => u \in Same
      PROVE  s \in Same
  <2>1. CASE s = {}
    BY <1>2, <1>3, <2>1
  <2>2. CASE s # {}
    <3>1. First(s) \in s /\ s \ {First(s)} \in SUBSET s /\ s \ {First(s)} # s
      BY <1>2, <2>2
    <3>2. g[s \ {First(s)}] = d[s \ {First(s)}]
      BY <1>4, <3>1
    <3> HIDE DEF g, d
    <3>3. s \in SUBSET S /\ h[First(s)] = f[First(s)]
      BY <3>1
    <3> QED
      BY <1>2, <1>3, <2>2, <3>2, <3>3
  <2> QED
    BY <2>1, <2>2
<1>5. SUBSET T \subseteq Same
  <2> HIDE DEF Same
  <2> QED
    BY <1>1, <1>4, SubsetInduction
<1> QED
  BY <1>5

\* The element that is taken out does not matter.
LEMMA RecursionAnyElement ==
  ASSUME NEW S, IsFiniteSet(S), NEW f, \A x \in S : f[x] \in Nat,
         NEW T \in SUBSET S, NEW x \in T
  PROVE  Sums(f, S)[T] = f[x] + Sums(f, S)[T \ {x}]
<1> DEFINE g == Sums(f, S)
<1>1. /\ g \in [SUBSET S -> Nat]
      /\ \A s \in SUBSET S : s # {} =>
           First(s) \in s /\ g[s] = f[First(s)] + g[s \ {First(s)}]
  BY Recursion
<1> HIDE DEF g
<1> DEFINE Free == {s \in SUBSET S : \A e \in s : g[s] = f[e] + g[s \ {e}]}
<1>2. ASSUME NEW s \in SUBSET S, \A u \in SUBSET s : u # s => u \in Free
      PROVE  s \in Free
  <2> SUFFICES ASSUME NEW e \in s PROVE g[s] = f[e] + g[s \ {e}]
    OBVIOUS
  <2> DEFINE c == First(s)
  <2>1. c \in s /\ g[s] = f[c] + g[s \ {c}]
    BY <1>1
  <2> HIDE DEF c
  <2>2. CASE e = c
    BY <2>1, <2>2
  <2>3. CASE e # c
    <3>1. s \ {c} \in SUBSET s /\ s \ {c} # s /\ e \in s \ {c}
          /\ s \ {e} \in SUBSET s /\ s \ {e} # s /\ c \in s \ {e}
      BY <2>1, <2>3
    <3>2. s \ {c} \in Free /\ s \ {e} \in Free
      BY <1>2, <3>1
    <3>3. g[s \ {c}] = f[e] + g[(s \ {c}) \ {e}]
      BY <3>1, <3>2
    <3>4. g[s \ {e}] = f[c] + g[(s \ {e}) \ {c}]
      BY <3>1, <3>2
    <3>5. (s \ {c}) \ {e} = (s \ {e}) \ {c} /\ (s \ {c}) \ {e} \in SUBSET S
      OBVIOUS
    <3>6. f[e] \in Nat /\ f[c] \in Nat /\ g[(s \ {c}) \ {e}] \in Nat
      BY <1>1, <2>1, <3>5
    <3>7. /\ g[s] = f[c] + (f[e] + g[(s \ {c}) \ {e}])
          /\ g[s \ {e}] = f[c] + g[(s \ {c}) \ {e}]
      BY <2>1, <3>3, <3>4, <3>5
    <3> HIDE DEF g
    <3> QED
      BY <3>6, <3>7
  <2> QED
    BY <2>2, <2>3
<1>3. SUBSET S \subseteq Free
  <2> HIDE DEF Free
  <2> QED
    BY <1>2, SubsetInduction
<1> QED
  BY <1>3 DEF g
-----------------------------------------------------------------------------
\* A sum of numbers is a number; over nothing it is zero.
LEMMA SumType ==
  ASSUME NEW S, IsFiniteSet(S), NEW f, \A x \in S : f[x] \in Nat
  PROVE  SumFunctionOnSet(f, S) \in Nat /\ SumFunctionOnSet(f, {}) = 0
<1>1. SumFunctionOnSet(f, S) \in Nat
  <2>1. Sums(f, S) \in [SUBSET S -> Nat] /\ S \in SUBSET S
    BY Recursion
  <2> QED
    BY <2>1, SumIsRecursion
<1>2. SumFunctionOnSet(f, {}) = 0
  BY SumIsRecursion, Recursion, FS_EmptySet
<1> QED
  BY <1>1, <1>2

\* The sum depends on the values at the set's elements only.
LEMMA SumAgrees ==
  ASSUME NEW S, IsFiniteSet(S), NEW f, \A x \in S : f[x] \in Nat,
         NEW h, \A x \in S : h[x] = f[x]
  PROVE  SumFunctionOnSet(h, S) = SumFunctionOnSet(f, S)
<1>1. S \in SUBSET S
  OBVIOUS
<1>2. Sums(f, S)[S] = Sums(h, S)[S]
  BY <1>1, RecursionAgrees
<1> QED
  BY <1>2, SumIsRecursion

\* An element taken out of the set is taken out of the sum.
LEMMA SumRemove ==
  ASSUME NEW S, IsFiniteSet(S), NEW f, \A x \in S : f[x] \in Nat, NEW x \in S
  PROVE  SumFunctionOnSet(f, S) = f[x] + SumFunctionOnSet(f, S \ {x})
<1>1. S \in SUBSET S /\ S \ {x} \in SUBSET S
  OBVIOUS
<1>2. Sums(f, S)[S] = f[x] + Sums(f, S)[S \ {x}]
  BY <1>1, RecursionAnyElement
<1>3. Sums(f, S)[S \ {x}] = Sums(f, S \ {x})[S \ {x}]
  BY <1>1, RecursionAgrees
<1> QED
  BY <1>2, <1>3, SumIsRecursion

\* One value changed changes the sum by as much.
LEMMA SumChange ==
  ASSUME NEW S, IsFiniteSet(S), NEW f, NEW h, NEW x \in S,
         \A y \in S : f[y] \in Nat /\ h[y] \in Nat,
         \A y \in S \ {x} : h[y] = f[y]
  PROVE  SumFunctionOnSet(h, S) = SumFunctionOnSet(f, S) + h[x] - f[x]
<1>1. IsFiniteSet(S \ {x})
  BY FS_RemoveElement
<1>2. SumFunctionOnSet(f, S) = f[x] + SumFunctionOnSet(f, S \ {x})
  BY SumRemove
<1>3. SumFunctionOnSet(h, S) = h[x] + SumFunctionOnSet(h, S \ {x})
  BY SumRemove
<1>4. SumFunctionOnSet(h, S \ {x}) = SumFunctionOnSet(f, S \ {x})
  BY <1>1, SumAgrees
<1>5. SumFunctionOnSet(f, S \ {x}) \in Nat /\ f[x] \in Nat /\ h[x] \in Nat
  BY <1>1, SumType
<1> QED
  BY <1>2, <1>3, <1>4, <1>5

\* A number added to one value is added to the sum.
LEMMA SumAdd ==
  ASSUME NEW D, NEW f \in [D -> Nat], NEW h \in [D -> Nat], NEW S \in SUBSET D, IsFiniteSet(S),
         NEW x \in S, NEW n \in Nat, h[x] = f[x] + n, \A y \in D : y # x => h[y] = f[y]
  PROVE  /\ SumFunctionOnSet(f, S) \in Nat
         /\ SumFunctionOnSet(h, S) = SumFunctionOnSet(f, S) + n
<1>1. \A y \in S : f[y] \in Nat /\ h[y] \in Nat
  OBVIOUS
<1>2. \A y \in S \ {x} : h[y] = f[y]
  OBVIOUS
<1>3. SumFunctionOnSet(h, S) = SumFunctionOnSet(f, S) + h[x] - f[x]
  BY <1>1, <1>2, SumChange
<1>4. SumFunctionOnSet(f, S) \in Nat
  BY <1>1, SumType
<1>5. f[x] \in Nat
  BY <1>1
<1> QED
  BY <1>3, <1>4, <1>5

\* The sum of zeroes is zero.
LEMMA SumZero ==
  ASSUME NEW S, IsFiniteSet(S), NEW f, \A x \in S : f[x] = 0
  PROVE  SumFunctionOnSet(f, S) = 0
<1> DEFINE None == {T \in SUBSET S : SumFunctionOnSet(f, T) = 0}
<1>1. ASSUME NEW T \in SUBSET S, \A U \in SUBSET T : U # T => U \in None
      PROVE  T \in None
  <2>1. IsFiniteSet(T) /\ \A x \in T : f[x] \in Nat
    BY FS_Subset
  <2>2. CASE T = {}
    BY <2>1, <2>2, SumType
  <2>3. ASSUME NEW x \in T PROVE T \in None
    <3>1. SumFunctionOnSet(f, T) = f[x] + SumFunctionOnSet(f, T \ {x})
      BY <2>1, SumRemove
    <3>2. T \ {x} \in None
      BY <1>1, <2>3
    <3> QED
      BY <3>1, <3>2
  <2> QED
    BY <2>2, <2>3
<1>2. SUBSET S \subseteq None
  <2> HIDE DEF None
  <2> QED
    BY <1>1, SubsetInduction
<1> QED
  BY <1>2

\* The recursion that defines FlattenSeq.
FlattenStep(rs, f, k) == IF k = 1 THEN rs[k] ELSE f[k - 1] \o rs[k]
Flattens(rs, n, f) == f = [k \in 1 .. n |-> FlattenStep(rs, f, k)]

LEMMA FlattenExists ==
  ASSUME NEW rs, NEW n \in Nat
  PROVE  \E f : Flattens(rs, n, f)
<1> DEFINE OK == {m \in Nat : \E f : Flattens(rs, m, f)}
<1>1. 0 \in OK
  <2>1. Flattens(rs, 0, [k \in 1 .. 0 |-> << >>])
    BY DEF Flattens
  <2> QED
    BY <2>1
<1>2. ASSUME NEW m \in Nat, m \in OK PROVE m + 1 \in OK
  <2>1. PICK f : Flattens(rs, m, f)
    BY <1>2
  <2> DEFINE g == [k \in 1 .. m + 1 |-> FlattenStep(rs, f, k)]
  <2>2. \A k \in 1 .. m : g[k] = f[k]
    BY <2>1 DEF Flattens
  <2> HIDE DEF g
  <2>3. \A k \in 1 .. m + 1 : k # 1 => g[k - 1] = f[k - 1]
    BY <2>2
  <2>4. \A k \in 1 .. m + 1 : FlattenStep(rs, f, k) = FlattenStep(rs, g, k)
    BY <2>3 DEF FlattenStep
  <2>5. Flattens(rs, m + 1, g)
    BY <2>4 DEF Flattens, g
  <2> QED
    BY <2>5
<1> HIDE DEF OK
<1>3. n \in OK
  BY ONLY <1>1, <1>2, NatSetInduction, n \in Nat
<1> QED
  BY <1>3 DEF OK

\* Two sequences put together.
LEMMA JoinedSequences ==
  ASSUME NEW s \in Seq(Nat), NEW t \in Seq(Nat)
  PROVE  /\ s \o t \in Seq(Nat) /\ Len(s \o t) = Len(s) + Len(t)
         /\ \A p \in 1 .. Len(s) : (s \o t)[p] = s[p]
         /\ \A p \in 1 .. Len(t) : (s \o t)[Len(s) + p] = t[p]
OBVIOUS

\* Sequences with one more at the end are flattened by adding it.
LEMMA FlattenAppended ==
  ASSUME NEW T, NEW rs \in Seq(Seq(T)), NEW r \in Seq(T)
  PROVE  /\ FlattenSeq(rs) \in Seq(T)
         /\ FlattenSeq(Append(rs, r)) = FlattenSeq(rs) \o r
<1> DEFINE n == Len(rs)
           ts == Append(rs, r)
           f == CHOOSE g : Flattens(rs, n, g)
           h == CHOOSE g : Flattens(ts, Len(ts), g)
<1>1. /\ n \in Nat /\ Len(ts) = n + 1 /\ ts[n + 1] = r
      /\ \A k \in 1 .. n : ts[k] = rs[k] /\ rs[k] \in Seq(T)
  OBVIOUS
<1>2. Flattens(rs, n, f) /\ Flattens(ts, n + 1, h)
  <2>1. n + 1 \in Nat
    BY <1>1
  <2> QED
    BY <1>1, <2>1, FlattenExists
<1>3. /\ n # 0 => FlattenSeq(rs) = f[n]
      /\ FlattenSeq(ts) = h[n + 1]
  <2>1. ASSUME n # 0 PROVE FlattenSeq(rs) = f[n]
    BY <2>1 DEF FlattenSeq, Flattens, FlattenStep
  <2>2. Len(ts) # 0
    BY <1>1
  <2> HIDE DEF ts
  <2>3. FlattenSeq(ts) = h[Len(ts)]
    BY <2>2 DEF FlattenSeq, Flattens, FlattenStep
  <2> QED
    BY <1>1, <2>1, <2>3
<1>4. n = 0 => rs = << >> /\ FlattenSeq(rs) = << >>
  BY DEF FlattenSeq
<1> HIDE DEF ts, f, h, n
<1> DEFINE OK == {k \in Nat : k + 1 \in 1 .. n => f[k + 1] \in Seq(T) /\ h[k + 1] = f[k + 1]}
<1>5. 0 \in OK
  BY <1>1, <1>2 DEF Flattens, FlattenStep
<1>6. ASSUME NEW k \in Nat, k \in OK PROVE k + 1 \in OK
  <2> SUFFICES ASSUME (k + 1) + 1 \in 1 .. n
               PROVE  f[(k + 1) + 1] \in Seq(T) /\ h[(k + 1) + 1] = f[(k + 1) + 1]
    OBVIOUS
  <2>1. /\ k + 1 \in 1 .. n /\ (k + 1) + 1 # 1 /\ ((k + 1) + 1) - 1 = k + 1
        /\ (k + 1) + 1 \in 1 .. n + 1
    BY <1>1
  <2>2. f[k + 1] \in Seq(T) /\ h[k + 1] = f[k + 1]
    BY <1>6, <2>1
  <2>3. /\ f[(k + 1) + 1] = f[k + 1] \o rs[(k + 1) + 1]
        /\ h[(k + 1) + 1] = h[k + 1] \o ts[(k + 1) + 1]
    BY <1>2, <2>1 DEF Flattens, FlattenStep
  <2>4. rs[(k + 1) + 1] \in Seq(T) /\ ts[(k + 1) + 1] = rs[(k + 1) + 1]
    BY <1>1
  <2>5. f[k + 1] \o rs[(k + 1) + 1] \in Seq(T)
    BY <2>2, <2>4
  <2> QED
    BY ONLY <2>2, <2>3, <2>4, <2>5
<1>7. Nat \subseteq OK
  <2> HIDE DEF OK
  <2> QED
    BY <1>5, <1>6, NatSetInduction
<1>8. n # 0 => f[n] \in Seq(T) /\ h[n] = f[n]
  <2> SUFFICES ASSUME n # 0 PROVE f[n] \in Seq(T) /\ h[n] = f[n]
    OBVIOUS
  <2>1. n - 1 \in Nat /\ (n - 1) + 1 = n /\ n \in 1 .. n
    BY <1>1
  <2>2. n - 1 \in OK
    BY <1>7, <2>1
  <2> QED
    BY <2>1, <2>2
<1>9. h[n + 1] = IF n = 0 THEN r ELSE h[n] \o r
  <2>1. n + 1 \in 1 .. n + 1 /\ (n + 1 = 1 <=> n = 0) /\ (n + 1) - 1 = n
    BY <1>1
  <2> QED
    BY <1>1, <1>2, <2>1 DEF Flattens, FlattenStep
<1>10. << >> \o r = r /\ << >> \in Seq(T)
  OBVIOUS
<1> QED
  BY <1>3, <1>4, <1>8, <1>9, <1>10 DEF ts

\* Sequences of sequences are flattened one after the other.
LEMMA FlattenJoined ==
  ASSUME NEW T, NEW rs \in Seq(Seq(T)), NEW ts \in Seq(Seq(T))
  PROVE  /\ FlattenSeq(rs) \in Seq(T)
         /\ FlattenSeq(rs \o ts) = FlattenSeq(rs) \o FlattenSeq(ts)
<1> DEFINE s == FlattenSeq(rs)
           n == Len(ts)
           F(k) == SubSeq(ts, 1, k)
           OK == {k \in Nat : k <= n => /\ FlattenSeq(rs \o F(k)) = s \o FlattenSeq(F(k))
                                         /\ F(k) \in Seq(Seq(T))}
<1>0. n \in Nat /\ << >> \in Seq(T) /\ ts \in Seq(Seq(T))
  OBVIOUS
<1> DEFINE Q == Seq(T)
<1>6. /\ \A u, v, w \in Seq(T) : (u \o v) \o w = u \o (v \o w)
      /\ \A u, v, w \in Seq(Q) : (u \o v) \o w = u \o (v \o w)
  <2>1. \A u, v, w \in Seq(T) : (u \o v) \o w = u \o (v \o w)
    OBVIOUS
  <2> HIDE DEF Q
  <2>2. \A u, v, w \in Seq(Q) : (u \o v) \o w = u \o (v \o w)
    OBVIOUS
  <2> QED
    BY <2>1, <2>2
<1>1. s \in Seq(T)
  BY <1>0, FlattenAppended
<1>2. 0 \in OK
  <2>1. F(0) = << >> /\ << >> \in Seq(Seq(T))
    BY SubSeqEmpty
  <2>2. FlattenSeq(<< >>) = << >>
    BY DEF FlattenSeq
  <2>3. rs \o << >> = rs /\ s \o << >> = s
    BY ONLY <1>1, rs \in Seq(Seq(T)), ConcatEmptySeq
  <2> QED
    BY <2>1, <2>2, <2>3
<1>3. ASSUME NEW k \in Nat, k \in OK PROVE k + 1 \in OK
  <2> SUFFICES ASSUME k + 1 <= n
               PROVE  /\ FlattenSeq(rs \o F(k + 1)) = s \o FlattenSeq(F(k + 1))
                      /\ F(k + 1) \in Seq(Seq(T))
    OBVIOUS
  <2>1. /\ F(k) \in Seq(Seq(T)) /\ FlattenSeq(rs \o F(k)) = s \o FlattenSeq(F(k))
        /\ k + 1 \in 1 .. n /\ 1 \in 1 .. n /\ (k + 1) - 1 = k /\ k + 1 \in 1 .. Len(ts)
    BY <1>0, <1>3
  <2>2. ts[k + 1] \in Seq(T)
    BY <2>1
  <2>3. F(k + 1) = F(k) \o <<ts[k + 1]>>
    BY <2>1, SubSeqRecursiveSecond
  <2>4. F(k + 1) = Append(F(k), ts[k + 1])
    BY ONLY <2>1, <2>2, <2>3, AppendIsConcat
  <2> HIDE DEF F
  <2>5. rs \o F(k) \in Seq(Seq(T)) /\ <<ts[k + 1]>> \in Seq(Seq(T))
    BY <2>1, <2>2
  <2>6. rs \o F(k + 1) = Append(rs \o F(k), ts[k + 1])
    <3>1. rs \o F(k + 1) = (rs \o F(k)) \o <<ts[k + 1]>>
      <4>1. rs \in Seq(Q) /\ F(k) \in Seq(Q) /\ <<ts[k + 1]>> \in Seq(Q)
        BY <2>1, <2>5
      <4> HIDE DEF Q
      <4>2. (rs \o F(k)) \o <<ts[k + 1]>> = rs \o (F(k) \o <<ts[k + 1]>>)
        BY ONLY <1>6, <4>1
      <4> QED
        BY <2>3, <4>2
    <3> QED
      BY ONLY <2>2, <2>5, <3>1, AppendIsConcat
  <2>7. /\ FlattenSeq(F(k)) \in Seq(T)
        /\ FlattenSeq(F(k + 1)) = FlattenSeq(F(k)) \o ts[k + 1]
        /\ FlattenSeq(rs \o F(k + 1)) = FlattenSeq(rs \o F(k)) \o ts[k + 1]
    BY <2>1, <2>2, <2>4, <2>5, <2>6, FlattenAppended
  <2>8. (s \o FlattenSeq(F(k))) \o ts[k + 1] = s \o (FlattenSeq(F(k)) \o ts[k + 1])
    BY <1>1, <1>6, <2>2, <2>7
  <2>9. F(k + 1) \in Seq(Seq(T))
    <3>1. F(k) \o <<ts[k + 1]>> \in Seq(Q)
      BY <2>1, <2>5
    <3> QED
      BY <2>3, <3>1
  <2> QED
    BY <2>1, <2>7, <2>8, <2>9
<1>4. n \in OK
  <2> HIDE DEF OK
  <2> QED
    BY <1>0, <1>2, <1>3, NatSetInduction
<1>5. F(n) = ts
  BY SubSeqFull
<1>7. n <= n
  BY <1>0
<1> QED
  BY <1>1, <1>4, <1>5, <1>7

\* One sequence is flattened to itself.
LEMMA FlattenOne ==
  ASSUME NEW r
  PROVE  FlattenSeq(<<r>>) = r
<1>1. Len(<<r>>) = 1 /\ <<r>>[1] = r
  OBVIOUS
<1> DEFINE f == CHOOSE g : Flattens(<<r>>, 1, g)
<1>2. Flattens(<<r>>, 1, f)
  BY FlattenExists
<1>3. FlattenSeq(<<r>>) = f[1]
  BY <1>1 DEF FlattenSeq, Flattens, FlattenStep
<1> QED
  BY <1>1, <1>2, <1>3 DEF Flattens, FlattenStep
===============================================================================
