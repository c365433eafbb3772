---------------------------- MODULE SetOps_proofs ----------------------------
(***************************************************************************)
(* Theorems about the operations on sets, in two parts and their           *)
(* composition.  Bitsets and hybrid sets: for words of any number of bits, *)
(* any number of them, vectors of any length and sets that start and end   *)
(* wherever they like.  The prefix-short layout: for cells of any number   *)
(* of values that a word divides, any number of cells compared at once and *)
(* any sets.  What the two promise holds of the calls of SetOps, in which  *)
(* the operations on all layouts occur.                                    *)
(***************************************************************************)
EXTENDS SetOps, FiniteFacts

-----------------------------------------------------------------------------
\* A product grows with its factor.
LEMMA Products ==
  ASSUME NEW m \in Nat, NEW n \in Nat, NEW k \in Nat, m <= n
  PROVE  k * m \in Nat /\ k * m <= k * n /\ k * (m + 1) = k * m + k
<1>1. k * (n - m) >= 0
  BY n - m \in Nat
<1>2. k * (n - m) = k * n - k * m
  OBVIOUS
<1>3. k * m \in Nat /\ k * n \in Nat /\ k * (m + 1) = k * m + k
  OBVIOUS
<1> QED
  BY <1>1, <1>2, <1>3

\* Every number has its place in a word.
LEMMA PlaceOf ==
  ASSUME NEW x \in Nat
  PROVE  /\ word_index(x) \in Nat /\ bit(x) \in Bit
         /\ x = WordBits * word_index(x) + bit(x)
BY BitsetAssumption DEF word_index, bit, Bit

LEMMA AtPlace ==
  ASSUME NEW w \in Nat, NEW c \in Bit
  PROVE  /\ WordBits * w + c \in Nat
         /\ word_index(WordBits * w + c) = w /\ bit(WordBits * w + c) = c
<1> DEFINE x == WordBits * w + c
           v == word_index(x)
           d == bit(x)
<1>1. /\ WordBits \in Nat /\ WordBits > 0 /\ c \in Nat /\ c < WordBits
      /\ WordBits * w \in Nat /\ x \in Nat
  BY BitsetAssumption DEF Bit
<1>2. v \in Nat /\ d \in Nat /\ d < WordBits /\ x = WordBits * v + d
  BY <1>1, PlaceOf DEF Bit
<1>3. ASSUME v < w PROVE FALSE
  <2>1. WordBits * (v + 1) <= WordBits * w /\ WordBits * (v + 1) = WordBits * v + WordBits
        /\ WordBits * v \in Nat
    BY <1>1, <1>2, <1>3, Products
  <2> QED
    BY <1>1, <1>2, <2>1
<1>4. ASSUME w < v PROVE FALSE
  <2>1. WordBits * (w + 1) <= WordBits * v /\ WordBits * (w + 1) = WordBits * w + WordBits
        /\ WordBits * v \in Nat
    BY <1>1, <1>2, <1>4, Products
  <2> QED
    BY <1>1, <1>2, <2>1
<1>5. v = w
  <2>1. v \in Nat /\ ~(v < w) /\ ~(w < v)
    BY <1>2, <1>3, <1>4
  <2> HIDE DEF v
  <2> QED
    BY <2>1
<1>6. d = c
  <2>1. WordBits * w + c = WordBits * w + d
    BY <1>2, <1>5
  <2> HIDE DEF d
  <2> QED
    BY <1>1, <1>2, <2>1
<1> QED
  BY <1>1, <1>5, <1>6

LEMMA WordsOrdered ==
  ASSUME NEW x \in Nat, NEW y \in Nat
  PROVE  /\ x <= y => word_index(x) <= word_index(y)
         /\ word_index(x) < word_index(y) => x < y
         /\ word_index(x) = word_index(y) => (bit(x) < bit(y) <=> x < y)
<1> DEFINE v == word_index(x)
           w == word_index(y)
<1>1. /\ WordBits \in Nat /\ v \in Nat /\ w \in Nat
      /\ x = WordBits * v + bit(x) /\ y = WordBits * w + bit(y)
      /\ bit(x) \in 0 .. WordBits - 1 /\ bit(y) \in 0 .. WordBits - 1
  BY BitsetAssumption, PlaceOf DEF Bit
<1>2. ASSUME v < w PROVE x < y
  <2>1. WordBits * (v + 1) <= WordBits * w /\ WordBits * (v + 1) = WordBits * v + WordBits
        /\ WordBits * v \in Nat /\ WordBits * w \in Nat
    BY <1>1, <1>2, Products
  <2> QED
    BY <1>1, <2>1
<1>3. ASSUME w < v PROVE y < x
  <2>1. WordBits * (w + 1) <= WordBits * v /\ WordBits * (w + 1) = WordBits * w + WordBits
        /\ WordBits * v \in Nat /\ WordBits * w \in Nat
    BY <1>1, <1>3, Products
  <2> QED
    BY <1>1, <2>1
<1>4. ASSUME v = w PROVE bit(x) < bit(y) <=> x < y
  <2>1. WordBits * v \in Nat /\ WordBits * v = WordBits * w
    BY <1>1, <1>4
  <2> QED
    BY <1>1, <2>1
<1> HIDE DEF v, w
<1>5. x <= y => v <= w
  <2>1. v \in Nat /\ w \in Nat /\ (w < v => y < x)
    BY <1>1, <1>3
  <2> QED
    BY ONLY <2>1, x \in Nat, y \in Nat
<1> QED
  BY <1>2, <1>4, <1>5 DEF v, w

LEMMA InUniverse ==
  /\ Universe \subseteq Nat /\ IsFiniteSet(Universe)
  /\ \A x \in Nat : x \in Universe <=> word_index(x) < Words
<1>1. Words \in Nat /\ Words > 0 /\ WordBits \in Nat /\ WordBits > 0 /\ Words * WordBits \in Nat
      /\ Words * WordBits = WordBits * Words
  BY BitsetAssumption
<1>2. Universe \subseteq Nat /\ IsFiniteSet(Universe)
  BY <1>1, FS_Interval DEF Universe
<1>3. ASSUME NEW x \in Nat PROVE x \in Universe <=> word_index(x) < Words
  <2> DEFINE v == word_index(x)
             c == bit(x)
  <2>1. v \in Nat /\ c \in 0 .. WordBits - 1 /\ x = WordBits * v + c /\ WordBits * v \in Nat
    BY <1>1, PlaceOf DEF Bit
  <2>2. ASSUME v < Words PROVE x < Words * WordBits
    <3>1. WordBits * (v + 1) <= WordBits * Words /\ WordBits * (v + 1) = WordBits * v + WordBits
      BY <1>1, <2>1, <2>2, Products
    <3> QED
      BY <1>1, <2>1, <3>1
  <2>3. ASSUME Words <= v PROVE Words * WordBits <= x
    <3>1. WordBits * Words <= WordBits * v
      BY <1>1, <2>1, <2>3, Products
    <3> QED
      BY <1>1, <2>1, <3>1
  <2> HIDE DEF v, c
  <2>4. x \in Universe <=> x < Words * WordBits
    BY <1>1 DEF Universe
  <2> QED
    BY <1>1, <2>1, <2>2, <2>3, <2>4 DEF v
<1> QED
  BY <1>2, <1>3
-----------------------------------------------------------------------------
\* The words of a bitset lie among those that are considered.
IsBitset(S) ==
  /\ S = [index |-> S.index, words |-> S.words]
  /\ S.index \in Nat /\ S.words \in Seq(SUBSET Bit)
  /\ S.index + Len(S.words) <= Words

\* Its elements are those of X.
Holds(S, X) ==
  /\ IsBitset(S) /\ X \subseteq Universe
  /\ \A x \in Universe : IsSet(x, S) <=> x \in X

LEMMA ElementsHeld ==
  ASSUME NEW S, NEW X, Holds(S, X)
  PROVE  Elements(S) = X
<1>1. /\ S.index \in Nat /\ S.words \in Seq(SUBSET Bit) /\ Len(S.words) \in Nat
      /\ S.index + Len(S.words) <= Words /\ DOMAIN S.words = 1 .. Len(S.words)
      /\ Words \in Nat
  BY BitsetAssumption DEF Holds, IsBitset
<1>2. ASSUME NEW w \in 1 .. Len(S.words), NEW c \in S.words[w]
      PROVE  WordBits * (S.index + w - 1) + c \in X
  <2> DEFINE v == S.index + w - 1
             x == WordBits * v + c
  <2>1. v \in Nat /\ v < Words /\ c \in Bit /\ v - S.index + 1 = w
        /\ v < Len(S.words) + S.index /\ v >= S.index
    BY <1>1, <1>2
  <2>2. x \in Nat /\ word_index(x) = v /\ bit(x) = c
    BY <2>1, AtPlace
  <2> HIDE DEF x, v
  <2>3. x \in Universe
    BY <2>1, <2>2, InUniverse
  <2>4. IsSet(x, S)
    <3>1. word_index(x) - S.index + 1 = w /\ bit(x) \in S.words[w]
      BY <1>2, <2>1, <2>2
    <3>2. bit(x) \in S.words[word_index(x) - S.index + 1]
      BY ONLY <3>1
    <3> QED
      BY <2>1, <2>2, <3>2 DEF IsSet
  <2>5. x \in X
    BY <2>3, <2>4 DEF Holds
  <2> QED
    BY <2>5 DEF x, v
<1>3. ASSUME NEW x \in X
      PROVE  \E w \in 1 .. Len(S.words) : \E c \in S.words[w] :
               x = WordBits * (S.index + w - 1) + c
  <2> DEFINE w == word_index(x) - S.index + 1
  <2>1. x \in Universe /\ x \in Nat /\ IsSet(x, S)
    BY InUniverse DEF Holds
  <2>2. word_index(x) \in Nat /\ x = WordBits * word_index(x) + bit(x)
    BY <2>1, PlaceOf
  <2>3. /\ w \in 1 .. Len(S.words) /\ bit(x) \in S.words[w]
        /\ S.index + w - 1 = word_index(x)
    <3>1. /\ word_index(x) < Len(S.words) + S.index /\ word_index(x) >= S.index
          /\ bit(x) \in S.words[w]
      BY <2>1 DEF IsSet
    <3> QED
      BY <1>1, <2>2, <3>1
  <2> HIDE DEF w
  <2> QED
    BY <2>2, <2>3
<1> QED
  BY <1>1, <1>2, <1>3 DEF Elements
\* A set of numbers with a bound has a greatest one.
LEMMA GreatestNumber ==
  ASSUME NEW X, IsFiniteSet(X), X \subseteq Int, X # {}
  PROVE  \E x \in X : \A y \in X : y <= x
<1>1. Cardinality(X) \in Nat /\ Cardinality(X) # 0
  BY FS_CardinalityType, FS_EmptySet
<1>2. Cardinality(X) - 1 \in 0 .. Cardinality(X) - 1
  BY <1>1
<1>3. PICK x \in X : RankIn(X, x) = Cardinality(X) - 1
  BY <1>2, Ranks
<1>4. ASSUME NEW y \in X PROVE y <= x
  <2>1. RankIn(X, y) \in 0 .. Cardinality(X) - 1 /\ (x < y <=> RankIn(X, x) < RankIn(X, y))
    BY Ranks
  <2>2. ~(RankIn(X, x) < RankIn(X, y))
    BY ONLY <1>1, <1>3, <2>1
  <2>3. ~(x < y)
    BY ONLY <2>1, <2>2
  <2> QED
    BY <2>3
<1> QED
  BY <1>4

LEMMA SpanHolds ==
  ASSUME NEW X \in SUBSET Universe, NEW v \in Nat, NEW n \in Nat, v + n <= Words,
         \A x \in X : v <= word_index(x) /\ word_index(x) < v + n
  PROVE  Holds(Span(X, v, n), X)
<1> DEFINE S == Span(X, v, n)
           At(w) == {bit(x) : x \in {y \in X : word_index(y) = v + w - 1}}
<1>1. S.index = v /\ S.words = [w \in 1 .. n |-> At(w)] /\ S = [index |-> S.index, words |-> S.words]
  BY DEF Span
<1>2. \A x \in X : x \in Nat /\ bit(x) \in Bit
  BY InUniverse, PlaceOf
<1>3. S.words \in Seq(SUBSET Bit) /\ Len(S.words) = n
  <2>1. \A w \in 1 .. n : At(w) \in SUBSET Bit
    BY <1>2
  <2> HIDE DEF At, S
  <2> QED
    BY <1>1, <2>1
<1>4. ASSUME NEW x \in Universe PROVE IsSet(x, S) <=> x \in X
  <2> DEFINE w == word_index(x) - v + 1
  <2>1. x \in Nat /\ word_index(x) \in Nat /\ x = WordBits * word_index(x) + bit(x)
    BY InUniverse, PlaceOf
  <2>2. ASSUME IsSet(x, S) PROVE x \in X
    <3>1. word_index(x) < n + v /\ word_index(x) >= v /\ bit(x) \in S.words[w]
      BY <1>1, <1>3, <2>2 DEF IsSet
    <3>2. w \in 1 .. n /\ v + w - 1 = word_index(x)
      BY <2>1, <3>1
    <3>3. bit(x) \in At(w)
      BY <1>1, <3>1, <3>2
    <3>4. PICK y \in X : word_index(y) = v + w - 1 /\ bit(y) = bit(x)
      BY <3>3
    <3>5. y = WordBits * word_index(y) + bit(y)
      BY <1>2, PlaceOf
    <3> QED
      BY <2>1, <3>2, <3>4, <3>5
  <2>3. ASSUME x \in X PROVE IsSet(x, S)
    <3>1. w \in 1 .. n /\ v + w - 1 = word_index(x)
      BY <2>1, <2>3
    <3>2. bit(x) \in At(w)
      BY <2>3, <3>1
    <3>3. bit(x) \in S.words[w]
      BY <1>1, <3>1, <3>2
    <3>4. word_index(x) < Len(S.words) + S.index /\ word_index(x) >= S.index
      BY <1>1, <1>3, <2>1, <2>3
    <3> QED
      BY <1>1, <3>3, <3>4 DEF IsSet
  <2> QED
    BY <2>2, <2>3
<1> HIDE DEF S
<1>5. IsBitset(S)
  BY <1>1, <1>3 DEF IsBitset
<1>6. Holds(S, X)
  BY <1>4, <1>5 DEF Holds
<1> QED
  BY <1>6 DEF S

\* Whatever is in the memory, building leaves the words from that of the first element
\* to that of the last.
LEMMA BuildIsSpan ==
  ASSUME NEW X \in SUBSET Universe, X # {}, NEW memory
  PROVE  /\ Min(X) \in X /\ Max(X) \in X /\ \A x \in X : Min(X) <= x /\ x <= Max(X)
         /\ Build(X, memory) =
              Span(X, word_index(Min(X)), word_index(Max(X)) - word_index(Min(X)) + 1)
<1> DEFINE v == word_index(Min(X))
           n == word_index(Max(X)) - v
           At(w) == {y \in X : word_index(y) = v + w}
<1>1. X \subseteq Nat /\ IsFiniteSet(X) /\ X \subseteq Int
  <2>1. IsFiniteSet(Universe) /\ Universe \subseteq Nat
    BY InUniverse
  <2>2. IsFiniteSet(X)
    BY ONLY <2>1, X \in SUBSET Universe, FS_Subset
  <2> QED
    BY <2>1, <2>2
<1>2. \E x \in X : \A y \in X : x <= y
  BY <1>1, LeastNumber
<1>3. Min(X) \in X /\ \A x \in X : Min(X) <= x
  BY <1>2 DEF Min
<1>4. \E x \in X : \A y \in X : y <= x
  BY <1>1, GreatestNumber
<1>5. Max(X) \in X /\ \A x \in X : x <= Max(X)
  BY <1>4 DEF Max
<1>6. v \in Nat /\ word_index(Max(X)) \in Nat /\ v <= word_index(Max(X)) /\ n \in Nat
  <2>1. Min(X) \in Nat /\ Max(X) \in Nat /\ Min(X) <= Max(X)
    BY <1>1, <1>3, <1>5
  <2>2. v \in Nat /\ word_index(Max(X)) \in Nat /\ v <= word_index(Max(X))
    BY <2>1, PlaceOf, WordsOrdered
  <2> HIDE DEF v
  <2> QED
    BY <2>2
<1>7. \A w \in 1 .. n + 1 : ~(w <= n) => At(w - 1) # {}
  <2> SUFFICES ASSUME NEW w \in 1 .. n + 1, ~(w <= n) PROVE Max(X) \in At(w - 1)
    OBVIOUS
  <2>1. w - 1 = n /\ v + n = word_index(Max(X))
    BY <1>6
  <2> QED
    BY <1>5, <2>1
<1>8. \A w \in 1 .. n + 1 : v + (w - 1) = v + w - 1
  BY <1>6
<1> QED
  BY <1>3, <1>5, <1>7, <1>8 DEF Build, Span

LEMMA ArrayHolds ==
  ASSUME NEW X \in SUBSET Universe
  PROVE  Holds(FromArray(X), X)
<1>1. CASE X = {}
  <2>1. NoBytes = Span({}, 0, 0)
    BY DEF NoBytes, Span
  <2>2. Holds(Span({}, 0, 0), {})
    BY SpanHolds, BitsetAssumption
  <2> QED
    BY <1>1, <2>1, <2>2 DEF FromArray
<1>2. CASE X # {}
  <2> DEFINE v == word_index(Min(X))
             u == word_index(Max(X))
             n == u - v + 1
  <2>1. /\ Min(X) \in X /\ Max(X) \in X /\ \A x \in X : Min(X) <= x /\ x <= Max(X)
        /\ Build(X, Bit) = Span(X, v, n)
    BY <1>2, BuildIsSpan
  <2>2. \A x \in X : x \in Nat /\ word_index(x) \in Nat /\ word_index(x) < Words
    BY InUniverse, PlaceOf
  <2>3. v \in Nat /\ u \in Nat /\ v <= u /\ u < Words
        /\ \A x \in X : v <= word_index(x) /\ word_index(x) <= u
    BY <2>1, <2>2, WordsOrdered
  <2>4. v \in Nat /\ n \in Nat /\ v + n <= Words
        /\ \A x \in X : v <= word_index(x) /\ word_index(x) < v + n
    <3> HIDE DEF v, u
    <3> QED
      BY <2>2, <2>3, BitsetAssumption
  <2> HIDE DEF v, n
  <2>5. Holds(Span(X, v, n), X)
    BY ONLY <2>4, X \in SUBSET Universe, SpanHolds
  <2> QED
    BY <1>2, <2>1, <2>5 DEF FromArray, v, n
<1> QED
  BY <1>1, <1>2
-----------------------------------------------------------------------------
\* s holds the elements of X in increasing order.
Lists(s, X) ==
  /\ X \subseteq Nat /\ s \in Seq(Nat)
  /\ \A p \in 1 .. Len(s) : s[p] \in X
  /\ \A x \in X : \E p \in 1 .. Len(s) : s[p] = x
  /\ \A p, q \in 1 .. Len(s) : p < q => s[p] < s[q]

LEMMA ListsIncreasing ==
  ASSUME NEW X \in SUBSET Nat, IsFiniteSet(X)
  PROVE  Lists(Increasing(X), X) /\ Len(Increasing(X)) = Cardinality(X)
<1> DEFINE s == Increasing(X)
<1>1. X \subseteq Int
  OBVIOUS
<1>2. /\ Cardinality(X) \in Nat /\ s \in Seq(X) /\ Len(s) = Cardinality(X) /\ ToSet(s) = X
      /\ \A p \in 1 .. Cardinality(X) : s[p] \in X /\ RankIn(X, s[p]) = p - 1
  BY ONLY <1>1, IsFiniteSet(X), IncreasingPlaces
<1>3. \A x, y \in X : x < y <=> RankIn(X, x) < RankIn(X, y)
  BY ONLY <1>1, IsFiniteSet(X), Ranks
<1> HIDE DEF s
<1>4. s \in Seq(Nat)
  <2>1. s \in [1 .. Cardinality(X) -> X]
    BY <1>2
  <2>2. s \in [1 .. Cardinality(X) -> Nat]
    BY <2>1
  <2> QED
    BY ONLY <1>2, <2>2
<1>5. \A p, q \in 1 .. Len(s) : p < q => s[p] < s[q]
  <2> SUFFICES ASSUME NEW p \in 1 .. Len(s), NEW q \in 1 .. Len(s), p < q PROVE s[p] < s[q]
    OBVIOUS
  <2>1. s[p] \in X /\ s[q] \in X /\ RankIn(X, s[p]) = p - 1 /\ RankIn(X, s[q]) = q - 1
    BY <1>2
  <2>2. p - 1 < q - 1
    BY <1>2
  <2> QED
    BY <1>3, <2>1, <2>2
<1>6. \A x \in X : \E p \in 1 .. Len(s) : s[p] = x
  BY <1>2 DEF ToSet
<1> QED
  BY <1>2, <1>4, <1>5, <1>6 DEF Lists, s

LEMMA ListsToSet ==
  ASSUME NEW s, NEW X, Lists(s, X)
  PROVE  ToSet(s) = X
<1>1. DOMAIN s = 1 .. Len(s)
  BY DEF Lists
<1> QED
  BY <1>1 DEF Lists, ToSet

\* There is only one such sequence.
LEMMA ListsUnique ==
  ASSUME NEW s, NEW X, Lists(s, X)
  PROVE  s = Increasing(X) /\ IsFiniteSet(X)
<1> DEFINE n == Len(s)
<1>1. /\ X \subseteq Nat /\ X \subseteq Int /\ n \in Nat /\ s \in [1 .. n -> X]
      /\ \A x \in X : \E p \in 1 .. n : s[p] = x
      /\ \A p, q \in 1 .. n : p < q => s[p] < s[q]
      /\ \A p \in 1 .. n : s[p] \in X /\ s[p] \in Nat
  BY DEF Lists
<1>2. \A p, q \in 1 .. n : s[p] = s[q] => p = q
  <2> SUFFICES ASSUME NEW p \in 1 .. n, NEW q \in 1 .. n, p # q PROVE s[p] # s[q]
    OBVIOUS
  <2>1. p < q \/ q < p
    BY <1>1
  <2>2. s[p] < s[q] \/ s[q] < s[p]
    BY <1>1, <2>1
  <2> QED
    BY <1>1, <2>2
<1> HIDE DEF n
<1>3. IsFiniteSet(X) /\ Cardinality(X) = n
  BY <1>1, <1>2, WithoutRepetition
<1>4. ASSUME NEW p \in 1 .. n PROVE RankIn(X, s[p]) = p - 1
  <2> DEFINE below == {y \in X : y < s[p]}
             t == [q \in 1 .. p - 1 |-> s[q]]
  <2>1. p - 1 \in Nat /\ \A q \in 1 .. p - 1 : q \in 1 .. n /\ q < p
    BY <1>1
  <2>2. t \in [1 .. p - 1 -> below]
    BY <1>1, <2>1
  <2>3. ASSUME NEW x \in below PROVE \E q \in 1 .. p - 1 : t[q] = x
    <3>1. PICK q \in 1 .. n : s[q] = x
      BY <1>1
    <3>2. s[q] < s[p] /\ s[q] \in Nat /\ s[p] \in Nat
      BY <1>1, <3>1
    <3>3. ~(p < q) /\ p # q
      BY <1>1, <3>2
    <3>4. q \in 1 .. p - 1
      BY <1>1, <3>3
    <3> QED
      BY <3>1, <3>4
  <2>4. \A q, r \in 1 .. p - 1 : t[q] = t[r] => q = r
    BY <1>2, <2>1
  <2> HIDE DEF below, t
  <2>5. Cardinality(below) = p - 1
    BY <2>1, <2>2, <2>3, <2>4, WithoutRepetition
  <2> QED
    BY <2>5 DEF RankIn, below
<1>5. \A x, y \in X : x < y <=> RankIn(X, x) < RankIn(X, y)
  BY ONLY <1>1, <1>3, Ranks
<1>6. ASSUME NEW p \in 1 .. n, NEW x \in X, RankIn(X, x) = p - 1 PROVE x = s[p]
  <2>1. RankIn(X, s[p]) = p - 1 /\ s[p] \in X /\ p - 1 \in Int
    BY <1>1, <1>4
  <2>2. ~(x < s[p]) /\ ~(s[p] < x)
    BY <1>5, <1>6, <2>1
  <2>3. x \in Nat /\ s[p] \in Nat
    BY <1>1
  <2> QED
    BY ONLY <2>2, <2>3
<1>7. \A p \in 1 .. n : s[p] = CHOOSE x \in X : Cardinality({y \in X : y < x}) = p - 1
  <2> TAKE p \in 1 .. n
  <2>1. s[p] \in X /\ RankIn(X, s[p]) = p - 1
    BY <1>1, <1>4
  <2>2. \A x \in X : Cardinality({y \in X : y < x}) = p - 1 => x = s[p]
    BY <1>6 DEF RankIn
  <2>3. Cardinality({y \in X : y < s[p]}) = p - 1
    BY <2>1 DEF RankIn
  <2> QED
    BY <2>1, <2>2, <2>3
<1>8. s = [p \in 1 .. n |-> s[p]]
  BY <1>1
<1> QED
  BY <1>3, <1>7, <1>8 DEF Increasing

LEMMA ListsJoined ==
  ASSUME NEW s, NEW X, Lists(s, X), NEW t, NEW Y, Lists(t, Y),
         \A x \in X, y \in Y : x < y
  PROVE  Lists(s \o t, X \cup Y)
<1> DEFINE m == Len(s)
           n == Len(t)
           u == s \o t
<1>1. /\ s \in Seq(Nat) /\ t \in Seq(Nat) /\ m \in Nat /\ n \in Nat
      /\ X \subseteq Nat /\ Y \subseteq Nat
      /\ \A p \in 1 .. m : s[p] \in X
      /\ \A p \in 1 .. n : t[p] \in Y
      /\ \A x \in X : \E p \in 1 .. m : s[p] = x
      /\ \A y \in Y : \E p \in 1 .. n : t[p] = y
      /\ \A p, q \in 1 .. m : p < q => s[p] < s[q]
      /\ \A p, q \in 1 .. n : p < q => t[p] < t[q]
  BY DEF Lists
<1>2. /\ u \in Seq(Nat) /\ Len(u) = m + n
      /\ \A p \in 1 .. m : u[p] = s[p]
      /\ \A p \in 1 .. n : u[m + p] = t[p]
  BY <1>1
<1> HIDE DEF u, m, n
<1>3. \A p \in 1 .. m + n : p \in 1 .. m \/ (p - m \in 1 .. n /\ p = m + (p - m))
  BY <1>1
<1>4. \A p \in 1 .. m + n : \/ p \in 1 .. m /\ u[p] = s[p]
                            \/ p - m \in 1 .. n /\ p = m + (p - m) /\ u[p] = t[p - m]
  BY <1>2, <1>3
<1>5. \A p \in 1 .. m + n : u[p] \in X \cup Y
  BY <1>1, <1>4
<1>6. \A x \in X \cup Y : \E p \in 1 .. m + n : u[p] = x
  <2>1. ASSUME NEW x \in X PROVE \E p \in 1 .. m + n : u[p] = x
    <3>1. PICK p \in 1 .. m : s[p] = x
      BY <1>1
    <3>2. p \in 1 .. m + n
      BY <1>1
    <3> QED
      BY <1>2, <3>1, <3>2
  <2>2. ASSUME NEW x \in Y PROVE \E p \in 1 .. m + n : u[p] = x
    <3>1. PICK p \in 1 .. n : t[p] = x
      BY <1>1
    <3>2. m + p \in 1 .. m + n
      BY <1>1
    <3> QED
      BY <1>2, <3>1, <3>2
  <2> QED
    BY <2>1, <2>2
<1>7. ASSUME NEW p \in 1 .. m + n, NEW q \in 1 .. m + n, p < q PROVE u[p] < u[q]
  <2>1. CASE p \in 1 .. m /\ q \in 1 .. m
    BY <1>1, <1>2, <1>7, <2>1
  <2>2. CASE p \in 1 .. m /\ q - m \in 1 .. n
    <3>1. u[p] = s[p] /\ u[m + (q - m)] = t[q - m] /\ m + (q - m) = q
      BY <1>1, <1>2, <2>2
    <3> QED
      BY <1>1, <2>2, <3>1
  <2>3. CASE p - m \in 1 .. n /\ q - m \in 1 .. n
    <3>1. /\ u[m + (p - m)] = t[p - m] /\ m + (p - m) = p
          /\ u[m + (q - m)] = t[q - m] /\ m + (q - m) = q /\ p - m < q - m
      BY <1>1, <1>2, <1>7, <2>3
    <3> QED
      BY <1>1, <2>3, <3>1
  <2>4. CASE p - m \in 1 .. n /\ q \in 1 .. m
    BY <1>1, <1>7, <2>4
  <2> QED
    BY <1>3, <2>1, <2>2, <2>3, <2>4
<1>8. X \cup Y \subseteq Nat
  BY <1>1
<1> QED
  BY <1>2, <1>5, <1>6, <1>7, <1>8 DEF Lists, u

LEMMA ListsAppended ==
  ASSUME NEW s, NEW X, Lists(s, X), NEW y \in Nat, \A x \in X : x < y
  PROVE  Lists(Append(s, y), X \cup {y})
<1>1. Lists(<<y>>, {y})
  <2>1. <<y>> \in Seq(Nat) /\ Len(<<y>>) = 1 /\ <<y>>[1] = y /\ 1 .. 1 = {1}
    OBVIOUS
  <2> QED
    BY <2>1 DEF Lists
<1>2. s \in Seq(Nat)
  BY DEF Lists
<1>3. Append(s, y) = s \o <<y>>
  BY <1>2
<1> QED
  BY <1>1, <1>3, ListsJoined
-----------------------------------------------------------------------------
\* The elements that the bits of word number v stand for.
InWord(v, word) == {WordBits * v + c : c \in word}

LEMMA BitsFinite ==
  /\ Bit \subseteq Nat /\ IsFiniteSet(Bit)
  /\ \A word \in SUBSET Bit : IsFiniteSet(word) /\ word \in SUBSET Nat
<1>1. Bit \subseteq Nat /\ IsFiniteSet(Bit)
  BY BitsetAssumption, FS_Interval DEF Bit
<1> QED
  BY <1>1, FS_Subset

\* Decoding a word lists its elements.
LEMMA WordDecoded ==
  ASSUME NEW v \in Nat, NEW word \in SUBSET Bit
  PROVE  Lists([p \in 1 .. Cardinality(word) |-> WordBits * v + Increasing(word)[p]],
               InWord(v, word))
<1> DEFINE s == Increasing(word)
           n == Cardinality(word)
           t == [p \in 1 .. n |-> WordBits * v + s[p]]
<1>1. word \in SUBSET Nat /\ IsFiniteSet(word) /\ n \in Nat
  BY BitsFinite, FS_CardinalityType
<1>2. Lists(s, word) /\ Len(s) = n
  BY <1>1, ListsIncreasing
<1>3. /\ \A p \in 1 .. n : s[p] \in word
      /\ \A c \in word : \E p \in 1 .. n : s[p] = c
      /\ \A p, q \in 1 .. n : p < q => s[p] < s[q]
  BY <1>2 DEF Lists
<1>4. WordBits * v \in Nat /\ InWord(v, word) \subseteq Nat
  BY <1>1, BitsetAssumption DEF InWord
<1> HIDE DEF s, n
<1>5. /\ t \in Seq(Nat) /\ Len(t) = n
      /\ \A p \in 1 .. n : t[p] = WordBits * v + s[p]
  <2>1. \A p \in 1 .. n : s[p] \in Nat
    BY <1>1, <1>3
  <2>2. \A p \in 1 .. n : WordBits * v + s[p] \in Nat
    BY ONLY <1>4, <2>1
  <2> QED
    BY ONLY <1>1, <2>2
<1> DEFINE base == WordBits * v
<1>6. \A p, q \in 1 .. n : p < q => t[p] < t[q]
  <2> SUFFICES ASSUME NEW p \in 1 .. n, NEW q \in 1 .. n, p < q PROVE t[p] < t[q]
    OBVIOUS
  <2>1. s[p] < s[q] /\ s[p] \in Nat /\ s[q] \in Nat /\ t[p] = base + s[p] /\ t[q] = base + s[q]
        /\ base \in Nat
    BY <1>1, <1>3, <1>4, <1>5
  <2> HIDE DEF base, t
  <2> QED
    BY <2>1
<1>7. /\ \A p \in 1 .. n : t[p] \in InWord(v, word)
      /\ \A x \in InWord(v, word) : \E p \in 1 .. n : t[p] = x
  BY <1>3, <1>5 DEF InWord
<1> HIDE DEF t
<1>8. Lists(t, InWord(v, word))
  BY <1>4, <1>5, <1>6, <1>7 DEF Lists
<1> QED
  BY <1>8 DEF t, n, s

\* Sequences that list sets of ever larger elements list them all when they are laid
\* end to end.
LEMMA ListsFlattened ==
  ASSUME NEW n \in Nat \ {0}, NEW rs, Len(rs) = n, NEW X,
         \A k \in 1 .. n : Lists(rs[k], X[k]),
         \A k, m \in 1 .. n : k < m => \A x \in X[k], y \in X[m] : x < y
  PROVE  Lists(FlattenSeq(rs), UNION {X[k] : k \in 1 .. n})
<1> DEFINE Upto(m) == UNION {X[k] : k \in 1 .. m}
<1> DEFINE f == CHOOSE g : Flattens(rs, n, g)
<1>1. Flattens(rs, n, f)
  BY FlattenExists
<1>2. FlattenSeq(rs) = f[n]
  BY DEF FlattenSeq, Flattens, FlattenStep
<1> HIDE DEF f
<1> DEFINE OK == {k \in Nat : k + 1 \in 1 .. n => Lists(f[k + 1], Upto(k + 1))}
<1>3. 0 \in OK
  <2>1. f[1] = rs[1] /\ 1 \in 1 .. n
    BY <1>1 DEF Flattens, FlattenStep
  <2>2. Upto(1) = X[1]
    OBVIOUS
  <2>3. Lists(f[1], Upto(1))
    BY <2>1, <2>2
  <2> QED
    BY <2>3
<1>4. ASSUME NEW k \in Nat, k \in OK PROVE k + 1 \in OK
  <2> SUFFICES ASSUME (k + 1) + 1 \in 1 .. n PROVE Lists(f[(k + 1) + 1], Upto((k + 1) + 1))
    OBVIOUS
  <2> DEFINE m == k + 1
  <2>1. m \in 1 .. n /\ m + 1 \in 1 .. n /\ m + 1 # 1 /\ (m + 1) - 1 = m
    OBVIOUS
  <2>2. Lists(f[m], Upto(m))
    BY <1>4, <2>1
  <2>3. f[m + 1] = f[m] \o rs[m + 1]
    BY <1>1, <2>1 DEF Flattens, FlattenStep
  <2>4. Upto(m + 1) = Upto(m) \cup X[m + 1]
    <3>1. 1 .. m + 1 = (1 .. m) \cup {m + 1}
      OBVIOUS
    <3> HIDE DEF m
    <3> QED
      BY <3>1
  <2>5. ASSUME NEW x \in Upto(m), NEW y \in X[m + 1] PROVE x < y
    <3>1. PICK h \in 1 .. m : x \in X[h]
      OBVIOUS
    <3>2. h \in 1 .. n /\ h < m + 1
      BY <2>1
    <3> QED
      BY <2>1, <3>1, <3>2
  <2>6. Lists(rs[m + 1], X[m + 1])
    BY <2>1
  <2> HIDE DEF m, Upto
  <2>7. Lists(f[m] \o rs[m + 1], Upto(m) \cup X[m + 1])
    BY ONLY <2>2, <2>5, <2>6, ListsJoined
  <2>8. Lists(f[m + 1], Upto(m + 1))
    BY <2>3, <2>4, <2>7
  <2> QED
    BY <2>8 DEF m
<1> HIDE DEF OK, Upto
<1>5. n - 1 \in Nat /\ n - 1 \in OK
  BY ONLY <1>3, <1>4, NatSetInduction, n \in Nat \ {0}
<1>6. Lists(f[n], Upto(n))
  <2>1. (n - 1) + 1 = n /\ n \in 1 .. n
    OBVIOUS
  <2> QED
    BY <1>5, <2>1 DEF OK
<1> QED
  BY <1>2, <1>6 DEF Upto
-----------------------------------------------------------------------------
\* What each operation knows of its operands and has put into its result.

IntersectInv ==
  op = "intersect" =>
    /\ Holds(A, a) /\ Holds(B, b)
    /\ i <= total_size
    /\ C = [index |-> C.index, words |-> C.words]
    /\ C.words \in Seq(SUBSET Bit) /\ Len(C.words) = i
    /\ C.index = IF i = 0 THEN 0 ELSE start_index
    /\ \A w \in 1 .. i : C.words[w] = AWord(w - 1) \cap BWord(w - 1)
    /\ done => i = total_size

UnionInv ==
  op = "union" =>
    /\ A.index = 0 /\ s_a = Words /\ Holds(B, b)
    /\ i <= total_size
    /\ Holds(A, a \cup {x \in b : word_index(x) < start_index + i})
    /\ done => i = total_size

DifferenceInv ==
  op = "difference" =>
    /\ Holds(A, a) /\ Holds(B, b)
    /\ A.index = 0 /\ B.index = 0 /\ s_a = Words /\ s_b > 0
    /\ i <= Words
    /\ Lists(C, {x \in a \ b : word_index(x) < i})
    /\ done => i = Words

\* The first n elements of a set, in order.
FirstOf(X, n) == {Increasing(X)[p] : p \in 1 .. n}

ProbeInv ==
  op = "probe" =>
    /\ Holds(B, b)
    /\ i <= Cardinality(a)
    /\ Lists(C, FirstOf(a, i) \cap b)
    /\ done => Lists(C, a \cap b)

AddInv ==
  op = "add" =>
    /\ A.index = 0 /\ s_a = Words
    /\ i <= Cardinality(b)
    /\ Holds(A, a \cup FirstOf(b, i))
    /\ done => i = Cardinality(b)

UntilInv ==
  op = "foreach_until" =>
    /\ Holds(A, a) /\ target \in a
    /\ i <= s_a
    /\ C \in Seq(Nat) /\ ToSet(C) \subseteq a
    /\ word_index(target) < A.index + i => target \in ToSet(C)
    /\ done => i = s_a

\* A hybrid call has not begun, or returns at once.
HybridInv ==
  /\ op = "hybrid_intersect" =>
       /\ i = 0 /\ layout.A \in {"UINTEGER", "BITSET"} /\ layout.B \in {"UINTEGER", "BITSET"}
       /\ layout.C \in {"HYBRID", "UINTEGER", "BITSET"}
       /\ Holds(B, b) /\ (layout.A = "BITSET" => Holds(A, a))
       /\ ~done => C = << >>
       /\ done => /\ layout.C = "HYBRID" => a \cap b = {}
                  /\ layout.C = "UINTEGER" => ToSet(C) = a \cap b
                  /\ layout.C = "BITSET" => Elements(C) = a \cap b
  /\ op = "hybrid_union" =>
       /\ ~done /\ i = 0 /\ A.index = 0 /\ s_a = Words /\ Holds(A, a) /\ Holds(B, b)

\* How the result of a hybrid call will be read.
LayoutInv ==
  /\ layout = [A |-> layout.A, B |-> layout.B, C |-> layout.C]
  /\ op = "intersect" => layout.C \in {"none", "BITSET"}
  /\ op = "probe" => layout.C \in {"none", "UINTEGER"}
  /\ op \in {"union", "add", "difference", "foreach_until"} => layout.C = "none"

BitsetTypes ==
  /\ op \in BitsetCalls /\ i \in Nat /\ done \in BOOLEAN
  /\ a \subseteq Universe /\ b \subseteq Universe

BitsetInv ==
  /\ BitsetTypes /\ LayoutInv /\ HybridInv
  /\ IntersectInv /\ UnionInv /\ DifferenceInv /\ ProbeInv /\ AddInv /\ UntilInv
-----------------------------------------------------------------------------
LEMMA LargerOf ==
  ASSUME NEW x \in Int, NEW y \in Int
  PROVE  /\ Max({x, y}) = IF x >= y THEN x ELSE y
         /\ Min({x, y}) = IF x <= y THEN x ELSE y
<1>1. ASSUME x >= y PROVE Max({x, y}) = x
  <2>1. \A z \in {x, y} : (\A t \in {x, y} : z >= t) <=> z = x
    BY <1>1
  <2>2. x \in {x, y} /\ \A t \in {x, y} : x >= t
    BY <1>1
  <2> QED
    BY <2>1, <2>2 DEF Max
<1>2. ASSUME x < y PROVE Max({x, y}) = y
  <2>1. \A z \in {x, y} : (\A t \in {x, y} : z >= t) <=> z = y
    BY <1>2
  <2>2. y \in {x, y} /\ \A t \in {x, y} : y >= t
    BY <1>2
  <2> QED
    BY <2>1, <2>2 DEF Max
<1>3. ASSUME x <= y PROVE Min({x, y}) = x
  <2>1. \A z \in {x, y} : (\A t \in {x, y} : z <= t) <=> z = x
    BY <1>3
  <2>2. x \in {x, y} /\ \A t \in {x, y} : x <= t
    BY <1>3
  <2> QED
    BY <2>1, <2>2 DEF Min
<1>4. ASSUME x > y PROVE Min({x, y}) = y
  <2>1. \A z \in {x, y} : (\A t \in {x, y} : z <= t) <=> z = y
    BY <1>4
  <2>2. y \in {x, y} /\ \A t \in {x, y} : y <= t
    BY <1>4
  <2> QED
    BY <2>1, <2>2 DEF Min
<1> QED
  BY <1>1, <1>2, <1>3, <1>4

\* The words that two bitsets share lie in both of them.
LEMMA SharedWords ==
  ASSUME IsBitset(A), IsBitset(B)
  PROVE  /\ A.index \in Nat /\ B.index \in Nat /\ s_a \in Nat /\ s_b \in Nat
         /\ start_index \in Nat /\ total_size \in Nat
         /\ A.index <= start_index /\ B.index <= start_index
         /\ start_index \in {A.index, B.index}
         /\ a_start_index = start_index - A.index /\ a_start_index \in Nat
         /\ b_start_index = start_index - B.index /\ b_start_index \in Nat
         /\ total_size > 0 => /\ start_index + total_size <= A.index + s_a
                              /\ start_index + total_size <= B.index + s_b
                              /\ start_index + total_size \in {A.index + s_a, B.index + s_b}
         /\ total_size = 0 => \/ A.index + s_a <= start_index
                              \/ B.index + s_b <= start_index
<1>1. A.index \in Nat /\ B.index \in Nat /\ s_a \in Nat /\ s_b \in Nat
  BY DEF IsBitset, s_a, s_b
<1>2. start_index = IF A.index >= B.index THEN A.index ELSE B.index
  BY <1>1, LargerOf DEF start_index
<1>3. end_index = IF A.index + s_a <= B.index + s_b THEN A.index + s_a ELSE B.index + s_b
  <2> DEFINE p == A.index + s_a
             q == B.index + s_b
  <2>1. p \in Int /\ q \in Int
    BY <1>1
  <2>2. end_index = Min({p, q})
    BY DEF end_index
  <2> HIDE DEF p, q
  <2>3. end_index = IF p <= q THEN p ELSE q
    BY ONLY <2>1, <2>2, LargerOf
  <2> QED
    BY <2>3 DEF p, q
<1>4. start_index \in Nat /\ end_index \in Nat
  BY <1>1, <1>2, <1>3
<1>5. total_size = IF 0 >= end_index - start_index THEN 0 ELSE end_index - start_index
  BY <1>4, LargerOf DEF total_size
<1>6. a_start_index = start_index - A.index /\ b_start_index = start_index - B.index
  BY DEF a_start_index, b_start_index
<1> QED
  BY <1>1, <1>2, <1>3, <1>4, <1>5, <1>6

\* Which elements the words that are shared hold.
LEMMA SharedBits ==
  ASSUME NEW X, NEW Y, Holds(A, X), Holds(B, Y)
  PROVE  /\ \A w \in 0 .. total_size - 1 :
              /\ start_index + w \in Nat /\ start_index + w < Words
              /\ AWord(w) \in SUBSET Bit /\ BWord(w) \in SUBSET Bit
              /\ \A c \in Bit :
                   /\ WordBits * (start_index + w) + c \in Universe
                   /\ c \in AWord(w) <=> WordBits * (start_index + w) + c \in X
                   /\ c \in BWord(w) <=> WordBits * (start_index + w) + c \in Y
         /\ \A x \in X \cap Y :
              start_index <= word_index(x) /\ word_index(x) < start_index + total_size
<1>1. IsBitset(A) /\ IsBitset(B)
  BY DEF Holds
<1>2. /\ A.words \in Seq(SUBSET Bit) /\ B.words \in Seq(SUBSET Bit)
      /\ A.index + s_a <= Words /\ B.index + s_b <= Words /\ Words \in Nat
  BY <1>1, BitsetAssumption DEF IsBitset, s_a, s_b
<1>3. ASSUME NEW w \in 0 .. total_size - 1
      PROVE  /\ start_index + w \in Nat /\ start_index + w < Words
             /\ start_index + w < s_a + A.index /\ start_index + w >= A.index
             /\ start_index + w < s_b + B.index /\ start_index + w >= B.index
             /\ w + a_start_index + 1 = start_index + w - A.index + 1
             /\ w + b_start_index + 1 = start_index + w - B.index + 1
             /\ w + a_start_index + 1 \in 1 .. s_a /\ w + b_start_index + 1 \in 1 .. s_b
  <2>1. /\ A.index \in Nat /\ B.index \in Nat /\ s_a \in Nat /\ s_b \in Nat
        /\ start_index \in Nat /\ total_size \in Nat
        /\ A.index <= start_index /\ B.index <= start_index
        /\ a_start_index = start_index - A.index /\ b_start_index = start_index - B.index
        /\ total_size > 0 => /\ start_index + total_size <= A.index + s_a
                             /\ start_index + total_size <= B.index + s_b
    BY <1>1, SharedWords
  <2>2. w \in Nat /\ w < total_size /\ total_size > 0
    BY <2>1
  <2>3. /\ start_index + w \in Nat /\ start_index + w < s_a + A.index
        /\ start_index + w < s_b + B.index
        /\ start_index + w >= A.index /\ start_index + w >= B.index
    BY ONLY <2>1, <2>2
  <2>4. start_index + w < Words
    BY ONLY <1>2, <2>1, <2>3
  <2>5. /\ w + a_start_index + 1 = start_index + w - A.index + 1
        /\ w + b_start_index + 1 = start_index + w - B.index + 1
    BY ONLY <2>1, <2>2
  <2>6. w + a_start_index + 1 \in 1 .. s_a /\ w + b_start_index + 1 \in 1 .. s_b
    BY ONLY <2>1, <2>2, <2>3, <2>5
  <2> QED
    BY <2>3, <2>4, <2>5, <2>6
<1>4. ASSUME NEW w \in 0 .. total_size - 1
      PROVE  /\ AWord(w) = A.words[start_index + w - A.index + 1]
             /\ BWord(w) = B.words[start_index + w - B.index + 1]
             /\ AWord(w) \in SUBSET Bit /\ BWord(w) \in SUBSET Bit
  <2>1. AWord(w) = A.words[w + a_start_index + 1] /\ BWord(w) = B.words[w + b_start_index + 1]
    BY DEF AWord, BWord
  <2>2. w + a_start_index + 1 \in 1 .. Len(A.words) /\ w + b_start_index + 1 \in 1 .. Len(B.words)
    BY <1>3 DEF s_a, s_b
  <2>3. AWord(w) \in SUBSET Bit /\ BWord(w) \in SUBSET Bit
    BY ONLY <1>2, <2>1, <2>2
  <2> QED
    BY <1>3, <2>1, <2>3
<1>5. ASSUME NEW w \in 0 .. total_size - 1, NEW c \in Bit
      PROVE  /\ WordBits * (start_index + w) + c \in Universe
             /\ c \in AWord(w) <=> WordBits * (start_index + w) + c \in X
             /\ c \in BWord(w) <=> WordBits * (start_index + w) + c \in Y
  <2> DEFINE x == WordBits * (start_index + w) + c
  <2>1. x \in Nat /\ word_index(x) = start_index + w /\ bit(x) = c
    BY <1>3, AtPlace
  <2> HIDE DEF x
  <2>2. x \in Universe
    BY <1>3, <2>1, InUniverse
  <2>3. IsSet(x, A) <=> c \in A.words[start_index + w - A.index + 1]
    <3>1. word_index(x) - A.index + 1 = start_index + w - A.index + 1
      <4>1. A.index \in Nat /\ start_index \in Nat
        BY <1>1, SharedWords
      <4> QED
        BY ONLY <2>1, <4>1, w \in 0 .. total_size - 1
    <3>2. word_index(x) < Len(A.words) + A.index /\ word_index(x) >= A.index
      BY <1>3, <2>1 DEF s_a
    <3>3. IsSet(x, A) <=> bit(x) \in A.words[word_index(x) - A.index + 1]
      BY <3>2 DEF IsSet
    <3> QED
      BY ONLY <2>1, <3>1, <3>3
  <2>4. IsSet(x, B) <=> c \in B.words[start_index + w - B.index + 1]
    <3>1. word_index(x) - B.index + 1 = start_index + w - B.index + 1
      <4>1. B.index \in Nat /\ start_index \in Nat
        BY <1>1, SharedWords
      <4> QED
        BY ONLY <2>1, <4>1, w \in 0 .. total_size - 1
    <3>2. word_index(x) < Len(B.words) + B.index /\ word_index(x) >= B.index
      BY <1>3, <2>1 DEF s_b
    <3>3. IsSet(x, B) <=> bit(x) \in B.words[word_index(x) - B.index + 1]
      BY <3>2 DEF IsSet
    <3> QED
      BY ONLY <2>1, <3>1, <3>3
  <2>5. (IsSet(x, A) <=> x \in X) /\ (IsSet(x, B) <=> x \in Y)
    BY <2>2 DEF Holds
  <2> QED
    BY <1>4, <2>2, <2>3, <2>4, <2>5 DEF x
<1>6. ASSUME NEW x \in X \cap Y
      PROVE  start_index <= word_index(x) /\ word_index(x) < start_index + total_size
  <2>1. x \in Universe /\ IsSet(x, A) /\ IsSet(x, B) /\ word_index(x) \in Nat
    BY InUniverse, PlaceOf DEF Holds
  <2>2. /\ word_index(x) < s_a + A.index /\ word_index(x) >= A.index
        /\ word_index(x) < s_b + B.index /\ word_index(x) >= B.index
    BY <2>1 DEF IsSet, s_a, s_b
  <2>3. /\ A.index \in Nat /\ B.index \in Nat /\ s_a \in Nat /\ s_b \in Nat
        /\ start_index \in Nat /\ total_size \in Nat
        /\ start_index \in {A.index, B.index}
        /\ total_size > 0 => start_index + total_size \in {A.index + s_a, B.index + s_b}
        /\ total_size = 0 => \/ A.index + s_a <= start_index
                             \/ B.index + s_b <= start_index
    BY <1>1, SharedWords
  <2> QED
    BY ONLY <2>1, <2>2, <2>3
<1> QED
  BY <1>3, <1>4, <1>5, <1>6
-----------------------------------------------------------------------------
LEMMA ZeroedHolds ==
  ASSUME NEW X \in SUBSET Universe, NEW n \in 0 .. Words, \A x \in X : word_index(x) < n
  PROVE  /\ Holds(Zeroed(X, n), X)
         /\ Zeroed(X, n).index = 0 /\ Len(Zeroed(X, n).words) = n
<1>1. n \in Nat /\ 0 + n <= Words /\ 0 \in Nat
  BY BitsetAssumption
<1>2. \A x \in X : 0 <= word_index(x) /\ word_index(x) < 0 + n
  BY <1>1, InUniverse, PlaceOf
<1>3. Holds(Span(X, 0, n), X)
  BY ONLY <1>1, <1>2, X \in SUBSET Universe, SpanHolds
<1>4. Zeroed(X, n).index = 0 /\ Len(Zeroed(X, n).words) = n
  BY <1>1 DEF Zeroed, Span
<1> QED
  BY <1>3, <1>4 DEF Zeroed

LEMMA AllZeroed ==
  ASSUME NEW X \in SUBSET Universe
  PROVE  /\ Holds(Zeroed(X, Words), X)
         /\ Zeroed(X, Words).index = 0 /\ Len(Zeroed(X, Words).words) = Words
<1>1. Words \in 0 .. Words /\ \A x \in X : word_index(x) < Words
  BY BitsetAssumption, InUniverse
<1> QED
  BY ONLY <1>1, X \in SUBSET Universe, ZeroedHolds

LEMMA IntersectedHolds ==
  ASSUME NEW X \in SUBSET Universe, NEW S \in Intersected(X)
  PROVE  Holds(S, X)
<1>1. PICK r \in (0 .. Words - 1) \X (0 .. Words) :
        /\ r[1] <= r[2] /\ \A x \in X : word_index(x) \in r[1] .. r[2] - 1
        /\ S = Span(X, r[1], r[2] - r[1])
  BY DEF Intersected
<1> DEFINE v == r[1]
           u == r[2]
<1>2. v \in 0 .. Words - 1 /\ u \in 0 .. Words /\ v <= u /\ Words \in Nat
      /\ \A x \in X : word_index(x) \in v .. u - 1
  BY <1>1, BitsetAssumption
<1>3. S = Span(X, v, u - v)
  BY <1>1
<1> HIDE DEF v, u
<1>4. v \in Nat /\ u - v \in Nat /\ v + (u - v) <= Words
      /\ \A x \in X : v <= word_index(x) /\ word_index(x) < v + (u - v)
  BY ONLY <1>2
<1>5. Holds(Span(X, v, u - v), X)
  BY ONLY <1>4, X \in SUBSET Universe, SpanHolds
<1> QED
  BY <1>3, <1>5

LEMMA NothingListed ==
  /\ Lists(<< >>, {}) /\ << >> \in Seq(Nat) /\ ToSet(<< >>) = {}
  /\ \A X : FirstOf(X, 0) = {}
<1>1. << >> \in Seq(Nat) /\ Len(<< >>) = 0 /\ 1 .. 0 = {}
  OBVIOUS
<1>2. Lists(<< >>, {}) /\ ToSet(<< >>) = {}
  BY <1>1 DEF Lists, ToSet
<1> QED
  BY <1>1, <1>2 DEF FirstOf

LEMMA SizesOf ==
  /\ \A X \in SUBSET Universe : /\ X \in SUBSET Nat /\ IsFiniteSet(X) /\ Cardinality(X) \in Nat
  /\ \A S : IsBitset(S) => Len(S.words) \in Nat /\ S.index \in Nat
<1>1. ASSUME NEW X \in SUBSET Universe
      PROVE  X \in SUBSET Nat /\ IsFiniteSet(X) /\ Cardinality(X) \in Nat
  <2>1. Universe \subseteq Nat /\ IsFiniteSet(Universe)
    BY InUniverse
  <2>2. IsFiniteSet(X)
    BY ONLY <2>1, X \in SUBSET Universe, FS_Subset
  <2> QED
    BY <2>1, <2>2, FS_CardinalityType
<1> QED
  BY <1>1 DEF IsBitset

\* At the start the operands hold the sets that they are given for.
LEMMA DirectOperands ==
  ASSUME BitsetInit, DirectInit
  PROVE  BitsetInv
<1>1. /\ a \subseteq Universe /\ b \subseteq Universe /\ i = 0 /\ done = FALSE
      /\ C = (IF op = "intersect" THEN NoBytes ELSE << >>)
      /\ layout = NotHybrid /\ op \in BitsetCalls \ HybridCalls
      /\ target \in IF op = "foreach_until" THEN a ELSE {0}
  BY DEF BitsetInit, DirectInit
<1>2. Holds(FromArray(a), a) /\ Holds(FromArray(b), b)
  BY <1>1, ArrayHolds
<1>3. /\ Holds(Zeroed(a, Words), a) /\ Holds(Zeroed(b, Words), b)
      /\ Zeroed(a, Words).index = 0 /\ Len(Zeroed(a, Words).words) = Words
  BY <1>1, AllZeroed
<1>4. LayoutInv /\ BitsetTypes /\ HybridInv
  BY <1>1 DEF LayoutInv, BitsetTypes, HybridInv, NotHybrid, BitsetCalls, HybridCalls
<1>5. 0 \in Nat /\ \A S : IsBitset(S) => 0 <= Len(S.words)
  BY SizesOf
<1>6. IntersectInv
  <2> SUFFICES ASSUME op = "intersect" PROVE IntersectInv
    BY DEF IntersectInv
  <2>1. Holds(A, a) /\ Holds(B, b)
    BY <1>1, <1>2, IntersectedHolds DEF DirectInit
  <2>2. total_size \in Nat
    BY <2>1, SharedWords DEF Holds
  <2>3. C = NoBytes /\ << >> \in Seq(SUBSET Bit) /\ Len(<< >>) = 0
    BY <1>1
  <2> QED
    BY <1>1, <2>1, <2>2, <2>3 DEF IntersectInv, NoBytes
<1>7. UnionInv
  <2> SUFFICES ASSUME op = "union" PROVE UnionInv
    BY DEF UnionInv
  <2>1. A = Zeroed(a, Words) /\ Holds(A, a) /\ A.index = 0 /\ s_a = Words /\ Holds(B, b)
    BY <1>2, <1>3 DEF DirectInit, s_a
  <2>2. total_size \in Nat /\ start_index = B.index
    BY <2>1, SharedWords DEF Holds
  <2>3. {x \in b : word_index(x) < start_index + 0} = {}
    <3> SUFFICES ASSUME NEW x \in b PROVE ~(word_index(x) < start_index + 0)
      OBVIOUS
    <3>1. x \in Universe /\ IsSet(x, B) /\ word_index(x) \in Nat
      BY <1>1, <2>1, InUniverse, PlaceOf DEF Holds
    <3>2. word_index(x) >= B.index /\ B.index \in Nat
      BY <2>1, <3>1 DEF IsSet, Holds, IsBitset
    <3> QED
      BY <2>2, <3>1, <3>2
  <2>4. a \cup {x \in b : word_index(x) < start_index + i} = a
    BY <1>1, <2>3
  <2>5. Holds(A, a \cup {x \in b : word_index(x) < start_index + i})
    BY <2>1, <2>4
  <2>6. i <= total_size /\ done = FALSE
    BY <1>1, <2>2
  <2> QED
    BY ONLY <2>1, <2>5, <2>6 DEF UnionInv
<1>8. DifferenceInv
  <2> SUFFICES ASSUME op = "difference" PROVE DifferenceInv
    BY DEF DifferenceInv
  <2>1. A = Zeroed(a, Words) /\ Holds(A, a) /\ A.index = 0 /\ s_a = Words
    BY <1>3 DEF DirectInit, s_a
  <2>2. PICK n \in 1 .. Words : (\A x \in b : word_index(x) < n) /\ B = Zeroed(b, n)
    BY DEF DirectInit
  <2>3. Holds(B, b) /\ B.index = 0 /\ Len(B.words) = n
    <3>1. n \in 0 .. Words
      BY BitsetAssumption
    <3> QED
      BY ONLY <1>1, <2>2, <3>1, ZeroedHolds
  <2>4. {x \in a \ b : word_index(x) < 0} = {}
    <3> SUFFICES ASSUME NEW x \in a \ b PROVE ~(word_index(x) < 0)
      OBVIOUS
    <3>1. x \in Nat
      BY <1>1, InUniverse
    <3>2. word_index(x) \in Nat
      BY <3>1, PlaceOf
    <3> QED
      BY ONLY <3>2
  <2>5. Lists(C, {x \in a \ b : word_index(x) < i})
    BY <1>1, <2>4, NothingListed
  <2>6. 0 <= Words /\ s_b > 0
    BY <2>2, <2>3, BitsetAssumption DEF s_b
  <2> QED
    BY <1>1, <2>1, <2>3, <2>5, <2>6 DEF DifferenceInv
<1>9. ProbeInv
  <2> SUFFICES ASSUME op = "probe" PROVE ProbeInv
    BY DEF ProbeInv
  <2>1. Holds(B, b)
    BY <1>2 DEF DirectInit
  <2>2. Cardinality(a) \in Nat /\ Lists(C, FirstOf(a, i) \cap b)
    BY <1>1, SizesOf, NothingListed
  <2> QED
    BY <1>1, <2>1, <2>2 DEF ProbeInv
<1>10. AddInv
  <2> SUFFICES ASSUME op = "add" PROVE AddInv
    BY DEF AddInv
  <2>1. A = Zeroed(a, Words) /\ Holds(A, a) /\ A.index = 0 /\ s_a = Words
    BY <1>3 DEF DirectInit, s_a
  <2>2. Cardinality(b) \in Nat /\ a \cup FirstOf(b, i) = a
    BY <1>1, SizesOf, NothingListed
  <2>3. Holds(A, a \cup FirstOf(b, i))
    BY <2>1, <2>2
  <2>4. i <= Cardinality(b) /\ done = FALSE
    BY <1>1, <2>2
  <2> QED
    BY ONLY <2>1, <2>3, <2>4 DEF AddInv
<1>11. UntilInv
  <2> SUFFICES ASSUME op = "foreach_until" PROVE UntilInv
    BY DEF UntilInv
  <2>1. Holds(A, a) /\ target \in a
    BY <1>1, <1>2 DEF DirectInit
  <2>2. ~(word_index(target) < A.index + 0) /\ s_a \in Nat
    <3>1. /\ target \in Universe /\ IsSet(target, A) /\ word_index(target) \in Nat
          /\ IsBitset(A)
      BY <1>1, <2>1, InUniverse, PlaceOf DEF Holds
    <3>2. word_index(target) >= A.index /\ A.index \in Nat /\ s_a \in Nat
      BY <3>1 DEF IsSet, IsBitset, s_a
    <3> QED
      BY <3>1, <3>2
  <2>3. C \in Seq(Nat) /\ ToSet(C) \subseteq a
    BY <1>1, NothingListed
  <2> QED
    BY <1>1, <2>1, <2>2, <2>3 DEF UntilInv
<1> QED
  BY <1>4, <1>6, <1>7, <1>8, <1>9, <1>10, <1>11 DEF BitsetInv

LEMMA HybridOperands ==
  ASSUME BitsetInit, HybridInit
  PROVE  BitsetInv
<1>1. /\ a \in SUBSET Universe /\ b \in SUBSET Universe /\ i = 0 /\ done = FALSE
      /\ C = << >> /\ op \in {"hybrid_intersect", "hybrid_union"}
      /\ layout = [A |-> layout.A, B |-> layout.B, C |-> layout.C]
      /\ layout.A \in {"UINTEGER", "BITSET"} /\ layout.B \in {"UINTEGER", "BITSET"}
      /\ layout.C \in {"HYBRID", "UINTEGER", "BITSET"}
      /\ B = FromArray(b)
  BY DEF BitsetInit, HybridInit, HybridCalls, get_type
<1>2. Holds(FromArray(a), a) /\ Holds(FromArray(b), b)
  BY <1>1, ArrayHolds
<1>3. /\ Holds(Zeroed(a, Words), a)
      /\ Zeroed(a, Words).index = 0 /\ Len(Zeroed(a, Words).words) = Words
  BY <1>1, AllZeroed
<1>4. op = "hybrid_union" => A.index = 0 /\ s_a = Words /\ Holds(A, a)
  BY <1>3 DEF HybridInit, s_a
<1>5. op = "hybrid_intersect" /\ layout.A = "BITSET" => Holds(A, a)
  BY <1>1, <1>2, IntersectedHolds DEF HybridInit
<1>6. HybridInv
  BY <1>1, <1>2, <1>4, <1>5 DEF HybridInv
<1>7. BitsetTypes /\ LayoutInv
  BY <1>1 DEF BitsetTypes, LayoutInv, BitsetCalls, HybridCalls
<1>8. IntersectInv /\ UnionInv /\ DifferenceInv /\ ProbeInv /\ AddInv /\ UntilInv
  BY <1>1 DEF IntersectInv, UnionInv, DifferenceInv, ProbeInv, AddInv, UntilInv
<1> QED
  BY <1>6, <1>7, <1>8 DEF BitsetInv

LEMMA BitsetInitInv ==
  ASSUME BitsetInit
  PROVE  BitsetInv
BY DirectOperands, HybridOperands DEF BitsetInit
-----------------------------------------------------------------------------
\* What does not change while words are combined and elements are visited.
LEMMA OperandsKept ==
  ASSUME UNCHANGED inputVars
  PROVE  /\ op' = op /\ a' = a /\ b' = b /\ B' = B /\ target' = target /\ layout' = layout
         /\ A' = A => /\ start_index' = start_index /\ total_size' = total_size
                      /\ s_a' = s_a /\ s_b' = s_b
                      /\ \A w : AWord(w)' = AWord(w) /\ BWord(w)' = BWord(w)
BY DEF inputVars, start_index, total_size, end_index, s_a, s_b, AWord, BWord, a_start_index,
       b_start_index

\* Only the part for the operation that goes on has to be shown.
LEMMA OnePart ==
  ASSUME BitsetTypes, LayoutInv, UNCHANGED inputVars, i' \in Nat, done' \in BOOLEAN,
         op \in BitsetCalls \ HybridCalls,
         op = "intersect" => IntersectInv', op = "union" => UnionInv',
         op = "difference" => DifferenceInv', op = "probe" => ProbeInv',
         op = "add" => AddInv', op = "foreach_until" => UntilInv'
  PROVE  BitsetInv'
<1>1. op' = op /\ a' = a /\ b' = b /\ layout' = layout
  BY OperandsKept
<1>2. BitsetTypes' /\ LayoutInv'
  BY <1>1 DEF BitsetTypes, LayoutInv
<1>3. HybridInv'
  BY <1>1 DEF HybridInv, BitsetCalls, HybridCalls
<1>4. IntersectInv' /\ UnionInv' /\ DifferenceInv' /\ ProbeInv' /\ AddInv' /\ UntilInv'
  BY <1>1 DEF IntersectInv, UnionInv, DifferenceInv, ProbeInv, AddInv, UntilInv
<1> QED
  BY <1>2, <1>3, <1>4 DEF BitsetInv

\* Two sequences end to end.
LEMMA JoinedWords ==
  ASSUME NEW T, NEW s \in Seq(T), NEW t \in Seq(T)
  PROVE  /\ s \o t \in Seq(T) /\ Len(s \o t) = Len(s) + Len(t)
         /\ \A p \in 1 .. Len(s) : (s \o t)[p] = s[p]
         /\ \A p \in 1 .. Len(t) : (s \o t)[Len(s) + p] = t[p]
OBVIOUS

LEMMA CombineIntersects ==
  ASSUME BitsetInv, ~done, op = "intersect", NEW n \in Nat \ {0}, i + n <= total_size, Combine(n)
  PROVE  IntersectInv'
<1>1. /\ Holds(A, a) /\ Holds(B, b) /\ C = [index |-> C.index, words |-> C.words]
      /\ C.words \in Seq(SUBSET Bit) /\ Len(C.words) = i /\ i \in Nat
      /\ \A w \in 1 .. i : C.words[w] = AWord(w - 1) \cap BWord(w - 1)
  BY DEF BitsetInv, BitsetTypes, IntersectInv
<1> DEFINE new == [w \in 1 .. n |-> AWord(i + w - 1) \cap BWord(i + w - 1)]
<1>2. /\ C' = [index |-> start_index, words |-> C.words \o new]
      /\ A' = A /\ i' = i + n /\ done' = done /\ UNCHANGED inputVars
  BY DEF Combine
<1>3. /\ op' = op /\ a' = a /\ b' = b /\ B' = B
      /\ start_index' = start_index /\ total_size' = total_size
      /\ \A w : AWord(w)' = AWord(w) /\ BWord(w)' = BWord(w)
  BY <1>2, OperandsKept
<1>4. total_size \in Nat
  BY <1>1, SharedWords DEF Holds
<1>5. \A w \in 0 .. total_size - 1 : AWord(w) \in SUBSET Bit /\ BWord(w) \in SUBSET Bit
  BY <1>1, SharedBits
<1>6. new \in Seq(SUBSET Bit) /\ Len(new) = n
  <2>1. \A w \in 1 .. n : i + w - 1 \in 0 .. total_size - 1
    BY <1>1, <1>4
  <2>2. \A w \in 1 .. n : AWord(i + w - 1) \cap BWord(i + w - 1) \in SUBSET Bit
    BY <1>5, <2>1
  <2> QED
    BY <2>2
<1>7. \A w \in 1 .. n : new[w] = AWord(i + w - 1) \cap BWord(i + w - 1)
  OBVIOUS
<1> HIDE DEF new
<1> DEFINE all == C.words \o new
<1>8. /\ all \in Seq(SUBSET Bit) /\ Len(all) = i + n
      /\ \A w \in 1 .. i : all[w] = C.words[w]
      /\ \A w \in 1 .. n : all[i + w] = new[w]
  <2>1. C.words \in Seq(SUBSET Bit) /\ Len(C.words) = i
    BY <1>1
  <2> HIDE DEF all
  <2>2. all = C.words \o new
    BY DEF all
  <2> DEFINE T == SUBSET Bit
             s == C.words
  <2>3. s \in Seq(T) /\ new \in Seq(T) /\ all = s \o new
    BY <1>6, <2>1, <2>2
  <2> HIDE DEF T, s
  <2>4. /\ all \in Seq(T) /\ Len(all) = Len(s) + Len(new)
        /\ \A w \in 1 .. Len(s) : all[w] = s[w]
        /\ \A w \in 1 .. Len(new) : all[Len(s) + w] = new[w]
    BY ONLY <2>3, JoinedWords
  <2> QED
    BY <1>6, <2>1, <2>4 DEF T, s
<1> HIDE DEF all
<1>9. ASSUME NEW w \in 1 .. i + n PROVE all[w] = AWord(w - 1) \cap BWord(w - 1)
  <2>1. CASE w \in 1 .. i
    BY <1>1, <1>8, <2>1
  <2>2. CASE w \notin 1 .. i
    <3>1. w - i \in 1 .. n /\ i + (w - i) = w /\ i + (w - i) - 1 = w - 1
      BY <1>1, <2>2
    <3>2. all[i + (w - i)] = AWord(i + (w - i) - 1) \cap BWord(i + (w - i) - 1)
      BY <1>7, <1>8, <3>1
    <3> QED
      BY ONLY <3>1, <3>2
  <2> QED
    BY <2>1, <2>2
<1>10. C'.index = start_index /\ C'.words = all /\ C' = [index |-> C'.index, words |-> C'.words]
  BY <1>2 DEF all
<1>11. i' # 0
  BY <1>1, <1>2
<1> QED
  BY <1>1, <1>2, <1>3, <1>8, <1>9, <1>10, <1>11 DEF IntersectInv

\* The bits of a word of a bitset, and of one that starts at the first word.
LEMMA BitsOfWord ==
  ASSUME NEW S, NEW X, Holds(S, X), NEW w \in 0 .. Len(S.words) - 1
  PROVE  /\ S.index + w \in Nat /\ S.index + w < Words /\ S.words[w + 1] \in SUBSET Bit
         /\ \A c \in Bit : /\ WordBits * (S.index + w) + c \in Universe
                           /\ c \in S.words[w + 1] <=> WordBits * (S.index + w) + c \in X
<1> DEFINE v == S.index + w
<1>1. /\ S.words \in Seq(SUBSET Bit) /\ Len(S.words) \in Nat /\ S.index \in Nat
      /\ S.index + Len(S.words) <= Words /\ Words \in Nat
  BY BitsetAssumption DEF Holds, IsBitset
<1>2. /\ v \in Nat /\ v < Words /\ w + 1 \in 1 .. Len(S.words)
      /\ v < Len(S.words) + S.index /\ v >= S.index /\ v - S.index + 1 = w + 1
  BY <1>1
<1>3. S.words[w + 1] \in SUBSET Bit
  BY <1>1, <1>2
<1> HIDE DEF v
<1>4. ASSUME NEW c \in Bit
      PROVE  /\ WordBits * v + c \in Universe
             /\ c \in S.words[w + 1] <=> WordBits * v + c \in X
  <2> DEFINE x == WordBits * v + c
  <2>1. x \in Nat /\ word_index(x) = v /\ bit(x) = c
    BY <1>2, AtPlace
  <2> HIDE DEF x
  <2>2. x \in Universe
    BY <1>2, <2>1, InUniverse
  <2>3. IsSet(x, S) <=> c \in S.words[w + 1]
    BY <1>2, <2>1 DEF IsSet
  <2> QED
    BY <2>2, <2>3 DEF Holds, x
<1> QED
  BY <1>2, <1>3, <1>4 DEF v

LEMMA BitsFromZero ==
  ASSUME NEW S, NEW X, Holds(S, X), S.index = 0, NEW w \in 0 .. Len(S.words) - 1
  PROVE  /\ S.words[w + 1] \in SUBSET Bit
         /\ \A c \in Bit : c \in S.words[w + 1] <=> WordBits * w + c \in X
<1>1. S.index + w = w
  OBVIOUS
<1> QED
  BY <1>1, BitsOfWord

LEMMA CombineUnites ==
  ASSUME BitsetInv, ~done, op = "union", NEW n \in Nat \ {0}, i + n <= total_size, Combine(n)
  PROVE  UnionInv'
<1> DEFINE X == a \cup {x \in b : word_index(x) < start_index + i}
           Y == a \cup {x \in b : word_index(x) < start_index + (i + n)}
<1>1. /\ A.index = 0 /\ s_a = Words /\ Holds(A, X) /\ Holds(B, b) /\ i \in Nat
      /\ a \subseteq Universe /\ b \subseteq Universe
  BY DEF BitsetInv, BitsetTypes, UnionInv
<1>2. /\ A' = [A EXCEPT !.words = [w \in DOMAIN A.words |->
                 IF w - a_start_index - 1 \in i .. i + n - 1
                 THEN A.words[w] \cup BWord(w - a_start_index - 1) ELSE A.words[w]]]
      /\ i' = i + n /\ done' = done /\ UNCHANGED inputVars
  BY DEF Combine
<1>3. op' = op /\ a' = a /\ b' = b /\ B' = B
  BY <1>2, OperandsKept
<1>4. IsBitset(A) /\ IsBitset(B) /\ A.words \in Seq(SUBSET Bit) /\ Len(A.words) = Words
      /\ A = [index |-> A.index, words |-> A.words] /\ DOMAIN A.words = 1 .. Words /\ Words \in Nat
  BY <1>1, BitsetAssumption DEF Holds, IsBitset, s_a
<1>5. start_index \in Nat /\ total_size \in Nat /\ a_start_index = start_index
      /\ start_index + total_size <= Words
  <2>1. /\ start_index \in Nat /\ total_size \in Nat /\ a_start_index = start_index - A.index
        /\ total_size > 0 => start_index + total_size <= A.index + s_a
    BY <1>4, SharedWords
  <2>2. total_size > 0
    BY <1>1, <2>1
  <2> QED
    BY ONLY <1>1, <1>4, <2>1, <2>2
<1>6. /\ A'.index = 0 /\ A' = [index |-> A'.index, words |-> A'.words]
      /\ A'.words = [w \in 1 .. Words |->
                       IF w - start_index - 1 \in i .. i + n - 1
                       THEN A.words[w] \cup BWord(w - start_index - 1) ELSE A.words[w]]
  BY <1>1, <1>2, <1>4, <1>5
<1>7. ASSUME NEW w \in 1 .. Words, w - start_index - 1 \in i .. i + n - 1
      PROVE  /\ w - start_index - 1 \in 0 .. total_size - 1
             /\ BWord(w - start_index - 1) \in SUBSET Bit
  <2>1. w - start_index - 1 \in 0 .. total_size - 1
    BY <1>1, <1>5, <1>7
  <2> QED
    BY <1>1, <2>1, SharedBits
<1>8. A'.words \in Seq(SUBSET Bit) /\ Len(A'.words) = Words
  <2>1. \A w \in 1 .. Words : A.words[w] \in SUBSET Bit
    BY <1>4
  <2>2. \A w \in 1 .. Words : A'.words[w] \in SUBSET Bit
    BY <1>6, <1>7, <2>1
  <2>3. A'.words \in [1 .. Words -> SUBSET Bit]
    BY <1>6, <2>2
  <2> QED
    BY ONLY <1>4, <2>3
<1>9. IsBitset(A')
  BY <1>4, <1>6, <1>8 DEF IsBitset
<1>10. ASSUME NEW x \in Universe PROVE IsSet(x, A') <=> x \in Y
  <2> DEFINE v == word_index(x)
             k == v - start_index
  <2>1. x \in Nat /\ v \in Nat /\ bit(x) \in Bit /\ x = WordBits * v + bit(x) /\ v < Words
    BY InUniverse, PlaceOf
  <2>2. v + 1 \in 1 .. Words /\ v - 0 + 1 = v + 1 /\ (v + 1) - start_index - 1 = k
    BY <1>4, <1>5, <2>1
  <2>3. IsSet(x, A) <=> bit(x) \in A.words[v + 1]
    BY <1>1, <1>4, <2>1, <2>2 DEF IsSet
  <2>4. IsSet(x, A') <=> bit(x) \in A'.words[v + 1]
    BY <1>4, <1>6, <1>8, <2>1, <2>2 DEF IsSet
  <2>5. IsSet(x, A) <=> x \in X
    BY <1>1 DEF Holds
  <2>6. CASE k \in i .. i + n - 1
    <3>1. k \in 0 .. total_size - 1 /\ start_index + k = v /\ v < start_index + (i + n)
      BY <1>1, <1>5, <2>1, <2>6
    <3>2. bit(x) \in BWord(k) <=> x \in b
      <4>1. bit(x) \in BWord(k) <=> WordBits * (start_index + k) + bit(x) \in b
        BY <1>1, <2>1, <3>1, SharedBits
      <4> QED
        BY ONLY <2>1, <3>1, <4>1
    <3>3. A'.words[v + 1] = A.words[v + 1] \cup BWord(k)
      BY <1>6, <2>2, <2>6
    <3> HIDE DEF v, k
    <3> QED
      BY <2>3, <2>4, <2>5, <3>1, <3>2, <3>3 DEF v
  <2>7. CASE k \notin i .. i + n - 1
    <3>1. v < start_index + i <=> v < start_index + (i + n)
      BY <1>1, <1>5, <2>1, <2>7
    <3>2. A'.words[v + 1] = A.words[v + 1]
      BY <1>6, <2>2, <2>7
    <3> HIDE DEF v, k
    <3> QED
      BY <2>3, <2>4, <2>5, <3>1, <3>2 DEF v
  <2> QED
    BY <2>6, <2>7
<1>11. Holds(A', Y)
  <2>1. Y \subseteq Universe
    BY <1>1
  <2> HIDE DEF Y
  <2> QED
    BY <1>9, <1>10, <2>1 DEF Holds
<1>12. start_index' = start_index /\ total_size' = total_size /\ s_a' = Words
  <2>1. A'.index = A.index /\ Len(A'.words) = Len(A.words)
    BY <1>1, <1>4, <1>6, <1>8
  <2> QED
    BY <1>3, <1>4, <2>1 DEF start_index, total_size, end_index, s_a, s_b
<1> QED
  BY <1>1, <1>2, <1>3, <1>6, <1>11, <1>12 DEF UnionInv

\* Decoding a word lists the elements that lie in it.
LEMMA DecodedLists ==
  ASSUME NEW X \in SUBSET Universe, NEW w \in Nat, NEW word \in SUBSET Bit, start_index = 0,
         \A c \in Bit : c \in word <=> WordBits * w + c \in X
  PROVE  Lists(Decoded(w, word), {x \in X : word_index(x) = w})
<1>1. InWord(w, word) = {x \in X : word_index(x) = w}
  <2>1. ASSUME NEW x \in InWord(w, word) PROVE x \in X /\ word_index(x) = w
    <3>1. PICK c \in word : x = WordBits * w + c
      BY DEF InWord
    <3> QED
      BY <3>1, AtPlace
  <2>2. ASSUME NEW x \in X, word_index(x) = w PROVE x \in InWord(w, word)
    <3>1. x \in Nat
      BY InUniverse
    <3>2. bit(x) \in Bit /\ x = WordBits * w + bit(x)
      BY <2>2, <3>1, PlaceOf
    <3> QED
      BY <3>2 DEF InWord
  <2> QED
    BY <2>1, <2>2
<1>2. 0 + w = w /\ start_index + w = w
  OBVIOUS
<1>3. Decoded(w, word) = [p \in 1 .. Cardinality(word) |-> WordBits * w + Increasing(word)[p]]
  BY <1>2 DEF Decoded
<1>4. Lists([p \in 1 .. Cardinality(word) |-> WordBits * w + Increasing(word)[p]],
            InWord(w, word))
  BY WordDecoded
<1> QED
  BY <1>1, <1>3, <1>4

\* The sets that a difference works on.
LEMMA DifferenceWords ==
  ASSUME BitsetInv, op = "difference"
  PROVE  /\ start_index = 0 /\ total_size = s_b /\ s_b \in Nat /\ s_b <= Words /\ i \in Nat
         /\ Words \in Nat /\ a \subseteq Nat
         /\ \A w \in 0 .. s_b - 1 :
              Lists(Decoded(w, AWord(w) \ BWord(w)), {x \in a \ b : word_index(x) = w})
         /\ \A w \in s_b .. Words - 1 :
              Lists(Decoded(w, AWord(w)), {x \in a \ b : word_index(x) = w})
<1>1. /\ Holds(A, a) /\ Holds(B, b) /\ A.index = 0 /\ B.index = 0 /\ s_a = Words /\ s_b > 0
      /\ i \in Nat /\ a \in SUBSET Universe /\ b \in SUBSET Universe
  BY DEF BitsetInv, BitsetTypes, DifferenceInv
<1>2. IsBitset(A) /\ IsBitset(B) /\ Words \in Nat /\ a \subseteq Nat
  BY <1>1, BitsetAssumption, InUniverse DEF Holds
<1>3. s_b \in Nat /\ s_b <= Words
  BY <1>1, <1>2 DEF IsBitset, s_b
<1>4. /\ start_index = 0 /\ total_size = s_b /\ a_start_index = 0 /\ b_start_index = 0
  <2>1. /\ start_index \in {A.index, B.index} /\ total_size \in Nat
        /\ a_start_index = start_index - A.index /\ b_start_index = start_index - B.index
        /\ total_size > 0 => start_index + total_size \in {A.index + s_a, B.index + s_b}
                             /\ start_index + total_size <= B.index + s_b
        /\ total_size = 0 => A.index + s_a <= start_index \/ B.index + s_b <= start_index
    BY <1>2, SharedWords
  <2>2. start_index = 0
    BY <1>1, <2>1
  <2> QED
    BY ONLY <1>1, <1>2, <1>3, <2>1, <2>2
<1>5. ASSUME NEW w \in 0 .. s_b - 1
      PROVE  Lists(Decoded(w, AWord(w) \ BWord(w)), {x \in a \ b : word_index(x) = w})
  <2>1. 0 + w = w /\ start_index + w = w /\ w \in Nat /\ w \in 0 .. total_size - 1
    BY <1>3, <1>4
  <2>2. /\ AWord(w) \in SUBSET Bit
        /\ \A c \in Bit : /\ c \in AWord(w) <=> WordBits * w + c \in a
                          /\ c \in BWord(w) <=> WordBits * w + c \in b
    <3>1. /\ AWord(w) \in SUBSET Bit
          /\ \A c \in Bit : /\ c \in AWord(w) <=> WordBits * (start_index + w) + c \in a
                            /\ c \in BWord(w) <=> WordBits * (start_index + w) + c \in b
      BY <1>1, <2>1, SharedBits
    <3> QED
      BY ONLY <2>1, <3>1
  <2> DEFINE word == AWord(w) \ BWord(w)
             X == a \ b
  <2>3. word \in SUBSET Bit /\ \A c \in Bit : c \in word <=> WordBits * w + c \in X
    BY <2>2
  <2>4. X \in SUBSET Universe
    BY <1>1
  <2> HIDE DEF word, X
  <2>5. Lists(Decoded(w, word), {x \in X : word_index(x) = w})
    BY ONLY <1>4, <2>1, <2>3, <2>4, DecodedLists
  <2> QED
    BY <2>5 DEF word, X
<1>6. ASSUME NEW w \in s_b .. Words - 1
      PROVE  Lists(Decoded(w, AWord(w)), {x \in a \ b : word_index(x) = w})
  <2>1. w \in Nat /\ w \in 0 .. Len(A.words) - 1 /\ AWord(w) = A.words[w + 1]
    <3>1. w \in Nat /\ w + 0 + 1 = w + 1 /\ w \in 0 .. s_a - 1
      BY <1>1, <1>2, <1>3
    <3> QED
      BY <1>4, <3>1 DEF AWord, s_a
  <2>2. AWord(w) \in SUBSET Bit /\ \A c \in Bit : c \in AWord(w) <=> WordBits * w + c \in a
    BY <1>1, <2>1, BitsFromZero
  <2>3. \A c \in Bit : WordBits * w + c \notin b
    <3> SUFFICES ASSUME NEW c \in Bit, WordBits * w + c \in b PROVE FALSE
      OBVIOUS
    <3> DEFINE x == WordBits * w + c
    <3>1. x \in Nat /\ word_index(x) = w
      BY <2>1, AtPlace
    <3>2. IsSet(x, B)
      BY <1>1 DEF Holds
    <3>3. word_index(x) < s_b + 0
      BY <1>1, <3>2 DEF IsSet, s_b
    <3> HIDE DEF x
    <3> QED
      BY <1>3, <3>1, <3>3
  <2> DEFINE word == AWord(w)
             X == a \ b
  <2>4. word \in SUBSET Bit /\ \A c \in Bit : c \in word <=> WordBits * w + c \in X
    BY <2>2, <2>3
  <2>5. X \in SUBSET Universe
    BY <1>1
  <2> HIDE DEF word, X
  <2>6. Lists(Decoded(w, word), {x \in X : word_index(x) = w})
    BY ONLY <1>4, <2>1, <2>4, <2>5, DecodedLists
  <2> QED
    BY <2>6 DEF word, X
<1> QED
  BY <1>1, <1>2, <1>3, <1>4, <1>5, <1>6

\* What a difference has listed goes on with the elements of the next words.
LEMMA DifferenceGoesOn ==
  ASSUME BitsetInv, op = "difference", ~done, NEW n \in Nat, NEW s, i + n <= Words,
         Lists(s, {x \in a \ b : i <= word_index(x) /\ word_index(x) < i + n}),
         C' = C \o s, i' = i + n, A' = A, done' = done, UNCHANGED inputVars
  PROVE  DifferenceInv'
<1> DEFINE X == {x \in a \ b : word_index(x) < i}
           Y == {x \in a \ b : i <= word_index(x) /\ word_index(x) < i + n}
           Z == {x \in a \ b : word_index(x) < i + n}
<1>1. /\ Holds(A, a) /\ Holds(B, b) /\ A.index = 0 /\ B.index = 0 /\ s_a = Words /\ s_b > 0
      /\ Lists(C, X) /\ i \in Nat /\ a \subseteq Nat
  BY InUniverse DEF BitsetInv, BitsetTypes, DifferenceInv
<1>2. /\ op' = op /\ a' = a /\ b' = b /\ B' = B /\ s_a' = s_a /\ s_b' = s_b
  BY OperandsKept
<1>3. \A x \in a : word_index(x) \in Nat
  BY <1>1, PlaceOf
<1>4. \A x \in X, y \in Y : x < y
  <2> SUFFICES ASSUME NEW x \in X, NEW y \in Y PROVE x < y
    OBVIOUS
  <2>1. x \in Nat /\ y \in Nat /\ word_index(x) \in Nat /\ word_index(y) \in Nat
        /\ word_index(x) < i /\ i <= word_index(y)
    BY <1>1, <1>3
  <2>2. word_index(x) < word_index(y)
    BY ONLY <1>1, <2>1
  <2> QED
    BY ONLY <2>1, <2>2, WordsOrdered
<1>5. X \cup Y = Z
  <2>1. \A x \in a : word_index(x) < i + n <=>
           word_index(x) < i \/ (i <= word_index(x) /\ word_index(x) < i + n)
    BY ONLY <1>1, <1>3, n \in Nat
  <2> QED
    BY <2>1
<1> HIDE DEF X, Y
<1>6. Lists(s, Y)
  BY DEF Y
<1>7. Lists(C \o s, X \cup Y)
  BY ONLY <1>1, <1>4, <1>6, ListsJoined
<1>8. Lists(C', Z)
  BY <1>5, <1>7
<1>9. {x \in a' \ b' : word_index(x) < i'} = Z
  BY <1>2
<1>10. Lists(C', {x \in a' \ b' : word_index(x) < i'})
  BY <1>8, <1>9
<1>11. i' <= Words /\ ~done'
  OBVIOUS
<1> QED
  BY <1>1, <1>2, <1>10, <1>11 DEF DifferenceInv

LEMMA CombineDiffers ==
  ASSUME BitsetInv, ~done, op = "difference", NEW n \in Nat \ {0}, i + n <= total_size,
         Combine(n)
  PROVE  DifferenceInv'
<1> DEFINE rs == [w \in 1 .. n |-> Decoded(i + w - 1, AWord(i + w - 1) \ BWord(i + w - 1))]
           part(v) == {x \in a \ b : word_index(x) = v}
           X == [k \in 1 .. n |-> part(i + k - 1)]
<1>1. /\ C' = C \o FlattenSeq(rs) /\ i' = i + n
      /\ A' = A /\ done' = done /\ UNCHANGED inputVars
  BY DEF Combine
<1>2. /\ total_size = s_b /\ s_b \in Nat /\ s_b <= Words /\ i \in Nat
      /\ Words \in Nat /\ a \subseteq Nat
      /\ \A w \in 0 .. s_b - 1 : Lists(Decoded(w, AWord(w) \ BWord(w)), part(w))
  BY DifferenceWords
<1>3. Len(rs) = n
  OBVIOUS
<1>4. \A k \in 1 .. n : i + k - 1 \in 0 .. s_b - 1
  BY <1>2
<1>5. \A k \in 1 .. n : Lists(rs[k], X[k])
  BY <1>2, <1>4
<1>6. ASSUME NEW k \in 1 .. n, NEW m \in 1 .. n, k < m, NEW x \in X[k], NEW y \in X[m]
      PROVE  x < y
  <2>1. x \in Nat /\ y \in Nat /\ word_index(x) = i + k - 1 /\ word_index(y) = i + m - 1
    BY <1>2
  <2>2. word_index(x) < word_index(y)
    BY ONLY <1>2, <1>6, <2>1, n \in Nat
  <2> QED
    BY ONLY <2>1, <2>2, WordsOrdered
<1>7. \A k, m \in 1 .. n : k < m => \A x \in X[k], y \in X[m] : x < y
  BY <1>6
<1>8. UNION {X[k] : k \in 1 .. n}
        = {x \in a \ b : i <= word_index(x) /\ word_index(x) < i + n}
  <2>1. ASSUME NEW k \in 1 .. n, NEW x \in X[k]
        PROVE  x \in a \ b /\ i <= word_index(x) /\ word_index(x) < i + n
    <3>1. x \in a \ b /\ word_index(x) = i + k - 1
      OBVIOUS
    <3>2. i <= i + k - 1 /\ i + k - 1 < i + n
      BY <1>2
    <3> QED
      BY ONLY <3>1, <3>2
  <2>2. ASSUME NEW x \in a \ b, i <= word_index(x), word_index(x) < i + n
        PROVE  \E k \in 1 .. n : x \in X[k]
    <3>1. word_index(x) \in Nat
      BY <1>2, PlaceOf
    <3> DEFINE k == word_index(x) - i + 1
    <3>2. k \in 1 .. n /\ i + k - 1 = word_index(x)
      BY <1>2, <2>2, <3>1
    <3> HIDE DEF k
    <3>3. x \in X[k]
      BY <3>2
    <3> QED
      BY <3>2, <3>3
  <2> HIDE DEF X
  <2> QED
    BY <2>1, <2>2
<1> HIDE DEF rs, X
<1>9. Lists(FlattenSeq(rs), UNION {X[k] : k \in 1 .. n})
  BY ONLY <1>3, <1>5, <1>7, n \in Nat \ {0}, ListsFlattened
<1>10. Lists(FlattenSeq(rs), {x \in a \ b : i <= word_index(x) /\ word_index(x) < i + n})
  BY <1>8, <1>9
<1>11. i + n <= Words /\ n \in Nat
  BY <1>2
<1> QED
  BY <1>1, <1>10, <1>11, DifferenceGoesOn

LEMMA TailDiffers ==
  ASSUME BitsetInv, DifferenceTail
  PROVE  DifferenceInv'
<1>1. /\ ~done /\ op = "difference" /\ i >= total_size /\ i < s_a + A.index
      /\ C' = C \o Decoded(i, AWord(i)) /\ i' = i + 1
      /\ A' = A /\ done' = done /\ UNCHANGED inputVars
  BY DEF DifferenceTail, OnWords
<1>2. /\ total_size = s_b /\ s_b \in Nat /\ i \in Nat /\ Words \in Nat /\ a \subseteq Nat
      /\ \A w \in s_b .. Words - 1 :
           Lists(Decoded(w, AWord(w)), {x \in a \ b : word_index(x) = w})
  BY <1>1, DifferenceWords
<1>3. A.index = 0 /\ s_a = Words
  BY <1>1 DEF BitsetInv, DifferenceInv
<1>4. i \in s_b .. Words - 1 /\ i + 1 <= Words
  BY <1>1, <1>2, <1>3
<1>5. \A x \in a \ b : word_index(x) = i <=> (i <= word_index(x) /\ word_index(x) < i + 1)
  <2>1. \A x \in a : word_index(x) \in Nat
    BY <1>2, PlaceOf
  <2> QED
    BY <1>2, <2>1
<1>6. Lists(Decoded(i, AWord(i)), {x \in a \ b : word_index(x) = i})
  BY <1>2, <1>4
<1>7. {x \in a \ b : word_index(x) = i}
        = {x \in a \ b : i <= word_index(x) /\ word_index(x) < i + 1}
  BY <1>5
<1>8. Lists(Decoded(i, AWord(i)), {x \in a \ b : i <= word_index(x) /\ word_index(x) < i + 1})
  BY <1>6, <1>7
<1> QED
  BY <1>1, <1>4, <1>8, DifferenceGoesOn
-----------------------------------------------------------------------------
\* The elements of an array one after the other.
LEMMA NextElement ==
  ASSUME NEW X \in SUBSET Universe, NEW n \in Nat, n < Cardinality(X)
  PROVE  /\ Increasing(X)[n + 1] \in X
         /\ FirstOf(X, n + 1) = FirstOf(X, n) \cup {Increasing(X)[n + 1]}
         /\ \A y \in FirstOf(X, n) : y \in X /\ y < Increasing(X)[n + 1]
         /\ \A y \in X : y \in FirstOf(X, n) \/ Increasing(X)[n + 1] <= y
<1> DEFINE s == Increasing(X)
           m == Cardinality(X)
<1>1. X \in SUBSET Nat /\ IsFiniteSet(X) /\ m \in Nat
  BY SizesOf
<1>2. Lists(s, X) /\ Len(s) = m
  BY <1>1, ListsIncreasing
<1>3. /\ \A p \in 1 .. m : s[p] \in X /\ s[p] \in Nat
      /\ \A x \in X : \E p \in 1 .. m : s[p] = x
      /\ \A p, q \in 1 .. m : p < q => s[p] < s[q]
  BY <1>1, <1>2 DEF Lists
<1>4. FirstOf(X, n) = {s[p] : p \in 1 .. n} /\ FirstOf(X, n + 1) = {s[p] : p \in 1 .. n + 1}
  BY DEF FirstOf
<1> HIDE DEF s, m
<1>5. n + 1 \in 1 .. m /\ 1 .. n + 1 = (1 .. n) \cup {n + 1}
      /\ \A p \in 1 .. n : p \in 1 .. m /\ p < n + 1
  BY <1>1 DEF m
<1>6. FirstOf(X, n + 1) = FirstOf(X, n) \cup {s[n + 1]}
  BY ONLY <1>4, <1>5
<1>7. \A y \in FirstOf(X, n) : y \in X /\ y < s[n + 1]
  BY <1>3, <1>4, <1>5
<1>8. ASSUME NEW y \in X PROVE y \in FirstOf(X, n) \/ s[n + 1] <= y
  <2>1. PICK p \in 1 .. m : s[p] = y
    BY <1>3
  <2>2. p \in 1 .. n \/ p = n + 1 \/ n + 1 < p
    BY <1>1
  <2>3. s[p] \in Nat /\ s[n + 1] \in Nat /\ (n + 1 < p => s[n + 1] < s[p])
    BY <1>3, <1>5
  <2> QED
    BY <1>4, <2>1, <2>2, <2>3
<1> QED
  BY <1>3, <1>5, <1>6, <1>7, <1>8 DEF s

LEMMA AllElements ==
  ASSUME NEW X \in SUBSET Universe
  PROVE  FirstOf(X, Cardinality(X)) = X
<1>1. X \in SUBSET Nat /\ IsFiniteSet(X) /\ Cardinality(X) \in Nat
  BY SizesOf
<1>2. Lists(Increasing(X), X) /\ Len(Increasing(X)) = Cardinality(X)
  BY <1>1, ListsIncreasing
<1> QED
  BY <1>2 DEF Lists, FirstOf

LEMMA ProbeStepInv ==
  ASSUME BitsetInv, ProbeStep
  PROVE  BitsetInv'
<1> DEFINE x == Increasing(a)[i + 1]
           X == FirstOf(a, i)
<1>1. /\ ~done /\ op = "probe" /\ i < Cardinality(a) /\ i' = i + 1 /\ A' = A
      /\ UNCHANGED inputVars
      /\ \/ IsSet(x, B) /\ C' = Append(C, x) /\ done' = done
         \/ ~IsSet(x, B) /\ done' = (word_index(x) >= s_b + B.index) /\ C' = C
  BY DEF ProbeStep
<1>2. /\ BitsetTypes /\ LayoutInv /\ Holds(B, b) /\ Lists(C, X \cap b)
      /\ a \in SUBSET Universe /\ i \in Nat /\ Cardinality(a) \in Nat
  BY <1>1, SizesOf DEF BitsetInv, BitsetTypes, ProbeInv
<1>3. op' = op /\ a' = a /\ b' = b /\ B' = B
  BY <1>1, OperandsKept
<1>4. /\ x \in a /\ FirstOf(a, i + 1) = X \cup {x}
      /\ \A y \in X : y \in a /\ y < x
      /\ \A y \in a : y \in X \/ x <= y
  BY <1>1, <1>2, NextElement
<1>5. x \in Universe /\ x \in Nat /\ word_index(x) \in Nat /\ (IsSet(x, B) <=> x \in b)
  BY <1>2, <1>4, InUniverse, PlaceOf DEF Holds
<1> HIDE DEF x, X
<1>6. Lists(C', (X \cup {x}) \cap b)
  <2>1. CASE IsSet(x, B)
    <3>1. C' = Append(C, x) /\ (X \cup {x}) \cap b = (X \cap b) \cup {x}
      BY <1>1, <1>5, <2>1
    <3>2. \A y \in X \cap b : y < x
      BY <1>4
    <3>3. Lists(Append(C, x), (X \cap b) \cup {x})
      BY ONLY <1>2, <1>5, <3>2, ListsAppended
    <3> QED
      BY <3>1, <3>3
  <2>2. CASE ~IsSet(x, B)
    <3>1. C' = C /\ (X \cup {x}) \cap b = X \cap b
      BY <1>1, <1>5, <2>2
    <3> QED
      BY <1>2, <3>1
  <2> QED
    BY <2>1, <2>2
<1>7. done' => (X \cup {x}) \cap b = a \cap b
  <2> SUFFICES ASSUME done' PROVE (X \cup {x}) \cap b = a \cap b
    OBVIOUS
  <2>1. word_index(x) >= s_b + B.index
    BY <1>1
  <2>2. ASSUME NEW y \in a \cap b PROVE y \in X
    <3>1. y \in Universe /\ y \in Nat /\ word_index(y) \in Nat /\ IsSet(y, B)
      BY <1>2, InUniverse, PlaceOf DEF Holds
    <3>2. word_index(y) < s_b + B.index
      BY <3>1 DEF IsSet, s_b
    <3>3. s_b + B.index \in Nat
      BY <1>2, SizesOf DEF Holds, IsBitset, s_b
    <3>4. ~(word_index(x) <= word_index(y))
      BY ONLY <1>5, <2>1, <3>1, <3>2, <3>3
    <3>5. ~(x <= y)
      BY ONLY <1>5, <3>1, <3>4, WordsOrdered
    <3> QED
      BY <1>4, <3>5
  <2> QED
    BY <1>4, <2>2
<1>8. /\ Holds(B', b') /\ i' <= Cardinality(a')
      /\ Lists(C', FirstOf(a', i') \cap b')
      /\ done' => Lists(C', a' \cap b')
  <2>1. i + 1 <= Cardinality(a)
    BY <1>1, <1>2
  <2> QED
    BY <1>1, <1>2, <1>3, <1>4, <1>6, <1>7, <2>1
<1>9. ProbeInv'
  BY <1>8 DEF ProbeInv
<1>10. done' \in BOOLEAN
  <2>1. CASE done' = done
    BY <1>2, <2>1 DEF BitsetTypes
  <2>2. CASE done' = (word_index(x) >= s_b + B.index)
    <3>1. CASE word_index(x) >= s_b + B.index
      BY ONLY <2>2, <3>1
    <3>2. CASE ~(word_index(x) >= s_b + B.index)
      BY ONLY <2>2, <3>2
    <3> QED
      BY ONLY <3>1, <3>2
  <2> QED
    BY <1>1, <2>1, <2>2
<1>11. i' \in Nat
  BY <1>1, <1>2
<1> QED
  BY <1>1, <1>2, <1>9, <1>10, <1>11, OnePart DEF BitsetCalls, HybridCalls

LEMMA AddStepInv ==
  ASSUME BitsetInv, AddStep
  PROVE  BitsetInv'
<1> DEFINE x == Increasing(b)[i + 1]
           v == word_index(x)
           X == a \cup FirstOf(b, i)
<1>1. /\ ~done /\ op = "add" /\ i < Cardinality(b) /\ i' = i + 1 /\ C' = C /\ done' = done
      /\ UNCHANGED inputVars
      /\ A' = [A EXCEPT !.words[v + 1] = @ \cup {bit(x)}]
  BY DEF AddStep
<1>2. /\ BitsetTypes /\ LayoutInv /\ Holds(A, X) /\ A.index = 0 /\ s_a = Words
      /\ a \in SUBSET Universe /\ b \in SUBSET Universe /\ i \in Nat /\ Cardinality(b) \in Nat
  BY <1>1, SizesOf DEF BitsetInv, BitsetTypes, AddInv
<1>3. op' = op /\ a' = a /\ b' = b /\ B' = B
  BY <1>1, OperandsKept
<1>4. x \in b /\ FirstOf(b, i + 1) = FirstOf(b, i) \cup {x}
  BY <1>1, <1>2, NextElement
<1>5. x \in Universe /\ x \in Nat /\ v \in Nat /\ v < Words /\ bit(x) \in Bit
      /\ x = WordBits * v + bit(x)
  BY <1>2, <1>4, InUniverse, PlaceOf
<1> HIDE DEF x, v, X
<1>6. /\ A.words \in Seq(SUBSET Bit) /\ Len(A.words) = Words /\ Words \in Nat
      /\ A = [index |-> A.index, words |-> A.words] /\ DOMAIN A.words = 1 .. Words
  BY <1>2, BitsetAssumption DEF Holds, IsBitset, s_a
<1>7. v + 1 \in 1 .. Words
  BY <1>5, <1>6
<1>8. /\ A'.index = 0 /\ A' = [index |-> A'.index, words |-> A'.words]
      /\ A'.words = [w \in 1 .. Words |-> IF w = v + 1 THEN A.words[w] \cup {bit(x)}
                                          ELSE A.words[w]]
  <2>1. A'.words = [A.words EXCEPT ![v + 1] = @ \cup {bit(x)}] /\ A'.index = 0
        /\ A' = [index |-> A'.index, words |-> A'.words]
    BY <1>1, <1>2, <1>6
  <2> QED
    BY <1>6, <1>7, <2>1
<1>9. A'.words \in Seq(SUBSET Bit) /\ Len(A'.words) = Words
  <2>1. \A w \in 1 .. Words : A.words[w] \in SUBSET Bit
    BY <1>6
  <2>2. \A w \in 1 .. Words : A'.words[w] \in SUBSET Bit
    BY <1>5, <1>8, <2>1
  <2>3. A'.words \in [1 .. Words -> SUBSET Bit]
    BY <1>8, <2>2
  <2> QED
    BY ONLY <1>6, <2>3
<1>10. IsBitset(A')
  BY <1>6, <1>8, <1>9 DEF IsBitset
<1>11. ASSUME NEW y \in Universe PROVE IsSet(y, A') <=> y \in X \cup {x}
  <2> DEFINE u == word_index(y)
  <2>1. y \in Nat /\ u \in Nat /\ u < Words /\ y = WordBits * u + bit(y)
    BY InUniverse, PlaceOf
  <2>2. u + 1 \in 1 .. Words /\ u - 0 + 1 = u + 1
    BY <1>6, <2>1
  <2>3. IsSet(y, A) <=> bit(y) \in A.words[u + 1]
    BY <1>2, <1>6, <2>1, <2>2 DEF IsSet
  <2>4. IsSet(y, A') <=> bit(y) \in A'.words[u + 1]
    BY <1>6, <1>8, <1>9, <2>1, <2>2 DEF IsSet
  <2>5. IsSet(y, A) <=> y \in X
    BY <1>2 DEF Holds
  <2>6. x = y <=> u = v /\ bit(x) = bit(y)
    BY <1>5, <2>1 DEF v
  <2>7. u + 1 = v + 1 <=> u = v
    BY <1>5, <2>1
  <2> HIDE DEF u
  <2>8. A'.words[u + 1] = IF u + 1 = v + 1 THEN A.words[u + 1] \cup {bit(x)} ELSE A.words[u + 1]
    BY <1>8, <2>2
  <2> QED
    BY ONLY <2>3, <2>4, <2>5, <2>6, <2>7, <2>8
<1>12. Holds(A', a' \cup FirstOf(b', i'))
  <2>1. a' \cup FirstOf(b', i') = X \cup {x}
    BY <1>1, <1>3, <1>4 DEF X
  <2>2. X \cup {x} \subseteq Universe
    BY <1>2, <1>5 DEF Holds
  <2>3. Holds(A', X \cup {x})
    BY <1>10, <1>11, <2>2 DEF Holds
  <2> QED
    BY <2>1, <2>3
<1>13. i' <= Cardinality(b') /\ i' \in Nat /\ ~done'
  <2>1. i + 1 <= Cardinality(b) /\ i + 1 \in Nat
    BY <1>1, <1>2
  <2> QED
    BY <1>1, <1>3, <2>1
<1>14. s_a' = Words
  BY <1>9 DEF s_a
<1>15. AddInv' /\ done' \in BOOLEAN
  BY <1>1, <1>2, <1>8, <1>12, <1>13, <1>14 DEF AddInv, BitsetTypes
<1> QED
  BY <1>1, <1>2, <1>13, <1>15, OnePart DEF BitsetCalls, HybridCalls

LEMMA VisitWordInv ==
  ASSUME BitsetInv, VisitWord
  PROVE  BitsetInv'
<1> DEFINE v == A.index + i
           word == A.words[i + 1]
           until == {c \in word : WordBits * v + c <= target \/ target < WordBits * v}
           t == [p \in 1 .. Cardinality(until) |-> WordBits * v + Increasing(until)[p]]
<1>1. /\ BitsetTypes /\ LayoutInv /\ Holds(A, a) /\ target \in a /\ C \in Seq(Nat)
      /\ ToSet(C) \subseteq a /\ i \in Nat /\ a \in SUBSET Universe
      /\ word_index(target) < v => target \in ToSet(C)
  BY DEF VisitWord, BitsetInv, BitsetTypes, UntilInv
<1>2. A.index \in Nat /\ Len(A.words) \in Nat /\ s_a = Len(A.words) /\ i + A.index = v
  BY <1>1, SizesOf DEF Holds, s_a
<1>3. /\ ~done /\ op = "foreach_until" /\ i < Len(A.words) /\ i' = i + 1
      /\ A' = A /\ done' = done /\ UNCHANGED inputVars
      /\ C' = C \o t
  BY <1>2 DEF VisitWord
<1>4. op' = op /\ a' = a /\ b' = b /\ target' = target /\ s_a' = s_a
  BY <1>3, OperandsKept
<1>5. /\ v \in Nat /\ word \in SUBSET Bit
      /\ \A c \in Bit : c \in word <=> WordBits * v + c \in a
  <2>1. i \in 0 .. Len(A.words) - 1
    BY <1>1, <1>2, <1>3
  <2> QED
    BY <1>1, <2>1, BitsOfWord
<1> HIDE DEF v, word
<1>6. until \in SUBSET Bit
  BY <1>5
<1> HIDE DEF until
<1>7. Lists(t, InWord(v, until))
  BY <1>5, <1>6, WordDecoded
<1> HIDE DEF t
<1>8. t \in Seq(Nat) /\ ToSet(t) = InWord(v, until)
  BY <1>7 DEF Lists, ToSet
<1>9. C' \in Seq(Nat) /\ ToSet(C') = ToSet(C) \cup ToSet(t)
  <2>1. C' \in Seq(Nat)
    BY ONLY <1>1, <1>3, <1>8
  <2>2. /\ Len(C \o t) = Len(C) + Len(t)
        /\ \A p \in 1 .. Len(C) : (C \o t)[p] = C[p]
        /\ \A p \in 1 .. Len(t) : (C \o t)[Len(C) + p] = t[p]
        /\ Len(C) \in Nat /\ Len(t) \in Nat
    BY <1>1, <1>8, JoinedWords
  <2>3. \A p \in 1 .. Len(C) + Len(t) : p \in 1 .. Len(C) \/
          (p - Len(C) \in 1 .. Len(t) /\ p = Len(C) + (p - Len(C)))
    BY ONLY <2>2
  <2>4. ASSUME NEW y \in ToSet(C \o t) PROVE y \in ToSet(C) \cup ToSet(t)
    <3>1. PICK p \in 1 .. Len(C) + Len(t) : (C \o t)[p] = y
      BY <2>2 DEF ToSet
    <3> QED
      BY <2>2, <2>3, <3>1 DEF ToSet
  <2>5. ASSUME NEW y \in ToSet(C) PROVE y \in ToSet(C \o t)
    <3>1. PICK p \in 1 .. Len(C) : C[p] = y
      BY DEF ToSet
    <3>2. p \in 1 .. Len(C) + Len(t) /\ (C \o t)[p] = y
      BY <2>2, <3>1
    <3> QED
      BY <2>2, <3>2 DEF ToSet
  <2>6. ASSUME NEW y \in ToSet(t) PROVE y \in ToSet(C \o t)
    <3>1. PICK p \in 1 .. Len(t) : t[p] = y
      BY DEF ToSet
    <3>2. Len(C) + p \in 1 .. Len(C) + Len(t) /\ (C \o t)[Len(C) + p] = y
      BY <2>2, <3>1
    <3> QED
      BY <2>2, <3>2 DEF ToSet
  <2> QED
    BY <1>3, <2>1, <2>4, <2>5, <2>6
<1>10. ToSet(t) \subseteq a
  BY <1>5, <1>6, <1>8 DEF InWord, until
<1>11. ASSUME word_index(target) < A.index + (i + 1) PROVE target \in ToSet(C')
  <2>1. target \in Nat /\ word_index(target) \in Nat /\ bit(target) \in Bit
        /\ target = WordBits * word_index(target) + bit(target)
    BY <1>1, InUniverse, PlaceOf
  <2>2. word_index(target) < v \/ word_index(target) = v
    <3>1. A.index + (i + 1) = v + 1
      BY <1>1, <1>2 DEF v
    <3> QED
      BY <1>5, <1>11, <2>1, <3>1
  <2>3. CASE word_index(target) = v
    <3>1. bit(target) \in word
      BY <1>1, <1>5, <2>1, <2>3
    <3>2. WordBits * v + bit(target) <= target
      BY <2>1, <2>3
    <3>3. target \in InWord(v, until)
      BY <2>1, <2>3, <3>1, <3>2 DEF InWord, until
    <3> QED
      BY <1>8, <1>9, <3>3
  <2> QED
    BY <1>1, <1>9, <2>2, <2>3
<1>12. i + 1 <= Len(A.words) /\ i + 1 \in Nat
  BY <1>1, <1>2, <1>3
<1>13. UntilInv'
  <2>1. Holds(A', a') /\ target' \in a' /\ i' <= s_a' /\ C' \in Seq(Nat) /\ ToSet(C') \subseteq a'
    BY <1>1, <1>2, <1>3, <1>4, <1>9, <1>10, <1>12
  <2>2. word_index(target') < A'.index + i' => target' \in ToSet(C')
    BY <1>3, <1>4, <1>11
  <2>3. ~done'
    BY <1>3
  <2> QED
    BY <2>1, <2>2, <2>3 DEF UntilInv
<1> QED
  BY <1>1, <1>3, <1>12, <1>13, OnePart DEF BitsetCalls, HybridCalls, BitsetTypes
-----------------------------------------------------------------------------
\* A hybrid call goes on as one on the layouts that it finds.
LEMMA DispatchIntersectInv ==
  ASSUME BitsetInv, DispatchIntersect
  PROVE  BitsetInv'
<1>1. /\ ~done /\ op = "hybrid_intersect" /\ i = 0 /\ C = << >> /\ done \in BOOLEAN
      /\ a \in SUBSET Universe /\ b \in SUBSET Universe
      /\ layout = [A |-> layout.A, B |-> layout.B, C |-> layout.C]
      /\ layout.A \in {"UINTEGER", "BITSET"} /\ layout.B \in {"UINTEGER", "BITSET"}
      /\ layout.C \in {"HYBRID", "UINTEGER", "BITSET"}
      /\ Holds(B, b) /\ (layout.A = "BITSET" => Holds(A, a))
  BY DEF DispatchIntersect, BitsetInv, BitsetTypes, LayoutInv, HybridInv
<1>2. CASE /\ a = {} \/ b = {}
           /\ C' = IF layout.C = "BITSET" THEN NoBytes ELSE << >>
           /\ done' = TRUE /\ UNCHANGED <<inputVars, A, i>>
  <2>1. /\ op' = op /\ a' = a /\ b' = b /\ B' = B /\ layout' = layout /\ A' = A /\ i' = i
    BY <1>2 DEF inputVars
  <2>2. a \cap b = {} /\ ToSet(<< >>) = {} /\ Elements(NoBytes) = {}
    <3>1. DOMAIN << >> = {}
      OBVIOUS
    <3>2. Elements(NoBytes) = {}
      BY <3>1 DEF Elements, NoBytes
    <3> QED
      BY <1>2, <3>2, NothingListed
  <2>3. HybridInv'
    <3>1. layout'.C = "UINTEGER" => ToSet(C') = a' \cap b'
      BY <1>2, <2>1, <2>2
    <3>2. layout'.C = "BITSET" => Elements(C') = a' \cap b'
      BY <1>2, <2>1, <2>2
    <3>3. done' /\ a' \cap b' = {}
      BY <1>2, <2>1, <2>2
    <3> QED
      BY <1>1, <2>1, <3>1, <3>2, <3>3 DEF HybridInv
  <2>4. BitsetTypes' /\ LayoutInv'
    BY <1>1, <1>2, <2>1 DEF BitsetTypes, LayoutInv, BitsetCalls, HybridCalls
  <2> QED
    BY <1>1, <2>1, <2>3, <2>4
       DEF BitsetInv, IntersectInv, UnionInv, DifferenceInv, ProbeInv, AddInv, UntilInv
<1>3. CASE /\ Becomes("hybrid_intersect", "UINTEGER")
           /\ C' = Increasing(a \cap b) /\ done' = TRUE
           /\ UNCHANGED <<a, b, A, B>>
  <2>1. /\ op' = "hybrid_intersect" /\ a' = a /\ b' = b /\ B' = B /\ A' = A /\ i' = i
        /\ layout' = [A |-> layout.A, B |-> layout.B, C |-> "UINTEGER"]
    BY <1>1, <1>3 DEF Becomes
  <2>2. layout'.A = layout.A /\ layout'.B = layout.B /\ layout'.C = "UINTEGER"
        /\ layout' = [A |-> layout'.A, B |-> layout'.B, C |-> layout'.C]
    BY <2>1
  <2>3. ToSet(C') = a' \cap b'
    <3>1. a \cap b \in SUBSET Universe
      BY <1>1
    <3>2. a \cap b \in SUBSET Nat /\ IsFiniteSet(a \cap b)
      BY <3>1, SizesOf
    <3>3. Lists(Increasing(a \cap b), a \cap b)
      BY <3>2, ListsIncreasing
    <3> DEFINE X == a \cap b
    <3>4. C' = Increasing(X) /\ a' \cap b' = X /\ Lists(Increasing(X), X)
      BY <1>3, <2>1, <3>3
    <3> HIDE DEF X
    <3>5. ToSet(Increasing(X)) = X
      BY <3>4, ListsToSet
    <3> QED
      BY ONLY <3>4, <3>5
  <2>4. HybridInv'
    <3>1. done'
      BY <1>3
    <3> QED
      BY <1>1, <2>1, <2>2, <2>3, <3>1 DEF HybridInv
  <2>5. BitsetTypes' /\ LayoutInv'
    BY <1>1, <1>3, <2>1, <2>2 DEF BitsetTypes, LayoutInv, BitsetCalls, HybridCalls
  <2> QED
    BY <2>1, <2>4, <2>5
       DEF BitsetInv, IntersectInv, UnionInv, DifferenceInv, ProbeInv, AddInv, UntilInv
<1>4. ASSUME Becomes("probe", "UINTEGER"), UNCHANGED <<C, done>>,
             a' \in SUBSET Universe, b' \in SUBSET Universe, Holds(B', b')
      PROVE  BitsetInv'
  <2>1. /\ op' = "probe" /\ C' = << >> /\ i' = 0 /\ done' = done
        /\ layout' = [A |-> layout.A, B |-> layout.B, C |-> "UINTEGER"]
    BY <1>1, <1>4 DEF Becomes
  <2>2. layout'.C = "UINTEGER" /\ layout' = [A |-> layout'.A, B |-> layout'.B, C |-> layout'.C]
    BY <2>1
  <2>3. ProbeInv'
    <3>1. 0 <= Cardinality(a') /\ ~done'
      <4>1. Cardinality(a') \in Nat
        BY <1>4, SizesOf
      <4> QED
        BY <1>1, <2>1, <4>1
    <3>2. Lists(C', FirstOf(a', 0) \cap b')
      <4>1. FirstOf(a', 0) \cap b' = {}
        BY NothingListed
      <4> QED
        BY <2>1, <4>1, NothingListed
    <3> QED
      BY <1>4, <2>1, <3>1, <3>2 DEF ProbeInv
  <2>4. BitsetTypes' /\ LayoutInv'
    BY <1>1, <1>4, <2>1, <2>2 DEF BitsetTypes, LayoutInv, BitsetCalls, HybridCalls
  <2> QED
    BY <2>1, <2>3, <2>4
       DEF BitsetInv, IntersectInv, UnionInv, DifferenceInv, HybridInv, AddInv, UntilInv
<1>5. CASE /\ Becomes("intersect", "BITSET") /\ layout.A = "BITSET"
           /\ C' = NoBytes /\ UNCHANGED <<a, b, A, B, done>>
  <2>1. /\ op' = "intersect" /\ i' = 0 /\ done' = done /\ a' = a /\ b' = b /\ A' = A /\ B' = B
        /\ layout' = [A |-> layout.A, B |-> layout.B, C |-> "BITSET"]
        /\ C' = [index |-> 0, words |-> << >>]
    BY <1>1, <1>5 DEF Becomes, NoBytes
  <2>2. layout'.C = "BITSET" /\ layout' = [A |-> layout'.A, B |-> layout'.B, C |-> layout'.C]
        /\ C'.index = 0 /\ C'.words = << >> /\ C' = [index |-> C'.index, words |-> C'.words]
    BY <2>1
  <2>3. total_size' \in Nat
    <3>1. total_size' = total_size
      BY <2>1 DEF total_size, start_index, end_index, s_a, s_b
    <3> QED
      BY <1>1, <1>5, <3>1, SharedWords DEF Holds
  <2>4. IntersectInv'
    <3>1. << >> \in Seq(SUBSET Bit) /\ Len(<< >>) = 0
      OBVIOUS
    <3>2. 0 <= total_size' /\ \A w \in 1 .. 0 : FALSE
      BY <2>3
    <3>3. Holds(A', a') /\ Holds(B', b') /\ ~done'
      BY <1>1, <1>5, <2>1
    <3> QED
      BY <2>1, <2>2, <3>1, <3>2, <3>3 DEF IntersectInv
  <2>5. BitsetTypes' /\ LayoutInv'
    BY <1>1, <2>1, <2>2 DEF BitsetTypes, LayoutInv, BitsetCalls, HybridCalls
  <2> QED
    BY <2>1, <2>4, <2>5
       DEF BitsetInv, HybridInv, UnionInv, DifferenceInv, ProbeInv, AddInv, UntilInv
<1>6. CASE Becomes("probe", "UINTEGER") /\ UNCHANGED <<a, b, A, B, C, done>>
  BY <1>1, <1>4, <1>6
<1>7. CASE /\ layout.A = "BITSET" /\ Becomes("probe", "UINTEGER")
           /\ a' = b /\ b' = a /\ A' = B /\ B' = A /\ UNCHANGED <<C, done>>
  BY <1>1, <1>4, <1>7
<1> QED
  BY <1>2, <1>3, <1>5, <1>6, <1>7 DEF DispatchIntersect

LEMMA DispatchUnionInv ==
  ASSUME BitsetInv, DispatchUnion
  PROVE  BitsetInv'
<1>1. /\ ~done /\ op = "hybrid_union" /\ i = 0 /\ done \in BOOLEAN
      /\ a \in SUBSET Universe /\ b \in SUBSET Universe
      /\ layout = [A |-> layout.A, B |-> layout.B, C |-> layout.C]
      /\ A.index = 0 /\ s_a = Words /\ Holds(A, a) /\ Holds(B, b)
  BY DEF DispatchUnion, BitsetInv, BitsetTypes, LayoutInv, HybridInv
<1>2. /\ op' = (IF layout.B = "BITSET" THEN "union" ELSE "add")
      /\ layout' = [A |-> layout.A, B |-> layout.B, C |-> "none"]
      /\ i' = i /\ a' = a /\ b' = b /\ A' = A /\ B' = B /\ C' = C /\ done' = done
  BY <1>1 DEF DispatchUnion, Becomes
<1>3. layout'.C = "none" /\ layout' = [A |-> layout'.A, B |-> layout'.B, C |-> layout'.C]
  BY <1>2
<1>4. op' \in {"union", "add"}
  BY <1>2
<1>5. BitsetTypes' /\ LayoutInv'
  BY <1>1, <1>2, <1>3, <1>4 DEF BitsetTypes, LayoutInv, BitsetCalls, HybridCalls
<1>6. s_a' = s_a /\ start_index' = start_index /\ total_size' = total_size
  BY <1>2 DEF total_size, start_index, end_index, s_a, s_b
<1>7. UnionInv'
  <2>1. start_index = B.index /\ start_index \in Nat /\ total_size \in Nat
    BY <1>1, SharedWords DEF Holds
  <2>2. {x \in b : word_index(x) < start_index + 0} = {}
    <3> SUFFICES ASSUME NEW x \in b PROVE ~(word_index(x) < start_index + 0)
      OBVIOUS
    <3>1. x \in Universe /\ IsSet(x, B) /\ word_index(x) \in Nat
      BY <1>1, InUniverse, PlaceOf DEF Holds
    <3>2. word_index(x) >= B.index
      BY <3>1 DEF IsSet
    <3> QED
      BY <2>1, <3>1, <3>2
  <2>3. Holds(A, a \cup {x \in b : word_index(x) < start_index + 0})
    BY <1>1, <2>2
  <2>4. Holds(A', a' \cup {x \in b' : word_index(x) < start_index' + i'})
    BY <1>1, <1>2, <1>6, <2>3
  <2>5. 0 <= total_size
    BY <2>1
  <2> QED
    BY <1>1, <1>2, <1>6, <2>4, <2>5 DEF UnionInv
<1>8. AddInv'
  <2>1. Cardinality(b) \in Nat /\ a \cup FirstOf(b, 0) = a
    BY <1>1, SizesOf, NothingListed
  <2>2. 0 <= Cardinality(b) /\ Holds(A, a \cup FirstOf(b, 0))
    BY <1>1, <2>1
  <2>3. i' <= Cardinality(b') /\ Holds(A', a' \cup FirstOf(b', i'))
    BY <1>1, <1>2, <2>2
  <2> QED
    BY <1>1, <1>2, <1>6, <2>3 DEF AddInv
<1> QED
  BY <1>4, <1>5, <1>7, <1>8
     DEF BitsetInv, HybridInv, IntersectInv, DifferenceInv, ProbeInv, UntilInv

\* The words of two bitsets are combined.
LEMMA CombineInv ==
  ASSUME BitsetInv, NEW n \in Nat \ {0}, OnWords, i + n <= total_size, Combine(n)
  PROVE  BitsetInv'
<1>1. /\ ~done /\ op \in {"intersect", "union", "difference"} /\ i' = i + n /\ done' = done
      /\ UNCHANGED inputVars
  BY DEF OnWords, Combine
<1>2. BitsetTypes /\ LayoutInv /\ i \in Nat /\ done \in BOOLEAN
  BY DEF BitsetInv, BitsetTypes
<1>3. i' \in Nat /\ done' \in BOOLEAN
  BY <1>1, <1>2
<1>4. op = "intersect" => IntersectInv'
  BY <1>1, CombineIntersects
<1>5. op = "union" => UnionInv'
  BY <1>1, CombineUnites
<1>6. op = "difference" => DifferenceInv'
  BY <1>1, CombineDiffers
<1> QED
  BY <1>1, <1>2, <1>3, <1>4, <1>5, <1>6, OnePart DEF BitsetCalls, HybridCalls

LEMMA WordsInv ==
  ASSUME BitsetInv, VectorStep \/ WordStep \/ DifferenceTail
  PROVE  BitsetInv'
<1>1. CASE VectorStep
  <2>1. VEC \in Nat \ {0} /\ OnWords /\ i + VEC <= total_size /\ Combine(VEC)
    BY <1>1, BitsetAssumption DEF VectorStep
  <2> QED
    BY <2>1, CombineInv
<1>2. CASE WordStep
  <2>1. OnWords /\ i < total_size /\ Combine(1)
    BY <1>2 DEF WordStep
  <2>2. total_size \in Nat /\ i \in Nat
    <3>1. op \in {"intersect", "union", "difference"}
      BY <2>1 DEF OnWords
    <3>2. IsBitset(A) /\ IsBitset(B)
      BY <3>1 DEF BitsetInv, IntersectInv, UnionInv, DifferenceInv, Holds
    <3> QED
      BY <3>2, SharedWords DEF BitsetInv, BitsetTypes
  <2>3. i + 1 <= total_size /\ 1 \in Nat \ {0}
    BY <2>1, <2>2
  <2> QED
    BY <2>1, <2>3, CombineInv
<1>3. CASE DifferenceTail
  <2>1. /\ op = "difference" /\ i' = i + 1 /\ done' = done /\ UNCHANGED inputVars
    BY <1>3 DEF DifferenceTail
  <2>2. BitsetTypes /\ LayoutInv /\ i \in Nat /\ done \in BOOLEAN
    BY DEF BitsetInv, BitsetTypes
  <2>3. i' \in Nat /\ done' \in BOOLEAN /\ DifferenceInv'
    BY <1>3, <2>1, <2>2, TailDiffers
  <2> QED
    BY <2>1, <2>2, <2>3, OnePart DEF BitsetCalls, HybridCalls
<1> QED
  BY <1>1, <1>2, <1>3

\* The loops end at their ends.
LEMMA FinishInv ==
  ASSUME BitsetInv, Finish
  PROVE  BitsetInv'
<1>1. /\ ~done /\ done' = TRUE /\ op \in BitsetCalls \ HybridCalls /\ i' = i /\ A' = A /\ C' = C
      /\ UNCHANGED inputVars
  BY DEF Finish
<1>2. BitsetTypes /\ LayoutInv /\ i \in Nat /\ i' \in Nat /\ done' \in BOOLEAN
  BY <1>1 DEF BitsetInv, BitsetTypes
<1>3. /\ op' = op /\ a' = a /\ b' = b /\ B' = B /\ target' = target
      /\ start_index' = start_index /\ total_size' = total_size /\ s_a' = s_a /\ s_b' = s_b
      /\ \A w : AWord(w)' = AWord(w) /\ BWord(w)' = BWord(w)
  BY <1>1, OperandsKept
<1>4. ASSUME op \in {"intersect", "union"} PROVE i = total_size
  <2>1. i <= total_size /\ IsBitset(A) /\ IsBitset(B)
    BY <1>4 DEF BitsetInv, IntersectInv, UnionInv, Holds
  <2>2. /\ A.index \in Nat /\ B.index \in Nat /\ s_a \in Nat /\ s_b \in Nat
        /\ start_index \in Nat /\ total_size \in Nat
        /\ A.index <= start_index /\ B.index <= start_index
        /\ total_size > 0 => /\ start_index + total_size <= A.index + s_a
                             /\ start_index + total_size <= B.index + s_b
    BY <2>1, SharedWords
  <2>3. s_a = 0 \/ s_b = 0 \/ i >= total_size
    <3>1. ~OnWords \/ i >= total_size
      BY <1>4 DEF Finish
    <3> QED
      BY <1>1, <1>4, <2>2, <3>1 DEF OnWords
  <2> QED
    BY ONLY <1>2, <2>1, <2>2, <2>3
<1>5. ASSUME op = "difference" PROVE i = Words
  <2>1. i >= Max({total_size, s_a + A.index}) /\ s_a = Words /\ A.index = 0 /\ i <= Words
    BY <1>5 DEF Finish, BitsetInv, DifferenceInv
  <2>2. total_size = s_b /\ s_b \in Nat /\ s_b <= Words /\ Words \in Nat
    BY <1>5, DifferenceWords
  <2>3. s_a + A.index = Words
    BY <2>1, <2>2
  <2>4. Max({total_size, Words}) = IF total_size >= Words THEN total_size ELSE Words
    BY <2>2, LargerOf
  <2> QED
    BY ONLY <1>2, <2>1, <2>2, <2>3, <2>4
<1>6. op = "intersect" => IntersectInv'
  BY <1>1, <1>3, <1>4 DEF BitsetInv, IntersectInv
<1>7. op = "union" => UnionInv'
  BY <1>1, <1>3, <1>4 DEF BitsetInv, UnionInv
<1>8. op = "difference" => DifferenceInv'
  BY <1>1, <1>3, <1>5 DEF BitsetInv, DifferenceInv
<1>9. op = "probe" => ProbeInv'
  <2> SUFFICES ASSUME op = "probe" PROVE ProbeInv'
    OBVIOUS
  <2>1. i = Cardinality(a) /\ a \in SUBSET Universe
    BY DEF Finish, BitsetInv, BitsetTypes
  <2>2. FirstOf(a, i) = a
    BY <2>1, AllElements
  <2>3. Holds(B, b) /\ i <= Cardinality(a) /\ Lists(C, FirstOf(a, i) \cap b)
    BY DEF BitsetInv, ProbeInv
  <2> QED
    BY <1>1, <1>3, <2>2, <2>3 DEF ProbeInv
<1>10. op = "add" => AddInv'
  BY <1>1, <1>3 DEF Finish, BitsetInv, AddInv
<1>11. op = "foreach_until" => UntilInv'
  BY <1>1, <1>3 DEF Finish, BitsetInv, UntilInv
<1> QED
  BY <1>1, <1>2, <1>6, <1>7, <1>8, <1>9, <1>10, <1>11, OnePart

LEMMA BitsetNextInv ==
  ASSUME BitsetInv, [BitsetNext]_bitsetVars
  PROVE  BitsetInv'
<1>1. CASE UNCHANGED bitsetVars
  <2>1. /\ op' = op /\ a' = a /\ b' = b /\ A' = A /\ B' = B /\ target' = target
        /\ layout' = layout /\ C' = C /\ i' = i /\ done' = done
        /\ start_index' = start_index /\ total_size' = total_size /\ s_a' = s_a /\ s_b' = s_b
        /\ \A w : AWord(w)' = AWord(w) /\ BWord(w)' = BWord(w)
    BY <1>1, OperandsKept DEF bitsetVars, inputVars
  <2>2. BitsetTypes' /\ LayoutInv' /\ HybridInv'
    BY <2>1 DEF BitsetInv, BitsetTypes, LayoutInv, HybridInv
  <2>3. IntersectInv'
    BY <2>1 DEF BitsetInv, IntersectInv
  <2>4. UnionInv' /\ DifferenceInv'
    BY <2>1 DEF BitsetInv, UnionInv, DifferenceInv
  <2>5. ProbeInv' /\ AddInv' /\ UntilInv'
    BY <2>1 DEF BitsetInv, ProbeInv, AddInv, UntilInv
  <2> QED
    BY <2>2, <2>3, <2>4, <2>5 DEF BitsetInv
<1>2. CASE BitsetNext
  BY <1>2, DispatchIntersectInv, DispatchUnionInv, WordsInv, ProbeStepInv, AddStepInv,
     VisitWordInv, FinishInv DEF BitsetNext, Progress
<1> QED
  BY <1>1, <1>2
-----------------------------------------------------------------------------
\* The whole of what each operation knows, in every state that can be reached.
THEOREM BitsetInvariance == BitsetSpec => []BitsetInv
<1>1. BitsetInit => BitsetInv
  BY BitsetInitInv
<1>2. BitsetInv /\ [BitsetNext]_bitsetVars => BitsetInv'
  BY BitsetNextInv
<1> QED
  BY <1>1, <1>2, PTL DEF BitsetSpec

\* No word is read behind the words of either operand, wherever the two start.
LEMMA SharedWordsRead == BitsetInv => ReadsSharedWords
<1> SUFFICES ASSUME BitsetInv, OnWords PROVE ReadsSharedWords
  BY DEF ReadsSharedWords
<1>1. op \in {"intersect", "union", "difference"} /\ i \in Nat
  BY DEF OnWords, BitsetInv, BitsetTypes
<1>2. IsBitset(A) /\ IsBitset(B)
  BY <1>1 DEF BitsetInv, IntersectInv, UnionInv, DifferenceInv, Holds
<1>3. /\ A.index \in Nat /\ B.index \in Nat /\ s_a \in Nat /\ s_b \in Nat
      /\ start_index \in Nat /\ total_size \in Nat
      /\ a_start_index = start_index - A.index /\ b_start_index = start_index - B.index
      /\ total_size > 0 => /\ start_index + total_size <= A.index + s_a
                           /\ start_index + total_size <= B.index + s_b
  BY <1>2, SharedWords
<1>4. i < total_size => i + a_start_index < s_a /\ i + b_start_index < s_b
  BY ONLY <1>1, <1>3
<1>5. i + VEC <= total_size => i + VEC + a_start_index <= s_a /\ i + VEC + b_start_index <= s_b
  <2>1. VEC \in Nat \ {0}
    BY BitsetAssumption
  <2> QED
    BY ONLY <1>1, <1>3, <2>1
<1>6. op = "difference" /\ i < s_a + A.index => i + a_start_index < s_a
  <2>1. op = "difference" => A.index = 0 /\ start_index = 0
    BY DifferenceWords DEF BitsetInv, DifferenceInv
  <2> QED
    BY ONLY <1>1, <1>3, <2>1
<1> QED
  BY <1>4, <1>5, <1>6 DEF ReadsSharedWords

\* The words that an intersection leaves hold what its operands share.
LEMMA IntersectedElements ==
  ASSUME BitsetInv, op = "intersect", done
  PROVE  Elements(C) = a \cap b
<1>1. /\ Holds(A, a) /\ Holds(B, b) /\ C = [index |-> C.index, words |-> C.words]
      /\ C.words \in Seq(SUBSET Bit) /\ Len(C.words) = total_size
      /\ C.index = IF total_size = 0 THEN 0 ELSE start_index
      /\ \A w \in 1 .. total_size : C.words[w] = AWord(w - 1) \cap BWord(w - 1)
      /\ a \in SUBSET Universe /\ b \in SUBSET Universe
  BY DEF BitsetInv, BitsetTypes, IntersectInv
<1>2. /\ start_index \in Nat /\ total_size \in Nat /\ Words \in Nat /\ A.index \in Nat
      /\ s_a \in Nat /\ A.index + s_a <= Words
      /\ total_size > 0 => start_index + total_size <= A.index + s_a
  BY <1>1, SharedWords, BitsetAssumption DEF Holds, IsBitset, s_a
<1>3. IsBitset(C)
  <2>1. C.index \in Nat /\ C.index + total_size <= Words
    BY <1>1, <1>2
  <2> QED
    BY <1>1, <2>1 DEF IsBitset
<1>4. ASSUME NEW x \in Universe PROVE IsSet(x, C) <=> x \in a \cap b
  <2> DEFINE v == word_index(x)
             k == v - start_index
  <2>1. x \in Nat /\ v \in Nat /\ bit(x) \in Bit /\ x = WordBits * v + bit(x)
    BY InUniverse, PlaceOf
  <2>2. ASSUME k \in 0 .. total_size - 1 PROVE IsSet(x, C) <=> x \in a \cap b
    <3>1. /\ start_index + k = v /\ k + 1 \in 1 .. total_size /\ (k + 1) - 1 = k
          /\ v < total_size + start_index /\ v >= start_index /\ total_size # 0
      BY <1>2, <2>1, <2>2
    <3>2. C.words[k + 1] = AWord(k) \cap BWord(k)
      <4>1. C.words[k + 1] = AWord((k + 1) - 1) \cap BWord((k + 1) - 1)
        BY <1>1, <3>1
      <4> QED
        BY ONLY <3>1, <4>1
    <3>3. /\ bit(x) \in AWord(k) <=> x \in a
          /\ bit(x) \in BWord(k) <=> x \in b
      <4>1. /\ bit(x) \in AWord(k) <=> WordBits * (start_index + k) + bit(x) \in a
            /\ bit(x) \in BWord(k) <=> WordBits * (start_index + k) + bit(x) \in b
        BY <1>1, <2>1, <2>2, SharedBits
      <4> QED
        BY ONLY <2>1, <3>1, <4>1
    <3>4. IsSet(x, C) <=> bit(x) \in C.words[k + 1]
      BY <1>1, <3>1 DEF IsSet
    <3> QED
      BY <3>2, <3>3, <3>4
  <2>3. ASSUME k \notin 0 .. total_size - 1 PROVE ~IsSet(x, C) /\ x \notin a \cap b
    <3>1. ~(start_index <= v /\ v < start_index + total_size)
      BY <1>2, <2>1, <2>3
    <3>2. x \notin a \cap b
      BY <1>1, <3>1, SharedBits
    <3>3. ~(v < total_size + C.index /\ v >= C.index)
      BY <1>1, <1>2, <2>1, <3>1
    <3> QED
      BY <1>1, <3>2, <3>3 DEF IsSet
  <2> QED
    BY <2>2, <2>3
<1>5. Holds(C, a \cap b)
  BY <1>1, <1>3, <1>4 DEF Holds
<1> QED
  BY <1>5, ElementsHeld

\* The operations on bitsets, on a bitset and an array, and on hybrid sets yield what
\* their names say, for sets and words of any size and wherever the operands start.
LEMMA OperationDone == BitsetInv => IsOperation
<1> SUFFICES ASSUME BitsetInv, done PROVE IsOperation
  BY DEF IsOperation
<1>1. /\ a \in SUBSET Universe /\ b \in SUBSET Universe /\ i \in Nat /\ Words \in Nat
      /\ op \in BitsetCalls
  BY BitsetAssumption DEF BitsetInv, BitsetTypes
<1>2. op = "intersect" => Elements(C) = a \cap b
  BY IntersectedElements
<1>3. op = "probe" => C = Increasing(a \cap b) /\ ToSet(C) = a \cap b
  <2> SUFFICES ASSUME op = "probe" PROVE C = Increasing(a \cap b) /\ ToSet(C) = a \cap b
    OBVIOUS
  <2> DEFINE X == a \cap b
  <2>1. Lists(C, X)
    BY DEF BitsetInv, ProbeInv
  <2> HIDE DEF X
  <2>2. C = Increasing(X) /\ ToSet(C) = X
    BY <2>1, ListsUnique, ListsToSet
  <2> QED
    BY <2>2 DEF X
<1>4. op = "union" => Elements(A) = a \cup b
  <2> SUFFICES ASSUME op = "union" PROVE Elements(A) = a \cup b
    OBVIOUS
  <2>1. /\ Holds(A, a \cup {x \in b : word_index(x) < start_index + i}) /\ i = total_size
        /\ Holds(B, b) /\ A.index = 0 /\ s_a = Words
    BY DEF BitsetInv, UnionInv
  <2>2. \A x \in b : word_index(x) < start_index + total_size
    <3> SUFFICES ASSUME NEW x \in b PROVE word_index(x) < start_index + total_size
      OBVIOUS
    <3>1. IsBitset(A) /\ IsBitset(B)
      BY <2>1 DEF Holds
    <3>2. /\ B.index \in Nat /\ s_b \in Nat /\ start_index \in Nat /\ total_size \in Nat
          /\ start_index \in {A.index, B.index}
          /\ total_size > 0 => start_index + total_size \in {A.index + s_a, B.index + s_b}
          /\ total_size = 0 => A.index + s_a <= start_index \/ B.index + s_b <= start_index
      BY <3>1, SharedWords
    <3>3. B.index + s_b <= Words
      BY <3>1 DEF IsBitset, s_b
    <3>4. x \in Universe /\ IsSet(x, B) /\ word_index(x) \in Nat
      BY <1>1, <2>1, InUniverse, PlaceOf DEF Holds
    <3>5. word_index(x) < s_b + B.index /\ word_index(x) >= B.index /\ word_index(x) < Words
      BY <3>4, InUniverse DEF IsSet, s_b
    <3> QED
      BY ONLY <1>1, <2>1, <3>2, <3>3, <3>4, <3>5
  <2>3. a \cup {x \in b : word_index(x) < start_index + i} = a \cup b
    BY <2>1, <2>2
  <2>4. Holds(A, a \cup b)
    BY <2>1, <2>3
  <2> QED
    BY <2>4, ElementsHeld
<1>5. op = "add" => Elements(A) = a \cup b
  <2> SUFFICES ASSUME op = "add" PROVE Elements(A) = a \cup b
    OBVIOUS
  <2>1. Holds(A, a \cup FirstOf(b, i)) /\ i = Cardinality(b)
    BY DEF BitsetInv, AddInv
  <2>2. Holds(A, a \cup b)
    BY <1>1, <2>1, AllElements
  <2> QED
    BY <2>2, ElementsHeld
<1>6. op = "difference" => C = Increasing(a \ b)
  <2> SUFFICES ASSUME op = "difference" PROVE C = Increasing(a \ b)
    OBVIOUS
  <2> DEFINE X == a \ b
  <2>1. Lists(C, {x \in X : word_index(x) < Words})
    BY DEF BitsetInv, DifferenceInv
  <2>2. {x \in X : word_index(x) < Words} = X
    BY <1>1, InUniverse
  <2> HIDE DEF X
  <2>3. C = Increasing(X)
    BY <2>1, <2>2, ListsUnique
  <2> QED
    BY <2>3 DEF X
<1>7. op = "foreach_until" => target \in ToSet(C) /\ ToSet(C) \subseteq a
  <2> SUFFICES ASSUME op = "foreach_until" PROVE target \in ToSet(C) /\ ToSet(C) \subseteq a
    OBVIOUS
  <2>1. /\ Holds(A, a) /\ target \in a /\ i = s_a /\ ToSet(C) \subseteq a
        /\ word_index(target) < A.index + i => target \in ToSet(C)
    BY DEF BitsetInv, UntilInv
  <2>2. target \in Universe /\ IsSet(target, A)
    BY <1>1, <2>1 DEF Holds
  <2>3. word_index(target) < s_a + A.index
    BY <2>2 DEF IsSet, s_a
  <2>4. s_a \in Nat /\ A.index \in Nat
    BY <2>1, SizesOf DEF Holds, s_a
  <2> QED
    BY <2>1, <2>3, <2>4
<1>8. op = "hybrid_intersect" => layout.C \in {"HYBRID", "UINTEGER", "BITSET"}
        /\ HybridElements = a \cap b
  BY DEF BitsetInv, HybridInv, HybridElements
<1>9. layout.C # "none" => HybridElements = a \cap b
  <2>1. op = "intersect" => layout.C \in {"none", "BITSET"}
    BY DEF BitsetInv, LayoutInv
  <2>2. op = "probe" => layout.C \in {"none", "UINTEGER"}
    BY DEF BitsetInv, LayoutInv
  <2>3. op \in {"union", "add", "difference", "foreach_until"} => layout.C = "none"
    BY DEF BitsetInv, LayoutInv
  <2>4. op # "hybrid_union"
    BY DEF BitsetInv, HybridInv
  <2> QED
    BY <1>1, <1>2, <1>3, <1>8, <2>1, <2>2, <2>3, <2>4
       DEF HybridElements, BitsetCalls, HybridCalls
<1> QED
  BY <1>2, <1>3, <1>4, <1>5, <1>6, <1>7, <1>9 DEF IsOperation
-----------------------------------------------------------------------------
(* The prefix-short layout.                                                           *)

\* Quotients and remainders by n.
LEMMA Quotient ==
  ASSUME NEW n \in Nat \ {0}, NEW x \in Nat
  PROVE  /\ x \div n \in Nat /\ x % n \in 0 .. n - 1
         /\ x = n * (x \div n) + (x % n)
OBVIOUS

LEMMA QuotientsOrdered ==
  ASSUME NEW n \in Nat \ {0}, NEW x \in Nat, NEW y \in Nat
  PROVE  /\ x <= y => x \div n <= y \div n
         /\ x \div n < y \div n => x < y
         /\ x \div n = y \div n => (x % n < y % n <=> x < y)
<1> DEFINE v == x \div n
           w == y \div n
           c == x % n
           d == y % n
<1>1. /\ n \in Nat /\ v \in Nat /\ w \in Nat /\ x = n * v + c /\ y = n * w + d
      /\ c \in 0 .. n - 1 /\ d \in 0 .. n - 1
  BY Quotient
<1> HIDE DEF v, w, c, d
<1>2. ASSUME v < w PROVE x < y
  <2>1. n * (v + 1) <= n * w /\ n * (v + 1) = n * v + n /\ n * v \in Nat /\ n * w \in Nat
    BY <1>1, <1>2, Products
  <2> QED
    BY <1>1, <2>1
<1>3. ASSUME w < v PROVE y < x
  <2>1. n * (w + 1) <= n * v /\ n * (w + 1) = n * w + n /\ n * v \in Nat /\ n * w \in Nat
    BY <1>1, <1>3, Products
  <2> QED
    BY <1>1, <2>1
<1>4. ASSUME v = w PROVE c < d <=> x < y
  <2>1. n * v \in Nat /\ n * v = n * w
    BY <1>1, <1>4
  <2> QED
    BY <1>1, <2>1
<1>5. x <= y => v <= w
  <2>1. v \in Nat /\ w \in Nat /\ (w < v => y < x)
    BY <1>1, <1>3
  <2> QED
    BY ONLY <2>1, x \in Nat, y \in Nat
<1> QED
  BY <1>2, <1>4, <1>5 DEF v, w, c, d

LEMMA QuotientOf ==
  ASSUME NEW n \in Nat \ {0}, NEW q \in Nat, NEW r \in 0 .. n - 1
  PROVE  /\ n * q + r \in Nat
         /\ (n * q + r) \div n = q /\ (n * q + r) % n = r
<1> DEFINE x == n * q + r
           v == x \div n
           d == x % n
<1>1. n \in Nat /\ n > 0 /\ r \in Nat /\ r < n /\ n * q \in Nat /\ x \in Nat
  OBVIOUS
<1>2. v \in Nat /\ d \in Nat /\ d < n /\ x = n * v + d
  BY <1>1, Quotient
<1> HIDE DEF v, d
<1>3. ASSUME v < q PROVE FALSE
  <2>1. n * (v + 1) <= n * q /\ n * (v + 1) = n * v + n /\ n * v \in Nat
    BY <1>1, <1>2, <1>3, Products
  <2> QED
    BY <1>1, <1>2, <2>1
<1>4. ASSUME q < v PROVE FALSE
  <2>1. n * (q + 1) <= n * v /\ n * (q + 1) = n * q + n /\ n * v \in Nat
    BY <1>1, <1>2, <1>4, Products
  <2> QED
    BY <1>1, <1>2, <2>1
<1>5. v = q
  BY <1>2, <1>3, <1>4
<1>6. d = r
  BY <1>1, <1>2, <1>5
<1> QED
  BY <1>1, <1>5, <1>6 DEF v, d

\* Every number has its place in a partition.
LEMMA PrefixOf ==
  ASSUME NEW x \in Nat
  PROVE  /\ prefix(x) \in Nat /\ low(x) \in 0 .. Cell - 1 /\ low(x) \in Nat
         /\ x = prefix(x) * Cell + low(x)
<1>1. Cell \in Nat \ {0}
  BY PShortAssumption
<1>2. x \div Cell \in Nat /\ x % Cell \in 0 .. Cell - 1 /\ x = Cell * (x \div Cell) + (x % Cell)
  BY <1>1, Quotient
<1> DEFINE q == x \div Cell
           r == x % Cell
<1>3. q \in Nat /\ r \in 0 .. Cell - 1 /\ x = Cell * q + r
  BY <1>2
<1> HIDE DEF q, r
<1>4. q \in Nat /\ r \in 0 .. Cell - 1 /\ r \in Nat /\ x = q * Cell + r
  BY <1>1, <1>3
<1> QED
  BY <1>4 DEF prefix, low, q, r

LEMMA AtPrefix ==
  ASSUME NEW p \in Nat, NEW l \in 0 .. Cell - 1
  PROVE  /\ p * Cell + l \in Nat
         /\ prefix(p * Cell + l) = p /\ low(p * Cell + l) = l
<1>1. Cell \in Nat \ {0} /\ p * Cell = Cell * p
  BY PShortAssumption
<1> QED
  BY <1>1, QuotientOf DEF prefix, low

LEMMA PrefixesOrdered ==
  ASSUME NEW x \in Nat, NEW y \in Nat
  PROVE  /\ x <= y => prefix(x) <= prefix(y)
         /\ prefix(x) < prefix(y) => x < y
         /\ prefix(x) = prefix(y) => (low(x) < low(y) <=> x < y)
         /\ prefix(x) = prefix(y) /\ low(x) = low(y) => x = y
<1>1. Cell \in Nat \ {0}
  BY PShortAssumption
<1>2. prefix(x) = prefix(y) /\ low(x) = low(y) => x = y
  BY PrefixOf
<1> QED
  BY <1>1, <1>2, QuotientsOrdered DEF prefix, low
-----------------------------------------------------------------------------
\* The prefixes of the elements of a set, those with one prefix, and their lower bits.
PrefixesOf(S) == {prefix(x) : x \in S}
Part(S, p) == {x \in S : prefix(x) = p}
Lowers(S, p) == {low(x) : x \in Part(S, p)}

Piece(S, p) == <<p, Len(Partition(S, p)) - 1>> \o Partition(S, p)
Pieces(S) ==
  [n \in 1 .. Cardinality(PrefixesOf(S)) |-> Piece(S, Increasing(PrefixesOf(S))[n])]

Finite(S) == S \in SUBSET Nat /\ IsFiniteSet(S)

LEMMA PartFacts ==
  ASSUME NEW S, Finite(S), NEW p
  PROVE  /\ Finite(Part(S, p)) /\ Lowers(S, p) \subseteq 0 .. Cell - 1
         /\ Finite(Lowers(S, p))
         /\ Cardinality(Lowers(S, p)) = Cardinality(Part(S, p))
         /\ Cardinality(Part(S, p)) \in Nat
         /\ \A l \in Lowers(S, p) : p \in Nat /\ p * Cell + l \in Part(S, p)
         /\ Part(S, p) # {} <=> p \in PrefixesOf(S)
         /\ Part(S, p) # {} <=> Cardinality(Part(S, p)) > 0
<1> DEFINE X == Part(S, p)
           Y == Lowers(S, p)
           f == [x \in X |-> low(x)]
<1>1. /\ X \subseteq S /\ X \in SUBSET Nat /\ IsFiniteSet(X)
      /\ \A x \in X : prefix(x) = p
  BY FS_Subset DEF Finite, Part
<1>2. \A x \in X : /\ x \in Nat /\ low(x) \in 0 .. Cell - 1 /\ low(x) \in Nat
                   /\ p \in Nat /\ x = p * Cell + low(x)
  BY <1>1, PrefixOf
<1>3. Y \subseteq 0 .. Cell - 1 /\ Y \in SUBSET Nat
  BY <1>2 DEF Lowers
<1>4. f \in [X -> Y] /\ \A t \in Y : \E x \in X : f[x] = t
  BY DEF Lowers
<1>5. \A x, y \in X : f[x] = f[y] => x = y
  <2> SUFFICES ASSUME NEW x \in X, NEW y \in X, low(x) = low(y) PROVE x = y
    OBVIOUS
  <2> QED
    BY <1>2
<1>6. IsFiniteSet(Y) /\ Cardinality(Y) = Cardinality(X)
  <2> HIDE DEF X, Y, f
  <2> QED
    BY <1>1, <1>4, <1>5, ImagesCounted
<1>7. \A l \in Y : p \in Nat /\ p * Cell + l \in X
  BY <1>2 DEF Lowers
<1>8. X # {} <=> p \in PrefixesOf(S)
  BY DEF Part, PrefixesOf
<1>9. Cardinality(X) \in Nat /\ (X # {} <=> Cardinality(X) > 0)
  <2>1. Cardinality(X) \in Nat /\ (Cardinality(X) = 0 <=> X = {})
    BY <1>1, FS_CardinalityType, FS_EmptySet
  <2> QED
    BY <2>1
<1> QED
  BY <1>1, <1>3, <1>6, <1>7, <1>8, <1>9 DEF Finite

\* The cells of a partition.
LEMMA PieceFacts ==
  ASSUME NEW S, Finite(S), NEW p \in PrefixesOf(S)
  PROVE  /\ p \in Nat
         /\ Partition(S, p) = Increasing(Lowers(S, p))
         /\ Lists(Partition(S, p), Lowers(S, p))
         /\ Len(Partition(S, p)) = Cardinality(Part(S, p))
         /\ Cardinality(Part(S, p)) \in Nat \ {0}
         /\ Piece(S, p) \in Seq(Nat) /\ Len(Piece(S, p)) = Cardinality(Part(S, p)) + 2
         /\ Piece(S, p)[1] = p
         /\ Piece(S, p)[2] = Cardinality(Part(S, p)) - 1
         /\ \A m \in 1 .. Cardinality(Part(S, p)) : Piece(S, p)[m + 2] = Partition(S, p)[m]
<1> DEFINE s == Partition(S, p)
           n == Cardinality(Part(S, p))
           h == <<p, n - 1>>
<1>1. p \in Nat
  BY PrefixOf DEF PrefixesOf, Finite
<1>2. s = Increasing(Lowers(S, p))
  BY DEF Partition, Lowers, Part
<1>3. Finite(Lowers(S, p)) /\ Cardinality(Lowers(S, p)) = n /\ n \in Nat /\ n > 0
  BY PartFacts
<1>4. Lists(s, Lowers(S, p)) /\ Len(s) = n
  BY <1>2, <1>3, ListsIncreasing DEF Finite
<1>5. s \in Seq(Nat) /\ h \in Seq(Nat) /\ Len(h) = 2 /\ h[1] = p /\ h[2] = n - 1
  BY <1>1, <1>3, <1>4 DEF Lists
<1>6. Piece(S, p) = h \o s
  BY <1>4 DEF Piece
<1> HIDE DEF s, n, h
<1>7. /\ h \o s \in Seq(Nat) /\ Len(h \o s) = 2 + n
      /\ (h \o s)[1] = p /\ (h \o s)[2] = n - 1
      /\ \A m \in 1 .. n : (h \o s)[m + 2] = s[m]
  <2>1. /\ h \o s \in Seq(Nat) /\ Len(h \o s) = Len(h) + Len(s)
        /\ \A m \in 1 .. Len(h) : (h \o s)[m] = h[m]
        /\ \A m \in 1 .. Len(s) : (h \o s)[Len(h) + m] = s[m]
    BY ONLY <1>5, JoinedSequences
  <2>2. 1 \in 1 .. 2 /\ 2 \in 1 .. 2 /\ \A m \in 1 .. n : m + 2 = 2 + m
    BY <1>3
  <2> QED
    BY ONLY <1>4, <1>5, <2>1, <2>2
<1> QED
  BY <1>1, <1>2, <1>3, <1>4, <1>6, <1>7 DEF s, n

LEMMA PiecesFacts ==
  ASSUME NEW S, Finite(S)
  PROVE  /\ Finite(PrefixesOf(S))
         /\ Lists(Increasing(PrefixesOf(S)), PrefixesOf(S))
         /\ Len(Increasing(PrefixesOf(S))) = Cardinality(PrefixesOf(S))
         /\ Cardinality(PrefixesOf(S)) \in Nat
         /\ Pieces(S) \in Seq(Seq(Nat)) /\ Len(Pieces(S)) = Cardinality(PrefixesOf(S))
         /\ BuildPShort(S) = FlattenSeq(Pieces(S))
         /\ BuildPShort(S) \in Seq(Nat)
<1> DEFINE P == PrefixesOf(S)
           n == Cardinality(P)
           s == Increasing(P)
<1>1. IsFiniteSet(P)
  <2> DEFINE f == [x \in S |-> prefix(x)]
  <2>1. f \in Surjection(S, P)
    BY DEF Surjection, PrefixesOf
  <2> QED
    BY <2>1, FS_Surjection DEF Finite
<1>2. P \in SUBSET Nat
  BY PrefixOf DEF PrefixesOf, Finite
<1>3. n \in Nat /\ Lists(s, P) /\ Len(s) = n
  BY <1>1, <1>2, ListsIncreasing, FS_CardinalityType
<1>4. \A m \in 1 .. n : Piece(S, s[m]) \in Seq(Nat)
  <2>1. \A m \in 1 .. n : s[m] \in P
    BY <1>3 DEF Lists
  <2> QED
    BY <2>1, PieceFacts
<1>5. Pieces(S) \in Seq(Seq(Nat)) /\ Len(Pieces(S)) = n
  <2>1. Pieces(S) = [m \in 1 .. n |-> Piece(S, s[m])]
    BY DEF Pieces
  <2> HIDE DEF n, s
  <2> QED
    BY <1>3, <1>4, <2>1
<1>6. BuildPShort(S) = FlattenSeq(Pieces(S))
  BY DEF BuildPShort, Pieces, Piece, PrefixesOf
<1>7. FlattenSeq(Pieces(S)) \in Seq(Nat)
  BY <1>5, FlattenAppended, EmptySeq
<1> QED
  BY <1>1, <1>2, <1>3, <1>5, <1>6, <1>7 DEF Finite
-----------------------------------------------------------------------------
LEMMA PieceOfPart ==
  ASSUME NEW S, NEW T, NEW p, Part(S, p) = Part(T, p)
  PROVE  Piece(S, p) = Piece(T, p) /\ Lowers(S, p) = Lowers(T, p)
<1>1. Partition(S, p) = Partition(T, p)
  BY DEF Partition, Part
<1> QED
  BY <1>1 DEF Piece, Lowers

\* A set is laid out before one with larger prefixes only.
LEMMA BuildJoined ==
  ASSUME NEW X, Finite(X), NEW Y, Finite(Y),
         \A x \in X, y \in Y : prefix(x) < prefix(y)
  PROVE  /\ Finite(X \cup Y)
         /\ BuildPShort(X \cup Y) = BuildPShort(X) \o BuildPShort(Y)
<1> DEFINE Z == X \cup Y
           s == Increasing(PrefixesOf(X))
           t == Increasing(PrefixesOf(Y))
           u == Increasing(PrefixesOf(Z))
           m == Len(s)
           n == Len(t)
<1>1. Finite(Z)
  BY FS_Union DEF Finite
<1>2. /\ Lists(s, PrefixesOf(X)) /\ Lists(t, PrefixesOf(Y)) /\ Len(u) = Cardinality(PrefixesOf(Z))
      /\ m = Cardinality(PrefixesOf(X)) /\ n = Cardinality(PrefixesOf(Y))
      /\ s \in Seq(Nat) /\ t \in Seq(Nat) /\ m \in Nat /\ n \in Nat
      /\ \A k \in 1 .. m : s[k] \in PrefixesOf(X)
      /\ \A k \in 1 .. n : t[k] \in PrefixesOf(Y)
  BY <1>1, PiecesFacts DEF Lists
<1>3. PrefixesOf(Z) = PrefixesOf(X) \cup PrefixesOf(Y)
  BY DEF PrefixesOf
<1>4. \A p \in PrefixesOf(X), q \in PrefixesOf(Y) : p < q
  BY DEF PrefixesOf
<1> HIDE DEF s, t, u, Z
<1>5. Lists(s \o t, PrefixesOf(Z))
  BY ONLY <1>2, <1>3, <1>4, ListsJoined
<1>6. u = s \o t
  BY <1>5, ListsUnique DEF u
<1>7. /\ Len(u) = m + n
      /\ \A k \in 1 .. m : u[k] = s[k]
      /\ \A k \in 1 .. n : u[m + k] = t[k]
  BY ONLY <1>2, <1>6, JoinedSequences
<1>8. /\ \A p \in PrefixesOf(X) : Piece(Z, p) = Piece(X, p)
      /\ \A p \in PrefixesOf(Y) : Piece(Z, p) = Piece(Y, p)
  <2>1. \A p \in PrefixesOf(X), q \in PrefixesOf(Y) : p # q /\ p \in Nat /\ q \in Nat
    <3>1. PrefixesOf(X) \subseteq Nat /\ PrefixesOf(Y) \subseteq Nat
      BY PiecesFacts DEF Finite
    <3> QED
      BY <1>4, <3>1
  <2>2. ASSUME NEW p \in PrefixesOf(X) PROVE Piece(Z, p) = Piece(X, p)
    <3>1. \A y \in Y : prefix(y) # p
      BY <2>1 DEF PrefixesOf
    <3>2. Part(Z, p) = Part(X, p)
      BY <3>1 DEF Part, Z
    <3> QED
      BY <3>2, PieceOfPart
  <2>3. ASSUME NEW p \in PrefixesOf(Y) PROVE Piece(Z, p) = Piece(Y, p)
    <3>1. \A x \in X : prefix(x) # p
      BY <2>1 DEF PrefixesOf
    <3>2. Part(Z, p) = Part(Y, p)
      BY <3>1 DEF Part, Z
    <3> QED
      BY <3>2, PieceOfPart
  <2> QED
    BY <2>2, <2>3
<1>9. /\ Pieces(X) \in Seq(Seq(Nat)) /\ Pieces(Y) \in Seq(Seq(Nat))
      /\ Pieces(Z) \in Seq(Seq(Nat))
      /\ Len(Pieces(X)) = m /\ Len(Pieces(Y)) = n /\ Len(Pieces(Z)) = m + n
  BY <1>1, <1>2, <1>7, PiecesFacts
<1>10. /\ \A k \in 1 .. m : Pieces(X)[k] = Piece(X, s[k])
       /\ \A k \in 1 .. n : Pieces(Y)[k] = Piece(Y, t[k])
       /\ \A k \in 1 .. m + n : Pieces(Z)[k] = Piece(Z, u[k])
  BY <1>2, <1>7 DEF Pieces, s, t, u
<1> HIDE DEF m, n
<1>11. Pieces(Z) = Pieces(X) \o Pieces(Y)
  <2> DEFINE Q == Seq(Nat)
             v == Pieces(X)
             w == Pieces(Y)
  <2>1. v \in Seq(Q) /\ w \in Seq(Q) /\ Len(v) = m /\ Len(w) = n
    BY <1>9
  <2> HIDE DEF Q, v, w
  <2>2. /\ v \o w \in Seq(Q) /\ Len(v \o w) = m + n
        /\ \A k \in 1 .. m : (v \o w)[k] = v[k]
        /\ \A k \in 1 .. n : (v \o w)[m + k] = w[k]
    BY ONLY <2>1
  <2>3. ASSUME NEW k \in 1 .. m PROVE Pieces(Z)[k] = v[k]
    <3>1. k \in 1 .. m + n
      BY <1>2
    <3>2. Pieces(Z)[k] = Piece(Z, u[k]) /\ v[k] = Piece(X, s[k])
      BY <1>10, <3>1 DEF v
    <3> QED
      BY <1>2, <1>7, <1>8, <3>2
  <2>4. ASSUME NEW k \in 1 .. n PROVE Pieces(Z)[m + k] = w[k]
    <3>1. m + k \in 1 .. m + n
      BY <1>2
    <3> QED
      <4>1. Pieces(Z)[m + k] = Piece(Z, u[m + k]) /\ u[m + k] = t[k]
        BY <1>7, <1>10, <3>1
      <4>2. t[k] \in PrefixesOf(Y) /\ w[k] = Piece(Y, t[k])
        BY <1>2, <1>10 DEF w
      <4> QED
        BY <1>8, <4>1, <4>2
  <2>5. \A k \in 1 .. m + n : k \in 1 .. m \/ (k - m \in 1 .. n /\ m + (k - m) = k)
    BY <1>2
  <2>6. ASSUME NEW k \in 1 .. m + n PROVE Pieces(Z)[k] = (v \o w)[k]
    <3>1. CASE k \in 1 .. m
      BY <2>2, <2>3, <3>1
    <3>2. CASE k - m \in 1 .. n /\ m + (k - m) = k
      <4>1. Pieces(Z)[m + (k - m)] = w[k - m] /\ (v \o w)[m + (k - m)] = w[k - m]
        BY <2>2, <2>4, <3>2
      <4> QED
        BY <3>2, <4>1
    <3> QED
      BY <2>5, <3>1, <3>2
  <2>7. Pieces(Z) \in Seq(Q) /\ Len(Pieces(Z)) = m + n
    BY <1>9 DEF Q
  <2>8. Pieces(Z) = v \o w
    BY ONLY <2>2, <2>6, <2>7, SeqEqual
  <2> QED
    BY <2>8 DEF v, w
<1>12. FlattenSeq(Pieces(X) \o Pieces(Y)) = FlattenSeq(Pieces(X)) \o FlattenSeq(Pieces(Y))
  BY <1>9, FlattenJoined
<1>13. BuildPShort(Z) = BuildPShort(X) \o BuildPShort(Y)
  <2>1. /\ BuildPShort(Z) = FlattenSeq(Pieces(Z))
        /\ BuildPShort(X) = FlattenSeq(Pieces(X)) /\ BuildPShort(Y) = FlattenSeq(Pieces(Y))
    BY <1>1, PiecesFacts
  <2> QED
    BY <1>11, <1>12, <2>1
<1> QED
  BY <1>1, <1>13 DEF Z

\* A set of numbers with one prefix is one partition.
LEMMA BuildOne ==
  ASSUME NEW X, Finite(X), X # {}, NEW p, \A x \in X : prefix(x) = p
  PROVE  p \in PrefixesOf(X) /\ Part(X, p) = X /\ BuildPShort(X) = Piece(X, p)
<1>1. PrefixesOf(X) = {p} /\ Part(X, p) = X
  BY DEF PrefixesOf, Part
<1>2. p \in Nat
  BY <1>1, PiecesFacts DEF Finite
<1>3. Lists(<<p>>, {p})
  <2>1. <<p>> \in Seq(Nat) /\ Len(<<p>>) = 1 /\ <<p>>[1] = p /\ 1 .. 1 = {1}
    BY <1>2
  <2> QED
    BY <1>2, <2>1 DEF Lists
<1>4. Increasing({p}) = <<p>> /\ Cardinality({p}) = 1
  BY <1>3, ListsUnique, FS_Singleton
<1>5. Pieces(X) = <<Piece(X, p)>>
  BY <1>1, <1>4 DEF Pieces
<1> QED
  BY <1>1, <1>5, PiecesFacts, FlattenOne

LEMMA BuildNothing ==
  BuildPShort({}) = << >> /\ Finite({})
<1>1. PrefixesOf({}) = {} /\ Cardinality({}) = 0 /\ Finite({})
  BY FS_EmptySet DEF PrefixesOf, Finite
<1>2. Pieces({}) = << >>
  <2>1. Pieces({}) \in Seq(Seq(Nat)) /\ Len(Pieces({})) = 0
    BY <1>1, PiecesFacts
  <2> QED
    BY <2>1, EmptySeq
<1>3. FlattenSeq(<< >>) = << >>
  BY DEF FlattenSeq
<1> QED
  BY <1>1, <1>2, <1>3, PiecesFacts
-----------------------------------------------------------------------------
\* D is S laid out, and the partitions before position n are those of X.
Stands(S, D, X, n) ==
  /\ Finite(S) /\ D = BuildPShort(S)
  /\ X \subseteq S /\ n = Len(BuildPShort(X))
  /\ \A x \in X, y \in S \ X : prefix(x) < prefix(y)

\* The elements of the partition at position n.
FrontOf(S, D, n) == Part(S, CellOf(D, n))

LEMMA StandsFirst ==
  ASSUME NEW S, Finite(S)
  PROVE  Stands(S, BuildPShort(S), {}, 0)
<1>1. 0 = Len(BuildPShort({}))
  BY BuildNothing
<1> QED
  BY <1>1 DEF Stands

LEMMA StandsFacts ==
  ASSUME NEW S, NEW D, NEW X, NEW n, Stands(S, D, X, n)
  PROVE  /\ Finite(X) /\ Finite(S \ X) /\ Finite(S)
         /\ D \in Seq(Nat) /\ n \in Nat /\ Len(D) \in Nat
         /\ D = BuildPShort(X) \o BuildPShort(S \ X)
         /\ Len(D) = n + Len(BuildPShort(S \ X))
         /\ Len(BuildPShort(S \ X)) \in Nat
         /\ \A k \in Nat : CellOf(D, k) \in Nat
<1>1. Finite(X) /\ Finite(S \ X) /\ X \cup (S \ X) = S /\ Finite(S)
  BY FS_Subset DEF Stands, Finite
<1>2. BuildPShort(S) = BuildPShort(X) \o BuildPShort(S \ X)
  <2>1. \A x \in X, y \in S \ X : prefix(x) < prefix(y)
    BY DEF Stands
  <2> DEFINE Y == S \ X
  <2> HIDE DEF Y
  <2>2. BuildPShort(X \cup Y) = BuildPShort(X) \o BuildPShort(Y)
    BY <1>1, <2>1, BuildJoined DEF Y
  <2> QED
    BY <1>1, <2>2 DEF Y
<1>3. BuildPShort(X) \in Seq(Nat) /\ BuildPShort(S \ X) \in Seq(Nat) /\ BuildPShort(S) \in Seq(Nat)
  BY <1>1, PiecesFacts
<1>4. /\ n = Len(BuildPShort(X)) /\ D = BuildPShort(S)
      /\ Len(BuildPShort(X)) \in Nat /\ Len(BuildPShort(S \ X)) \in Nat
  BY <1>3 DEF Stands
<1>5. D \in Seq(Nat) /\ Len(D) = n + Len(BuildPShort(S \ X))
  BY ONLY <1>2, <1>3, <1>4, JoinedSequences
<1>6. ASSUME NEW k \in Nat PROVE CellOf(D, k) \in Nat
  <2>1. k < Len(D) => k + 1 \in 1 .. Len(D)
    BY <1>5
  <2>2. k < Len(D) => D[k + 1] \in Nat
    BY <1>5, <2>1, ElementOfSeq
  <2> QED
    BY <2>2 DEF CellOf
<1>7. D = BuildPShort(X) \o BuildPShort(S \ X) /\ n \in Nat /\ Len(D) \in Nat
  BY <1>2, <1>4, <1>5
<1> QED
  BY <1>1, <1>4, <1>5, <1>6, <1>7

\* Behind position n lies the partition of the least prefix left, until none is left.
Ahead(S, D, X, n) ==
  LET p == CellOf(D, n)
      H == FrontOf(S, D, n)
      k == Cardinality(H)
  IN  /\ n < Len(D) /\ p \in PrefixesOf(S) /\ p \in Nat
      /\ H \subseteq S /\ H \cap X = {} /\ Finite(H)
      /\ k \in Nat \ {0}
      /\ \A y \in S \ X : p <= prefix(y) /\ (prefix(y) = p <=> y \in H)
      /\ CellOf(D, n + 1) = k - 1
      /\ \A m \in 0 .. k - 1 : CellOf(D, n + 2 + m) = Increasing(Lowers(S, p))[m + 1]
      /\ Lows(D, n) = Increasing(Lowers(S, p))
      /\ Stands(S, D, X \cup H, n + 2 + k)

LEMMA StandsAhead ==
  ASSUME NEW S, NEW D, NEW X, NEW n, Stands(S, D, X, n), X # S
  PROVE  Ahead(S, D, X, n)
<1> DEFINE Y == S \ X
           P == PrefixesOf(Y)
<1>1. /\ Finite(X) /\ Finite(Y) /\ Finite(S) /\ X \subseteq S
      /\ \A x \in X, y \in Y : prefix(x) < prefix(y)
  BY StandsFacts DEF Stands
<1>2. PICK p \in P : \A q \in P : p <= q
  <2>1. P \in SUBSET Nat /\ P # {}
    <3>1. P \in SUBSET Nat
      BY <1>1, PiecesFacts DEF Finite
    <3>2. Y # {}
      BY <1>1
    <3> QED
      BY <3>1, <3>2 DEF PrefixesOf
  <2> HIDE DEF P
  <2> QED
    BY ONLY <2>1, LeastNumber
<1> DEFINE H == Part(S, p)
           k == Cardinality(H)
           R == Y \ H
           s == Partition(S, p)
<1>3. /\ H # {} /\ H \subseteq Y /\ p \in PrefixesOf(S) /\ p \in Nat
      /\ \A x \in H : prefix(x) = p
  <2>1. PICK y \in Y : prefix(y) = p
    BY DEF PrefixesOf
  <2>2. p \in Nat
    BY <1>1, <2>1, PrefixOf DEF Finite
  <2>3. \A x \in X : prefix(x) # p
    BY <1>1, <2>1, <2>2
  <2> QED
    BY <2>1, <2>2, <2>3 DEF Part, PrefixesOf
<1>4. \A y \in Y : p <= prefix(y) /\ (prefix(y) = p <=> y \in H)
  BY <1>2 DEF PrefixesOf, Part
<1>5. /\ Finite(H) /\ Finite(R) /\ H \cup R = Y
      /\ \A x \in H, y \in R : prefix(x) < prefix(y)
  <2>1. Finite(H) /\ Finite(R)
    BY <1>1, <1>3, FS_Subset DEF Finite
  <2>2. \A y \in R : p < prefix(y)
    <3>1. \A y \in R : prefix(y) \in Nat /\ p <= prefix(y) /\ prefix(y) # p
      BY <1>1, <1>4, PrefixOf DEF Finite
    <3> QED
      BY <1>3, <3>1
  <2> QED
    BY <1>3, <2>1, <2>2
<1>6. /\ Piece(S, p) \in Seq(Nat) /\ Len(Piece(S, p)) = k + 2 /\ k \in Nat \ {0}
      /\ Piece(S, p)[1] = p /\ Piece(S, p)[2] = k - 1
      /\ \A m \in 1 .. k : Piece(S, p)[m + 2] = s[m]
      /\ s = Increasing(Lowers(S, p)) /\ Len(s) = k /\ Lists(s, Lowers(S, p))
  BY <1>1, <1>3, PieceFacts
<1>7. BuildPShort(H) = Piece(S, p)
  <2>1. Part(H, p) = H
    BY <1>3, <1>5, BuildOne
  <2>2. Piece(H, p) = Piece(S, p)
    BY <2>1, PieceOfPart
  <2> QED
    BY <1>3, <1>5, <2>2, BuildOne
<1>8. BuildPShort(Y) = Piece(S, p) \o BuildPShort(R)
  BY <1>5, <1>7, BuildJoined
<1>9. BuildPShort(X \cup H) = BuildPShort(X) \o Piece(S, p)
  <2>1. \A x \in X, y \in H : prefix(x) < prefix(y)
    BY <1>1, <1>3
  <2> QED
    BY <1>1, <1>5, <1>7, <2>1, BuildJoined
<1>10. /\ D = BuildPShort(X) \o BuildPShort(Y) /\ D \in Seq(Nat) /\ n \in Nat
       /\ Len(D) = n + Len(BuildPShort(Y)) /\ n = Len(BuildPShort(X))
  BY StandsFacts DEF Stands
<1>11. /\ BuildPShort(X) \in Seq(Nat) /\ BuildPShort(Y) \in Seq(Nat) /\ BuildPShort(R) \in Seq(Nat)
  BY <1>1, <1>5, PiecesFacts
<1> DEFINE Z == Piece(S, p)
           l == Len(BuildPShort(Y))
<1> HIDE DEF Y, P, H, k, R, s, Z
<1>12. /\ l \in Nat /\ l >= k + 2
       /\ \A m \in 1 .. k + 2 : BuildPShort(Y)[m] = Z[m]
       /\ \A m \in 1 .. l : D[n + m] = BuildPShort(Y)[m]
  <2>1. /\ Len(Z \o BuildPShort(R)) = Len(Z) + Len(BuildPShort(R)) /\ Len(BuildPShort(R)) \in Nat
        /\ \A m \in 1 .. Len(Z) : (Z \o BuildPShort(R))[m] = Z[m]
    <3>1. Z \in Seq(Nat)
      BY <1>6 DEF Z
    <3>2. Len(BuildPShort(R)) \in Nat
      BY <1>11
    <3> QED
      BY ONLY <1>11, <3>1, <3>2, JoinedSequences
  <2>2. \A m \in 1 .. l : D[n + m] = BuildPShort(Y)[m]
    BY ONLY <1>10, <1>11, JoinedSequences
  <2>3. Len(Z) = k + 2 /\ k \in Nat /\ BuildPShort(Y) = Z \o BuildPShort(R)
    BY <1>6, <1>8 DEF Z
  <2>4. l = k + 2 + Len(BuildPShort(R)) /\ l \in Nat /\ l >= k + 2
    BY ONLY <2>1, <2>3
  <2> QED
    BY ONLY <2>1, <2>2, <2>3, <2>4
<1>13. \A m \in 1 .. k + 2 : CellOf(D, n + m - 1) = Z[m]
  <2> SUFFICES ASSUME NEW m \in 1 .. k + 2 PROVE CellOf(D, n + m - 1) = Z[m]
    OBVIOUS
  <2>1. /\ m \in 1 .. l /\ n + m - 1 < Len(D) /\ (n + m - 1) + 1 = n + m
    <3> HIDE DEF l
    <3>1. l \in Nat /\ l >= k + 2 /\ n \in Nat /\ k \in Nat /\ Len(D) = n + l
      BY <1>6, <1>10, <1>12 DEF l
    <3> QED
      BY ONLY <3>1, m \in 1 .. k + 2
  <2>2. D[n + m] = Z[m]
    BY <1>12, <2>1
  <2> QED
    BY <2>1, <2>2 DEF CellOf
<1>14. CellOf(D, n) = p /\ CellOf(D, n + 1) = k - 1
  <2>1. 1 \in 1 .. k + 2 /\ 2 \in 1 .. k + 2 /\ n + 1 - 1 = n /\ n + 2 - 1 = n + 1
    BY <1>6, <1>10
  <2>2. CellOf(D, n + 1 - 1) = Z[1] /\ CellOf(D, n + 2 - 1) = Z[2]
    BY <1>13, <2>1
  <2> QED
    BY <1>6, <2>1, <2>2 DEF Z
<1>15. \A m \in 0 .. k - 1 : CellOf(D, n + 2 + m) = s[m + 1]
  <2> SUFFICES ASSUME NEW m \in 0 .. k - 1 PROVE CellOf(D, n + 2 + m) = s[m + 1]
    OBVIOUS
  <2>1. m + 3 \in 1 .. k + 2 /\ m + 1 \in 1 .. k /\ (m + 1) + 2 = m + 3 /\ n + (m + 3) - 1 = n + 2 + m
    BY <1>6, <1>10
  <2>2. CellOf(D, n + (m + 3) - 1) = Z[m + 3]
    BY <1>13, <2>1
  <2>3. Z[(m + 1) + 2] = s[m + 1]
    BY <1>6, <2>1 DEF Z
  <2> QED
    BY <2>1, <2>2, <2>3
<1>16. Lows(D, n) = s
  <2>1. CellOf(D, n + 1) + 1 = k
    BY <1>6, <1>14
  <2>2. \A m \in 1 .. k : CellOf(D, n + 1 + m) = s[m]
    <3> SUFFICES ASSUME NEW m \in 1 .. k PROVE CellOf(D, n + 1 + m) = s[m]
      OBVIOUS
    <3>1. m - 1 \in 0 .. k - 1 /\ n + 2 + (m - 1) = n + 1 + m /\ (m - 1) + 1 = m
      BY <1>6, <1>10
    <3>2. CellOf(D, n + 2 + (m - 1)) = s[(m - 1) + 1]
      BY <1>15, <3>1
    <3> QED
      BY <3>1, <3>2
  <2>3. Lows(D, n) = [m \in 1 .. k |-> s[m]]
    BY <2>1, <2>2 DEF Lows
  <2>4. s = [m \in 1 .. k |-> s[m]]
    BY <1>6 DEF Lists
  <2> QED
    BY <2>3, <2>4
<1>17. Stands(S, D, X \cup H, n + 2 + k)
  <2>1. Len(BuildPShort(X) \o Z) = Len(BuildPShort(X)) + Len(Z)
    BY ONLY <1>6, <1>11, JoinedSequences DEF Z
  <2>2. Len(BuildPShort(X \cup H)) = n + 2 + k
    BY <1>6, <1>9, <1>10, <2>1 DEF Z
  <2>3. \A x \in X \cup H, y \in S \ (X \cup H) : prefix(x) < prefix(y)
    BY <1>1, <1>5 DEF Y, R
  <2>4. X \cup H \subseteq S
    BY <1>1, <1>3 DEF Y
  <2> QED
    BY <2>2, <2>3, <2>4 DEF Stands
<1>18. n < Len(D)
  BY <1>6, <1>10, <1>12
<1>19. FrontOf(S, D, n) = H
  BY <1>14 DEF FrontOf, H
<1>20. H \subseteq S /\ H \cap X = {}
  BY <1>1, <1>3 DEF Y
<1>21. \A y \in S \ X : p <= prefix(y) /\ (prefix(y) = p <=> y \in H)
  BY <1>4 DEF Y
<1>22. s = Increasing(Lowers(S, p))
  BY <1>6
<1> QED
  BY <1>3, <1>5, <1>6, <1>14, <1>15, <1>16, <1>17, <1>18, <1>19, <1>20, <1>21, <1>22
  DEF k, Ahead

\* The partition that lies there, and the next position.
LEMMA StandsNext ==
  ASSUME NEW S, NEW D, NEW X, NEW n, Stands(S, D, X, n), X # S
  PROVE  /\ n < Len(D) /\ CellOf(D, n) \in PrefixesOf(S) /\ CellOf(D, n) \in Nat
         /\ FrontOf(S, D, n) \subseteq S /\ FrontOf(S, D, n) \cap X = {}
         /\ Finite(FrontOf(S, D, n)) /\ Cardinality(FrontOf(S, D, n)) \in Nat \ {0}
         /\ CellOf(D, n + 1) = Cardinality(FrontOf(S, D, n)) - 1
         /\ Lows(D, n) = Increasing(Lowers(S, CellOf(D, n)))
         /\ \A y \in S \ X : /\ CellOf(D, n) <= prefix(y)
                             /\ prefix(y) = CellOf(D, n) <=> y \in FrontOf(S, D, n)
<1>1. Ahead(S, D, X, n)
  BY StandsAhead
<1> QED
  BY <1>1 DEF Ahead

LEMMA StandsOn ==
  ASSUME NEW S, NEW D, NEW X, NEW n, Stands(S, D, X, n), X # S
  PROVE  Stands(S, D, X \cup FrontOf(S, D, n), n + 2 + Cardinality(FrontOf(S, D, n)))
<1>1. Ahead(S, D, X, n)
  BY StandsAhead
<1> QED
  BY <1>1 DEF Ahead

LEMMA StandsLast ==
  ASSUME NEW S, NEW D, NEW X, NEW n, Stands(S, D, X, n)
  PROVE  n < Len(D) <=> X # S
<1>1. CASE X # S
  BY <1>1, StandsNext
<1>2. CASE X = S
  <2>1. n = Len(D) /\ Len(D) \in Nat
    BY <1>2, StandsFacts DEF Stands
  <2> QED
    BY <1>2, <2>1
<1> QED
  BY <1>1, <1>2
-----------------------------------------------------------------------------
\* Numbers that a list is shifted by are the same for each element.
LEMMA ListsShifted ==
  ASSUME NEW s, NEW X, Lists(s, X), NEW base \in Nat,
         NEW t, DOMAIN t = 1 .. Len(s), t = [p \in DOMAIN t |-> t[p]],
         \A p \in 1 .. Len(s) : t[p] = base + s[p],
         NEW Y, \A x \in X : base + x \in Y, \A y \in Y : \E x \in X : y = base + x
  PROVE  Lists(t, Y)
<1> DEFINE n == Len(s)
<1>1. /\ s \in Seq(Nat) /\ n \in Nat /\ X \subseteq Nat
      /\ \A p \in 1 .. n : s[p] \in X /\ s[p] \in Nat
      /\ \A x \in X : \E p \in 1 .. n : s[p] = x
      /\ \A p, q \in 1 .. n : p < q => s[p] < s[q]
  BY DEF Lists
<1> HIDE DEF n
<1>2. \A p \in 1 .. n : t[p] = base + s[p] /\ t[p] \in Nat
  BY <1>1 DEF n
<1>3. t \in Seq(Nat) /\ Len(t) = n
  <2>1. t \in [1 .. n -> Nat]
    BY <1>2 DEF n
  <2> QED
    BY <1>1, <2>1
<1>4. Y \subseteq Nat
  BY <1>1
<1>5. \A p, q \in 1 .. n : p < q => t[p] < t[q]
  <2> SUFFICES ASSUME NEW p \in 1 .. n, NEW q \in 1 .. n, p < q PROVE t[p] < t[q]
    OBVIOUS
  <2>1. s[p] < s[q] /\ s[p] \in Nat /\ s[q] \in Nat /\ t[p] = base + s[p] /\ t[q] = base + s[q]
    BY <1>1, <1>2
  <2> QED
    BY <2>1
<1>6. /\ \A p \in 1 .. n : t[p] \in Y
      /\ \A y \in Y : \E p \in 1 .. n : t[p] = y
  <2>1. ASSUME NEW p \in 1 .. n PROVE t[p] \in Y
    BY <1>1, <1>2
  <2>2. ASSUME NEW y \in Y PROVE \E p \in 1 .. n : t[p] = y
    <3>1. PICK x \in X : y = base + x
      OBVIOUS
    <3>2. PICK p \in 1 .. n : s[p] = x
      BY <1>1
    <3> QED
      BY <1>2, <3>1, <3>2
  <2> QED
    BY <2>1, <2>2
<1> QED
  BY <1>3, <1>4, <1>5, <1>6 DEF Lists

\* A partition is decoded to its elements in order.
LEMMA PartDecoded ==
  ASSUME NEW S, NEW D, NEW X, NEW n, Stands(S, D, X, n), X # S
  PROVE  /\ Lists(Elems(D, n), FrontOf(S, D, n))
         /\ Len(Elems(D, n)) = Cardinality(FrontOf(S, D, n))
         /\ Lists(Lows(D, n), Lowers(S, CellOf(D, n)))
         /\ Len(Lows(D, n)) = Cardinality(FrontOf(S, D, n))
         /\ ToSet(Lows(D, n)) = Lowers(S, CellOf(D, n))
         /\ \A m \in 1 .. Len(Lows(D, n)) :
              Elems(D, n)[m] = CellOf(D, n) * Cell + Lows(D, n)[m]
<1> DEFINE p == CellOf(D, n)
           L == Lowers(S, p)
           s == Lows(D, n)
           H == FrontOf(S, D, n)
           base == p * Cell
<1>1. s = Increasing(L) /\ p \in Nat /\ Finite(S)
  <2>1. Lows(D, n) = Increasing(Lowers(S, CellOf(D, n))) /\ CellOf(D, n) \in Nat
    BY StandsNext
  <2>2. Finite(S)
    BY DEF Stands
  <2> QED
    BY <2>1, <2>2
<1>2. /\ Finite(L) /\ Cardinality(L) = Cardinality(H)
      /\ \A l \in L : base + l \in H
  BY <1>1, PartFacts DEF FrontOf
<1>3. Lists(s, L) /\ Len(s) = Cardinality(H)
  BY <1>1, <1>2, ListsIncreasing DEF Finite
<1>4. \A x \in H : low(x) \in L /\ x = base + low(x)
  BY <1>1, PrefixOf DEF FrontOf, Part, Lowers, Finite
<1>5. H = {base + l : l \in L}
  BY <1>2, <1>4
<1>6. base \in Nat
  BY <1>1, PShortAssumption
<1>7. Elems(D, n) = [m \in 1 .. Len(s) |-> base + s[m]]
  <2>1. DOMAIN s = 1 .. Len(s)
    BY <1>3 DEF Lists
  <2> QED
    BY <2>1 DEF Elems
<1> HIDE DEF s, L, H, base
<1>8. Lists(Elems(D, n), H)
  <2> DEFINE t == Elems(D, n)
  <2>1. DOMAIN t = 1 .. Len(s) /\ t = [m \in DOMAIN t |-> t[m]]
        /\ \A m \in 1 .. Len(s) : t[m] = base + s[m]
    BY <1>7
  <2>2. (\A x \in L : base + x \in H) /\ \A y \in H : \E x \in L : y = base + x
    BY <1>5
  <2> HIDE DEF t
  <2>3. Lists(t, H)
    BY <1>3, <1>6, <2>1, <2>2, ListsShifted
  <2> QED
    BY <2>3 DEF t
<1>9. Len(Elems(D, n)) = Len(s) /\ \A m \in 1 .. Len(s) : Elems(D, n)[m] = base + s[m]
  <2>1. Len(s) \in Nat /\ DOMAIN Elems(D, n) = 1 .. Len(s)
    BY <1>3, <1>7 DEF Lists
  <2>2. Elems(D, n) \in Seq(Nat)
    BY <1>8 DEF Lists
  <2> QED
    BY <1>7, <2>1, <2>2
<1>10. ToSet(s) = L
  BY <1>3, ListsToSet
<1> QED
  BY <1>3, <1>8, <1>9, <1>10 DEF s, L, H, base

\* The elements of X among the first n of s.
Among(s, X, n) == {x \in X : \E p \in 1 .. n : x = s[p]}

LEMMA ListsUpTo ==
  ASSUME NEW s, NEW X, Lists(s, X), NEW n \in 0 .. Len(s)
  PROVE  Lists(SubSeq(s, 1, n), Among(s, X, n))
<1> DEFINE t == SubSeq(s, 1, n)
           Y == Among(s, X, n)
<1>1. s \in Seq(Nat) /\ n \in Nat /\ \A p \in 1 .. n : p \in 1 .. Len(s)
  BY DEF Lists
<1>2. t \in Seq(Nat) /\ Len(t) = n /\ \A p \in 1 .. n : t[p] = s[p]
  BY <1>1
<1> HIDE DEF t
<1>3. /\ Y \subseteq Nat /\ \A p \in 1 .. n : t[p] \in Y
      /\ \A x \in Y : \E p \in 1 .. n : t[p] = x
      /\ \A p, q \in 1 .. n : p < q => t[p] < t[q]
  BY <1>1, <1>2 DEF Lists, Among
<1> QED
  BY <1>2, <1>3 DEF Lists, t

-----------------------------------------------------------------------------
LEMMA FiniteParts ==
  ASSUME NEW S, Finite(S), NEW X, X \subseteq S
  PROVE  /\ Finite(X) /\ Cardinality(X) \in Nat /\ Cardinality(S) \in Nat
         /\ Cardinality(X) <= Cardinality(S)
         /\ Cardinality(X) = Cardinality(S) <=> X = S
<1>1. IsFiniteSet(S) /\ IsFiniteSet(X) /\ X \in SUBSET Nat
  BY FS_Subset DEF Finite
<1>2. Cardinality(X) <= Cardinality(S) /\ (Cardinality(X) = Cardinality(S) => X = S)
  BY <1>1, FS_Subset
<1>3. Cardinality(X) \in Nat /\ Cardinality(S) \in Nat
  BY <1>1, FS_CardinalityType
<1> QED
  BY <1>1, <1>2, <1>3 DEF Finite

LEMMA FiniteJoined ==
  ASSUME NEW X, Finite(X), NEW Y, Finite(Y), X \cap Y = {}
  PROVE  /\ Finite(X \cup Y) /\ Cardinality(X \cup Y) = Cardinality(X) + Cardinality(Y)
         /\ Cardinality(X) \in Nat /\ Cardinality(Y) \in Nat
<1>1. IsFiniteSet(X) /\ IsFiniteSet(Y)
  BY DEF Finite
<1> QED
  BY <1>1, DisjointUnion, FS_CardinalityType DEF Finite

\* The operands.
LEMMA OperandsFinite ==
  ASSUME NEW S \in PShortSets \cup {{}}
  PROVE  /\ Finite(S) /\ Cardinality(S) \in Nat
         /\ \A x \in S : x \in Nat /\ x <= Cell * Cell - 1
<1>1. Cell \in Nat \ {0} /\ Cell * Cell \in Nat
  BY PShortAssumption
<1>2. S \subseteq 0 .. Cell * Cell - 1
  BY PShortAssumption
<1>3. IsFiniteSet(0 .. Cell * Cell - 1)
  <2>1. Cell * Cell - 1 \in Int
    BY <1>1
  <2> QED
    BY <2>1, FS_Interval
<1>4. IsFiniteSet(S)
  BY <1>2, <1>3, FS_Subset
<1>5. \A x \in S : x \in Nat /\ x <= Cell * Cell - 1
  BY <1>1, <1>2
<1> QED
  BY <1>4, <1>5, FS_CardinalityType DEF Finite
-----------------------------------------------------------------------------
\* Words that have a bit for each element of a set tell its elements.
LEMMA SpanTells ==
  ASSUME NEW X \in SUBSET Nat, NEW v \in Nat, NEW n \in Nat,
         \A x \in X : v <= word_index(x) /\ word_index(x) < v + n
  PROVE  /\ \A x \in Nat : IsSet(x, Span(X, v, n)) <=> x \in X
         /\ Elements(Span(X, v, n)) = X
         /\ Span(X, v, n).index = v /\ Len(Span(X, v, n).words) = n
<1> DEFINE S == Span(X, v, n)
           At(w) == {bit(x) : x \in {y \in X : word_index(y) = v + w - 1}}
<1>1. S.index = v /\ S.words = [w \in 1 .. n |-> At(w)]
  BY DEF Span
<1>2. \A x \in X : x \in Nat /\ bit(x) \in Bit /\ word_index(x) \in Nat
                   /\ x = WordBits * word_index(x) + bit(x)
  BY PlaceOf
<1>3. Len(S.words) = n /\ DOMAIN S.words = 1 .. n /\ \A w \in 1 .. n : S.words[w] = At(w)
  <2> HIDE DEF At, S
  <2> QED
    BY <1>1
<1>4. ASSUME NEW x \in Nat PROVE IsSet(x, S) <=> x \in X
  <2> DEFINE w == word_index(x) - v + 1
  <2>1. word_index(x) \in Nat /\ x = WordBits * word_index(x) + bit(x)
    BY PlaceOf
  <2>2. ASSUME IsSet(x, S) PROVE x \in X
    <3>1. word_index(x) < n + v /\ word_index(x) >= v /\ bit(x) \in S.words[w]
      BY <1>1, <1>3, <2>2 DEF IsSet
    <3>2. w \in 1 .. n /\ v + w - 1 = word_index(x)
      BY <2>1, <3>1
    <3>3. bit(x) \in At(w)
      BY <1>3, <3>1, <3>2
    <3>4. PICK y \in X : word_index(y) = v + w - 1 /\ bit(y) = bit(x)
      BY <3>3
    <3>5. y = WordBits * word_index(y) + bit(y)
      BY <1>2
    <3> QED
      BY <2>1, <3>2, <3>4, <3>5
  <2>3. ASSUME x \in X PROVE IsSet(x, S)
    <3>1. w \in 1 .. n /\ v + w - 1 = word_index(x)
      BY <2>1, <2>3
    <3>2. bit(x) \in At(w)
      BY <2>3, <3>1
    <3>3. bit(x) \in S.words[w]
      BY <1>3, <3>1, <3>2
    <3>4. word_index(x) < Len(S.words) + S.index /\ word_index(x) >= S.index
      BY <1>1, <1>3, <2>1, <2>3
    <3> QED
      BY <1>1, <3>3, <3>4 DEF IsSet
  <2> QED
    BY <2>2, <2>3
<1>5. ASSUME NEW w \in 1 .. n, NEW c \in S.words[w] PROVE WordBits * (S.index + w - 1) + c \in X
  <2>1. PICK y \in X : word_index(y) = v + w - 1 /\ bit(y) = c
    BY <1>3, <1>5
  <2>2. y = WordBits * word_index(y) + bit(y)
    BY <1>2
  <2> QED
    BY <1>1, <2>1, <2>2
<1>6. ASSUME NEW x \in X
      PROVE  \E w \in 1 .. n : \E c \in S.words[w] : x = WordBits * (S.index + w - 1) + c
  <2> DEFINE w == word_index(x) - v + 1
  <2>1. w \in 1 .. n /\ v + w - 1 = word_index(x)
    BY <1>2
  <2>2. bit(x) \in At(w)
    BY <2>1
  <2>3. bit(x) \in S.words[w] /\ x = WordBits * (S.index + w - 1) + bit(x)
    BY <1>1, <1>2, <1>3, <2>1, <2>2
  <2> HIDE DEF w
  <2> QED
    BY <2>1, <2>3
<1>7. Elements(S) = X
  <2> HIDE DEF S, At
  <2>1. DOMAIN S.words = 1 .. n
    BY <1>3
  <2>2. \A y \in Elements(S) : y \in X
    BY <1>5, <2>1 DEF Elements
  <2>3. \A y \in X : y \in Elements(S)
    BY <1>6, <2>1 DEF Elements
  <2> QED
    BY <2>2, <2>3
<1> QED
  BY <1>1, <1>3, <1>4, <1>7

LEMMA ArrayTells ==
  ASSUME NEW X, Finite(X)
  PROVE  /\ \A x \in Nat : IsSet(x, FromArray(X)) <=> x \in X
         /\ FromArray(X).index \in Nat /\ Len(FromArray(X).words) \in Nat
<1>1. CASE X = {}
  <2>1. NoBytes = Span({}, 0, 0)
    BY DEF NoBytes, Span
  <2>2. /\ \A x \in Nat : IsSet(x, Span({}, 0, 0)) <=> x \in {}
        /\ Span({}, 0, 0).index = 0 /\ Len(Span({}, 0, 0).words) = 0
    BY SpanTells
  <2> QED
    BY <1>1, <2>1, <2>2 DEF FromArray
<1>2. CASE X # {}
  <2> DEFINE v == word_index(Min(X))
             u == word_index(Max(X))
             n == u - v
             At(w) == {y \in X : word_index(y) = v + w}
  <2>1. X \subseteq Nat /\ IsFiniteSet(X) /\ X \subseteq Int
    BY DEF Finite
  <2>2. \E x \in X : \A y \in X : x <= y
    BY <1>2, <2>1, LeastNumber
  <2>3. Min(X) \in X /\ \A x \in X : Min(X) <= x
    BY <2>2 DEF Min
  <2>4. \E x \in X : \A y \in X : y <= x
    BY <1>2, <2>1, GreatestNumber
  <2>5. Max(X) \in X /\ \A x \in X : x <= Max(X)
    BY <2>4 DEF Max
  <2>6. v \in Nat /\ u \in Nat /\ \A x \in X : /\ v <= word_index(x) /\ word_index(x) <= u
                                               /\ word_index(x) \in Nat
    <3>1. Min(X) \in Nat /\ Max(X) \in Nat
      BY <2>1, <2>3, <2>5
    <3>2. \A x \in X : x \in Nat /\ Min(X) <= x /\ x <= Max(X)
      BY <2>1, <2>3, <2>5
    <3> QED
      BY <3>1, <3>2, PlaceOf, WordsOrdered
  <2>7. n \in Nat /\ v <= u
    <3>1. v <= word_index(Max(X))
      BY <2>5, <2>6
    <3> HIDE DEF v
    <3> QED
      BY <2>6, <3>1
  <2>8. \A w \in 1 .. n + 1 : ~(w <= n) => At(w - 1) # {}
    <3> SUFFICES ASSUME NEW w \in 1 .. n + 1, ~(w <= n) PROVE Max(X) \in At(w - 1)
      OBVIOUS
    <3>1. w - 1 = n /\ v + n = u
      BY <2>6, <2>7
    <3> QED
      BY <2>5, <3>1
  <2>9. \A w \in 1 .. n + 1 : v + (w - 1) = v + w - 1
    BY <2>6
  <2>10. FromArray(X) = Span(X, v, n + 1)
    BY <1>2, <2>8, <2>9 DEF FromArray, Build, Span
  <2>11. \A x \in X : v <= word_index(x) /\ word_index(x) < v + (n + 1)
    <3> HIDE DEF v, u
    <3> QED
      BY <2>6
  <2>12. n + 1 \in Nat /\ X \in SUBSET Nat
    BY <2>1, <2>7
  <2> HIDE DEF v, n
  <2> QED
    BY <2>6, <2>10, <2>11, <2>12, SpanTells
<1> QED
  BY <1>1, <1>2
-----------------------------------------------------------------------------
(* The inductive invariant: what each operation knows of where it stands in its         *)
(* operands, and has found so far.  Once it has returned, that is what it should be.    *)

VisitInv ==
  op \in {"ps_foreach", "ps_foreach_until"} =>
    /\ target \in a \cup {-1}
    /\ IF done THEN C = Increasing({x \in a : target = -1 \/ x <= target})
       ELSE \E X \in SUBSET a :
              Stands(a, A, X, i) /\ Lists(C, X) /\ count = Cardinality(X) /\ target \notin X

PShortUnionInv ==
  op = "ps_union" =>
    IF done THEN Elements(A) = a \cup b
    ELSE \E Y \in SUBSET b :
           /\ Stands(b, B, Y, j) /\ count = Cardinality(Y)
           /\ A = Zeroed(a \cup Y, word_index(Cell * Cell - 1) + 1)

\* What is left behind in one operand has been met in the other.
MergeInv ==
  op = "ps_intersect" =>
    \/ HasFullPartition(a \cap b)
    \/ IF done THEN C = BuildPShort(a \cap b) /\ count = Cardinality(a \cap b)
       ELSE \E X \in SUBSET a, Y \in SUBSET b :
              /\ Stands(a, A, X, i) /\ Stands(b, B, Y, j)
              /\ X \cap b = Y \cap a
              /\ C = BuildPShort(X \cap Y) /\ count = Cardinality(X \cap Y)

PShortBitsetInv ==
  op = "ps_bitset" =>
    /\ B = FromArray(b)
    /\ IF done THEN count = Cardinality(a \cap b)
       ELSE \E X \in SUBSET a : Stands(a, A, X, i) /\ count = Cardinality(X \cap b)

\* A decoder that has left the first partition is not asked for one of its elements
\* any more.
DecoderInv ==
  op = "ps_decode" =>
    /\ A = BuildPShort(a)
    /\ i \in Nat /\ count \in 0 .. i /\ j \in Nat /\ inner \in -1 .. Cardinality(a) - 1
    /\ i = 0 => count = 0
    /\ i > 0 => (IF inner = -1 THEN j > CellOf(A, 1) ELSE inner > CellOf(A, 1))
    /\ C \in Seq(Nat \X Nat)
    /\ \A n \in 1 .. Len(C) :
         C[n][1] <= CellOf(A, 1) => C[n][2] = Increasing(a)[C[n][1] + 1]

\* The elements of the partition at position n whose cells are among its first m.
BegunOf(S, D, n, m) ==
  {x \in FrontOf(S, D, n) : \E h \in 1 .. m : low(x) = Lows(D, n)[h]}

\* The common elements of S and T among the first n of S, those in Y, and the first m
\* of the partition of T at position k.
FoundIn(S, T, D, n, Y, k, m) == S \cap T \cap (FirstOf(S, n) \cup Y \cup BegunOf(T, D, k, m))
Found(Y) == FoundIn(a, b, B, i, Y, j, inner)

\* Where a pair of blocks is compared, everything has been found that lies before one of
\* the two.
ArrayInv ==
  op = "ps_uinteger" =>
    \/ HasFullPartition(b)
    \/ IF done
       THEN /\ count = Cardinality(a \cap b)
            /\ Len(A) <= Shorts => C = Increasing(a \cap b)
       ELSE /\ A = Increasing(a) /\ i \in 0 .. Cardinality(a) /\ inner \in Int /\ inner >= -1
            /\ \E Y \in SUBSET b :
                 /\ Stands(b, B, Y, j)
                 /\ count = Cardinality(Found(Y))
                 /\ Len(A) <= Shorts => Lists(C, Found(Y)) /\ inner <= 0
                 /\ inner # -1 =>
                      /\ Y # b
                      /\ \E n \in Nat : inner = Shorts * n
                      /\ inner <= Cardinality(FrontOf(b, B, j))
                      /\ \A n \in i .. Cardinality(a) - 1 : CellOf(B, j) <= prefix(AOf(n))

PShortTypes ==
  /\ op \in PShortCalls /\ done \in BOOLEAN
  /\ a \in PShortSets /\ b \in PShortSets \cup {{}}

PShortInv ==
  /\ PShortTypes
  /\ VisitInv /\ PShortUnionInv /\ MergeInv /\ PShortBitsetInv /\ DecoderInv /\ ArrayInv
-----------------------------------------------------------------------------
LEMMA NothingFound ==
  ASSUME NEW S, NEW T, NEW D, NEW k
  PROVE  /\ FoundIn(S, T, D, 0, {}, k, -1) = {}
         /\ \A n, Y : FoundIn(S, T, D, n, Y, k, -1) = S \cap T \cap (FirstOf(S, n) \cup Y)
<1>1. 1 .. 0 = {} /\ 1 .. -1 = {}
  OBVIOUS
<1> QED
  BY <1>1 DEF FoundIn, FirstOf, BegunOf

LEMMA PShortInitInv ==
  ASSUME PShortInit
  PROVE  PShortInv
<1>1. /\ op \in PShortCalls /\ a \in PShortSets /\ done = FALSE
      /\ b \in IF op \in {"ps_intersect", "ps_bitset", "ps_uinteger", "ps_union"}
               THEN PShortSets ELSE {{}}
      /\ A = CASE op = "ps_uinteger" -> Increasing(a)
               [] op = "ps_union" -> Zeroed(a, word_index(Cell * Cell - 1) + 1)
               [] OTHER -> BuildPShort(a)
      /\ B = (IF op = "ps_bitset" THEN FromArray(b) ELSE BuildPShort(b))
      /\ target \in IF op = "ps_foreach_until" THEN a \cup {-1} ELSE {-1}
      /\ C = << >> /\ i = 0 /\ j = 0 /\ inner = -1 /\ count = 0
  BY DEF PShortInit
<1>2. PShortTypes
  BY <1>1 DEF PShortTypes
<1>3. Finite(a) /\ Finite(b) /\ Cardinality(a) \in Nat
  BY <1>2, OperandsFinite DEF PShortTypes
<1>4. Stands(a, BuildPShort(a), {}, 0) /\ Stands(b, BuildPShort(b), {}, 0)
  BY <1>3, StandsFirst
<1>5. Lists(<< >>, {}) /\ Cardinality({}) = 0 /\ BuildPShort({}) = << >>
  BY NothingListed, FS_EmptySet, BuildNothing
<1>6. VisitInv
  <2> SUFFICES ASSUME op \in {"ps_foreach", "ps_foreach_until"}
               PROVE  /\ target \in a \cup {-1}
                      /\ Stands(a, A, {}, i) /\ Lists(C, {}) /\ count = Cardinality({})
    BY <1>1 DEF VisitInv
  <2> QED
    BY <1>1, <1>4, <1>5
<1>7. PShortUnionInv
  <2> SUFFICES ASSUME op = "ps_union"
               PROVE  /\ Stands(b, B, {}, j) /\ count = Cardinality({})
                      /\ A = Zeroed(a \cup {}, word_index(Cell * Cell - 1) + 1)
    BY <1>1 DEF PShortUnionInv
  <2>1. a \cup {} = a
    OBVIOUS
  <2> QED
    BY <1>1, <1>4, <1>5, <2>1
<1>8. MergeInv
  <2> SUFFICES ASSUME op = "ps_intersect"
               PROVE  /\ Stands(a, A, {}, i) /\ Stands(b, B, {}, j)
                      /\ {} \cap b = {} \cap a
                      /\ C = BuildPShort({} \cap {}) /\ count = Cardinality({} \cap {})
    BY <1>1 DEF MergeInv
  <2>1. {} \cap {} = {} /\ {} \cap b = {} \cap a
    OBVIOUS
  <2> QED
    BY <1>1, <1>4, <1>5, <2>1
<1>9. PShortBitsetInv
  <2> SUFFICES ASSUME op = "ps_bitset"
               PROVE  /\ B = FromArray(b) /\ Stands(a, A, {}, i) /\ count = Cardinality({} \cap b)
    BY <1>1 DEF PShortBitsetInv
  <2>1. {} \cap b = {}
    OBVIOUS
  <2> QED
    BY <1>1, <1>4, <1>5, <2>1
<1>10. DecoderInv
  <2>1. -1 \in -1 .. Cardinality(a) - 1
    BY <1>3
  <2>2. << >> \in Seq(Nat \X Nat) /\ Len(<< >>) = 0 /\ 1 .. 0 = {}
    OBVIOUS
  <2> QED
    BY <1>1, <2>1, <2>2 DEF DecoderInv
<1>11. ArrayInv
  <2> SUFFICES ASSUME op = "ps_uinteger"
               PROVE  /\ A = Increasing(a) /\ i \in 0 .. Cardinality(a) /\ inner \in Int /\ inner = -1
                      /\ Stands(b, B, {}, j) /\ count = Cardinality(Found({}))
                      /\ Lists(C, Found({}))
    BY <1>1 DEF ArrayInv
  <2>1. Found({}) = {}
    BY <1>1, NothingFound DEF Found
  <2>2. A = Increasing(a) /\ i \in 0 .. Cardinality(a) /\ inner \in Int /\ inner = -1
    BY <1>1, <1>3
  <2>3. Stands(b, B, {}, j)
    BY <1>1, <1>4
  <2>4. count = Cardinality(Found({})) /\ Lists(C, Found({}))
    BY <1>1, <1>5, <2>1
  <2> QED
    BY <2>2, <2>3, <2>4
<1> QED
  BY <1>2, <1>6, <1>7, <1>8, <1>9, <1>10, <1>11 DEF PShortInv

\* Only the part for the operation that goes on has to be shown.
LEMMA OneCall ==
  ASSUME PShortTypes, UNCHANGED inputVars, done' \in BOOLEAN,
         op \in {"ps_foreach", "ps_foreach_until"} => VisitInv',
         op = "ps_union" => PShortUnionInv', op = "ps_intersect" => MergeInv',
         op = "ps_bitset" => PShortBitsetInv', op = "ps_decode" => DecoderInv',
         op = "ps_uinteger" => ArrayInv'
  PROVE  PShortInv'
<1>1. op' = op /\ a' = a /\ b' = b
  BY DEF inputVars
<1>2. PShortTypes'
  BY <1>1 DEF PShortTypes
<1>3. op \notin {"ps_foreach", "ps_foreach_until"} => VisitInv'
  BY <1>1 DEF VisitInv
<1>4. op # "ps_union" => PShortUnionInv'
  BY <1>1 DEF PShortUnionInv
<1>5. op # "ps_intersect" => MergeInv'
  BY <1>1 DEF MergeInv
<1>6. op # "ps_bitset" => PShortBitsetInv'
  BY <1>1 DEF PShortBitsetInv
<1>7. op # "ps_decode" => DecoderInv'
  BY <1>1 DEF DecoderInv
<1>8. op # "ps_uinteger" => ArrayInv'
  BY <1>1 DEF ArrayInv
<1> QED
  BY <1>2, <1>3, <1>4, <1>5, <1>6, <1>7, <1>8 DEF PShortInv
-----------------------------------------------------------------------------
\* The elements of the partition at position n come before those behind it.
LEMMA FrontFirst ==
  ASSUME NEW S, NEW D, NEW X, NEW n, Stands(S, D, X, n), X # S
  PROVE  /\ \A x \in X, y \in FrontOf(S, D, n) : x < y
         /\ \A x \in X \cup FrontOf(S, D, n), y \in S \ (X \cup FrontOf(S, D, n)) : x < y
         /\ \A x \in X : prefix(x) < CellOf(D, n)
         /\ \A y \in FrontOf(S, D, n) : prefix(y) = CellOf(D, n)
         /\ Finite(X) /\ Finite(S)
<1> DEFINE H == FrontOf(S, D, n)
<1>1. /\ Finite(S) /\ Finite(X) /\ X \subseteq S /\ \A x \in S : x \in Nat
      /\ \A x \in X, y \in S \ X : prefix(x) < prefix(y)
  BY StandsFacts DEF Stands, Finite
<1>2. H \subseteq S /\ H \cap X = {} /\ Cardinality(H) \in Nat \ {0} /\ CellOf(D, n) \in Nat
  BY StandsNext
<1>3. \A y \in H : prefix(y) = CellOf(D, n)
  BY DEF FrontOf, Part
<1>4. Stands(S, D, X \cup H, n + 2 + Cardinality(H))
  BY StandsOn
<1>5. \A x \in X \cup H, y \in S \ (X \cup H) : prefix(x) < prefix(y)
  BY <1>4 DEF Stands
<1> HIDE DEF H
<1>6. \A x, y \in S : prefix(x) < prefix(y) => x < y
  BY <1>1, PrefixesOrdered
<1>7. \A x \in X, y \in H : prefix(x) < prefix(y)
  BY <1>1, <1>2
<1>8. \A x \in X : prefix(x) < CellOf(D, n)
  <2>1. H # {}
    BY <1>2, FS_EmptySet
  <2> QED
    BY <1>3, <1>7, <2>1
<1> QED
  BY <1>1, <1>2, <1>3, <1>5, <1>6, <1>7, <1>8 DEF H

\* What is left behind with the partition at position n.
LEMMA OneMore ==
  ASSUME NEW S, NEW D, NEW X, NEW n, Stands(S, D, X, n), X # S
  PROVE  /\ n + CellOf(D, n + 1) + 3 = n + 2 + Cardinality(FrontOf(S, D, n))
         /\ Skip(D, n) = n + 2 + Cardinality(FrontOf(S, D, n))
         /\ X \cup FrontOf(S, D, n) \in SUBSET S
         /\ Cardinality(X \cup FrontOf(S, D, n)) = Cardinality(X) + Cardinality(FrontOf(S, D, n))
<1> DEFINE H == FrontOf(S, D, n)
<1>1. /\ CellOf(D, n + 1) = Cardinality(H) - 1 /\ Cardinality(H) \in Nat \ {0}
      /\ H \subseteq S /\ H \cap X = {} /\ Finite(H)
  BY StandsNext
<1>2. Finite(X) /\ X \subseteq S /\ n \in Nat
  BY StandsFacts DEF Stands
<1> HIDE DEF H
<1>3. Cardinality(X \cup H) = Cardinality(X) + Cardinality(H)
  BY <1>1, <1>2, FiniteJoined
<1>4. n + CellOf(D, n + 1) + 3 = n + 2 + Cardinality(H)
  BY <1>1, <1>2
<1> QED
  BY <1>1, <1>2, <1>3, <1>4 DEF H, Skip

LEMMA VisitPartitionInv ==
  ASSUME PShortInv, VisitPartition
  PROVE  PShortInv'
<1> DEFINE E == Elems(A, i)
           found == SelectInSeq(E, LAMBDA x : x = target)
           H == FrontOf(a, A, i)
<1>1. /\ op \in {"ps_foreach", "ps_foreach_until"} /\ ~done /\ count < Cardinality(a)
      /\ UNCHANGED <<inputVars, A, j, inner>>
      /\ IF found = 0
         THEN /\ C' = C \o E /\ i' = i + 2 + Len(E) /\ count' = count + Len(E) /\ done' = done
         ELSE /\ C' = C \o SubSeq(E, 1, found) /\ done' = TRUE
  BY DEF VisitPartition, Call
<1>2. a \in PShortSets /\ PShortTypes /\ done \in BOOLEAN
  BY DEF PShortInv, PShortTypes
<1>3. PICK X \in SUBSET a :
        Stands(a, A, X, i) /\ Lists(C, X) /\ count = Cardinality(X) /\ target \notin X
  BY <1>1 DEF PShortInv, VisitInv
<1>4. target \in a \cup {-1}
  BY <1>1 DEF PShortInv, VisitInv
<1>5. X # a
  <2>1. Cardinality(a) \in Nat
    BY <1>2, OperandsFinite
  <2> QED
    BY <1>1, <1>3, <2>1
<1>6. Lists(E, H) /\ Len(E) = Cardinality(H)
  BY <1>3, <1>5, PartDecoded
<1>7. /\ \A x \in X, y \in H : x < y
      /\ \A x \in X \cup H, y \in a \ (X \cup H) : x < y
      /\ Finite(a) /\ Finite(X)
  BY <1>3, <1>5, FrontFirst
<1>8. H \subseteq a /\ H \cap X = {} /\ Cardinality(H) \in Nat \ {0}
  BY <1>3, <1>5, StandsNext
<1>9. /\ op' = op /\ a' = a /\ A' = A /\ target' = target
  BY <1>1 DEF inputVars
<1>10. E \in Seq(Nat)
  BY <1>6 DEF Lists
<1> HIDE DEF E, H, found
<1>11. /\ found \in 0 .. Len(E)
       /\ found # 0 => E[found] = target
       /\ found = 0 => \A p \in 1 .. Len(E) : E[p] # target
  <2> DEFINE I == {p \in 1 .. Len(E) : E[p] = target}
  <2>1. found = IF I # {} THEN Min(I) ELSE 0
    BY DEF SelectInSeq, found
  <2>2. I # {} => Min(I) \in I
    <3>1. I \in SUBSET Nat
      OBVIOUS
    <3>2. I # {} => \E p \in I : \A q \in I : p <= q
      BY ONLY <3>1, LeastNumber
    <3> QED
      BY <3>2 DEF Min
  <2>3. Len(E) \in Nat
    BY <1>10
  <2> QED
    BY <2>1, <2>2, <2>3
<1>12. CASE found = 0
  <2>1. target \notin X \cup H
    BY <1>3, <1>6, <1>11, <1>12 DEF Lists
  <2>2. Lists(C \o E, X \cup H)
    BY <1>3, <1>6, <1>7, ListsJoined
  <2>3. Stands(a, A, X \cup H, i + 2 + Cardinality(H))
    BY <1>3, <1>5, StandsOn DEF H
  <2>4. X \cup H \in SUBSET a /\ Cardinality(X \cup H) = Cardinality(X) + Cardinality(H)
    BY <1>3, <1>5, OneMore DEF H
  <2>5. /\ C' = C \o E /\ i' = i + 2 + Cardinality(H) /\ done' = FALSE
        /\ count' = Cardinality(X) + Cardinality(H)
    BY <1>1, <1>2, <1>3, <1>6, <1>12
  <2> DEFINE Z == X \cup H
  <2> HIDE DEF Z
  <2>6. /\ Z \in SUBSET a' /\ Stands(a', A', Z, i') /\ Lists(C', Z) /\ count' = Cardinality(Z)
        /\ target' \notin Z
    BY <1>9, <2>1, <2>2, <2>3, <2>4, <2>5 DEF Z
  <2>7. VisitInv'
    BY <1>4, <1>9, <2>5, <2>6 DEF VisitInv
  <2> QED
    BY <1>1, <1>2, <2>5, <2>7, OneCall
<1>13. CASE found # 0
  <2> DEFINE F == Among(E, H, found)
             Z == {x \in a : target = -1 \/ x <= target}
  <2>1. Lists(SubSeq(E, 1, found), F)
    BY <1>6, <1>11, ListsUpTo
  <2>2. Lists(C \o SubSeq(E, 1, found), X \cup F)
    <3>1. F \subseteq H
      BY DEF Among
    <3>2. \A x \in X, y \in F : x < y
      BY <1>7, <3>1
    <3> HIDE DEF F
    <3> QED
      BY <1>3, <2>1, <3>2, ListsJoined
  <2>3. /\ target \in H /\ target \in Nat /\ target # -1 /\ found \in 1 .. Len(E)
        /\ Len(E) \in Nat
        /\ \A x \in a : x \in Nat
    <3>1. found \in 1 .. Len(E) /\ Len(E) \in Nat
      BY <1>10, <1>11, <1>13
    <3>2. target \in H
      BY <1>6, <1>11, <1>13, <3>1 DEF Lists
    <3> QED
      BY <1>7, <1>8, <3>1, <3>2 DEF Finite
  <2>4. \A x \in H : x \in F <=> x <= target
    <3> SUFFICES ASSUME NEW x \in H PROVE x \in F <=> x <= target
      OBVIOUS
    <3>1. PICK p \in 1 .. Len(E) : E[p] = x
      BY <1>6 DEF Lists
    <3>2. \A q, r \in 1 .. Len(E) : q < r => E[q] < E[r]
      BY <1>6 DEF Lists
    <3>3. x \in Nat
      BY <1>8, <2>3
    <3>4. E[found] = target
      BY <1>11, <1>13
    <3>5. ASSUME p <= found PROVE x <= target /\ x \in F
      <4>1. p \in 1 .. found
        BY <2>3, <3>5
      <4>2. p = found \/ p < found
        BY <2>3, <3>5
      <4>3. E[p] = E[found] \/ E[p] < E[found]
        BY <2>3, <3>2, <4>2
      <4> QED
        BY <2>3, <3>1, <3>3, <3>4, <4>1, <4>3 DEF Among
    <3>6. ASSUME found < p PROVE ~(x <= target) /\ x \notin F
      <4>1. E[found] < E[p]
        BY <2>3, <3>2, <3>6
      <4>2. \A q \in 1 .. found : E[q] < E[p] /\ E[q] \in Nat
        <5>1. \A q \in 1 .. found : q \in 1 .. Len(E) /\ q < p
          BY <2>3, <3>6
        <5>2. \A q \in 1 .. Len(E) : E[q] \in Nat
          BY <1>10
        <5> QED
          BY <3>2, <5>1, <5>2
      <4>3. x \notin F
        BY <3>1, <3>3, <4>2 DEF Among
      <4> QED
        BY <2>3, <3>1, <3>3, <3>4, <4>1, <4>3
    <3>7. p <= found \/ found < p
      BY <2>3
    <3> QED
      BY <3>5, <3>6, <3>7
  <2>5. X \cup F = Z
    <3>1. \A x \in X : x \in Z
      BY <1>7, <2>3
    <3>2. \A x \in H : x \in F <=> x \in Z
      BY <1>8, <2>3, <2>4
    <3>3. \A x \in a \ (X \cup H) : x \notin Z
      <4> SUFFICES ASSUME NEW x \in a \ (X \cup H) PROVE target < x
        BY <2>3
      <4> QED
        BY <1>7, <2>3
    <3>4. F \subseteq H /\ Z \subseteq a
      BY DEF Among
    <3> HIDE DEF F, Z
    <3> QED
      BY <1>3, <1>8, <3>1, <3>2, <3>3, <3>4
  <2>6. C \o SubSeq(E, 1, found) = Increasing(Z)
    <3>1. Lists(C \o SubSeq(E, 1, found), Z)
      BY <2>2, <2>5
    <3> HIDE DEF Z
    <3> QED
      BY <3>1, ListsUnique
  <2>7. C' = Increasing(Z) /\ done' = TRUE
    BY <1>1, <1>13, <2>6
  <2>8. VisitInv'
    BY <1>4, <1>9, <2>7 DEF VisitInv
  <2> QED
    BY <1>1, <1>2, <2>7, <2>8, OneCall
<1> QED
  BY <1>12, <1>13

\* A bitset with the bits of other elements set.
WithBits(Z, H) ==
  [Z EXCEPT !.words = [w \in DOMAIN @ |->
     @[w] \cup {bit(x) : x \in {y \in H : word_index(y) - Z.index = w - 1}}]]

LEMMA ZeroedUnited ==
  ASSUME NEW S \in SUBSET Nat, NEW H \in SUBSET Nat, NEW n \in Nat, NEW Z, Z = Zeroed(S, n)
  PROVE  WithBits(Z, H) = Zeroed(S \cup H, n)
<1> DEFINE At(T, w) == {bit(x) : x \in {y \in T : word_index(y) = 0 + w - 1}}
           Add(w) == {bit(x) : x \in {y \in H : word_index(y) - Z.index = w - 1}}
<1>1. Z = [index |-> 0, words |-> [w \in 1 .. n |-> At(S, w)]]
  BY DEF Zeroed, Span
<1>2. Zeroed(S \cup H, n) = [index |-> 0, words |-> [w \in 1 .. n |-> At(S \cup H, w)]]
  BY DEF Zeroed, Span
<1>3. Z.index = 0 /\ Z.words = [w \in 1 .. n |-> At(S, w)] /\ DOMAIN Z.words = 1 .. n
  BY <1>1
<1>4. \A w \in 1 .. n : At(S, w) \cup Add(w) = At(S \cup H, w)
  <2> SUFFICES ASSUME NEW w \in 1 .. n PROVE At(S, w) \cup Add(w) = At(S \cup H, w)
    OBVIOUS
  <2>1. \A y \in S \cup H : word_index(y) - 0 = w - 1 <=> word_index(y) = 0 + w - 1
    <3>1. \A y \in S \cup H : word_index(y) \in Nat
      BY PlaceOf
    <3> QED
      BY <3>1
  <2> QED
    BY <1>3, <2>1
<1> DEFINE f == [w \in DOMAIN Z.words |-> Z.words[w] \cup Add(w)]
<1>5. [Z EXCEPT !.words = f] = [index |-> 0, words |-> f]
  <2> DEFINE u == [w \in 1 .. n |-> At(S, w)]
  <2>1. Z = [index |-> 0, words |-> u]
    BY <1>1
  <2> HIDE DEF u, f
  <2> QED
    BY <2>1
<1>6. f = [w \in 1 .. n |-> At(S \cup H, w)]
  <2> HIDE DEF At, Add
  <2> QED
    BY <1>3, <1>4
<1>7. [Z EXCEPT !.words = f] = Zeroed(S \cup H, n)
  <2> HIDE DEF f, At
  <2> QED
    BY <1>2, <1>5, <1>6
<1>8. WithBits(Z, H) = [Z EXCEPT !.words = f]
  BY DEF WithBits
<1> QED
  BY <1>7, <1>8

LEMMA UnionPartitionInv ==
  ASSUME PShortInv, UnionPartition
  PROVE  PShortInv'
<1> DEFINE E == ToSet(Elems(B, j))
           G == FrontOf(b, B, j)
           n == word_index(Cell * Cell - 1) + 1
<1>1. /\ op = "ps_union" /\ ~done /\ count < Cardinality(b)
      /\ A' = WithBits(A, E)
      /\ j' = j + 2 + Cardinality(E) /\ count' = count + Cardinality(E)
      /\ UNCHANGED <<inputVars, C, i, inner, done>>
  BY DEF UnionPartition, Call, WithBits
<1>2. PShortTypes /\ done \in BOOLEAN /\ a \in PShortSets /\ b \in PShortSets \cup {{}}
  BY DEF PShortInv, PShortTypes
<1>3. PICK Y \in SUBSET b :
        /\ Stands(b, B, Y, j) /\ count = Cardinality(Y) /\ A = Zeroed(a \cup Y, n)
  BY <1>1 DEF PShortInv, PShortUnionInv
<1>4. Y # b
  <2>1. Cardinality(b) \in Nat
    BY <1>2, OperandsFinite
  <2> QED
    BY <1>1, <1>3, <2>1
<1>5. E = G
  <2>1. Lists(Elems(B, j), G)
    BY <1>3, <1>4, PartDecoded
  <2> QED
    BY <2>1, ListsToSet
<1>6. Stands(b, B, Y \cup G, j + 2 + Cardinality(G))
  BY <1>3, <1>4, StandsOn
<1>7. Y \cup G \in SUBSET b /\ Cardinality(Y \cup G) = Cardinality(Y) + Cardinality(G)
  BY <1>3, <1>4, OneMore
<1>8. a \subseteq Nat /\ b \subseteq Nat /\ n \in Nat
  <2>1. a \subseteq Nat /\ b \subseteq Nat
    BY <1>2, OperandsFinite DEF Finite
  <2>2. Cell * Cell - 1 \in Nat
    BY PShortAssumption
  <2> QED
    BY <2>1, <2>2, PlaceOf
<1> HIDE DEF E, G, n
<1>9. A' = Zeroed((a \cup Y) \cup G, n)
  <2>1. a \cup Y \in SUBSET Nat /\ G \in SUBSET Nat
    BY <1>7, <1>8
  <2>2. WithBits(A, G) = Zeroed((a \cup Y) \cup G, n)
    BY <1>3, <1>8, <2>1, ZeroedUnited
  <2> QED
    BY <1>1, <1>5, <2>2
<1>10. op' = op /\ a' = a /\ b' = b /\ B' = B /\ done' = FALSE
  BY <1>1, <1>2 DEF inputVars
<1> DEFINE Z == Y \cup G
<1>11. (a \cup Y) \cup G = a \cup Z
  OBVIOUS
<1> HIDE DEF Z
<1>12. /\ Z \in SUBSET b' /\ Stands(b', B', Z, j') /\ count' = Cardinality(Z)
       /\ A' = Zeroed(a' \cup Z, n)
  BY <1>1, <1>3, <1>5, <1>6, <1>7, <1>9, <1>10, <1>11 DEF Z
<1>13. PShortUnionInv'
  BY <1>10, <1>12 DEF PShortUnionInv, n
<1> QED
  BY <1>1, <1>2, <1>10, <1>13, OneCall
-----------------------------------------------------------------------------
\* A partition has at most Cell elements, and is full where it has as many.
LEMMA FullPart ==
  ASSUME NEW S, Finite(S), NEW p \in PrefixesOf(S)
  PROVE  /\ Cardinality(Part(S, p)) \in 1 .. Cell
         /\ Cardinality(Part(S, p)) = Cell => HasFullPartition(S)
<1> DEFINE L == Lowers(S, p)
<1>1. Cell \in Nat \ {0}
  BY PShortAssumption
<1>2. /\ L \subseteq 0 .. Cell - 1 /\ Cardinality(L) = Cardinality(Part(S, p))
      /\ \A l \in L : p \in Nat /\ p * Cell + l \in Part(S, p)
  BY PartFacts
<1>3. Cardinality(Part(S, p)) \in Nat \ {0} /\ p \in Nat
  BY PieceFacts
<1>4. /\ IsFiniteSet(0 .. Cell - 1) /\ Cardinality(0 .. Cell - 1) = Cell
  <2>1. 0 \in Int /\ Cell - 1 \in Int /\ Cell - 1 - 0 + 1 = Cell /\ ~(0 > Cell - 1)
    BY <1>1
  <2> QED
    BY <2>1, FS_Interval
<1> HIDE DEF L
<1>5. Cardinality(L) <= Cell /\ (Cardinality(L) = Cell => L = 0 .. Cell - 1)
  BY <1>2, <1>4, FS_Subset
<1>6. ASSUME L = 0 .. Cell - 1 PROVE HasFullPartition(S)
  <2>1. p * Cell \in Nat /\ (p + 1) * Cell = p * Cell + Cell
    BY <1>1, <1>3
  <2> DEFINE base == p * Cell
  <2>2. base \in Nat /\ (p + 1) * Cell = base + Cell
    BY <2>1
  <2>3. ASSUME NEW y \in base .. (p + 1) * Cell - 1 PROVE y \in S
    <3> HIDE DEF base
    <3>1. y - base \in 0 .. Cell - 1 /\ base + (y - base) = y
      BY <1>1, <2>2
    <3>2. base + (y - base) \in Part(S, p)
      BY <1>2, <1>6, <3>1 DEF base
    <3> QED
      BY <3>1, <3>2 DEF Part
  <2>4. p \in {prefix(x) : x \in S}
    BY DEF PrefixesOf
  <2>5. p * Cell .. (p + 1) * Cell - 1 \subseteq S
    BY <2>3
  <2> QED
    BY <2>4, <2>5 DEF HasFullPartition
<1> QED
  BY <1>1, <1>2, <1>3, <1>5, <1>6

LEMMA CommonPart ==
  ASSUME NEW S, Finite(S), NEW T, Finite(T), NEW p
  PROVE  /\ Part(S, p) \cap Part(T, p) = Part(S \cap T, p)
         /\ Lowers(S, p) \cap Lowers(T, p) = Lowers(S \cap T, p)
         /\ Finite(S \cap T)
<1>1. Part(S, p) \cap Part(T, p) = Part(S \cap T, p)
  BY DEF Part
<1>2. Finite(S \cap T)
  BY FS_Subset DEF Finite
<1>3. ASSUME NEW l, l \in Lowers(S, p), l \in Lowers(T, p) PROVE l \in Lowers(S \cap T, p)
  <2>1. /\ p \in Nat /\ l \in 0 .. Cell - 1
        /\ p * Cell + l \in Part(S, p) /\ p * Cell + l \in Part(T, p)
    BY <1>3, PartFacts
  <2>2. low(p * Cell + l) = l
    BY <2>1, AtPrefix
  <2>3. p * Cell + l \in Part(S \cap T, p)
    BY <1>1, <2>1
  <2> QED
    BY <2>2, <2>3 DEF Lowers
<1>4. Lowers(S \cap T, p) \subseteq Lowers(S, p) \cap Lowers(T, p)
  BY DEF Lowers, Part
<1> QED
  BY <1>1, <1>2, <1>3, <1>4

\* Partitions of two operands with the same prefix leave one with the common elements.
Merged(S, T, D, n, E, m) ==
  LET R == Part(S \cap T, CellOf(D, n))
      lows == Increasing(Common(D, n, E, m))
  IN  /\ Finite(R) /\ Cardinality(R) \in Nat
      /\ R = FrontOf(S, D, n) \cap FrontOf(T, E, m)
      /\ Len(lows) % Cell = Cardinality(R)
      /\ BuildPShort(R) = IF Cardinality(R) = 0 THEN << >>
                          ELSE <<CellOf(D, n), Cardinality(R) - 1>> \o lows

LEMMA MergedPartition ==
  ASSUME NEW S, Finite(S), NEW T, Finite(T), NEW D, NEW E, NEW n, NEW m,
         NEW X, Stands(S, D, X, n), X # S, NEW Y, Stands(T, E, Y, m), Y # T,
         CellOf(D, n) = CellOf(E, m), ~HasFullPartition(S \cap T)
  PROVE  Merged(S, T, D, n, E, m)
<1> DEFINE p == CellOf(D, n)
           R == Part(S \cap T, p)
           lows == Increasing(Common(D, n, E, m))
<1>1. Finite(S \cap T) /\ R = Part(S, p) \cap Part(T, p)
      /\ Lowers(S, p) \cap Lowers(T, p) = Lowers(S \cap T, p)
  <2> HIDE DEF p
  <2> QED
    BY CommonPart
<1>2. ToSet(Lows(D, n)) = Lowers(S, p) /\ ToSet(Lows(E, m)) = Lowers(T, p)
  BY PartDecoded
<1>3. lows = Increasing(Lowers(S \cap T, p))
  BY <1>1, <1>2 DEF Common
<1>4. /\ Finite(Lowers(S \cap T, p)) /\ Cardinality(Lowers(S \cap T, p)) = Cardinality(R)
      /\ Finite(R) /\ Cardinality(R) \in Nat
      /\ R # {} <=> p \in PrefixesOf(S \cap T)
      /\ R # {} <=> Cardinality(R) > 0
  BY <1>1, PartFacts
<1>5. Len(lows) = Cardinality(R)
  BY <1>3, <1>4, ListsIncreasing DEF Finite
<1>6. Cell \in Nat \ {0}
  BY PShortAssumption
<1> HIDE DEF R
<1>7. Cardinality(R) < Cell
  <2>1. CASE R = {}
    BY <1>4, <1>6, <2>1
  <2>2. CASE R # {}
    <3>1. p \in PrefixesOf(S \cap T)
      BY <1>4, <2>2
    <3>2. Cardinality(R) \in 1 .. Cell /\ Cardinality(R) # Cell
      BY <1>1, <3>1, FullPart DEF R
    <3> QED
      BY <1>6, <3>2
  <2> QED
    BY <2>1, <2>2
<1>8. Len(lows) % Cell = Cardinality(R)
  <2> DEFINE c == Cardinality(R)
  <2>1. c \in Nat /\ c < Cell /\ Len(lows) = c
    BY <1>4, <1>5, <1>7
  <2> HIDE DEF c
  <2>2. c % Cell = c
    BY <1>6, <2>1
  <2> QED
    BY <2>1, <2>2 DEF c
<1>9. FrontOf(S, D, n) \cap FrontOf(T, E, m) = R
  BY <1>1 DEF FrontOf
<1> USE DEF R
<1>10. CASE Cardinality(R) = 0
  <2>1. R = {}
    <3> HIDE DEF R
    <3> QED
      BY <1>4, <1>10
  <2>2. BuildPShort(R) = << >>
    BY <2>1, BuildNothing
  <2> QED
    BY <1>4, <1>8, <1>9, <1>10, <2>2 DEF Merged
<1>11. CASE Cardinality(R) # 0
  <2>1. R # {} /\ p \in PrefixesOf(S \cap T)
    <3> HIDE DEF R
    <3> QED
      BY <1>4, <1>11
  <2>2. \A x \in R : prefix(x) = p
    BY DEF Part
  <2>3. Part(R, p) = R /\ BuildPShort(R) = Piece(R, p)
    BY <1>4, <2>1, <2>2, BuildOne
  <2>4. Piece(R, p) = Piece(S \cap T, p)
    BY <2>3, PieceOfPart
  <2>5. /\ Partition(S \cap T, p) = Increasing(Lowers(S \cap T, p))
        /\ Len(Partition(S \cap T, p)) = Cardinality(R)
    BY <1>1, <2>1, PieceFacts
  <2>6. Piece(S \cap T, p) = <<p, Cardinality(R) - 1>> \o lows
    BY <1>3, <2>5 DEF Piece
  <2> QED
    BY <1>4, <1>8, <1>9, <1>11, <2>3, <2>4, <2>6 DEF Merged
<1> QED
  BY <1>10, <1>11

\* What two operands have in common lies in partitions with the same prefix.
LEMMA MetInBoth ==
  ASSUME NEW S, NEW D, NEW n, NEW X, Stands(S, D, X, n), X # S,
         NEW T, NEW E, NEW m, NEW Y, Stands(T, E, Y, m), Y # T,
         X \cap T = Y \cap S
  PROVE  /\ CellOf(D, n) < CellOf(E, m) => FrontOf(S, D, n) \cap T = {}
         /\ CellOf(D, n) = CellOf(E, m) =>
              /\ FrontOf(S, D, n) \cap T = FrontOf(S, D, n) \cap FrontOf(T, E, m)
              /\ FrontOf(S, D, n) \cap Y = {}
<1> DEFINE H == FrontOf(S, D, n)
           G == FrontOf(T, E, m)
<1>1. /\ H \subseteq S /\ H \cap X = {} /\ CellOf(D, n) \in Nat
      /\ \A x \in H : prefix(x) = CellOf(D, n)
  <2>1. H \subseteq S /\ H \cap X = {} /\ CellOf(D, n) \in Nat
    BY StandsNext
  <2>2. \A x \in H : prefix(x) = CellOf(D, n)
    BY FrontFirst
  <2> QED
    BY <2>1, <2>2
<1>2. /\ G \subseteq T /\ CellOf(E, m) \in Nat
      /\ \A y \in T \ Y : CellOf(E, m) <= prefix(y) /\ (prefix(y) = CellOf(E, m) <=> y \in G)
  BY StandsNext
<1>3. Y \subseteq T /\ X \subseteq S
  BY DEF Stands
<1> HIDE DEF H, G
<1>4. H \cap Y = {}
  BY <1>1, <1>3
<1>5. \A x \in H \cap T : x \in T \ Y /\ prefix(x) = CellOf(D, n)
  BY <1>1, <1>4
<1>6. CellOf(D, n) < CellOf(E, m) => H \cap T = {}
  BY <1>1, <1>2, <1>5
<1>7. CellOf(D, n) = CellOf(E, m) => H \cap T = H \cap G
  BY <1>2, <1>5
<1> QED
  BY <1>4, <1>6, <1>7 DEF H, G

LEMMA StepPShortInv ==
  ASSUME PShortInv, StepPShort
  PROVE  PShortInv'
<1> DEFINE p == CellOf(A, i)
           q == CellOf(B, j)
           H == FrontOf(a, A, i)
           G == FrontOf(b, B, j)
           lows == Increasing(Common(A, i, B, j))
<1>1. /\ op = "ps_intersect" /\ ~done /\ i < Len(A) /\ j < Len(B)
      /\ i' = (IF p <= q THEN Skip(A, i) ELSE i)
      /\ j' = (IF q <= p THEN Skip(B, j) ELSE j)
      /\ IF p = q THEN /\ C' = C \o MergePartitions(lows)
                       /\ count' = count + (Len(lows) % Cell)
                  ELSE C' = C /\ count' = count
      /\ UNCHANGED <<inputVars, A, inner, done>>
  BY DEF StepPShort, Call
<1>2. PShortTypes /\ done \in BOOLEAN
  BY DEF PShortInv, PShortTypes
<1>3. op' = op /\ a' = a /\ b' = b /\ A' = A /\ B' = B /\ done' = FALSE
  BY <1>1, <1>2 DEF inputVars
<1>4. CASE HasFullPartition(a \cap b)
  <2>1. HasFullPartition(a \cap b)'
    BY <1>3, <1>4 DEF HasFullPartition
  <2>2. MergeInv'
    BY <2>1 DEF MergeInv
  <2> QED
    BY <1>1, <1>2, <1>3, <2>2, OneCall
<1>5. CASE ~HasFullPartition(a \cap b)
  <2>1. PICK X \in SUBSET a, Y \in SUBSET b :
          /\ Stands(a, A, X, i) /\ Stands(b, B, Y, j)
          /\ X \cap b = Y \cap a
          /\ C = BuildPShort(X \cap Y) /\ count = Cardinality(X \cap Y)
    BY <1>1, <1>5 DEF PShortInv, MergeInv
  <2>2. X # a /\ Y # b
    BY <1>1, <2>1, StandsLast
  <2>3. /\ Finite(a) /\ Finite(X) /\ Stands(a, A, X \cup H, i + 2 + Cardinality(H))
        /\ Skip(A, i) = i + 2 + Cardinality(H) /\ X \cup H \in SUBSET a
        /\ H \cap X = {} /\ H \subseteq a /\ p \in Nat
    <3>1. Finite(a) /\ Finite(X)
      BY <2>1, <2>2, FrontFirst
    <3>2. Stands(a, A, X \cup H, i + 2 + Cardinality(H))
      BY <2>1, <2>2, StandsOn
    <3>3. Skip(A, i) = i + 2 + Cardinality(H) /\ X \cup H \in SUBSET a
      <4>1. Stands(a, A, X, i) /\ X # a
        BY <2>1, <2>2
      <4>2. Skip(A, i) = i + 2 + Cardinality(FrontOf(a, A, i))
        BY ONLY <4>1, OneMore
      <4>3. X \cup FrontOf(a, A, i) \in SUBSET a
        BY ONLY <4>1, OneMore
      <4> QED
        BY <4>2, <4>3
    <3>4. H \cap X = {} /\ H \subseteq a /\ p \in Nat
      BY <2>1, <2>2, StandsNext
    <3> QED
      BY ONLY <3>1, <3>2, <3>3, <3>4
  <2>4. /\ Finite(b) /\ Finite(Y) /\ Stands(b, B, Y \cup G, j + 2 + Cardinality(G))
        /\ Skip(B, j) = j + 2 + Cardinality(G) /\ Y \cup G \in SUBSET b
        /\ G \cap Y = {} /\ G \subseteq b /\ q \in Nat
    <3>1. Finite(b) /\ Finite(Y)
      BY <2>1, <2>2, FrontFirst
    <3>2. Stands(b, B, Y \cup G, j + 2 + Cardinality(G))
      BY <2>1, <2>2, StandsOn
    <3>3. Skip(B, j) = j + 2 + Cardinality(G) /\ Y \cup G \in SUBSET b
      BY <2>1, <2>2, OneMore
    <3>4. G \cap Y = {} /\ G \subseteq b /\ q \in Nat
      BY <2>1, <2>2, StandsNext
    <3> QED
      BY ONLY <3>1, <3>2, <3>3, <3>4
  <2>5. /\ p < q => H \cap b = {}
        /\ p = q => H \cap b = H \cap G /\ H \cap Y = {}
    BY <2>1, <2>2, MetInBoth
  <2>6. /\ q < p => G \cap a = {}
        /\ q = p => G \cap a = G \cap H /\ G \cap X = {}
    BY <2>1, <2>2, MetInBoth
  <2> DEFINE Good(Z, W) == /\ Z \in SUBSET a /\ W \in SUBSET b
                           /\ Stands(a, A, Z, i') /\ Stands(b, B, W, j')
                           /\ Z \cap b = W \cap a
                           /\ C' = BuildPShort(Z \cap W) /\ count' = Cardinality(Z \cap W)
  <2>7. ASSUME NEW Z, NEW W, Good(Z, W) PROVE PShortInv'
    <3>1. MergeInv'
      BY <1>3, <2>7 DEF MergeInv
    <3> QED
      BY <1>1, <1>2, <1>3, <3>1, OneCall
  <2>8. CASE p < q
    <3>1. (X \cup H) \cap b = Y \cap a /\ (X \cup H) \cap Y = X \cap Y
      BY <2>1, <2>4, <2>5, <2>8
    <3>2. i' = i + 2 + Cardinality(H) /\ j' = j /\ C' = C /\ count' = count
      BY <1>1, <2>3, <2>4, <2>8
    <3> HIDE DEF p, q, H, G
    <3>3. Good(X \cup H, Y)
      BY <2>1, <2>3, <3>1, <3>2
    <3> QED
      BY <2>7, <3>3
  <2>9. CASE q < p
    <3>1. X \cap b = (Y \cup G) \cap a /\ X \cap (Y \cup G) = X \cap Y
      BY <2>1, <2>3, <2>6, <2>9
    <3>2. i' = i /\ j' = j + 2 + Cardinality(G) /\ C' = C /\ count' = count
      BY <1>1, <2>3, <2>4, <2>9
    <3> HIDE DEF p, q, H, G
    <3>3. Good(X, Y \cup G)
      BY <2>1, <2>4, <3>1, <3>2
    <3> QED
      BY <2>7, <3>3
  <2>10. CASE p = q
    <3> DEFINE R == Part(a \cap b, p)
               K == X \cap Y
    <3>1. /\ Finite(R) /\ Cardinality(R) \in Nat /\ R = H \cap G
          /\ Len(lows) % Cell = Cardinality(R)
          /\ BuildPShort(R) = IF Cardinality(R) = 0 THEN << >>
                              ELSE <<p, Cardinality(R) - 1>> \o lows
      <4>1. /\ Stands(a, A, X, i) /\ X # a /\ Stands(b, B, Y, j) /\ Y # b
            /\ Finite(a) /\ Finite(b) /\ CellOf(A, i) = CellOf(B, j)
            /\ ~HasFullPartition(a \cap b)
        BY <1>5, <2>1, <2>2, <2>3, <2>4, <2>10
      <4>2. Merged(a, b, A, i, B, j)
        BY ONLY <4>1, MergedPartition
      <4> QED
        BY <4>2 DEF Merged
    <3>2. MergePartitions(lows) = BuildPShort(R)
      BY <3>1 DEF MergePartitions
    <3>3. /\ (X \cup H) \cap b = (Y \cup G) \cap a
          /\ (X \cup H) \cap (Y \cup G) = K \cup R
      BY <2>1, <2>5, <2>6, <2>10, <3>1
    <3>4. /\ i' = i + 2 + Cardinality(H) /\ j' = j + 2 + Cardinality(G)
          /\ C' = C \o BuildPShort(R) /\ count' = count + Cardinality(R)
      <4>1. p <= q /\ q <= p
        BY <2>3, <2>4, <2>10
      <4>2. i' = Skip(A, i) /\ j' = Skip(B, j)
        BY <1>1, <4>1
      <4>3. C' = C \o BuildPShort(R) /\ count' = count + Cardinality(R)
        BY <1>1, <2>10, <3>1, <3>2
      <4> QED
        BY ONLY <2>3, <2>4, <4>2, <4>3
    <3>5. \A x \in K, y \in R : prefix(x) < prefix(y)
      <4>1. /\ \A x \in X : prefix(x) < p
            /\ \A y \in H : prefix(y) = p
        BY <2>1, <2>2, FrontFirst
      <4> HIDE DEF p
      <4> QED
        BY <3>1, <4>1
    <3>6. Finite(K) /\ K \cap R = {}
      <4>1. Finite(K)
        BY <2>3, FiniteParts
      <4> QED
        BY <2>3, <3>1, <4>1
    <3> HIDE DEF p, q, H, G, R, K, lows
    <3>7. BuildPShort(K \cup R) = BuildPShort(K) \o BuildPShort(R)
      BY <3>1, <3>5, <3>6, BuildJoined
    <3>8. Cardinality(K \cup R) = Cardinality(K) + Cardinality(R)
      BY <3>1, <3>6, FiniteJoined
    <3>9. C = BuildPShort(K) /\ count = Cardinality(K)
      BY <2>1 DEF K
    <3>10. Good(X \cup H, Y \cup G)
      BY <2>3, <2>4, <3>3, <3>4, <3>7, <3>8, <3>9
    <3> QED
      BY <2>7, <3>10
  <2>11. p < q \/ q < p \/ p = q
    BY <2>3, <2>4
  <2> QED
    BY <2>8, <2>9, <2>10, <2>11
<1> QED
  BY <1>4, <1>5
-----------------------------------------------------------------------------
\* A partition begins with a word, and ends with one.
LEMMA PartitionWords ==
  ASSUME NEW p \in Nat
  PROVE  /\ word_index(p * Cell) \in Nat /\ word_index(Cell) \in Nat
         /\ \A x \in Nat :
              /\ p <= prefix(x) => word_index(p * Cell) <= word_index(x)
              /\ prefix(x) = p => word_index(x) <= word_index(p * Cell) + word_index(Cell)
<1> DEFINE c == word_index(Cell)
<1>1. Cell \in Nat /\ Cell > 0 /\ Cell % WordBits = 0 /\ WordBits \in Nat \ {0} /\ 0 \in 0 .. WordBits - 1
  BY PShortAssumption, BitsetAssumption
<1>2. c \in Nat /\ Cell = WordBits * c
  <2>1. Cell \div WordBits \in Nat /\ Cell = WordBits * (Cell \div WordBits) + (Cell % WordBits)
    BY <1>1, Quotient
  <2> DEFINE v == Cell \div WordBits
  <2>2. v \in Nat /\ Cell = WordBits * v + 0
    BY <1>1, <2>1
  <2> HIDE DEF v
  <2>3. Cell = WordBits * v
    BY <1>1, <2>2
  <2> QED
    BY <2>2, <2>3 DEF v, word_index
<1> HIDE DEF c
<1>3. ASSUME NEW q \in Nat PROVE q * Cell \in Nat /\ word_index(q * Cell) = c * q /\ c * q \in Nat
  <2>1. q * Cell = WordBits * (c * q) + 0 /\ c * q \in Nat
    BY <1>1, <1>2
  <2>2. (WordBits * (c * q) + 0) \div WordBits = c * q /\ WordBits * (c * q) + 0 \in Nat
    <3> DEFINE w == c * q
    <3>1. w \in Nat
      BY <2>1
    <3> HIDE DEF w
    <3>2. (WordBits * w + 0) \div WordBits = w /\ WordBits * w + 0 \in Nat
      BY <1>1, <3>1, QuotientOf
    <3> QED
      BY <3>2 DEF w
  <2> QED
    BY <2>1, <2>2 DEF word_index
<1>4. word_index(p * Cell) = c * p /\ c * p \in Nat /\ p * Cell \in Nat
  BY <1>3
<1>5. word_index((p + 1) * Cell) = c * (p + 1) /\ (p + 1) * Cell \in Nat /\ c * (p + 1) \in Nat
  <2>1. p + 1 \in Nat
    OBVIOUS
  <2> QED
    BY <1>3, <2>1
<1>6. c * (p + 1) = c * p + c /\ (p + 1) * Cell = p * Cell + Cell
  BY <1>1, <1>2
<1>7. ASSUME NEW x \in Nat, p <= prefix(x) PROVE word_index(p * Cell) <= word_index(x)
  <2>1. prefix(x) \in Nat /\ low(x) \in Nat /\ x = prefix(x) * Cell + low(x)
    BY PrefixOf
  <2>2. Cell * p <= Cell * prefix(x) /\ Cell * p \in Nat /\ Cell * prefix(x) \in Nat
    BY <1>1, <1>7, <2>1, Products
  <2>3. p * Cell <= x
    <3>1. p * Cell = Cell * p /\ prefix(x) * Cell = Cell * prefix(x)
      BY <1>1, <2>1
    <3> QED
      BY <2>1, <2>2, <3>1
  <2> QED
    BY <1>4, <2>3, WordsOrdered
<1>8. ASSUME NEW x \in Nat, prefix(x) = p PROVE word_index(x) <= c * p + c
  <2>1. low(x) \in 0 .. Cell - 1 /\ x = p * Cell + low(x)
    BY <1>8, PrefixOf
  <2>2. x <= (p + 1) * Cell
    BY <1>1, <1>4, <1>6, <2>1
  <2>3. word_index(x) <= word_index((p + 1) * Cell)
    BY <1>5, <2>2, WordsOrdered
  <2> QED
    BY <1>5, <1>6, <2>3
<1> QED
  BY <1>2, <1>4, <1>7, <1>8 DEF c

\* The elements of a partition that a set holds.
LEMMA PartHeld ==
  ASSUME NEW S, Finite(S), NEW T, NEW p \in Nat
  PROVE  /\ Finite({l \in Lowers(S, p) : p * Cell + l \in T})
         /\ Cardinality({l \in Lowers(S, p) : p * Cell + l \in T}) = Cardinality(Part(S, p) \cap T)
         /\ Cardinality(Part(S, p) \cap T) \in Nat
<1> DEFINE L == {l \in Lowers(S, p) : p * Cell + l \in T}
           K == Part(S, p) \cap T
<1>1. Finite(S \cap T) /\ K = Part(S \cap T, p)
  BY FS_Subset DEF Finite, Part
<1>2. L = Lowers(S \cap T, p)
  <2>1. ASSUME NEW l \in L PROVE l \in Lowers(S \cap T, p)
    <3>1. l \in 0 .. Cell - 1 /\ p * Cell + l \in Part(S, p)
      BY PartFacts
    <3>2. low(p * Cell + l) = l
      BY <3>1, AtPrefix
    <3>3. p * Cell + l \in Part(S \cap T, p)
      BY <3>1 DEF Part
    <3> QED
      BY <3>2, <3>3 DEF Lowers
  <2>2. ASSUME NEW l \in Lowers(S \cap T, p) PROVE l \in L
    <3>1. p * Cell + l \in Part(S \cap T, p) /\ l \in 0 .. Cell - 1
      BY <1>1, PartFacts
    <3>2. p * Cell + l \in Part(S, p) /\ p * Cell + l \in T
      BY <3>1 DEF Part
    <3>3. l \in Lowers(S, p)
      BY <3>1, <3>2, AtPrefix DEF Lowers
    <3> QED
      BY <3>2, <3>3
  <2> QED
    BY <2>1, <2>2
<1> QED
  BY <1>1, <1>2, PartFacts

LEMMA StepPShortBitsetInv ==
  ASSUME PShortInv, StepPShortBitset
  PROVE  PShortInv'
<1> DEFINE q == CellOf(A, i)
           H == FrontOf(a, A, i)
           p == word_index(q * Cell)
           end == s_b + B.index
           near == p < end /\ p + word_index(Cell) >= B.index
           L == {l \in ToSet(Lows(A, i)) : IsSet(q * Cell + l, B)}
<1>1. /\ op = "ps_bitset" /\ i < Len(A)
      /\ count' = (IF near THEN count + Len(Increasing(L)) ELSE count)
      /\ done' = (~near /\ p >= end) /\ i' = Skip(A, i)
      /\ UNCHANGED <<inputVars, A, inner>>
  BY DEF StepPShortBitset, Call
<1>2. ~done /\ PShortTypes
  BY DEF StepPShortBitset, Call, PShortInv
<1>3. /\ op' = op /\ a' = a /\ b' = b /\ A' = A /\ B' = B /\ done' \in BOOLEAN
  BY <1>1 DEF inputVars
<1>4. B = FromArray(b)
  BY <1>1 DEF PShortInv, PShortBitsetInv
<1>5. PICK X \in SUBSET a : Stands(a, A, X, i) /\ count = Cardinality(X \cap b)
  BY <1>1, <1>2 DEF PShortInv, PShortBitsetInv
<1>6. X # a
  BY <1>1, <1>5, StandsLast
<1>7. /\ Finite(a) /\ Finite(b) /\ \A x \in a : x \in Nat
  BY <1>2, OperandsFinite DEF PShortTypes
<1>8. /\ H \subseteq a /\ H \cap X = {} /\ Finite(H) /\ q \in Nat
      /\ \A y \in a \ X : q <= prefix(y)
  BY <1>5, <1>6, StandsNext
<1>9. /\ Stands(a, A, X \cup H, i') /\ X \cup H \in SUBSET a
  <2>1. Stands(a, A, X \cup H, i + 2 + Cardinality(H))
    BY <1>5, <1>6, StandsOn
  <2>2. i' = i + 2 + Cardinality(H) /\ X \cup H \in SUBSET a
    BY <1>1, <1>5, <1>6, OneMore
  <2> QED
    BY <2>1, <2>2
<1>10. \A x \in Nat : IsSet(x, B) <=> x \in b
  BY <1>4, <1>7, ArrayTells
<1>11. Len(Increasing(L)) = Cardinality(H \cap b) /\ Cardinality(H \cap b) \in Nat
  <2>1. ToSet(Lows(A, i)) = Lowers(a, q)
    BY <1>5, <1>6, PartDecoded
  <2>2. \A l \in Lowers(a, q) : IsSet(q * Cell + l, B) <=> q * Cell + l \in b
    <3>1. \A l \in Lowers(a, q) : q * Cell + l \in Part(a, q)
      BY <1>7, PartFacts
    <3>2. \A l \in Lowers(a, q) : q * Cell + l \in Nat
      BY <1>7, <3>1 DEF Part
    <3> QED
      BY <1>10, <3>2
  <2>3. L = {l \in Lowers(a, q) : q * Cell + l \in b}
    BY <2>1, <2>2
  <2>4. /\ Finite({l \in Lowers(a, q) : q * Cell + l \in b})
        /\ Cardinality({l \in Lowers(a, q) : q * Cell + l \in b}) = Cardinality(Part(a, q) \cap b)
        /\ Cardinality(Part(a, q) \cap b) \in Nat
    BY <1>7, <1>8, PartHeld
  <2>5. Finite(L) /\ Cardinality(L) = Cardinality(H \cap b) /\ Cardinality(H \cap b) \in Nat
    BY <2>3, <2>4 DEF FrontOf
  <2> HIDE DEF L
  <2> QED
    BY <2>5, ListsIncreasing DEF Finite
<1>12. Cardinality((X \cup H) \cap b) = Cardinality(X \cap b) + Cardinality(H \cap b)
  <2>1. Finite(X)
    BY <1>5, <1>7, FiniteParts
  <2>2. Finite(X \cap b) /\ Finite(H \cap b) /\ (X \cap b) \cap (H \cap b) = {}
    BY <1>8, <2>1, FiniteParts
  <2>3. (X \cup H) \cap b = (X \cap b) \cup (H \cap b)
    OBVIOUS
  <2> QED
    BY <2>2, <2>3, FiniteJoined
<1>13. \A x \in b : x \in Nat => word_index(x) < end /\ word_index(x) >= B.index
  BY <1>10 DEF IsSet, s_b
<1>14. /\ p \in Nat /\ word_index(Cell) \in Nat
       /\ \A x \in Nat : /\ q <= prefix(x) => p <= word_index(x)
                         /\ prefix(x) = q => word_index(x) <= p + word_index(Cell)
  BY <1>8, PartitionWords
<1>15. B.index \in Nat /\ end \in Nat
  <2>1. B.index \in Nat /\ Len(B.words) \in Nat
    BY <1>4, <1>7, ArrayTells
  <2> QED
    BY <2>1 DEF s_b
<1> HIDE DEF q, H, p, end, L
<1>16. CASE near
  <2>1. count' = Cardinality((X \cup H) \cap b) /\ done' = FALSE
    BY <1>1, <1>5, <1>11, <1>12, <1>16
  <2> DEFINE Z == X \cup H
  <2> HIDE DEF Z
  <2>2. Z \in SUBSET a' /\ Stands(a', A', Z, i') /\ count' = Cardinality(Z \cap b')
    BY <1>3, <1>9, <2>1 DEF Z
  <2>3. PShortBitsetInv'
    BY <1>3, <1>4, <2>1, <2>2 DEF PShortBitsetInv
  <2> QED
    BY <1>1, <1>2, <1>3, <2>3, OneCall
<1>17. CASE ~near /\ p >= end
  <2>1. count' = count /\ done' = TRUE
    BY <1>1, <1>17
  <2>2. a \cap b = X \cap b
    <3>1. ASSUME NEW x \in a \ X, x \in b PROVE FALSE
      <4>1. x \in Nat /\ q <= prefix(x)
        BY <1>7, <1>8
      <4>2. p <= word_index(x) /\ word_index(x) < end /\ word_index(x) \in Nat
        BY <1>13, <1>14, <3>1, <4>1, PlaceOf
      <4> QED
        BY <1>14, <1>15, <1>17, <4>2
    <3> QED
      BY <3>1
  <2>3. PShortBitsetInv'
    BY <1>3, <1>4, <1>5, <2>1, <2>2 DEF PShortBitsetInv
  <2> QED
    BY <1>1, <1>2, <1>3, <2>3, OneCall
<1>18. CASE ~near /\ ~(p >= end)
  <2>1. count' = count /\ done' = FALSE
    BY <1>1, <1>18
  <2>2. H \cap b = {}
    <3>1. ASSUME NEW x \in H, x \in b PROVE FALSE
      <4>1. x \in Nat /\ prefix(x) = q
        BY <1>7, <1>8, <3>1 DEF H, FrontOf, Part, q
      <4>2. /\ word_index(x) <= p + word_index(Cell) /\ word_index(x) >= B.index
            /\ word_index(x) \in Nat
        BY <1>13, <1>14, <3>1, <4>1, PlaceOf
      <4> QED
        BY <1>14, <1>15, <1>18, <4>2
    <3> QED
      BY <3>1
  <2> DEFINE Z == X \cup H
  <2>3. Z \cap b = X \cap b
    BY <2>2
  <2> HIDE DEF Z
  <2>4. Z \in SUBSET a' /\ Stands(a', A', Z, i') /\ count' = Cardinality(Z \cap b')
    BY <1>3, <1>5, <1>9, <2>1, <2>3 DEF Z
  <2>5. PShortBitsetInv'
    BY <1>3, <1>4, <2>1, <2>4 DEF PShortBitsetInv
  <2> QED
    BY <1>1, <1>2, <1>3, <2>5, OneCall
<1> QED
  BY <1>16, <1>17, <1>18
-----------------------------------------------------------------------------
\* The first partition is decoded to the first elements of the set.
LEMMA FirstDecoded ==
  ASSUME NEW S, Finite(S), S # {}, NEW D, D = BuildPShort(S), NEW n \in 0 .. CellOf(D, 1)
  PROVE  CellOf(D, 0) * Cell + CellOf(D, n + 2) = Increasing(S)[n + 1]
<1> DEFINE H == FrontOf(S, D, 0)
           E == Elems(D, 0)
           R == S \ H
           t == Increasing(R)
<1>1. Stands(S, D, {}, 0) /\ {} # S
  BY StandsFirst
<1>2. /\ Lists(E, H) /\ Len(E) = Cardinality(H) /\ Len(Lows(D, 0)) = Cardinality(H)
      /\ \A m \in 1 .. Len(Lows(D, 0)) : E[m] = CellOf(D, 0) * Cell + Lows(D, 0)[m]
  BY <1>1, PartDecoded
<1>3. /\ CellOf(D, 0 + 1) = Cardinality(H) - 1 /\ Cardinality(H) \in Nat \ {0} /\ H \subseteq S
  BY <1>1, StandsNext
<1>4. \A x \in {} \cup H, y \in S \ ({} \cup H) : x < y
  BY <1>1, FrontFirst
<1>5. \A x \in H, y \in R : x < y
  BY <1>4
<1>6. Finite(R)
  BY FiniteParts
<1>7. Lists(t, R)
  BY <1>6, ListsIncreasing DEF Finite
<1> HIDE DEF E, H, t
<1>8. Lists(E \o t, H \cup R)
  BY <1>2, <1>5, <1>7, ListsJoined
<1>9. H \cup R = S
  BY <1>3
<1>10. E \o t = Increasing(S)
  BY <1>8, <1>9, ListsUnique
<1>11. n + 1 \in 1 .. Len(E) /\ n \in Nat
  BY <1>2, <1>3
<1>12. (E \o t)[n + 1] = E[n + 1]
  BY <1>2, <1>7, <1>11, JoinedSequences DEF Lists
<1>13. Lows(D, 0)[n + 1] = CellOf(D, n + 2)
  <2>1. Lows(D, 0) = [m \in 1 .. CellOf(D, 0 + 1) + 1 |-> CellOf(D, 0 + 1 + m)]
    BY DEF Lows
  <2>2. n + 1 \in 1 .. CellOf(D, 0 + 1) + 1 /\ 0 + 1 + (n + 1) = n + 2
    BY <1>2, <1>3, <1>11
  <2>3. Lows(D, 0)[n + 1] = CellOf(D, 0 + 1 + (n + 1))
    BY ONLY <2>1, <2>2
  <2> QED
    BY <2>2, <2>3
<1>14. E[n + 1] = CellOf(D, 0) * Cell + Lows(D, 0)[n + 1]
  BY <1>2, <1>11
<1> QED
  BY <1>10, <1>12, <1>13, <1>14

LEMMA DecoderState ==
  ASSUME PShortInv, op = "ps_decode"
  PROVE  /\ PShortTypes /\ Finite(a) /\ Cardinality(a) \in Nat
         /\ A = BuildPShort(a) /\ \A k \in Nat : CellOf(A, k) \in Nat
         /\ i \in Nat /\ count \in 0 .. i /\ j \in Nat /\ inner \in -1 .. Cardinality(a) - 1
         /\ i = 0 => count = 0
         /\ i > 0 => (IF inner = -1 THEN j > CellOf(A, 1) ELSE inner > CellOf(A, 1))
         /\ C \in Seq(Nat \X Nat)
         /\ \A n \in 1 .. Len(C) :
              C[n][1] <= CellOf(A, 1) => C[n][2] = Increasing(a)[C[n][1] + 1]
<1>1. PShortTypes /\ DecoderInv
  BY DEF PShortInv
<1>2. Finite(a) /\ Cardinality(a) \in Nat
  BY <1>1, OperandsFinite DEF PShortTypes
<1>3. A = BuildPShort(a)
  BY <1>1 DEF DecoderInv
<1>4. \A k \in Nat : CellOf(A, k) \in Nat
  <2>1. Stands(a, A, {}, 0)
    BY <1>2, <1>3, StandsFirst
  <2> QED
    BY <2>1, StandsFacts
<1> QED
  BY <1>1, <1>2, <1>3, <1>4 DEF DecoderInv

LEMMA AskDecoderInv ==
  ASSUME PShortInv, NEW n \in 0 .. Cardinality(a) - 1, AskDecoder(n)
  PROVE  PShortInv'
<1>1. /\ op = "ps_decode" /\ inner = -1 /\ n >= j /\ inner' = n
      /\ UNCHANGED <<inputVars, A, C, i, j, count, done>>
  BY DEF AskDecoder, Call
<1>2. op' = op /\ a' = a /\ A' = A /\ C' = C /\ i' = i /\ j' = j /\ count' = count
  BY <1>1 DEF inputVars
<1>3. /\ PShortTypes /\ Cardinality(a) \in Nat /\ j \in Nat /\ CellOf(A, 1) \in Nat
      /\ i > 0 => j > CellOf(A, 1)
  BY <1>1, DecoderState
<1>4. inner' \in -1 .. Cardinality(a) - 1 /\ inner' # -1 /\ (i > 0 => inner' > CellOf(A, 1))
  BY <1>1, <1>3
<1>5. DecoderInv'
  BY <1>1, <1>2, <1>4, DecoderState DEF DecoderInv
<1> QED
  BY <1>1, <1>3, <1>5, OneCall DEF PShortTypes

LEMMA AdvanceDecoderInv ==
  ASSUME PShortInv, AdvanceDecoder
  PROVE  PShortInv'
<1>1. /\ op = "ps_decode" /\ inner > count + CellOf(A, i + 1)
      /\ i' = i + CellOf(A, i + 1) + 2 /\ count' = count + CellOf(A, i + 1)
      /\ UNCHANGED <<inputVars, A, C, j, inner, done>>
  BY DEF AdvanceDecoder, Call
<1>2. op' = op /\ a' = a /\ A' = A /\ C' = C /\ j' = j /\ inner' = inner
  BY <1>1 DEF inputVars
<1>3. /\ PShortTypes /\ i \in Nat /\ count \in 0 .. i
      /\ inner \in -1 .. Cardinality(a) - 1 /\ Cardinality(a) \in Nat
      /\ i = 0 => count = 0
      /\ i > 0 => (IF inner = -1 THEN j > CellOf(A, 1) ELSE inner > CellOf(A, 1))
  BY <1>1, DecoderState
<1>4. CellOf(A, i + 1) \in Nat /\ CellOf(A, 1) \in Nat
  <2>1. \A k \in Nat : CellOf(A, k) \in Nat
    BY <1>1, DecoderState
  <2>2. i + 1 \in Nat
    BY <1>3
  <2> QED
    BY <2>1, <2>2
<1>5. inner # -1 /\ inner > CellOf(A, 1)
  <2>1. CASE i = 0
    BY <1>1, <1>3, <1>4, <2>1
  <2>2. CASE i > 0
    BY <1>1, <1>3, <1>4, <2>2
  <2> QED
    BY <1>3, <2>1, <2>2
<1>6. i' \in Nat /\ i' # 0 /\ count' \in 0 .. i'
  BY <1>1, <1>3, <1>4
<1>7. DecoderInv'
  BY <1>1, <1>2, <1>5, <1>6, DecoderState DEF DecoderInv
<1> QED
  BY <1>1, <1>3, <1>7, OneCall DEF PShortTypes

LEMMA DecodeInv ==
  ASSUME PShortInv, Decode
  PROVE  PShortInv'
<1> DEFINE v == CellOf(A, i) * Cell + CellOf(A, i + inner - count + 2)
           e == <<inner, v>>
<1>1. /\ op = "ps_decode" /\ inner \in 0 .. count + CellOf(A, i + 1)
      /\ C' = Append(C, e) /\ j' = inner + 1 /\ inner' = -1
      /\ UNCHANGED <<inputVars, A, i, count, done>>
  BY DEF Decode, Call
<1>2. op' = op /\ a' = a /\ A' = A /\ i' = i /\ count' = count
  BY <1>1 DEF inputVars
<1>3. /\ PShortTypes /\ i \in Nat /\ count \in 0 .. i /\ Finite(a)
      /\ inner \in -1 .. Cardinality(a) - 1 /\ Cardinality(a) \in Nat
      /\ i = 0 => count = 0
      /\ i > 0 => (IF inner = -1 THEN j > CellOf(A, 1) ELSE inner > CellOf(A, 1))
      /\ C \in Seq(Nat \X Nat) /\ A = BuildPShort(a)
      /\ \A n \in 1 .. Len(C) :
           C[n][1] <= CellOf(A, 1) => C[n][2] = Increasing(a)[C[n][1] + 1]
  BY <1>1, DecoderState
<1>4. \A k \in Nat : CellOf(A, k) \in Nat
  BY <1>1, DecoderState
<1>5. inner \in Nat /\ v \in Nat
  <2>1. inner \in Nat /\ i + inner - count + 2 \in Nat /\ i + 1 \in Nat
    <3>1. CellOf(A, i + 1) \in Nat
      BY <1>3, <1>4
    <3> QED
      BY <1>1, <1>3, <3>1
  <2>2. CellOf(A, i) \in Nat /\ CellOf(A, i + inner - count + 2) \in Nat /\ Cell \in Nat
    BY <1>3, <1>4, <2>1, PShortAssumption
  <2> QED
    BY <2>1, <2>2
<1>6. ASSUME inner <= CellOf(A, 1) PROVE v = Increasing(a)[inner + 1]
  <2>1. i = 0 /\ count = 0 /\ CellOf(A, 1) \in Nat
    <3>1. CellOf(A, 1) \in Nat
      BY <1>4
    <3> QED
      BY <1>3, <1>5, <1>6, <3>1
  <2>2. a # {}
    <3>1. Cardinality({}) = 0
      BY FS_EmptySet
    <3>2. Cardinality(a) # 0
      BY <1>3, <1>5
    <3> QED
      BY <3>1, <3>2
  <2>3. inner \in 0 .. CellOf(A, 1)
    BY <1>5, <1>6, <2>1
  <2>4. CellOf(A, 0) * Cell + CellOf(A, inner + 2) = Increasing(a)[inner + 1]
    BY <1>3, <2>2, <2>3, FirstDecoded
  <2>5. i + inner - count + 2 = inner + 2
    BY <1>5, <2>1
  <2> QED
    BY <2>1, <2>4, <2>5
<1> HIDE DEF v
<1>7. e \in Nat \X Nat /\ e[1] = inner /\ e[2] = v
  BY <1>5
<1> HIDE DEF e
<1>8. /\ C' \in Seq(Nat \X Nat) /\ Len(C') = Len(C) + 1 /\ C'[Len(C) + 1] = e /\ Len(C) \in Nat
      /\ \A n \in 1 .. Len(C) : C'[n] = C[n]
  BY <1>1, <1>3, <1>7
<1>9. \A n \in 1 .. Len(C') :
        C'[n][1] <= CellOf(A, 1) => C'[n][2] = Increasing(a)[C'[n][1] + 1]
  <2> SUFFICES ASSUME NEW n \in 1 .. Len(C'), C'[n][1] <= CellOf(A, 1)
               PROVE  C'[n][2] = Increasing(a)[C'[n][1] + 1]
    OBVIOUS
  <2>1. n \in 1 .. Len(C) \/ n = Len(C) + 1
    BY <1>8
  <2>2. CASE n \in 1 .. Len(C)
    BY <1>3, <1>8, <2>2
  <2>3. CASE n = Len(C) + 1
    BY <1>6, <1>7, <1>8, <2>3
  <2> QED
    BY <2>1, <2>2, <2>3
<1>10. /\ -1 \in -1 .. Cardinality(a) - 1 /\ j' \in Nat
       /\ i > 0 => j' > CellOf(A, 1)
  <2>1. CellOf(A, 1) \in Nat
    BY <1>4
  <2> QED
    BY <1>1, <1>3, <1>5, <2>1
<1>11. DecoderInv'
  <2>1. inner' = -1
    BY <1>1
  <2> QED
    BY <1>2, <1>3, <1>8, <1>9, <1>10, <2>1 DEF DecoderInv
<1> QED
  BY <1>1, <1>3, <1>11, OneCall DEF PShortTypes
-----------------------------------------------------------------------------
\* The elements of an array from position n up to m.
Slice(D, n, m) == {D[k + 1] : k \in n .. m - 1}

LEMMA SliceFacts ==
  ASSUME NEW S, Finite(S), NEW D, D = Increasing(S),
         NEW n \in 0 .. Cardinality(S), NEW m \in n .. Cardinality(S)
  PROVE  /\ FirstOf(S, m) = FirstOf(S, n) \cup Slice(D, n, m)
         /\ Slice(D, n, m) \subseteq S /\ FirstOf(S, n) \subseteq S
         /\ \A x \in FirstOf(S, n), y \in Slice(D, n, m) : x < y
         /\ FirstOf(S, n) \cap Slice(D, n, m) = {}
         /\ S = FirstOf(S, n) \cup Slice(D, n, Cardinality(S))
<1> DEFINE c == Cardinality(S)
<1>1. c \in Nat /\ n \in Nat /\ m \in Nat /\ n <= m /\ m <= c /\ S \subseteq Nat
  <2>1. c \in Nat
    BY FiniteParts
  <2> QED
    BY <2>1 DEF Finite
<1>2. Lists(D, S) /\ Len(D) = c
  BY ListsIncreasing DEF Finite
<1> HIDE DEF c
<1>3. /\ \A p \in 1 .. c : D[p] \in S /\ D[p] \in Nat
      /\ \A x \in S : \E p \in 1 .. c : D[p] = x
      /\ \A p, q \in 1 .. c : p < q => D[p] < D[q]
  BY <1>1, <1>2 DEF Lists
<1>4. FirstOf(S, n) = {D[p] : p \in 1 .. n} /\ FirstOf(S, m) = {D[p] : p \in 1 .. m}
  BY DEF FirstOf
<1>5. Slice(D, n, m) = {D[p] : p \in n + 1 .. m} /\ Slice(D, n, c) = {D[p] : p \in n + 1 .. c}
  <2>1. \A k \in n .. m - 1 : k + 1 \in n + 1 .. m
    BY <1>1
  <2>2. \A p \in n + 1 .. m : p - 1 \in n .. m - 1 /\ (p - 1) + 1 = p
    BY <1>1
  <2>3. \A k \in n .. c - 1 : k + 1 \in n + 1 .. c
    BY <1>1
  <2>4. \A p \in n + 1 .. c : p - 1 \in n .. c - 1 /\ (p - 1) + 1 = p
    BY <1>1
  <2>5. \A y \in Slice(D, n, m) : \E p \in n + 1 .. m : y = D[p]
    BY <2>1 DEF Slice
  <2>6. \A p \in n + 1 .. m : D[p] \in Slice(D, n, m)
    BY <2>2 DEF Slice
  <2>7. \A y \in Slice(D, n, c) : \E p \in n + 1 .. c : y = D[p]
    BY <2>3 DEF Slice
  <2>8. \A p \in n + 1 .. c : D[p] \in Slice(D, n, c)
    BY <2>4 DEF Slice
  <2> QED
    BY <2>5, <2>6, <2>7, <2>8
<1>6. 1 .. m = (1 .. n) \cup (n + 1 .. m) /\ 1 .. c = (1 .. n) \cup (n + 1 .. c)
  BY <1>1
<1>7. FirstOf(S, m) = FirstOf(S, n) \cup Slice(D, n, m)
  BY ONLY <1>4, <1>5, <1>6
<1>8. Slice(D, n, m) \subseteq S /\ FirstOf(S, n) \subseteq S
  BY <1>1, <1>3, <1>4, <1>5
<1>9. \A x \in FirstOf(S, n), y \in Slice(D, n, m) : x < y
  <2>1. \A p \in 1 .. n, q \in n + 1 .. m : p < q /\ p \in 1 .. c /\ q \in 1 .. c
    BY <1>1
  <2> QED
    BY <1>3, <1>4, <1>5, <2>1
<1>10. FirstOf(S, n) \cap Slice(D, n, m) = {}
  <2>1. \A x \in FirstOf(S, n) : x \in Nat
    BY <1>1, <1>8
  <2> QED
    BY <1>9, <2>1
<1>11. S = FirstOf(S, n) \cup Slice(D, n, c)
  BY <1>3, <1>4, <1>5, <1>6
<1> QED
  BY <1>7, <1>8, <1>9, <1>10, <1>11 DEF c

\* The elements that begin a partition.
LEMMA BegunFacts ==
  ASSUME NEW S, NEW D, NEW X, NEW n, Stands(S, D, X, n), X # S,
         NEW m \in 0 .. Cardinality(FrontOf(S, D, n)),
         NEW h \in m .. Cardinality(FrontOf(S, D, n))
  PROVE  /\ BegunOf(S, D, n, m) \subseteq BegunOf(S, D, n, h)
         /\ BegunOf(S, D, n, h) \subseteq FrontOf(S, D, n)
         /\ \A x \in FrontOf(S, D, n) :
              x \in BegunOf(S, D, n, h) \ BegunOf(S, D, n, m)
                <=> \E g \in m + 1 .. h : low(x) = Lows(D, n)[g]
         /\ BegunOf(S, D, n, 0) = {}
         /\ BegunOf(S, D, n, Cardinality(FrontOf(S, D, n))) = FrontOf(S, D, n)
         /\ h > 0 => \A x \in FrontOf(S, D, n) :
                       x \in BegunOf(S, D, n, h) <=> low(x) <= Lows(D, n)[h]
<1> DEFINE s == Lows(D, n)
           H == FrontOf(S, D, n)
           k == Cardinality(H)
           L == Lowers(S, CellOf(D, n))
<1>1. Lists(s, L) /\ Len(s) = k
  BY PartDecoded
<1>2. k \in Nat
  BY StandsNext
<1>3. /\ \A p \in 1 .. k : s[p] \in Nat
      /\ \A x \in L : \E p \in 1 .. k : s[p] = x
      /\ \A p, q \in 1 .. k : p < q => s[p] < s[q]
  BY <1>1 DEF Lists
<1>4. \A x \in H : low(x) \in L
  BY DEF FrontOf, Lowers
<1> HIDE DEF s, H, k, L
<1>5. \A g : BegunOf(S, D, n, g) = {x \in H : \E p \in 1 .. g : low(x) = s[p]}
  BY DEF BegunOf, H, s
<1>6. m \in Nat /\ h \in Nat /\ m <= h /\ h <= k
  BY <1>2 DEF k, H
<1>7. \A p, q \in 1 .. k : s[p] = s[q] => p = q
  <2> SUFFICES ASSUME NEW p \in 1 .. k, NEW q \in 1 .. k, s[p] = s[q], p # q PROVE FALSE
    OBVIOUS
  <2>1. p < q \/ q < p
    BY <1>2
  <2> QED
    BY <1>3, <2>1
<1>8. ASSUME NEW x \in H
      PROVE  /\ x \in BegunOf(S, D, n, m) => x \in BegunOf(S, D, n, h)
             /\ x \in BegunOf(S, D, n, h) \ BegunOf(S, D, n, m)
                  <=> \E g \in m + 1 .. h : low(x) = s[g]
             /\ x \in BegunOf(S, D, n, k)
             /\ h > 0 => (x \in BegunOf(S, D, n, h) <=> low(x) <= s[h])
  <2>1. PICK p \in 1 .. k : s[p] = low(x)
    BY <1>3, <1>4
  <2>2. \A g \in 0 .. k : x \in BegunOf(S, D, n, g) <=> p <= g
    <3> SUFFICES ASSUME NEW g \in 0 .. k PROVE x \in BegunOf(S, D, n, g) <=> p <= g
      OBVIOUS
    <3>1. \A q \in 1 .. g : q \in 1 .. k /\ q <= g
      BY <1>2
    <3>2. ASSUME x \in BegunOf(S, D, n, g) PROVE p <= g
      <4>1. PICK q \in 1 .. g : low(x) = s[q]
        BY <1>5, <3>2
      <4> QED
        BY <1>7, <2>1, <3>1, <4>1
    <3>3. ASSUME p <= g PROVE x \in BegunOf(S, D, n, g)
      <4>1. p \in 1 .. g
        BY <1>2, <3>3
      <4> QED
        BY <1>5, <2>1, <4>1
    <3> QED
      BY <3>2, <3>3
  <2>3. m \in 0 .. k /\ h \in 0 .. k /\ k \in 0 .. k
    BY <1>2, <1>6
  <2>4. (\E g \in m + 1 .. h : low(x) = s[g]) <=> p \in m + 1 .. h
    <3>1. \A g \in m + 1 .. h : g \in 1 .. k
      BY <1>2, <1>6
    <3> QED
      BY <1>7, <2>1, <3>1
  <2>5. h > 0 => (p <= h <=> low(x) <= s[h])
    <3> SUFFICES ASSUME h > 0 PROVE p <= h <=> low(x) <= s[h]
      OBVIOUS
    <3>1. h \in 1 .. k /\ s[h] \in Nat /\ s[p] \in Nat
      BY <1>2, <1>3, <1>6
    <3>2. (p < h => s[p] < s[h]) /\ (h < p => s[h] < s[p]) /\ (p = h => s[p] = s[h])
      BY <1>3, <3>1
    <3> QED
      BY <1>6, <2>1, <3>1, <3>2
  <2> QED
    BY <1>2, <1>6, <2>2, <2>3, <2>4, <2>5
<1>9. \A g : BegunOf(S, D, n, g) \subseteq H
  BY <1>5
<1>10. BegunOf(S, D, n, 0) = {}
  BY <1>5
<1> QED
  BY <1>8, <1>9, <1>10 DEF s, H, k
-----------------------------------------------------------------------------
\* Where the intersection with an array stands.
ArrayAt(Y) ==
  /\ PShortTypes /\ ~HasFullPartition(b) /\ done = FALSE
  /\ Finite(a) /\ Finite(b) /\ Cardinality(a) \in Nat
  /\ A = Increasing(a) /\ Lists(A, a) /\ Len(A) = Cardinality(a)
  /\ i \in 0 .. Cardinality(a) /\ inner \in Int /\ inner >= -1
  /\ Y \in SUBSET b /\ Stands(b, B, Y, j)
  /\ count = Cardinality(FoundIn(a, b, B, i, Y, j, inner))
  /\ Len(A) <= Shorts => Lists(C, FoundIn(a, b, B, i, Y, j, inner)) /\ inner <= 0
  /\ inner # -1 =>
       /\ Y # b
       /\ \E n \in Nat : inner = Shorts * n
       /\ inner <= Cardinality(FrontOf(b, B, j))
       /\ \A n \in i .. Cardinality(a) - 1 : CellOf(B, j) <= prefix(AOf(n))

LEMMA ArrayStands ==
  ASSUME PShortInv, op = "ps_uinteger", ~done, ~HasFullPartition(b)
  PROVE  \E Y \in SUBSET b : ArrayAt(Y)
<1>1. PShortTypes /\ done = FALSE
  BY DEF PShortInv, PShortTypes
<1>2. Finite(a) /\ Finite(b) /\ Cardinality(a) \in Nat
  BY <1>1, OperandsFinite DEF PShortTypes
<1>3. ArrayInv
  BY DEF PShortInv
<1>4. A = Increasing(a) /\ i \in 0 .. Cardinality(a) /\ inner \in Int /\ inner >= -1
  BY <1>3 DEF ArrayInv
<1>5. Lists(A, a) /\ Len(A) = Cardinality(a)
  BY <1>2, <1>4, ListsIncreasing DEF Finite
<1>6. PICK Y \in SUBSET b :
        /\ Stands(b, B, Y, j)
        /\ count = Cardinality(Found(Y))
        /\ Len(A) <= Shorts => Lists(C, Found(Y)) /\ inner <= 0
        /\ inner # -1 =>
             /\ Y # b
             /\ \E n \in Nat : inner = Shorts * n
             /\ inner <= Cardinality(FrontOf(b, B, j))
             /\ \A n \in i .. Cardinality(a) - 1 : CellOf(B, j) <= prefix(AOf(n))
  BY <1>3 DEF ArrayInv
<1>7. ArrayAt(Y)
  BY <1>1, <1>2, <1>4, <1>5, <1>6 DEF ArrayAt, Found
<1> QED
  BY <1>7

LEMMA ArrayGoesOn ==
  ASSUME NEW Y, ArrayAt(Y), op = "ps_uinteger", UNCHANGED <<inputVars, A, done>>,
         i' \in 0 .. Cardinality(a), inner' \in Int, inner' >= -1,
         NEW Z \in SUBSET b, Stands(b, B, Z, j'),
         count' = Cardinality(FoundIn(a, b, B, i', Z, j', inner')),
         Len(A) <= Shorts => Lists(C', FoundIn(a, b, B, i', Z, j', inner')) /\ inner' <= 0,
         inner' # -1 =>
           /\ Z # b
           /\ \E n \in Nat : inner' = Shorts * n
           /\ inner' <= Cardinality(FrontOf(b, B, j'))
           /\ \A n \in i' .. Cardinality(a) - 1 : CellOf(B, j') <= prefix(AOf(n))
  PROVE  PShortInv'
<1>1. op' = op /\ a' = a /\ b' = b /\ A' = A /\ B' = B /\ done' = done /\ UNCHANGED inputVars
  BY DEF inputVars
<1>2. PShortTypes /\ done = FALSE /\ A = Increasing(a)
  BY DEF ArrayAt
<1>3. \A n : AOf(n)' = AOf(n)
  BY <1>1 DEF AOf
<1>4. FoundIn(a, b, B, i', Z, j', inner') = Found(Z)'
  BY <1>1 DEF Found
<1>5. ArrayInv'
  <2>1. /\ Z \in SUBSET b' /\ Stands(b', B', Z, j') /\ count' = Cardinality(Found(Z)')
        /\ Len(A') <= Shorts => Lists(C', Found(Z)') /\ inner' <= 0
        /\ inner' # -1 =>
             /\ Z # b'
             /\ \E n \in Nat : inner' = Shorts * n
             /\ inner' <= Cardinality(FrontOf(b', B', j'))
             /\ \A n \in i' .. Cardinality(a') - 1 : CellOf(B', j') <= prefix(AOf(n)')
    BY <1>1, <1>3, <1>4
  <2>2. A' = Increasing(a') /\ i' \in 0 .. Cardinality(a') /\ inner' \in Int /\ inner' >= -1
    BY <1>1, <1>2
  <2>3. done' = FALSE
    BY <1>1, <1>2
  <2> QED
    BY <2>1, <2>2, <2>3 DEF ArrayInv
<1> QED
  BY <1>1, <1>2, <1>5, OneCall

LEMMA ArrayFull ==
  ASSUME PShortInv, HasFullPartition(b), op = "ps_uinteger", UNCHANGED inputVars,
         done' \in BOOLEAN
  PROVE  PShortInv'
<1>1. op' = op /\ b' = b /\ PShortTypes
  BY DEF inputVars, PShortInv
<1>2. HasFullPartition(b)'
  BY <1>1 DEF HasFullPartition
<1>3. ArrayInv'
  BY <1>2 DEF ArrayInv
<1> QED
  BY <1>1, <1>3, OneCall
-----------------------------------------------------------------------------
\* Outside a partition, what was found does not depend on one.
LEMMA FoundOutside ==
  ASSUME NEW S, NEW T, NEW D, NEW n, NEW Y, NEW k
  PROVE  FoundIn(S, T, D, n, Y, k, -1) = S \cap T \cap (FirstOf(S, n) \cup Y)
<1>1. 1 .. -1 = {}
  OBVIOUS
<1>2. BegunOf(T, D, k, -1) = {}
  BY <1>1 DEF BegunOf
<1> QED
  BY <1>2 DEF FoundIn

\* What lies before a position of an array.
LEMMA ArrayPositions ==
  ASSUME Finite(a), A = Increasing(a), NEW n \in 0 .. Cardinality(a) - 1
  PROVE  /\ AOf(n) \in a /\ AOf(n) \in Nat
         /\ \A x \in a : x \in FirstOf(a, n) <=> x < AOf(n)
         /\ \A m \in n .. Cardinality(a) - 1 :
              /\ AOf(m) \in a /\ AOf(m) \in Nat
              /\ AOf(n) <= AOf(m) /\ prefix(AOf(n)) <= prefix(AOf(m))
         /\ FirstOf(a, n + 1) = FirstOf(a, n) \cup {AOf(n)}
         /\ AOf(n) \notin FirstOf(a, n)
<1> DEFINE c == Cardinality(a)
<1>1. c \in Nat /\ \A x \in a : x \in Nat
  BY FiniteParts DEF Finite
<1>2. Lists(A, a) /\ Len(A) = c
  BY ListsIncreasing DEF Finite
<1> HIDE DEF c
<1>3. /\ \A m \in 0 .. c - 1 : AOf(m) \in a /\ AOf(m) \in Nat
      /\ \A m, h \in 0 .. c - 1 : m < h => AOf(m) < AOf(h)
  <2>1. \A p \in 1 .. c : A[p] \in a /\ A[p] \in Nat
    BY <1>2 DEF Lists
  <2>2. \A p, q \in 1 .. c : p < q => A[p] < A[q]
    BY <1>2 DEF Lists
  <2>3. \A m \in 0 .. c - 1 : m + 1 \in 1 .. c
    BY <1>1
  <2>4. \A m, h \in 0 .. c - 1 : m < h => m + 1 < h + 1
    BY <1>1
  <2> QED
    BY <2>1, <2>2, <2>3, <2>4 DEF AOf
<1>4. n \in 0 .. c - 1 /\ n \in Nat /\ n + 1 \in n .. c /\ n \in 0 .. c /\ n \in n .. c - 1
  BY <1>1 DEF c
<1>5. /\ a = FirstOf(a, n) \cup Slice(A, n, c)
      /\ \A x \in FirstOf(a, n), y \in Slice(A, n, c) : x < y
      /\ FirstOf(a, n) \subseteq a
  <2>1. n \in 0 .. Cardinality(a) /\ Cardinality(a) \in n .. Cardinality(a)
    BY <1>1, <1>4 DEF c
  <2> QED
    BY <2>1, SliceFacts DEF c
<1>6. FirstOf(a, n + 1) = FirstOf(a, n) \cup Slice(A, n, n + 1)
  <2>1. n \in 0 .. Cardinality(a) /\ n + 1 \in n .. Cardinality(a)
    BY <1>4 DEF c
  <2> QED
    BY <2>1, SliceFacts
<1>7. Slice(A, n, n + 1) = {AOf(n)}
  <2>1. n .. (n + 1) - 1 = {n}
    BY <1>4
  <2> QED
    BY <2>1 DEF Slice, AOf
<1>8. AOf(n) \in Slice(A, n, c)
  BY <1>4 DEF Slice, AOf
<1>9. \A m \in n .. c - 1 : AOf(m) \in a /\ AOf(m) \in Nat /\ AOf(n) <= AOf(m)
  <2> SUFFICES ASSUME NEW m \in n .. c - 1
               PROVE  AOf(m) \in a /\ AOf(m) \in Nat /\ AOf(n) <= AOf(m)
    OBVIOUS
  <2>1. m \in 0 .. c - 1 /\ (n = m \/ n < m)
    BY <1>1, <1>4
  <2>2. AOf(n) \in Nat /\ AOf(m) \in Nat /\ AOf(m) \in a /\ (n < m => AOf(n) < AOf(m))
    BY <1>3, <1>4, <2>1
  <2> QED
    BY <2>1, <2>2
<1>10. AOf(n) \in a /\ AOf(n) \in Nat
  BY <1>3, <1>4
<1>11. \A m \in n .. c - 1 : prefix(AOf(n)) <= prefix(AOf(m))
  BY <1>9, <1>10, PrefixesOrdered
<1>12. \A x \in a : x \in FirstOf(a, n) <=> x < AOf(n)
  <2> SUFFICES ASSUME NEW x \in a PROVE x \in FirstOf(a, n) <=> x < AOf(n)
    OBVIOUS
  <2>1. x \in FirstOf(a, n) => x < AOf(n)
    BY <1>5, <1>8
  <2>2. ASSUME x \notin FirstOf(a, n) PROVE AOf(n) <= x
    <3>1. PICK m \in n .. c - 1 : x = AOf(m)
      BY <1>5, <2>2 DEF Slice, AOf
    <3> QED
      BY <1>9, <3>1
  <2> QED
    BY <1>1, <1>10, <2>1, <2>2
<1>13. AOf(n) \notin FirstOf(a, n)
  BY <1>10, <1>12
<1> QED
  BY <1>6, <1>7, <1>9, <1>10, <1>11, <1>12, <1>13 DEF c

\* Where the second operand goes on.
LEMMA ArrayMeets ==
  ASSUME NEW Y, ArrayAt(Y), Y # b
  PROVE  /\ FrontOf(b, B, j) \subseteq b /\ FrontOf(b, B, j) \cap Y = {} /\ Y \subseteq b
         /\ Cardinality(FrontOf(b, B, j)) \in Nat \ {0}
         /\ b_inner_size = Cardinality(FrontOf(b, B, j))
         /\ inner_end = j + 2 + Cardinality(FrontOf(b, B, j))
         /\ Stands(b, B, Y \cup FrontOf(b, B, j), inner_end)
         /\ CellOf(B, j) \in Nat
         /\ \A y \in b \ Y : /\ CellOf(B, j) <= prefix(y)
                             /\ prefix(y) = CellOf(B, j) <=> y \in FrontOf(b, B, j)
         /\ \A y \in Y : prefix(y) < CellOf(B, j)
         /\ \A y \in b : y \in Nat
<1> DEFINE G == FrontOf(b, B, j)
           k == Cardinality(G)
<1>1. Stands(b, B, Y, j) /\ Finite(b) /\ ~HasFullPartition(b)
  BY DEF ArrayAt
<1>2. j \in Nat
  BY <1>1, StandsFacts
<1>3. /\ CellOf(B, j) \in PrefixesOf(b) /\ CellOf(B, j) \in Nat
      /\ G \subseteq b /\ G \cap Y = {} /\ Cardinality(G) \in Nat \ {0}
      /\ CellOf(B, j + 1) = Cardinality(G) - 1
      /\ \A y \in b \ Y : /\ CellOf(B, j) <= prefix(y)
                          /\ prefix(y) = CellOf(B, j) <=> y \in G
  BY <1>1, StandsNext
<1>4. k \in 1 .. Cell - 1
  <2>1. k \in 1 .. Cell /\ k # Cell
    BY <1>1, <1>3, FullPart DEF FrontOf
  <2>2. Cell \in Nat
    BY PShortAssumption
  <2> HIDE DEF k
  <2> QED
    BY <2>1, <2>2
<1>5. b_inner_size = k
  <2>1. Cell \in Nat \ {0}
    BY PShortAssumption
  <2>2. CellOf(B, j + 1) + 1 = k
    BY <1>3
  <2>3. k % Cell = k
    <3> HIDE DEF k
    <3> QED
      BY <1>4, <2>1
  <2> QED
    BY <2>2, <2>3 DEF b_inner_size
<1>6. inner_end = j + 2 + k
  <2> HIDE DEF k
  <2> QED
    BY <1>2, <1>4, <1>5 DEF inner_end
<1>7. Stands(b, B, Y \cup G, j + 2 + k)
  BY <1>1, StandsOn
<1>8. \A y \in Y : prefix(y) < CellOf(B, j)
  BY <1>1, FrontFirst
<1>9. Y \subseteq b /\ \A y \in b : y \in Nat
  BY <1>1 DEF Stands, Finite
<1> QED
  BY <1>3, <1>5, <1>6, <1>7, <1>8, <1>9

LEMMA SkipPartitionInv ==
  ASSUME PShortInv, SkipPartition
  PROVE  PShortInv'
<1>1. /\ op = "ps_uinteger" /\ ~done /\ inner = -1 /\ i < Len(A) /\ j < Len(B)
      /\ CellOf(B, j) < prefix(AOf(i)) /\ j' = inner_end
      /\ UNCHANGED <<inputVars, A, C, i, inner, count, done>>
  BY DEF SkipPartition, Call, MoreInBoth
<1>2. CASE HasFullPartition(b)
  BY <1>1, <1>2, ArrayFull DEF PShortInv, PShortTypes
<1>3. CASE ~HasFullPartition(b)
  <2> DEFINE G == FrontOf(b, B, j)
  <2>1. PICK Y \in SUBSET b : ArrayAt(Y)
    BY <1>1, <1>3, ArrayStands
  <2>2. /\ Finite(a) /\ A = Increasing(a) /\ Len(A) = Cardinality(a) /\ Cardinality(a) \in Nat
        /\ i \in 0 .. Cardinality(a) /\ Stands(b, B, Y, j)
        /\ count = Cardinality(FoundIn(a, b, B, i, Y, j, inner))
        /\ Len(A) <= Shorts => Lists(C, FoundIn(a, b, B, i, Y, j, inner)) /\ inner <= 0
    BY <2>1 DEF ArrayAt
  <2>3. Y # b
    BY <1>1, <2>2, StandsLast
  <2>4. /\ G \subseteq b /\ G \cap Y = {} /\ Stands(b, B, Y \cup G, inner_end)
        /\ CellOf(B, j) \in Nat
        /\ \A y \in b \ Y : prefix(y) = CellOf(B, j) <=> y \in G
    BY <2>1, <2>3, ArrayMeets
  <2>5. i \in 0 .. Cardinality(a) - 1
    BY <1>1, <2>2
  <2>6. AOf(i) \in Nat /\ \A x \in a : x \in FirstOf(a, i) <=> x < AOf(i)
    BY <2>2, <2>5, ArrayPositions
  <2>7. \A x \in a \cap G : x \in FirstOf(a, i)
    <3> SUFFICES ASSUME NEW x \in a, x \in G PROVE x < AOf(i)
      BY <2>6
    <3>1. prefix(x) = CellOf(B, j) /\ x \in Nat
      BY <2>2, <2>4 DEF Finite
    <3> QED
      BY <1>1, <2>6, <3>1, PrefixesOrdered
  <2> DEFINE Z == Y \cup G
  <2>8. FoundIn(a, b, B, i, Z, inner_end, -1) = FoundIn(a, b, B, i, Y, j, -1)
    <3>0. Z = Y \cup G
      OBVIOUS
    <3> HIDE DEF G, Z
    <3>1. FoundIn(a, b, B, i, Z, inner_end, -1) = a \cap b \cap (FirstOf(a, i) \cup Z)
      BY FoundOutside
    <3>2. FoundIn(a, b, B, i, Y, j, -1) = a \cap b \cap (FirstOf(a, i) \cup Y)
      BY FoundOutside
    <3> QED
      BY <2>7, <3>0, <3>1, <3>2
  <2> HIDE DEF G
  <2>9. Z \in SUBSET b /\ Stands(b, B, Z, j') /\ inner' = -1
    BY <1>1, <2>4
  <2> HIDE DEF Z
  <2>10. FoundIn(a, b, B, i', Z, j', inner') = FoundIn(a, b, B, i, Y, j, inner)
    BY <1>1, <2>8
  <2>11. i' = i /\ C' = C /\ count' = count /\ UNCHANGED <<inputVars, A, done>>
    BY <1>1
  <2>12. inner' \in Int /\ inner' >= -1 /\ inner' <= 0
    BY <2>9
  <2>13. i' \in 0 .. Cardinality(a) /\ count' = Cardinality(FoundIn(a, b, B, i', Z, j', inner'))
    BY <2>2, <2>10, <2>11
  <2>14. Len(A) <= Shorts => Lists(C', FoundIn(a, b, B, i', Z, j', inner')) /\ inner' <= 0
    BY <2>2, <2>10, <2>11, <2>12
  <2> QED
    BY <1>1, <2>1, <2>9, <2>11, <2>12, <2>13, <2>14, ArrayGoesOn
<1> QED
  BY <1>2, <1>3

LEMMA SkipElementInv ==
  ASSUME PShortInv, SkipElement
  PROVE  PShortInv'
<1>1. /\ op = "ps_uinteger" /\ ~done /\ inner = -1 /\ i < Len(A) /\ j < Len(B)
      /\ CellOf(B, j) * Cell > AOf(i) /\ i' = i + 1
      /\ UNCHANGED <<inputVars, A, C, j, inner, count, done>>
  BY DEF SkipElement, Call, MoreInBoth
<1>2. CASE HasFullPartition(b)
  BY <1>1, <1>2, ArrayFull DEF PShortInv, PShortTypes
<1>3. CASE ~HasFullPartition(b)
  <2>1. PICK Y \in SUBSET b : ArrayAt(Y)
    BY <1>1, <1>3, ArrayStands
  <2>2. /\ Finite(a) /\ A = Increasing(a) /\ Len(A) = Cardinality(a) /\ Cardinality(a) \in Nat
        /\ i \in 0 .. Cardinality(a) /\ Stands(b, B, Y, j)
        /\ count = Cardinality(FoundIn(a, b, B, i, Y, j, inner))
        /\ Len(A) <= Shorts => Lists(C, FoundIn(a, b, B, i, Y, j, inner)) /\ inner <= 0
    BY <2>1 DEF ArrayAt
  <2>3. Y # b
    BY <1>1, <2>2, StandsLast
  <2>4. CellOf(B, j) \in Nat /\ \A y \in b \ Y : CellOf(B, j) <= prefix(y)
    BY <2>1, <2>3, ArrayMeets
  <2>5. i \in 0 .. Cardinality(a) - 1
    BY <1>1, <2>2
  <2>6. AOf(i) \in Nat /\ FirstOf(a, i + 1) = FirstOf(a, i) \cup {AOf(i)}
    BY <2>2, <2>5, ArrayPositions
  <2>7. AOf(i) \in b => AOf(i) \in Y
    <3>1. /\ CellOf(B, j) * Cell + 0 \in Nat
          /\ prefix(CellOf(B, j) * Cell + 0) = CellOf(B, j) /\ low(CellOf(B, j) * Cell + 0) = 0
      <4>1. 0 \in 0 .. Cell - 1
        BY PShortAssumption
      <4> QED
        BY <2>4, <4>1, AtPrefix
    <3> DEFINE x == CellOf(B, j) * Cell
    <3>2. x \in Nat /\ prefix(x) = CellOf(B, j) /\ low(x) = 0
      <4>1. x + 0 = x
        BY <2>4, PShortAssumption
      <4> QED
        BY <3>1, <4>1
    <3>3. AOf(i) < x
      <4> HIDE DEF x
      <4>1. x > AOf(i)
        BY <1>1 DEF x
      <4> QED
        BY <2>6, <3>2, <4>1
    <3> HIDE DEF x
    <3>4. prefix(AOf(i)) \in Nat /\ low(AOf(i)) \in Nat
      BY <2>6, PrefixOf
    <3>5. prefix(AOf(i)) <= prefix(x)
          /\ (prefix(AOf(i)) = prefix(x) => low(AOf(i)) < low(x))
      BY <2>6, <3>2, <3>3, PrefixesOrdered
    <3>6. prefix(AOf(i)) < CellOf(B, j)
      BY <2>4, <3>2, <3>4, <3>5
    <3> QED
      BY <2>4, <3>4, <3>6
  <2>8. FoundIn(a, b, B, i + 1, Y, j, -1) = FoundIn(a, b, B, i, Y, j, -1)
    <3>1. FoundIn(a, b, B, i + 1, Y, j, -1) = a \cap b \cap (FirstOf(a, i + 1) \cup Y)
      BY FoundOutside
    <3>2. FoundIn(a, b, B, i, Y, j, -1) = a \cap b \cap (FirstOf(a, i) \cup Y)
      BY FoundOutside
    <3> QED
      BY <2>6, <2>7, <3>1, <3>2
  <2>9. Stands(b, B, Y, j') /\ inner' = -1
    BY <1>1, <2>2
  <2>10. FoundIn(a, b, B, i', Y, j', inner') = FoundIn(a, b, B, i, Y, j, inner)
    BY <1>1, <2>8
  <2>11. i' \in 0 .. Cardinality(a) /\ C' = C /\ count' = count /\ UNCHANGED <<inputVars, A, done>>
    BY <1>1, <2>2, <2>5
  <2>12. inner' \in Int /\ inner' >= -1 /\ inner' <= 0
    BY <2>9
  <2>13. count' = Cardinality(FoundIn(a, b, B, i', Y, j', inner'))
    BY <2>2, <2>10, <2>11
  <2>14. Len(A) <= Shorts => Lists(C', FoundIn(a, b, B, i', Y, j', inner')) /\ inner' <= 0
    BY <2>2, <2>10, <2>11, <2>12
  <2> QED
    BY <1>1, <2>1, <2>9, <2>11, <2>12, <2>13, <2>14, ArrayGoesOn
<1> QED
  BY <1>2, <1>3

LEMMA EnterPartitionInv ==
  ASSUME PShortInv, EnterPartition
  PROVE  PShortInv'
<1>1. /\ op = "ps_uinteger" /\ ~done /\ inner = -1 /\ i < Len(A) /\ j < Len(B)
      /\ CellOf(B, j) = prefix(AOf(i)) /\ inner' = 0
      /\ UNCHANGED <<inputVars, A, C, i, j, count, done>>
  BY DEF EnterPartition, Call, MoreInBoth
<1>2. CASE HasFullPartition(b)
  BY <1>1, <1>2, ArrayFull DEF PShortInv, PShortTypes
<1>3. CASE ~HasFullPartition(b)
  <2>1. PICK Y \in SUBSET b : ArrayAt(Y)
    BY <1>1, <1>3, ArrayStands
  <2>2. /\ Finite(a) /\ A = Increasing(a) /\ Len(A) = Cardinality(a) /\ Cardinality(a) \in Nat
        /\ i \in 0 .. Cardinality(a) /\ Stands(b, B, Y, j)
        /\ count = Cardinality(FoundIn(a, b, B, i, Y, j, inner))
        /\ Len(A) <= Shorts => Lists(C, FoundIn(a, b, B, i, Y, j, inner)) /\ inner <= 0
    BY <2>1 DEF ArrayAt
  <2>3. Y # b
    BY <1>1, <2>2, StandsLast
  <2>4. CellOf(B, j) \in Nat /\ Cardinality(FrontOf(b, B, j)) \in Nat
    BY <2>1, <2>3, ArrayMeets
  <2>5. i \in 0 .. Cardinality(a) - 1
    BY <1>1, <2>2
  <2>6. \A n \in i .. Cardinality(a) - 1 : CellOf(B, j) <= prefix(AOf(n))
    BY <1>1, <2>2, <2>5, ArrayPositions
  <2>7. FoundIn(a, b, B, i, Y, j, 0) = FoundIn(a, b, B, i, Y, j, -1)
    <3>1. 1 .. 0 = {} /\ 1 .. -1 = {}
      OBVIOUS
    <3>2. BegunOf(b, B, j, 0) = {} /\ BegunOf(b, B, j, -1) = {}
      BY <3>1 DEF BegunOf
    <3> QED
      BY <3>2 DEF FoundIn
  <2>8. Stands(b, B, Y, j') /\ i' \in 0 .. Cardinality(a) /\ C' = C /\ count' = count
        /\ UNCHANGED <<inputVars, A, done>>
    BY <1>1, <2>2
  <2>9. FoundIn(a, b, B, i', Y, j', inner') = FoundIn(a, b, B, i, Y, j, inner)
    BY <1>1, <2>7
  <2>10. inner' \in Int /\ inner' >= -1 /\ inner' <= 0 /\ inner' <= Cardinality(FrontOf(b, B, j'))
    BY <1>1, <2>4
  <2>11. \E n \in Nat : inner' = Shorts * n
    <3>1. inner' = Shorts * 0
      BY <1>1, PShortAssumption
    <3> QED
      BY <3>1
  <2>12. count' = Cardinality(FoundIn(a, b, B, i', Y, j', inner'))
    BY <2>2, <2>8, <2>9
  <2>13. Len(A) <= Shorts => Lists(C', FoundIn(a, b, B, i', Y, j', inner')) /\ inner' <= 0
    BY <2>2, <2>8, <2>9, <2>10
  <2>14. \A n \in i' .. Cardinality(a) - 1 : CellOf(B, j') <= prefix(AOf(n))
    BY <1>1, <2>6
  <2> QED
    BY <1>1, <2>1, <2>3, <2>8, <2>10, <2>11, <2>12, <2>13, <2>14, ArrayGoesOn
<1> QED
  BY <1>2, <1>3
-----------------------------------------------------------------------------
\* The blocks of elements that are compared.
BlockA == Slice(A, i, i + Shorts)
BlockB == BegunOf(b, B, j, inner + Shorts) \ BegunOf(b, B, j, inner)

LEMMA BlocksLie ==
  ASSUME NEW Y, ArrayAt(Y), inner >= 0, VectorApplies
  PROVE  /\ Y # b /\ Shorts \in Nat \ {0}
         /\ i \in 0 .. Cardinality(a) /\ i + Shorts \in i .. Cardinality(a) - 1
         /\ inner \in Nat /\ inner + Shorts \in inner .. Cardinality(FrontOf(b, B, j))
         /\ \E n \in Nat : inner + Shorts = Shorts * n
         /\ prefix(AOf(i + Shorts - 1)) = CellOf(B, j)
         /\ \A n \in i .. Cardinality(a) - 1 : CellOf(B, j) <= prefix(AOf(n))
<1> DEFINE k == Cardinality(FrontOf(b, B, j))
<1>1. /\ Cardinality(a) \in Nat /\ Len(A) = Cardinality(a) /\ i \in 0 .. Cardinality(a)
      /\ inner \in Int
      /\ inner # -1 =>
           /\ Y # b
           /\ \E n \in Nat : inner = Shorts * n
           /\ inner <= k
           /\ \A n \in i .. Cardinality(a) - 1 : CellOf(B, j) <= prefix(AOf(n))
  BY DEF ArrayAt
<1>2. inner \in Nat /\ inner # -1
  BY <1>1
<1>3. /\ i + Shorts < Len(A) /\ prefix(AOf(i + Shorts - 1)) = CellOf(B, j)
      /\ inner < (b_inner_size \div Shorts) * Shorts
  BY DEF VectorApplies, InPartition
<1>4. b_inner_size = k /\ k \in Nat
  BY <1>1, <1>2, ArrayMeets
<1>5. PICK n \in Nat : inner = Shorts * n
  BY <1>1, <1>2
<1>6. Shorts \in Nat \ {0}
  BY PShortAssumption
<1> HIDE DEF k
<1>7. k \div Shorts \in Nat /\ k % Shorts \in Nat /\ k = Shorts * (k \div Shorts) + (k % Shorts)
  BY <1>4, <1>6, Quotient
<1>8. n + 1 <= k \div Shorts
  <2> DEFINE q == k \div Shorts
  <2>1. q \in Nat
    BY <1>7
  <2>2. Shorts * n < q * Shorts
    BY <1>3, <1>4, <1>5
  <2> HIDE DEF q
  <2>3. n \in Nat
    OBVIOUS
  <2>4. q <= n => q * Shorts <= Shorts * n
    BY <1>6, <2>1, <2>3
  <2> DEFINE u == Shorts * n
             v == q * Shorts
  <2>5. u \in Nat /\ v \in Nat /\ u < v /\ (q <= n => v <= u)
    BY <1>6, <2>1, <2>2, <2>3, <2>4
  <2> HIDE DEF u, v
  <2>6. ~(q <= n)
    BY ONLY <2>5
  <2>7. n + 1 <= q
    BY ONLY <2>1, <2>3, <2>6
  <2> QED
    BY <2>7 DEF q
<1>9. Shorts * (n + 1) <= k
  <2> DEFINE q == k \div Shorts
             r == k % Shorts
  <2>1. q \in Nat /\ r \in Nat /\ k = Shorts * q + r /\ n + 1 <= q
    BY <1>7, <1>8
  <2> HIDE DEF q, r
  <2>2. Shorts * (n + 1) <= Shorts * q
    BY <1>6, <2>1
  <2> QED
    BY <1>6, <2>1, <2>2
<1>10. inner + Shorts = Shorts * (n + 1)
  BY <1>5, <1>6
<1>11. inner + Shorts \in inner .. k
  BY <1>2, <1>4, <1>6, <1>9, <1>10
<1>12. i + Shorts \in i .. Cardinality(a) - 1
  BY <1>1, <1>3, <1>6
<1>13. n + 1 \in Nat
  OBVIOUS
<1> QED
  BY <1>1, <1>2, <1>3, <1>6, <1>10, <1>11, <1>12, <1>13 DEF k

LEMMA BlocksMeet ==
  ASSUME NEW Y, ArrayAt(Y), inner >= 0, VectorApplies
  PROVE  /\ FirstOf(a, i + Shorts) = FirstOf(a, i) \cup BlockA
         /\ FirstOf(a, i) \cap BlockA = {} /\ BlockA \subseteq a
         /\ BegunOf(b, B, j, inner + Shorts) = BegunOf(b, B, j, inner) \cup BlockB
         /\ BlockB \cap BegunOf(b, B, j, inner) = {} /\ BlockB \cap Y = {} /\ BlockB \subseteq b
         /\ low(AOf(i + Shorts - 1)) <= Lows(B, j)[inner + Shorts]
              => BlockA \cap b \subseteq BegunOf(b, B, j, inner + Shorts)
         /\ low(AOf(i + Shorts - 1)) >= Lows(B, j)[inner + Shorts]
              => BlockB \cap a \subseteq FirstOf(a, i + Shorts)
         /\ {x \in BlockA : \E g \in inner + 1 .. inner + Shorts : low(x) = Lows(B, j)[g]}
              = BlockA \cap BlockB
<1> DEFINE G == FrontOf(b, B, j)
           k == Cardinality(G)
           q == CellOf(B, j)
           e == inner + Shorts
           z == i + Shorts - 1
           s == Lows(B, j)
<1>1. /\ Y # b /\ Shorts \in Nat \ {0}
      /\ i \in 0 .. Cardinality(a) /\ i + Shorts \in i .. Cardinality(a) - 1
      /\ inner \in Nat /\ e \in inner .. k
      /\ prefix(AOf(z)) = q
      /\ \A n \in i .. Cardinality(a) - 1 : q <= prefix(AOf(n))
  BY BlocksLie
<1>2. /\ Finite(a) /\ Finite(b) /\ A = Increasing(a) /\ Cardinality(a) \in Nat
      /\ Stands(b, B, Y, j)
  BY DEF ArrayAt
<1>3. /\ G \subseteq b /\ G \cap Y = {} /\ Y \subseteq b /\ k \in Nat /\ q \in Nat
      /\ \A y \in b \ Y : prefix(y) = q <=> y \in G
      /\ \A y \in Y : prefix(y) < q
      /\ \A y \in b : y \in Nat
  BY <1>1, <1>2, ArrayMeets
<1>4. FirstOf(a, i + Shorts) = FirstOf(a, i) \cup BlockA /\ FirstOf(a, i) \cap BlockA = {}
      /\ BlockA \subseteq a
  <2>1. i + Shorts \in i .. Cardinality(a)
    BY <1>1, <1>2
  <2> QED
    BY <1>1, <1>2, <2>1, SliceFacts DEF BlockA
<1>5. /\ BegunOf(b, B, j, inner) \subseteq BegunOf(b, B, j, e)
      /\ BegunOf(b, B, j, e) \subseteq G
      /\ \A x \in G : x \in BegunOf(b, B, j, e) \ BegunOf(b, B, j, inner)
                        <=> \E g \in inner + 1 .. e : low(x) = s[g]
      /\ \A x \in G : x \in BegunOf(b, B, j, e) <=> low(x) <= s[e]
  <2>1. inner \in 0 .. k /\ e \in inner .. k /\ e > 0
    BY <1>1, <1>3
  <2> HIDE DEF e
  <2> QED
    BY <1>1, <1>2, <2>1, BegunFacts
<1>6. z \in i .. Cardinality(a) - 1 /\ z + 1 = i + Shorts /\ z \in 0 .. Cardinality(a) - 1
  BY <1>1, <1>2
<1>7. /\ AOf(z) \in a /\ AOf(z) \in Nat
      /\ \A x \in a : x \in FirstOf(a, z) <=> x < AOf(z)
      /\ FirstOf(a, z + 1) = FirstOf(a, z) \cup {AOf(z)}
  <2> HIDE DEF z
  <2> QED
    BY <1>2, <1>6, ArrayPositions
<1> HIDE DEF e, z, s
<1>8. \A x \in BlockA : x \in Nat /\ x <= AOf(z) /\ prefix(x) = q
  <2> SUFFICES ASSUME NEW x \in BlockA PROVE x \in Nat /\ x <= AOf(z) /\ prefix(x) = q
    OBVIOUS
  <2>1. x \in Nat /\ x \in a
    BY <1>2, <1>4 DEF Finite
  <2>2. x <= AOf(z)
    <3>1. x \in FirstOf(a, z + 1)
      BY <1>4, <1>6
    <3> QED
      BY <1>7, <2>1, <3>1
  <2>3. PICK n \in i .. Cardinality(a) - 1 : x = AOf(n)
    <3>1. PICK n \in i .. (i + Shorts) - 1 : x = A[n + 1]
      BY DEF BlockA, Slice
    <3>2. n \in i .. Cardinality(a) - 1
      BY <1>1, <1>2, <3>1
    <3> QED
      BY <3>1, <3>2 DEF AOf
  <2>4. q <= prefix(x)
    BY <1>1, <2>3
  <2>5. prefix(x) <= q
    BY <1>1, <1>7, <2>1, <2>2, PrefixesOrdered
  <2>6. prefix(x) \in Nat
    BY <2>1, PrefixOf
  <2> QED
    BY <1>3, <2>1, <2>2, <2>4, <2>5, <2>6
<1>9. \A x \in G : prefix(x) = q /\ x \in Nat
  BY <1>3
<1>10. low(AOf(z)) \in Nat /\ (\A x \in BlockA : low(x) \in Nat /\ low(x) <= low(AOf(z)))
  <2> SUFFICES ASSUME NEW x \in BlockA PROVE low(x) \in Nat /\ low(x) <= low(AOf(z))
    BY <1>7, PrefixOf
  <2>1. x \in Nat /\ x <= AOf(z) /\ prefix(x) = q
    BY <1>8
  <2>2. low(x) \in Nat /\ low(AOf(z)) \in Nat
    BY <1>7, <2>1, PrefixOf
  <2>3. prefix(AOf(z)) = prefix(x)
    BY <1>1, <2>1
  <2>4. low(AOf(z)) < low(x) => AOf(z) < x
    BY <1>7, <2>1, <2>3, PrefixesOrdered
  <2> QED
    BY <1>7, <2>1, <2>2, <2>4
<1>11. s[e] \in Nat
  <2>1. Lists(s, Lowers(b, q)) /\ Len(s) = k
    BY <1>1, <1>2, PartDecoded DEF s
  <2>2. e \in 1 .. k
    <3>1. e > 0
      BY <1>1 DEF e
    <3> QED
      BY <1>1, <1>3, <3>1
  <2> HIDE DEF k
  <2> QED
    BY <2>1, <2>2 DEF Lists
<1>12. BlockB \subseteq G /\ \A x \in G : x \in BlockB <=> \E g \in inner + 1 .. e : low(x) = s[g]
  BY <1>5 DEF BlockB, e
<1>13. BegunOf(b, B, j, e) = BegunOf(b, B, j, inner) \cup BlockB
  BY <1>5 DEF BlockB, e
<1>14. BlockB \cap BegunOf(b, B, j, inner) = {} /\ BlockB \cap Y = {} /\ BlockB \subseteq b
  BY <1>3, <1>12 DEF BlockB
<1>15. ASSUME low(AOf(z)) <= s[e] PROVE BlockA \cap b \subseteq BegunOf(b, B, j, e)
  <2> SUFFICES ASSUME NEW x \in BlockA, x \in b PROVE x \in BegunOf(b, B, j, e)
    OBVIOUS
  <2>1. x \in Nat /\ prefix(x) = q
    BY <1>8
  <2>2. x \in G
    BY <1>3, <2>1
  <2>3. low(x) <= s[e]
    BY <1>10, <1>11, <1>15
  <2> QED
    BY <1>5, <2>2, <2>3
<1>16. ASSUME low(AOf(z)) >= s[e] PROVE BlockB \cap a \subseteq FirstOf(a, i + Shorts)
  <2> SUFFICES ASSUME NEW x \in BlockB, x \in a PROVE x \in FirstOf(a, z + 1)
    BY <1>6
  <2>1. x \in G /\ prefix(x) = q /\ x \in Nat
    BY <1>9, <1>12
  <2>2. low(x) <= s[e] /\ low(x) \in Nat
    BY <1>5, <1>13, <2>1, PrefixOf
  <2>3. low(x) <= low(AOf(z))
    BY <1>10, <1>11, <1>16, <2>2
  <2>4. x <= AOf(z)
    <3>1. prefix(x) = prefix(AOf(z))
      BY <1>1, <2>1
    <3>2. AOf(z) < x => low(AOf(z)) < low(x)
      BY <1>7, <2>1, <3>1, PrefixesOrdered
    <3> QED
      BY <1>7, <1>10, <2>1, <2>2, <2>3, <3>2
  <2> QED
    BY <1>7, <2>1, <2>4
<1>17. {x \in BlockA : \E g \in inner + 1 .. e : low(x) = s[g]} = BlockA \cap BlockB
  <2> SUFFICES ASSUME NEW x \in BlockA
               PROVE  (\E g \in inner + 1 .. e : low(x) = s[g]) <=> x \in BlockB
    OBVIOUS
  <2>1. ASSUME x \in BlockB PROVE \E g \in inner + 1 .. e : low(x) = s[g]
    BY <1>12, <2>1
  <2>2. ASSUME NEW g \in inner + 1 .. e, low(x) = s[g] PROVE x \in BlockB
    <3>1. Lists(s, Lowers(b, q)) /\ Len(s) = k
      BY <1>1, <1>2, PartDecoded DEF s
    <3>2. g \in 1 .. k
      BY <1>1, <1>3
    <3>3. low(x) \in Lowers(b, q)
      <4> HIDE DEF k
      <4> QED
        BY <2>2, <3>1, <3>2 DEF Lists
    <3>4. q * Cell + low(x) \in Part(b, q)
      BY <1>2, <3>3, PartFacts
    <3>5. x = q * Cell + low(x)
      BY <1>8, PrefixOf
    <3>6. x \in G
      BY <3>4, <3>5 DEF FrontOf
    <3> QED
      BY <1>12, <2>2, <3>6
  <2> QED
    BY <2>1, <2>2
<1> QED
  BY <1>4, <1>13, <1>14, <1>15, <1>16, <1>17 DEF e, z, s

\* What the vector instruction finds.
LEMMA BlocksCompared ==
  ASSUME NEW Y, ArrayAt(Y), inner >= 0, VectorApplies,
         NEW block_a, block_a = SubSeq(A, i + 1, i + Shorts),
         NEW block_b, block_b = [m \in 1 .. Shorts |-> CellOf(B, j + 2 + inner + m - 1)]
  PROVE  /\ {x \in ToSet(block_a) : low(x) \in ToSet(block_b)} = BlockA \cap BlockB
         /\ block_a[Shorts] = AOf(i + Shorts - 1)
         /\ block_b[Shorts] = Lows(B, j)[inner + Shorts]
<1> DEFINE k == Cardinality(FrontOf(b, B, j))
           s == Lows(B, j)
<1>1. /\ Y # b /\ Shorts \in Nat \ {0}
      /\ i \in 0 .. Cardinality(a) /\ i + Shorts \in i .. Cardinality(a) - 1
      /\ inner \in Nat /\ inner + Shorts \in inner .. k
  BY BlocksLie
<1>2. /\ Lists(A, a) /\ Len(A) = Cardinality(a) /\ Cardinality(a) \in Nat
      /\ Stands(b, B, Y, j)
  BY DEF ArrayAt
<1>3. A \in Seq(Nat) /\ j \in Nat
  BY <1>2, StandsFacts DEF Lists
<1>4. CellOf(B, j + 1) = k - 1 /\ k \in Nat \ {0}
  BY <1>1, <1>2, StandsNext
<1>5. \A g \in 1 .. k : s[g] = CellOf(B, j + 1 + g)
  <2>1. CellOf(B, j + 1) + 1 = k
    <3> HIDE DEF k
    <3> QED
      BY <1>4
  <2>2. s = [m \in 1 .. k |-> CellOf(B, j + 1 + m)]
    BY <2>1 DEF Lows
  <2> HIDE DEF k, s
  <2> QED
    BY <2>2
<1> HIDE DEF k, s
<1>6. /\ Len(block_a) = Shorts /\ \A m \in 1 .. Shorts : block_a[m] = A[i + m]
      /\ block_a \in Seq(Nat)
  <2>1. i + 1 \in 1 .. Len(A) + 1 /\ i + Shorts \in i .. Len(A) /\ i \in Nat
    BY <1>1, <1>2
  <2>2. Len(block_a) = i + Shorts - (i + 1) + 1 /\ block_a \in Seq(Nat)
    BY <1>1, <1>3, <2>1
  <2>3. \A m \in 1 .. Shorts : block_a[m] = A[i + 1 + m - 1]
    BY <1>1, <1>3, <2>1
  <2>4. \A m \in 1 .. Shorts : i + 1 + m - 1 = i + m
    BY <2>1
  <2>5. i + Shorts - (i + 1) + 1 = Shorts
    BY <1>1, <2>1
  <2> QED
    BY <2>2, <2>3, <2>4, <2>5
<1>7. ToSet(block_a) = BlockA
  <2>1. DOMAIN block_a = 1 .. Shorts
    BY <1>6
  <2>2. \A m \in 1 .. Shorts : i + m - 1 \in i .. (i + Shorts) - 1 /\ (i + m - 1) + 1 = i + m
    BY <1>1
  <2>3. \A n \in i .. (i + Shorts) - 1 : n + 1 - i \in 1 .. Shorts /\ i + (n + 1 - i) = n + 1
    BY <1>1
  <2>4. ASSUME NEW m \in 1 .. Shorts PROVE block_a[m] \in BlockA
    BY <1>6, <2>2 DEF BlockA, Slice
  <2>5. ASSUME NEW x \in BlockA PROVE \E m \in 1 .. Shorts : block_a[m] = x
    <3>1. PICK n \in i .. (i + Shorts) - 1 : x = A[n + 1]
      BY DEF BlockA, Slice
    <3>2. block_a[n + 1 - i] = x
      BY <1>6, <2>3, <3>1
    <3> QED
      BY <2>3, <3>2
  <2> QED
    BY <2>1, <2>4, <2>5 DEF ToSet
<1>8. \A m \in 1 .. Shorts : block_b[m] = s[inner + m]
  <2> SUFFICES ASSUME NEW m \in 1 .. Shorts PROVE block_b[m] = s[inner + m]
    OBVIOUS
  <2>1. inner + m \in 1 .. k
    BY <1>1, <1>4
  <2>2. j + 2 + inner + m - 1 = j + 1 + (inner + m)
    BY <1>1, <1>3
  <2> QED
    BY <1>5, <2>1, <2>2
<1>9. ToSet(block_b) = {s[g] : g \in inner + 1 .. inner + Shorts}
  <2>1. DOMAIN block_b = 1 .. Shorts
    OBVIOUS
  <2>2. \A m \in 1 .. Shorts : inner + m \in inner + 1 .. inner + Shorts
    BY <1>1
  <2>3. \A g \in inner + 1 .. inner + Shorts : g - inner \in 1 .. Shorts /\ inner + (g - inner) = g
    BY <1>1
  <2>4. \A m \in 1 .. Shorts : block_b[m] \in {s[g] : g \in inner + 1 .. inner + Shorts}
    BY <1>8, <2>2
  <2>5. \A g \in inner + 1 .. inner + Shorts : \E m \in 1 .. Shorts : block_b[m] = s[g]
    BY <1>8, <2>3
  <2> QED
    BY ONLY <2>1, <2>4, <2>5 DEF ToSet
<1>10. {x \in ToSet(block_a) : low(x) \in ToSet(block_b)}
         = {x \in BlockA : \E g \in inner + 1 .. inner + Shorts : low(x) = s[g]}
  BY ONLY <1>7, <1>9
<1>11. {x \in BlockA : \E g \in inner + 1 .. inner + Shorts : low(x) = s[g]} = BlockA \cap BlockB
  BY BlocksMeet DEF s
<1>12. block_a[Shorts] = AOf(i + Shorts - 1)
  <2>1. (i + Shorts - 1) + 1 = i + Shorts /\ Shorts \in 1 .. Shorts
    BY <1>1
  <2> QED
    BY <1>6, <2>1 DEF AOf
<1>13. block_b[Shorts] = s[inner + Shorts]
  <2>1. Shorts \in 1 .. Shorts
    BY <1>1
  <2> QED
    BY <1>8, <2>1
<1> QED
  BY <1>10, <1>11, <1>12, <1>13 DEF s

LEMMA CompareShortsInv ==
  ASSUME PShortInv, CompareShorts
  PROVE  PShortInv'
<1> DEFINE block_a == SubSeq(A, i + 1, i + Shorts)
           block_b == [m \in 1 .. Shorts |-> CellOf(B, j + 2 + inner + m - 1)]
           r == Increasing({x \in ToSet(block_a) : low(x) \in ToSet(block_b)})
           a_max == low(block_a[Shorts])
           b_max == block_b[Shorts]
<1>1. /\ op = "ps_uinteger" /\ ~done /\ inner >= 0 /\ VectorApplies
      /\ count' = count + Len(r)
      /\ i' = (IF a_max <= b_max THEN i + Shorts ELSE i)
      /\ inner' = (IF a_max >= b_max THEN inner + Shorts ELSE inner)
      /\ UNCHANGED <<inputVars, A, j, done>>
  BY DEF CompareShorts, Call
<1>2. CASE HasFullPartition(b)
  BY <1>1, <1>2, ArrayFull DEF PShortInv, PShortTypes
<1>3. CASE ~HasFullPartition(b)
  <2> DEFINE k == Cardinality(FrontOf(b, B, j))
             R == BlockA \cap BlockB
  <2>1. PICK Y \in SUBSET b : ArrayAt(Y)
    BY <1>1, <1>3, ArrayStands
  <2>2. /\ Finite(a) /\ Finite(b) /\ Len(A) = Cardinality(a) /\ Cardinality(a) \in Nat
        /\ Stands(b, B, Y, j) /\ count = Cardinality(FoundIn(a, b, B, i, Y, j, inner))
        /\ \E n \in Nat : inner = Shorts * n
    <3>1. inner # -1
      BY <1>1
    <3> QED
      BY <2>1, <3>1 DEF ArrayAt
  <2>3. /\ Y # b /\ Shorts \in Nat \ {0}
        /\ i \in 0 .. Cardinality(a) /\ i + Shorts \in i .. Cardinality(a) - 1
        /\ inner \in Nat /\ inner + Shorts \in inner .. k
        /\ \E n \in Nat : inner + Shorts = Shorts * n
        /\ \A n \in i .. Cardinality(a) - 1 : CellOf(B, j) <= prefix(AOf(n))
    BY <1>1, <2>1, BlocksLie
  <2>4. k \in Nat
    BY <2>1, <2>3, ArrayMeets
  <2>5. /\ r = Increasing(R) /\ a_max = low(AOf(i + Shorts - 1))
        /\ b_max = Lows(B, j)[inner + Shorts]
    BY <1>1, <2>1, BlocksCompared
  <2>6. /\ FirstOf(a, i + Shorts) = FirstOf(a, i) \cup BlockA
        /\ FirstOf(a, i) \cap BlockA = {} /\ BlockA \subseteq a
        /\ BegunOf(b, B, j, inner + Shorts) = BegunOf(b, B, j, inner) \cup BlockB
        /\ BlockB \cap BegunOf(b, B, j, inner) = {} /\ BlockB \cap Y = {} /\ BlockB \subseteq b
        /\ a_max <= b_max => BlockA \cap b \subseteq BegunOf(b, B, j, inner + Shorts)
        /\ a_max >= b_max => BlockB \cap a \subseteq FirstOf(a, i + Shorts)
    BY <1>1, <2>1, <2>5, BlocksMeet
  <2> HIDE DEF a_max, b_max, r, k, block_a, block_b
  <2>7. a_max \in Nat /\ b_max \in Nat
    <3>1. i + Shorts - 1 \in 0 .. Cardinality(a) - 1 /\ A = Increasing(a)
      BY <2>1, <2>2, <2>3 DEF ArrayAt
    <3>2. AOf(i + Shorts - 1) \in Nat
      BY <2>2, <3>1, ArrayPositions
    <3>3. a_max \in Nat
      BY <2>5, <3>2, PrefixOf
    <3>4. Lists(Lows(B, j), Lowers(b, CellOf(B, j))) /\ Len(Lows(B, j)) = k
      BY <2>2, <2>3, PartDecoded DEF k
    <3>5. inner + Shorts \in 1 .. k
      BY <2>3, <2>4
    <3>6. b_max \in Nat
      BY <2>5, <3>4, <3>5 DEF Lists
    <3> QED
      BY <3>3, <3>6
  <2> DEFINE F == FoundIn(a, b, B, i, Y, j, inner)
             H == FoundIn(a, b, B, i', Y, j, inner')
  <2>8. F = a \cap b \cap (FirstOf(a, i) \cup Y \cup BegunOf(b, B, j, inner))
    BY DEF FoundIn
  <2>9. H = a \cap b \cap (FirstOf(a, i') \cup Y \cup BegunOf(b, B, j, inner'))
    BY DEF FoundIn
  <2> HIDE DEF F, H
  <2>10. R \cap F = {}
    BY <2>6, <2>8
  <2>11. H = F \cup R
    <3>1. CASE a_max <= b_max /\ a_max >= b_max
      <4>1. i' = i + Shorts /\ inner' = inner + Shorts
        BY <1>1, <3>1
      <4> QED
        BY <2>6, <2>8, <2>9, <3>1, <4>1
    <3>2. CASE a_max <= b_max /\ ~(a_max >= b_max)
      <4>1. i' = i + Shorts /\ inner' = inner
        BY <1>1, <3>2
      <4> QED
        BY <2>6, <2>8, <2>9, <3>2, <4>1
    <3>3. CASE ~(a_max <= b_max) /\ a_max >= b_max
      <4>1. i' = i /\ inner' = inner + Shorts
        BY <1>1, <3>3
      <4> QED
        BY <2>6, <2>8, <2>9, <3>3, <4>1
    <3> QED
      BY <2>7, <3>1, <3>2, <3>3
  <2>12. Finite(F) /\ Finite(R)
    <3>1. F \subseteq a /\ R \subseteq a
      BY <2>6, <2>8
    <3> HIDE DEF R
    <3> QED
      BY <2>2, <3>1, FiniteParts
  <2> HIDE DEF R
  <2>13. Len(r) = Cardinality(R)
    BY <2>5, <2>12, ListsIncreasing DEF Finite
  <2>14. count' = Cardinality(H)
    <3>1. F \cap R = {}
      BY <2>10
    <3>2. Cardinality(F \cup R) = Cardinality(F) + Cardinality(R)
      BY <2>12, <3>1, FiniteJoined
    <3>3. count = Cardinality(F)
      BY <2>2 DEF F
    <3> QED
      BY <1>1, <2>11, <2>13, <3>2, <3>3
  <2>15. ~(Len(A) <= Shorts)
    BY <2>2, <2>3
  <2>16. i' \in 0 .. Cardinality(a) /\ i' >= i /\ i' \in Int
    BY <1>1, <2>2, <2>3
  <2>17. inner' \in Nat /\ inner' <= k
    BY <1>1, <2>3, <2>4
  <2>18. \E n \in Nat : inner' = Shorts * n
    BY <1>1, <2>2, <2>3
  <2>19. j' = j /\ UNCHANGED <<inputVars, A, done>>
    BY <1>1
  <2>20. \A n \in i' .. Cardinality(a) - 1 : CellOf(B, j') <= prefix(AOf(n))
    <3>1. \A n \in i' .. Cardinality(a) - 1 : n \in i .. Cardinality(a) - 1
      BY <2>2, <2>3, <2>16
    <3> QED
      BY <2>3, <2>19, <3>1
  <2>21. count' = Cardinality(FoundIn(a, b, B, i', Y, j', inner'))
    BY <2>14, <2>19 DEF H
  <2>22. inner' \in Int /\ inner' >= -1 /\ inner' <= Cardinality(FrontOf(b, B, j'))
    BY <2>17, <2>19 DEF k
  <2>23. Stands(b, B, Y, j')
    BY <2>2, <2>19
  <2> QED
    BY <1>1, <2>1, <2>3, <2>15, <2>16, <2>18, <2>19, <2>20, <2>21, <2>22, <2>23, ArrayGoesOn
<1> QED
  BY <1>2, <1>3
-----------------------------------------------------------------------------
\* What is left of a partition.
RestOf == FrontOf(b, B, j) \ BegunOf(b, B, j, inner)
Rest == {CellOf(B, j + 2 + n) : n \in inner .. b_inner_size - 1}
Taken(t) == {x \in {AOf(n) : n \in i .. t - 1} : low(x) \in Rest}

\* The scalar loop stops at position t, and goes on at the one after it where that has
\* an element of the partition.
StopsAt(t) ==
  /\ t \in i .. Cardinality(a)
  /\ ~InPartition(t) \/ \A l \in Rest : l < low(AOf(t))
  /\ \A n \in i .. t - 1 : InPartition(n)
Onward(t) == IF Rest # {} /\ InPartition(t) THEN t + 1 ELSE t

LEMMA RestFacts ==
  ASSUME NEW Y, ArrayAt(Y), inner >= 0,
         NEW rest, rest = Rest
  PROVE  /\ Y # b /\ inner \in Nat
         /\ rest \subseteq Nat
         /\ RestOf \subseteq FrontOf(b, B, j)
         /\ BegunOf(b, B, j, inner) \subseteq FrontOf(b, B, j)
         /\ \A x \in FrontOf(b, B, j) : x \in RestOf <=> low(x) \in rest
         /\ \A x \in Nat : prefix(x) = CellOf(B, j) /\ low(x) \in rest => x \in RestOf
         /\ \A n \in i .. Cardinality(a) - 1 : CellOf(B, j) <= prefix(AOf(n))
         /\ inner = 0 => BegunOf(b, B, j, inner) = {}
<1> DEFINE G == FrontOf(b, B, j)
           k == Cardinality(G)
           q == CellOf(B, j)
           s == Lows(B, j)
<1>1. /\ inner \in Nat /\ Y # b /\ inner <= k
      /\ \A n \in i .. Cardinality(a) - 1 : q <= prefix(AOf(n))
      /\ Stands(b, B, Y, j) /\ Finite(b)
  <2>1. inner # -1 /\ inner \in Int
    BY DEF ArrayAt
  <2>2. inner \in Nat
    BY <2>1
  <2> QED
    BY <2>1, <2>2 DEF ArrayAt
<1>2. b_inner_size = k /\ k \in Nat \ {0} /\ q \in Nat
  BY <1>1, ArrayMeets
<1>3. CellOf(B, j + 1) = k - 1
  BY <1>1, StandsNext
<1>4. j \in Nat
  BY <1>1, StandsFacts
<1>5. Lists(s, Lowers(b, q)) /\ Len(s) = k
  BY <1>1, PartDecoded
<1>6. \A g \in 1 .. k : s[g] = CellOf(B, j + 1 + g)
  <2>1. CellOf(B, j + 1) + 1 = k
    <3> HIDE DEF k
    <3> QED
      BY <1>2, <1>3
  <2>2. s = [m \in 1 .. k |-> CellOf(B, j + 1 + m)]
    BY <2>1 DEF Lows
  <2> HIDE DEF k, s
  <2> QED
    BY <2>2
<1>7. inner \in 0 .. k /\ k \in inner .. k
  <2> HIDE DEF k
  <2> QED
    BY <1>1, <1>2
<1>8. /\ BegunOf(b, B, j, inner) \subseteq BegunOf(b, B, j, k)
      /\ \A x \in G : x \in BegunOf(b, B, j, k) \ BegunOf(b, B, j, inner)
                        <=> \E g \in inner + 1 .. k : low(x) = s[g]
      /\ BegunOf(b, B, j, k) = G /\ BegunOf(b, B, j, 0) = {}
  BY <1>1, <1>7, BegunFacts
<1>9. \A y \in Lowers(b, q) : q * Cell + y \in G
  BY <1>1, PartFacts DEF FrontOf
<1> HIDE DEF k, s, G, q
<1>10. rest = {s[g] : g \in inner + 1 .. k}
  <2>1. rest = {CellOf(B, j + 2 + n) : n \in inner .. k - 1}
    BY <1>2 DEF Rest
  <2>2. \A n \in inner .. k - 1 : n + 1 \in inner + 1 .. k /\ n + 1 \in 1 .. k
                                  /\ j + 2 + n = j + 1 + (n + 1)
    BY <1>1, <1>2, <1>4
  <2>3. \A g \in inner + 1 .. k : g - 1 \in inner .. k - 1 /\ g \in 1 .. k
                                  /\ j + 2 + (g - 1) = j + 1 + g
    BY <1>1, <1>2, <1>4
  <2>4. \A n \in inner .. k - 1 : CellOf(B, j + 2 + n) = s[n + 1]
    BY <1>6, <2>2
  <2>5. \A g \in inner + 1 .. k : CellOf(B, j + 2 + (g - 1)) = s[g]
    BY <1>6, <2>3
  <2>6. \A y \in rest : y \in {s[g] : g \in inner + 1 .. k}
    BY <2>1, <2>2, <2>4
  <2>7. \A g \in inner + 1 .. k : s[g] \in rest
    BY <2>1, <2>3, <2>5
  <2> QED
    BY <2>6, <2>7
<1>11. \A g \in inner + 1 .. k : g \in 1 .. k /\ s[g] \in Lowers(b, q) /\ s[g] \in Nat
  <2>1. \A g \in inner + 1 .. k : g \in 1 .. k
    BY <1>1, <1>2
  <2> QED
    BY <1>5, <2>1 DEF Lists
<1>12. rest \subseteq Nat /\ rest \subseteq Lowers(b, q)
  BY <1>10, <1>11
<1>13. RestOf = BegunOf(b, B, j, k) \ BegunOf(b, B, j, inner)
  BY <1>8 DEF RestOf, G
<1>14. \A x \in G : x \in RestOf <=> low(x) \in rest
  BY <1>8, <1>10, <1>13
<1>15. ASSUME NEW x \in Nat, prefix(x) = q, low(x) \in rest PROVE x \in RestOf
  <2>1. q * Cell + low(x) \in G
    BY <1>9, <1>12, <1>15
  <2>2. x = q * Cell + low(x)
    BY <1>15, PrefixOf
  <2> QED
    BY <1>14, <1>15, <2>1, <2>2
<1>16. RestOf \subseteq G /\ BegunOf(b, B, j, inner) \subseteq G
  BY <1>8 DEF RestOf, G
<1>17. inner = 0 => BegunOf(b, B, j, inner) = {}
  BY <1>8
<1> QED
  BY <1>1, <1>12, <1>14, <1>15, <1>16, <1>17 DEF G, q

LEMMA LeftBehind ==
  ASSUME NEW Y, ArrayAt(Y), inner >= 0, NEW t, StopsAt(t)
  PROVE  /\ FoundIn(a, b, B, Onward(t), Y \cup FrontOf(b, B, j), inner_end, -1)
              = FoundIn(a, b, B, i, Y, j, inner) \cup Taken(t)
         /\ FoundIn(a, b, B, i, Y, j, inner) \cap Taken(t) = {}
         /\ Finite(FoundIn(a, b, B, i, Y, j, inner)) /\ Finite(Taken(t))
         /\ Onward(t) \in 0 .. Cardinality(a)
         /\ inner = 0 => \A x \in FoundIn(a, b, B, i, Y, j, inner), y \in Taken(t) : x < y
<1> DEFINE G == FrontOf(b, B, j)
           q == CellOf(B, j)
           c == Cardinality(a)
           P == {AOf(n) : n \in i .. t - 1}
           rest == Rest
           e == Onward(t)
           T == Taken(t)
           F == FoundIn(a, b, B, i, Y, j, inner)
           H == FoundIn(a, b, B, e, Y \cup G, inner_end, -1)
           Beg == BegunOf(b, B, j, inner)
<1>0. /\ t \in i .. Cardinality(a)
      /\ ~InPartition(t) \/ \A l \in rest : l < low(AOf(t))
      /\ \A n \in i .. t - 1 : InPartition(n)
      /\ e = IF rest # {} /\ InPartition(t) THEN t + 1 ELSE t
  BY DEF StopsAt, Onward
<1>1. /\ Finite(a) /\ A = Increasing(a) /\ Len(A) = c /\ c \in Nat /\ i \in 0 .. c
      /\ Stands(b, B, Y, j) /\ \A x \in a : x \in Nat
  BY DEF ArrayAt, Finite
<1>2. /\ Y # b /\ inner \in Nat /\ rest \subseteq Nat
      /\ RestOf \subseteq G /\ Beg \subseteq G
      /\ \A x \in G : x \in RestOf <=> low(x) \in rest
      /\ \A x \in Nat : prefix(x) = q /\ low(x) \in rest => x \in RestOf
      /\ \A n \in i .. c - 1 : q <= prefix(AOf(n))
      /\ inner = 0 => Beg = {}
  BY RestFacts
<1> HIDE DEF rest, e
<1>3. /\ G \subseteq b /\ G \cap Y = {} /\ Y \subseteq b /\ q \in Nat
      /\ \A y \in b \ Y : prefix(y) = q <=> y \in G
      /\ \A y \in Y : prefix(y) < q
      /\ \A y \in b : y \in Nat
  BY <1>2, ArrayMeets
<1>4. t \in Nat /\ i \in Nat /\ i <= t /\ t <= c
  BY <1>1, <1>0
<1>5. RestOf = G \ Beg
  BY DEF RestOf
<1> HIDE DEF G, Beg
<1>6. \A n \in i .. t - 1 : prefix(AOf(n)) = q
  BY <1>0 DEF InPartition
<1>7. P = Slice(A, i, t)
  BY DEF Slice, AOf
<1>8. /\ FirstOf(a, t) = FirstOf(a, i) \cup P /\ P \subseteq a
      /\ FirstOf(a, i) \cap P = {} /\ FirstOf(a, i) \subseteq a
      /\ \A x \in FirstOf(a, i), y \in P : x < y
  <2>1. i \in 0 .. Cardinality(a) /\ t \in i .. Cardinality(a)
    BY <1>1, <1>0
  <2> HIDE DEF P
  <2> QED
    BY <1>1, <1>7, <2>1, SliceFacts
<1>9. /\ \A x \in P : prefix(x) = q
      /\ \A x : x \in T <=> x \in P /\ low(x) \in rest
  BY <1>6 DEF Taken, rest
<1> HIDE DEF P, T
<1>10. F = a \cap b \cap (FirstOf(a, i) \cup Y \cup Beg)
  BY DEF FoundIn, Beg
<1>11. H = a \cap b \cap (FirstOf(a, e) \cup (Y \cup G))
  <2> DEFINE Z == Y \cup G
  <2> HIDE DEF Z
  <2>1. FoundIn(a, b, B, e, Z, inner_end, -1) = a \cap b \cap (FirstOf(a, e) \cup Z)
    BY FoundOutside
  <2> QED
    BY <2>1 DEF Z
<1> HIDE DEF H, F
<1>12. T \subseteq P /\ T \subseteq RestOf /\ T \subseteq G
  <2>1. \A x \in T : x \in RestOf
    BY <1>1, <1>2, <1>8, <1>9
  <2> QED
    BY <1>2, <1>9, <2>1
<1>13. F \cap T = {}
  BY <1>3, <1>5, <1>8, <1>10, <1>12
<1>14. ASSUME InPartition(t)
       PROVE  /\ t \in i .. c - 1 /\ t \in 0 .. c - 1 /\ prefix(AOf(t)) = q
              /\ \A l \in rest : l < low(AOf(t))
  <2>1. t < c /\ prefix(AOf(t)) = q
    BY <1>1, <1>14 DEF InPartition
  <2>2. t \in i .. c - 1 /\ t \in 0 .. c - 1
    BY <1>1, <1>4, <2>1
  <2> QED
    BY <1>14, <1>0, <2>1, <2>2
<1>15. e \in 0 .. c
  <2>1. CASE InPartition(t)
    <3>1. e = t \/ e = t + 1
      BY <1>0
    <3>2. t \in 0 .. c - 1 /\ c \in Nat
      BY <1>1, <1>14, <2>1
    <3> HIDE DEF c
    <3>3. t \in 0 .. c /\ t + 1 \in 0 .. c
      BY <3>2
    <3> QED
      BY <3>1, <3>3
  <2>2. CASE ~InPartition(t)
    <3>1. e = t
      BY <1>0, <2>2
    <3> QED
      BY <1>1, <1>4, <3>1
  <2> QED
    BY <2>1, <2>2
<1>16. \A x \in b : x \in FirstOf(a, e) => x \in FirstOf(a, t) \/ x \in Beg
  <2>1. CASE rest # {} /\ InPartition(t)
    <3>1. /\ t \in 0 .. c - 1 /\ prefix(AOf(t)) = q
          /\ \A l \in rest : l < low(AOf(t))
      BY <1>14, <2>1
    <3>2. FirstOf(a, t + 1) = FirstOf(a, t) \cup {AOf(t)} /\ AOf(t) \in Nat
      BY <1>1, <3>1, ArrayPositions
    <3>3. AOf(t) \in b => AOf(t) \in Beg
      <4> SUFFICES ASSUME AOf(t) \in b PROVE AOf(t) \in Beg
        OBVIOUS
      <4>1. AOf(t) \notin Y
        <5>1. ~(q < q)
          BY <1>3
        <5> QED
          BY <1>3, <3>1, <5>1
      <4>2. AOf(t) \in G
        BY <1>3, <3>1, <4>1
      <4>3. low(AOf(t)) \notin rest
        <5>1. low(AOf(t)) \in Nat
          BY <3>2, PrefixOf
        <5> QED
          BY <3>1, <5>1
      <4> QED
        BY <1>2, <1>5, <4>2, <4>3
    <3>4. e = t + 1
      BY <1>0, <2>1
    <3> QED
      BY <3>2, <3>3, <3>4
  <2>2. CASE ~(rest # {} /\ InPartition(t))
    BY <1>0, <2>2
  <2> QED
    BY <2>1, <2>2
<1>17. FirstOf(a, t) \subseteq FirstOf(a, e)
  <2>1. CASE InPartition(t)
    <3>1. t \in 0 .. c - 1
      BY <1>14, <2>1
    <3>2. FirstOf(a, t + 1) = FirstOf(a, t) \cup {AOf(t)}
      BY <1>1, <3>1, ArrayPositions
    <3> QED
      BY <1>0, <3>2
  <2>2. CASE ~InPartition(t)
    BY <1>0, <2>2
  <2> QED
    BY <2>1, <2>2
<1>18. ASSUME NEW x \in a, x \in G PROVE x \in FirstOf(a, t) \/ x \in Beg
  <2> SUFFICES ASSUME x \notin FirstOf(a, t), x \in RestOf PROVE FALSE
    BY <1>5, <1>18
  <2>1. prefix(x) = q /\ low(x) \in rest /\ x \in Nat
    BY <1>1, <1>2, <1>3, <1>18
  <2>2. t < c
    <3>1. a = FirstOf(a, c)
      <4>1. Lists(A, a) /\ Len(A) = c
        BY <1>1 DEF ArrayAt
      <4>2. FirstOf(a, c) = {A[p] : p \in 1 .. c}
        BY <1>1 DEF FirstOf
      <4>3. /\ \A p \in 1 .. c : A[p] \in a
            /\ \A y \in a : \E p \in 1 .. c : A[p] = y
        BY <4>1 DEF Lists
      <4> QED
        BY ONLY <4>2, <4>3
    <3> QED
      BY <1>4, <3>1, <1>1
  <2>3. t \in 0 .. c - 1 /\ t \in i .. c - 1
    BY <1>1, <1>4, <2>2
  <2>4. AOf(t) \in Nat /\ ~(x < AOf(t))
    BY <1>1, <2>3, ArrayPositions
  <2>5. AOf(t) <= x
    BY <2>1, <2>4
  <2>6. prefix(AOf(t)) <= prefix(x) /\ prefix(AOf(t)) \in Nat /\ q <= prefix(AOf(t))
    BY <1>2, <2>1, <2>3, <2>4, <2>5, PrefixesOrdered, PrefixOf
  <2>7. prefix(AOf(t)) = q
    BY <1>3, <2>1, <2>6
  <2>8. InPartition(t)
    BY <1>1, <2>2, <2>7 DEF InPartition
  <2>9. low(x) < low(AOf(t))
    BY <1>14, <2>1, <2>8
  <2>10. x < AOf(t)
    BY <2>1, <2>4, <2>7, <2>9, PrefixesOrdered
  <2> QED
    BY <2>4, <2>10
<1>19. \A x \in a \cap b : x \in P => x \in T \/ x \in Beg
  <2> SUFFICES ASSUME NEW x \in a, x \in b, x \in P PROVE x \in T \/ x \in Beg
    OBVIOUS
  <2>1. prefix(x) = q
    BY <1>9
  <2>2. x \notin Y
    <3>1. ~(q < q)
      BY <1>3
    <3> QED
      BY <1>3, <2>1, <3>1
  <2>3. x \in G
    BY <1>3, <2>1, <2>2
  <2> QED
    BY <1>2, <1>5, <1>9, <2>3
<1>20. H = F \cup T
  <2>1. ASSUME NEW x \in H PROVE x \in F \cup T
    <3>1. x \in a /\ x \in b /\ (x \in FirstOf(a, e) \/ x \in Y \/ x \in G)
      BY <1>11, <2>1
    <3>2. x \in FirstOf(a, t) \/ x \in Y \/ x \in Beg
      BY <1>16, <1>18, <3>1
    <3>3. x \in FirstOf(a, i) \/ x \in P \/ x \in Y \/ x \in Beg
      BY <1>8, <3>2
    <3> QED
      BY <1>10, <1>19, <3>1, <3>3
  <2>2. ASSUME NEW x \in F \cup T PROVE x \in H
    <3>1. x \in a /\ x \in b
      BY <1>3, <1>8, <1>10, <1>12
    <3>2. x \in FirstOf(a, t) \/ x \in Y \/ x \in G
      BY <1>2, <1>8, <1>10, <1>12
    <3> QED
      BY <1>11, <1>17, <3>1, <3>2
  <2> QED
    BY <2>1, <2>2
<1>21. Finite(F) /\ Finite(T)
  <2>1. F \subseteq a /\ T \subseteq a
    BY <1>8, <1>10, <1>12
  <2> QED
    BY <1>1, <2>1, FiniteParts
<1>22. ASSUME inner = 0 PROVE \A x \in F, y \in T : x < y
  <2> SUFFICES ASSUME NEW x \in F, NEW y \in T PROVE x < y
    OBVIOUS
  <2>1. (x \in FirstOf(a, i) \/ x \in Y) /\ x \in Nat /\ y \in Nat /\ y \in P
    BY <1>1, <1>2, <1>3, <1>8, <1>10, <1>12, <1>22
  <2>2. CASE x \in Y
    BY <1>3, <1>9, <2>1, <2>2, PrefixesOrdered
  <2> QED
    BY <1>8, <2>1, <2>2
<1> QED
  BY <1>13, <1>15, <1>20, <1>21, <1>22 DEF H, G, F, T, e

LEMMA FinishPartitionInv ==
  ASSUME PShortInv, FinishPartition
  PROVE  PShortInv'
<1> DEFINE rest == {CellOf(B, j + 2 + n) : n \in inner .. b_inner_size - 1}
           stop == {n \in i .. Len(A) :
                      \/ ~InPartition(n)
                      \/ \A l \in rest : l < low(AOf(n))}
           t == Min(stop)
           T == {x \in {AOf(n) : n \in i .. t - 1} : low(x) \in rest}
           e == IF rest # {} /\ InPartition(t) THEN t + 1 ELSE t
<1>1. /\ op = "ps_uinteger" /\ ~done /\ inner >= 0
      /\ C' = C \o Increasing(T) /\ count' = count + Len(Increasing(T))
      /\ i' = e /\ j' = inner_end /\ inner' = -1
      /\ UNCHANGED <<inputVars, A, done>>
  BY DEF FinishPartition, Call
<1>2. CASE HasFullPartition(b)
  BY <1>1, <1>2, ArrayFull DEF PShortInv, PShortTypes
<1>3. CASE ~HasFullPartition(b)
  <2>1. PICK Y \in SUBSET b : ArrayAt(Y)
    BY <1>1, <1>3, ArrayStands
  <2> DEFINE F == FoundIn(a, b, B, i, Y, j, inner)
             Z == Y \cup FrontOf(b, B, j)
             H == FoundIn(a, b, B, e, Z, inner_end, -1)
  <2>2. /\ Finite(a) /\ Finite(b) /\ Len(A) = Cardinality(a) /\ Cardinality(a) \in Nat
        /\ i \in 0 .. Cardinality(a)
        /\ count = Cardinality(F)
        /\ Len(A) <= Shorts => Lists(C, F) /\ inner <= 0
        /\ inner # -1 /\ inner \in Int /\ Y # b
    <3>1. inner # -1
      BY <1>1
    <3> QED
      BY <2>1, <3>1 DEF ArrayAt
  <2>3. t \in stop /\ \A n \in stop : t <= n
    <3>1. Len(A) \in stop
      <4>1. ~InPartition(Len(A))
        BY <2>2 DEF InPartition
      <4>2. Len(A) \in i .. Len(A)
        BY <2>2
      <4> QED
        BY <4>1, <4>2
    <3>2. stop \in SUBSET Nat
      BY <2>2
    <3> HIDE DEF stop
    <3>3. \E x \in stop : \A y \in stop : x <= y
      BY <3>1, <3>2, LeastNumber
    <3> QED
      BY <3>3 DEF Min
  <2> HIDE DEF t
  <2>4. /\ t \in i .. Cardinality(a)
        /\ \/ ~InPartition(t)
           \/ \A l \in rest : l < low(AOf(t))
    BY <2>2, <2>3
  <2>5. \A n \in i .. t - 1 : InPartition(n)
    <3> SUFFICES ASSUME NEW n \in i .. t - 1, ~InPartition(n) PROVE FALSE
      OBVIOUS
    <3>1. n \in i .. Len(A) /\ ~(t <= n)
      BY <2>2, <2>4
    <3>2. n \in stop
      BY <3>1
    <3> QED
      BY <2>3, <3>1, <3>2
  <2> HIDE DEF stop, rest, e
  <2>6. /\ H = F \cup T
        /\ F \cap T = {} /\ Finite(F) /\ Finite(T)
        /\ e \in 0 .. Cardinality(a)
        /\ inner = 0 => \A x \in F, y \in T : x < y
    <3>1. rest = Rest
      BY DEF rest, Rest
    <3>2. e = Onward(t)
      BY <3>1 DEF e, Onward
    <3>3. T = Taken(t)
      BY <3>1 DEF Taken
    <3>4. StopsAt(t)
      BY <2>4, <2>5, <3>1 DEF StopsAt
    <3> HIDE DEF T
    <3> QED
      BY <1>1, <2>1, <3>2, <3>3, <3>4, LeftBehind
  <2>7. Z \in SUBSET b /\ Stands(b, B, Z, inner_end)
    BY <2>1, <2>2, ArrayMeets
  <2> HIDE DEF T, F, H, Z
  <2>8. Lists(Increasing(T), T) /\ Len(Increasing(T)) = Cardinality(T)
    BY <2>6, ListsIncreasing DEF Finite
  <2>9. count' = Cardinality(H)
    <3>1. Cardinality(F \cup T) = Cardinality(F) + Cardinality(T)
      BY <2>6, FiniteJoined
    <3> QED
      BY <1>1, <2>2, <2>6, <2>8, <3>1
  <2>10. ASSUME Len(A) <= Shorts PROVE Lists(C', H)
    <3>1. inner = 0 /\ Lists(C, F)
      BY <1>1, <2>2, <2>10
    <3>2. \A x \in F, y \in T : x < y
      BY <2>6, <3>1
    <3>3. Lists(C \o Increasing(T), F \cup T)
      BY <2>8, <3>1, <3>2, ListsJoined
    <3> QED
      BY <1>1, <2>6, <3>3
  <2>11. H = FoundIn(a, b, B, i', Z, j', inner')
    BY <1>1 DEF H
  <2>12. i' \in 0 .. Cardinality(a) /\ Stands(b, B, Z, j') /\ UNCHANGED <<inputVars, A, done>>
    BY <1>1, <2>6, <2>7
  <2>13. inner' = -1 /\ inner' \in Int /\ inner' >= -1 /\ inner' <= 0
    BY <1>1
  <2>14. count' = Cardinality(FoundIn(a, b, B, i', Z, j', inner'))
    BY <2>9, <2>11
  <2>15. Len(A) <= Shorts => Lists(C', FoundIn(a, b, B, i', Z, j', inner')) /\ inner' <= 0
    BY <2>10, <2>11, <2>13
  <2> QED
    BY <1>1, <2>1, <2>7, <2>12, <2>13, <2>14, <2>15, ArrayGoesOn
<1> QED
  BY <1>2, <1>3
-----------------------------------------------------------------------------
LEMMA AllVisited ==
  ASSUME PShortInv, op \in {"ps_foreach", "ps_foreach_until"}, ~done, count >= Cardinality(a)
  PROVE  C = Increasing({x \in a : target = -1 \/ x <= target}) /\ target \in a \cup {-1}
<1>1. PShortTypes /\ VisitInv
  BY DEF PShortInv
<1>2. PICK X \in SUBSET a :
        Stands(a, A, X, i) /\ Lists(C, X) /\ count = Cardinality(X) /\ target \notin X
  BY <1>1 DEF VisitInv
<1>3. Finite(a)
  BY <1>1, OperandsFinite DEF PShortTypes
<1>4. X = a
  <2>1. /\ Cardinality(X) \in Nat /\ Cardinality(a) \in Nat /\ Cardinality(X) <= Cardinality(a)
        /\ Cardinality(X) = Cardinality(a) <=> X = a
    BY <1>3, FiniteParts
  <2> QED
    BY <1>2, <2>1
<1>5. target = -1
  BY <1>1, <1>2, <1>4 DEF VisitInv
<1>6. {x \in a : target = -1 \/ x <= target} = a
  BY <1>5
<1>7. C = Increasing(a)
  BY <1>2, <1>4, ListsUnique
<1> QED
  BY <1>5, <1>6, <1>7

LEMMA AllUnited ==
  ASSUME PShortInv, op = "ps_union", ~done, count >= Cardinality(b)
  PROVE  Elements(A) = a \cup b
<1> DEFINE n == word_index(Cell * Cell - 1)
<1>1. PShortTypes /\ PShortUnionInv
  BY DEF PShortInv
<1>2. PICK Y \in SUBSET b :
        /\ Stands(b, B, Y, j) /\ count = Cardinality(Y)
        /\ A = Zeroed(a \cup Y, n + 1)
  BY <1>1 DEF PShortUnionInv
<1>3. Finite(b) /\ \A x \in a \cup b : x \in Nat /\ x <= Cell * Cell - 1
  BY <1>1, OperandsFinite DEF PShortTypes
<1>4. Y = b
  <2>1. /\ Cardinality(Y) \in Nat /\ Cardinality(b) \in Nat /\ Cardinality(Y) <= Cardinality(b)
        /\ Cardinality(Y) = Cardinality(b) <=> Y = b
    BY <1>3, FiniteParts
  <2> QED
    BY <1>2, <2>1
<1>5. A = Span(a \cup b, 0, n + 1)
  BY <1>2, <1>4 DEF Zeroed
<1>6. Cell * Cell - 1 \in Nat
  BY PShortAssumption
<1>7. n \in Nat
  BY <1>6, PlaceOf
<1>8. \A x \in a \cup b : word_index(x) \in Nat /\ word_index(x) <= n
  BY <1>3, <1>6, PlaceOf, WordsOrdered
<1> HIDE DEF n
<1>9. \A x \in a \cup b : 0 <= word_index(x) /\ word_index(x) < 0 + (n + 1)
  BY <1>7, <1>8
<1>10. a \cup b \in SUBSET Nat /\ n + 1 \in Nat
  BY <1>3, <1>7
<1> QED
  BY <1>5, <1>9, <1>10, SpanTells

LEMMA AllMerged ==
  ASSUME PShortInv, op = "ps_intersect", ~done, ~MoreInBoth
  PROVE  \/ HasFullPartition(a \cap b)
         \/ C = BuildPShort(a \cap b) /\ count = Cardinality(a \cap b)
<1> SUFFICES ASSUME ~HasFullPartition(a \cap b)
             PROVE  C = BuildPShort(a \cap b) /\ count = Cardinality(a \cap b)
  OBVIOUS
<1>1. MergeInv
  BY DEF PShortInv
<1>2. PICK X \in SUBSET a, Y \in SUBSET b :
        /\ Stands(a, A, X, i) /\ Stands(b, B, Y, j)
        /\ X \cap b = Y \cap a
        /\ C = BuildPShort(X \cap Y) /\ count = Cardinality(X \cap Y)
  BY <1>1 DEF MergeInv
<1>3. X = a \/ Y = b
  BY <1>2, StandsLast DEF MoreInBoth
<1>4. X \cap Y = a \cap b
  BY <1>2, <1>3
<1> QED
  BY <1>2, <1>4

LEMMA AllTested ==
  ASSUME PShortInv, op = "ps_bitset", ~done, i >= Len(A)
  PROVE  B = FromArray(b) /\ count = Cardinality(a \cap b)
<1>1. PShortBitsetInv
  BY DEF PShortInv
<1>2. PICK X \in SUBSET a : Stands(a, A, X, i) /\ count = Cardinality(X \cap b)
  BY <1>1 DEF PShortBitsetInv
<1>3. i \in Nat /\ Len(A) \in Nat
  BY <1>2, StandsFacts
<1>4. X = a
  BY <1>2, <1>3, StandsLast
<1> QED
  BY <1>1, <1>2, <1>4 DEF PShortBitsetInv

LEMMA AllFound ==
  ASSUME PShortInv, op = "ps_uinteger", ~done, ~MoreInBoth, inner = -1
  PROVE  \/ HasFullPartition(b)
         \/ /\ count = Cardinality(a \cap b)
            /\ Len(A) <= Shorts => C = Increasing(a \cap b)
<1> SUFFICES ASSUME ~HasFullPartition(b)
             PROVE  /\ count = Cardinality(a \cap b)
                    /\ Len(A) <= Shorts => C = Increasing(a \cap b)
  OBVIOUS
<1>1. PICK Y \in SUBSET b : ArrayAt(Y)
  BY ArrayStands
<1>2. /\ Lists(A, a) /\ A = Increasing(a) /\ Len(A) = Cardinality(a) /\ Cardinality(a) \in Nat
      /\ i \in 0 .. Cardinality(a) /\ Stands(b, B, Y, j)
      /\ count = Cardinality(FoundIn(a, b, B, i, Y, j, inner))
      /\ Len(A) <= Shorts => Lists(C, FoundIn(a, b, B, i, Y, j, inner))
  BY <1>1 DEF ArrayAt
<1>3. FoundIn(a, b, B, i, Y, j, inner) = a \cap b \cap (FirstOf(a, i) \cup Y)
  <2>1. FoundIn(a, b, B, i, Y, j, -1) = a \cap b \cap (FirstOf(a, i) \cup Y)
    BY FoundOutside
  <2> QED
    BY <2>1
<1>4. FirstOf(a, i) = a \/ Y = b
  <2>1. CASE i < Len(A)
    BY <1>2, <2>1, StandsLast DEF MoreInBoth
  <2>2. CASE ~(i < Len(A))
    <3>1. i = Len(A)
      BY <1>2, <2>2
    <3>2. FirstOf(a, i) = {A[p] : p \in 1 .. Len(A)}
      BY <1>2, <3>1 DEF FirstOf
    <3>3. /\ \A p \in 1 .. Len(A) : A[p] \in a
          /\ \A x \in a : \E p \in 1 .. Len(A) : A[p] = x
      BY <1>2 DEF Lists
    <3> QED
      BY ONLY <3>2, <3>3
  <2> QED
    BY <2>1, <2>2
<1>5. FoundIn(a, b, B, i, Y, j, inner) = a \cap b
  BY <1>3, <1>4
<1> QED
  BY <1>2, <1>5, ListsUnique

LEMMA PShortFinishInv ==
  ASSUME PShortInv, PShortFinish
  PROVE  PShortInv'
<1>1. /\ ~done /\ done' = TRUE
      /\ UNCHANGED <<inputVars, A, C, positions>>
      /\ \/ op \in {"ps_foreach", "ps_foreach_until"} /\ count >= Cardinality(a)
         \/ op = "ps_decode" /\ (inner = -1 \/ i >= Len(A))
         \/ op = "ps_union" /\ count >= Cardinality(b)
         \/ op = "ps_intersect" /\ ~MoreInBoth
         \/ op = "ps_bitset" /\ i >= Len(A)
         \/ op = "ps_uinteger" /\ ~MoreInBoth /\ inner = -1
  BY DEF PShortFinish
<1>2. /\ op' = op /\ a' = a /\ b' = b /\ target' = target /\ A' = A /\ B' = B /\ C' = C
      /\ i' = i /\ j' = j /\ inner' = inner /\ count' = count
  BY <1>1 DEF inputVars, positions
<1>3. PShortTypes /\ DecoderInv
  BY DEF PShortInv
<1>4. op \in {"ps_foreach", "ps_foreach_until"} => VisitInv'
  <2> SUFFICES ASSUME op \in {"ps_foreach", "ps_foreach_until"} PROVE VisitInv'
    OBVIOUS
  <2>1. C = Increasing({x \in a : target = -1 \/ x <= target}) /\ target \in a \cup {-1}
    BY <1>1, AllVisited
  <2> QED
    BY <1>1, <1>2, <2>1 DEF VisitInv
<1>5. op = "ps_union" => PShortUnionInv'
  BY <1>1, <1>2, AllUnited DEF PShortUnionInv
<1>6. op = "ps_intersect" => MergeInv'
  <2> SUFFICES ASSUME op = "ps_intersect" PROVE MergeInv'
    OBVIOUS
  <2>1. \/ HasFullPartition(a \cap b)
        \/ C = BuildPShort(a \cap b) /\ count = Cardinality(a \cap b)
    BY <1>1, AllMerged
  <2>2. \/ HasFullPartition(a' \cap b')
        \/ C' = BuildPShort(a' \cap b') /\ count' = Cardinality(a' \cap b')
    BY <1>2, <2>1
  <2> QED
    BY <1>1, <2>2 DEF MergeInv
<1>7. op = "ps_bitset" => PShortBitsetInv'
  BY <1>1, <1>2, AllTested DEF PShortBitsetInv
<1>8. op = "ps_decode" => DecoderInv'
  BY <1>2, <1>3 DEF DecoderInv
<1>9. op = "ps_uinteger" => ArrayInv'
  <2> SUFFICES ASSUME op = "ps_uinteger" PROVE ArrayInv'
    OBVIOUS
  <2>1. \/ HasFullPartition(b)
        \/ /\ count = Cardinality(a \cap b)
           /\ Len(A) <= Shorts => C = Increasing(a \cap b)
    BY <1>1, AllFound
  <2>2. \/ HasFullPartition(b')
        \/ /\ count' = Cardinality(a' \cap b')
           /\ Len(A') <= Shorts => C' = Increasing(a' \cap b')
    BY <1>2, <2>1
  <2> QED
    BY <1>1, <2>2 DEF ArrayInv
<1> QED
  BY <1>1, <1>3, <1>4, <1>5, <1>6, <1>7, <1>8, <1>9, OneCall
-----------------------------------------------------------------------------
LEMMA PShortNextInv ==
  ASSUME PShortInv, [PShortNext]_pshortVars
  PROVE  PShortInv'
<1>1. CASE VisitPartition
  BY <1>1, VisitPartitionInv
<1>2. CASE AdvanceDecoder
  BY <1>2, AdvanceDecoderInv
<1>3. CASE Decode
  BY <1>3, DecodeInv
<1>4. CASE UnionPartition
  BY <1>4, UnionPartitionInv
<1>5. ASSUME NEW n \in 0 .. Cardinality(a) - 1, AskDecoder(n) PROVE PShortInv'
  BY <1>5, AskDecoderInv
<1>6. CASE StepPShort
  BY <1>6, StepPShortInv
<1>7. CASE StepPShortBitset
  BY <1>7, StepPShortBitsetInv
<1>8. CASE SkipPartition
  BY <1>8, SkipPartitionInv
<1>9. CASE SkipElement
  BY <1>9, SkipElementInv
<1>10. CASE EnterPartition
  BY <1>10, EnterPartitionInv
<1>11. CASE CompareShorts
  BY <1>11, CompareShortsInv
<1>12. CASE FinishPartition
  BY <1>12, FinishPartitionInv
<1>13. CASE PShortFinish
  BY <1>13, PShortFinishInv
<1>14. CASE UNCHANGED pshortVars
  <2>1. UNCHANGED <<op, a, b, target, A, B, C, i, j, inner, count, done>>
    BY <1>14 DEF pshortVars, bitsetVars, inputVars
  <2>2. PShortTypes'
    BY <2>1 DEF PShortInv, PShortTypes
  <2>3. VisitInv' /\ PShortUnionInv'
    BY <2>1 DEF PShortInv, VisitInv, PShortUnionInv
  <2>4. MergeInv' /\ PShortBitsetInv'
    BY <2>1 DEF PShortInv, MergeInv, PShortBitsetInv
  <2>5. DecoderInv'
    BY <2>1 DEF PShortInv, DecoderInv
  <2>6. ArrayInv'
    <3>1. ArrayInv
      BY DEF PShortInv
    <3>2. \A n : AOf(n)' = AOf(n)
      BY <2>1 DEF AOf
    <3>3. \A Y : Found(Y)' = Found(Y)
      BY <2>1 DEF Found
    <3> QED
      BY <2>1, <3>1, <3>2, <3>3 DEF ArrayInv
  <2> QED
    BY <2>2, <2>3, <2>4, <2>5, <2>6 DEF PShortInv
<1> QED
  BY <1>1, <1>2, <1>3, <1>4, <1>5, <1>6, <1>7, <1>8, <1>9, <1>10, <1>11, <1>12, <1>13, <1>14
  DEF PShortNext, PShortStep

\* The whole of what each operation on pshort sets knows, in every state that can be
\* reached.
THEOREM PShortInvariance == PShortSpec => []PShortInv
<1>1. PShortInit => PShortInv
  BY PShortInitInv
<1>2. PShortInv /\ [PShortNext]_pshortVars => PShortInv'
  BY PShortNextInv
<1> QED
  BY <1>1, <1>2, PTL DEF PShortSpec

\* What each operation on pshort sets has come to when it has returned.
LEMMA PShortDone == PShortInv => PShortOperation
<1> SUFFICES ASSUME PShortInv, done PROVE PShortOperation
  BY DEF PShortOperation
<1>1. /\ PShortTypes /\ VisitInv /\ PShortUnionInv /\ MergeInv /\ PShortBitsetInv
      /\ DecoderInv /\ ArrayInv
  BY DEF PShortInv
<1>2. op \in {"ps_foreach", "ps_foreach_until"}
        => C = Increasing({x \in a : target = -1 \/ x <= target})
  BY <1>1 DEF VisitInv
<1>3. op = "ps_union" => Elements(A) = a \cup b
  BY <1>1 DEF PShortUnionInv
<1>4. op = "ps_intersect" => \/ HasFullPartition(a \cap b)
                             \/ C = BuildPShort(a \cap b) /\ count = Cardinality(a \cap b)
  BY <1>1 DEF MergeInv
<1>5. op = "ps_bitset" => count = Cardinality(a \cap b)
  BY <1>1 DEF PShortBitsetInv
<1>6. op = "ps_uinteger" => \/ HasFullPartition(b)
                            \/ /\ count = Cardinality(a \cap b)
                               /\ Len(A) <= Shorts => C = Increasing(a \cap b)
  BY <1>1 DEF ArrayInv
<1>7. op = "ps_decode" => \A n \in DOMAIN C : C[n][1] <= CellOf(A, 1) =>
                            C[n][2] = Increasing(a)[C[n][1] + 1]
  <2> SUFFICES ASSUME op = "ps_decode"
               PROVE  \A n \in DOMAIN C : C[n][1] <= CellOf(A, 1) =>
                            C[n][2] = Increasing(a)[C[n][1] + 1]
    OBVIOUS
  <2>1. C \in Seq(Nat \X Nat)
    BY <1>1 DEF DecoderInv
  <2>2. DOMAIN C = 1 .. Len(C)
    BY <2>1
  <2> QED
    BY <1>1, <2>2 DEF DecoderInv
<1>8. op \in PShortCalls
  BY <1>1 DEF PShortTypes
<1> QED
  BY <1>2, <1>3, <1>4, <1>5, <1>6, <1>7, <1>8 DEF PShortOperation, PShortCalls
-----------------------------------------------------------------------------
(* The calls of SetOps.                                                                 *)

\* What each operation of the two parts knows; the others are left to themselves.
SetsInv ==
  /\ op \in BitsetCalls \cup PShortCalls \cup PackedCalls \cup {"blocks"}
  /\ op \in BitsetCalls => BitsetInv
  /\ op \in PShortCalls => PShortInv

LEMMA CallsDiffer ==
  /\ BitsetCalls \cap PShortCalls = {} /\ BitsetCalls \cap PackedCalls = {}
  /\ PShortCalls \cap PackedCalls = {}
  /\ "blocks" \notin BitsetCalls \cup PShortCalls \cup PackedCalls
BY DEF BitsetCalls, HybridCalls, PShortCalls, PackedCalls

LEMMA SetsInitInv ==
  ASSUME Init
  PROVE  SetsInv
<1>1. CASE BitsetInit
  <2>1. BitsetInv
    BY <1>1, BitsetInitInv
  <2>2. op \in BitsetCalls
    BY <2>1 DEF BitsetInv, BitsetTypes
  <2> QED
    BY <2>1, <2>2, CallsDiffer DEF SetsInv
<1>2. CASE PShortInit
  <2>1. PShortInv
    BY <1>2, PShortInitInv
  <2>2. op \in PShortCalls
    BY <2>1 DEF PShortInv, PShortTypes
  <2> QED
    BY <2>1, <2>2, CallsDiffer DEF SetsInv
<1>3. CASE PackedInit
  <2>1. op \in PackedCalls
    BY <1>3 DEF PackedInit
  <2> QED
    BY <2>1, CallsDiffer DEF SetsInv
<1>4. CASE NoBitset
  <2>1. op = "blocks"
    BY <1>4 DEF NoBitset
  <2> QED
    BY <2>1, CallsDiffer DEF SetsInv
<1> QED
  BY <1>1, <1>2, <1>3, <1>4 DEF Init

LEMMA BitsetCalled ==
  ASSUME BitsetNext
  PROVE  op \in BitsetCalls
<1>1. CASE DispatchIntersect
  BY <1>1 DEF DispatchIntersect, BitsetCalls, HybridCalls
<1>2. CASE DispatchUnion
  BY <1>2 DEF DispatchUnion, BitsetCalls, HybridCalls
<1>3. CASE VectorStep
  BY <1>3 DEF VectorStep, OnWords, BitsetCalls
<1>4. CASE WordStep
  BY <1>4 DEF WordStep, OnWords, BitsetCalls
<1>5. CASE DifferenceTail
  BY <1>5 DEF DifferenceTail, OnWords, BitsetCalls
<1>6. CASE ProbeStep
  BY <1>6 DEF ProbeStep, BitsetCalls
<1>7. CASE AddStep
  BY <1>7 DEF AddStep, BitsetCalls
<1>8. CASE VisitWord
  BY <1>8 DEF VisitWord, BitsetCalls
<1>9. CASE Finish
  BY <1>9 DEF Finish
<1> QED
  BY <1>1, <1>2, <1>3, <1>4, <1>5, <1>6, <1>7, <1>8, <1>9 DEF BitsetNext, Progress

LEMMA PShortCalled ==
  ASSUME PShortNext
  PROVE  op \in PShortCalls
<1>1. CASE VisitPartition
  BY <1>1 DEF VisitPartition, Call, PShortCalls
<1>2. CASE AdvanceDecoder
  BY <1>2 DEF AdvanceDecoder, Call, PShortCalls
<1>3. CASE Decode
  BY <1>3 DEF Decode, Call, PShortCalls
<1>4. CASE UnionPartition
  BY <1>4 DEF UnionPartition, Call, PShortCalls
<1>5. CASE \E n \in 0 .. Cardinality(a) - 1 : AskDecoder(n)
  BY <1>5 DEF AskDecoder, Call, PShortCalls
<1>6. CASE StepPShort
  BY <1>6 DEF StepPShort, Call, PShortCalls
<1>7. CASE StepPShortBitset
  BY <1>7 DEF StepPShortBitset, Call, PShortCalls
<1>8. CASE SkipPartition \/ SkipElement \/ EnterPartition \/ CompareShorts \/ FinishPartition
  BY <1>8 DEF SkipPartition, SkipElement, EnterPartition, CompareShorts, FinishPartition, Call,
              PShortCalls
<1>9. CASE PShortFinish
  BY <1>9 DEF PShortFinish, PShortCalls
<1> QED
  BY <1>1, <1>2, <1>3, <1>4, <1>5, <1>6, <1>7, <1>8, <1>9 DEF PShortNext, PShortStep

LEMMA PackedCalled ==
  ASSUME PackedNext
  PROVE  op \in PackedCalls /\ op' = op
<1>1. CASE DecodeFirst
  BY <1>1 DEF DecodeFirst, Running, inputVars
<1>2. CASE UnpackWhole
  BY <1>2 DEF UnpackWhole, Unpacking, Running, inputVars
<1>3. CASE UnpackSplit
  BY <1>3 DEF UnpackSplit, Unpacking, Running, inputVars
<1>4. CASE LeaveRegister
  BY <1>4 DEF LeaveRegister, Running, inputVars
<1>5. CASE DecodeNumber
  BY <1>5 DEF DecodeNumber, Running, inputVars
<1>6. CASE PackedFinish
  BY <1>6 DEF PackedFinish, Running, inputVars
<1> QED
  BY <1>1, <1>2, <1>3, <1>4, <1>5, <1>6 DEF PackedNext

LEMMA SetsNextInv ==
  ASSUME SetsInv, [Next]_vars
  PROVE  SetsInv'
<1>1. CASE BitsetNext
  <2>1. op \in BitsetCalls /\ BitsetInv
    BY <1>1, BitsetCalled DEF SetsInv
  <2>2. BitsetInv'
    BY <1>1, <2>1, BitsetNextInv
  <2>3. op' \in BitsetCalls
    BY <2>2 DEF BitsetInv, BitsetTypes
  <2>4. op' \notin PShortCalls
    BY <2>3, CallsDiffer
  <2> QED
    BY <2>2, <2>3, <2>4 DEF SetsInv
<1>2. CASE PShortNext
  <2>1. op \in PShortCalls /\ PShortInv
    BY <1>2, PShortCalled DEF SetsInv
  <2>2. PShortInv'
    BY <1>2, <2>1, PShortNextInv
  <2>3. op' \in PShortCalls
    BY <2>2 DEF PShortInv, PShortTypes
  <2>4. op' \notin BitsetCalls
    BY <2>3, CallsDiffer
  <2> QED
    BY <2>2, <2>3, <2>4 DEF SetsInv
<1>3. CASE PackedNext
  <2>1. op' \in PackedCalls
    BY <1>3, PackedCalled
  <2> QED
    BY <2>1, CallsDiffer DEF SetsInv
<1>4. CASE UNCHANGED <<bitsetVars, j, inner, count>>
  <2>1. UNCHANGED <<op, bitsetVars, pshortVars>>
    BY <1>4 DEF bitsetVars, inputVars, pshortVars
  <2>2. op \in BitsetCalls => BitsetInv'
    BY <2>1, BitsetNextInv DEF SetsInv
  <2>3. op \in PShortCalls => PShortInv'
    BY <2>1, PShortNextInv DEF SetsInv
  <2> QED
    BY <2>1, <2>2, <2>3 DEF SetsInv
<1> QED
  BY <1>1, <1>2, <1>3, <1>4 DEF Next, Terminated, vars

\* Every call knows where it stands, in every state that SetOps reaches.
THEOREM SetsInvariance == Spec => []SetsInv
<1>1. Init => SetsInv
  BY SetsInitInv
<1>2. SetsInv /\ [Next]_vars => SetsInv'
  BY SetsNextInv
<1> QED
  BY <1>1, <1>2, PTL DEF Spec

\* No word is read behind the words of either operand, wherever the two start.
THEOREM ReadsSharedWordsHolds == Spec => []ReadsSharedWords
<1>1. SetsInv => ReadsSharedWords
  <2>1. op \notin BitsetCalls => ReadsSharedWords
    BY DEF ReadsSharedWords, OnWords, BitsetCalls
  <2> QED
    BY <2>1, SharedWordsRead DEF SetsInv
<1> QED
  BY <1>1, SetsInvariance, PTL

\* The operations on bitsets, on a bitset and an array, and on hybrid sets yield what
\* their names say, for sets and words of any size and wherever the operands start.
THEOREM IsOperationHolds == Spec => []IsOperation
<1>1. SetsInv => IsOperation
  <2>1. op \notin BitsetCalls => IsOperation
    BY DEF IsOperation
  <2> QED
    BY <2>1, OperationDone DEF SetsInv
<1> QED
  BY <1>1, SetsInvariance, PTL

\* The operations on the prefix-short layout yield what they do in PShortOperation, for
\* all sets and cells of any number of values: iteration and union what their names say,
\* intersections unless a full partition is met, a decoder on its first partition.
THEOREM PShortOperationHolds == Spec => []PShortOperation
<1>1. SetsInv => PShortOperation
  <2>1. op \notin PShortCalls => PShortOperation
    BY DEF PShortOperation, PShortCalls
  <2> QED
    BY <2>1, PShortDone DEF SetsInv
<1> QED
  BY <1>1, SetsInvariance, PTL
==============================================================================
