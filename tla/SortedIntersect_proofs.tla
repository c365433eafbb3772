------------------------ MODULE SortedIntersect_proofs ------------------------
(***************************************************************************)
(* Theorems about the intersections of sorted arrays, for arrays of any    *)
(* lengths and any widths of the vectors.                                  *)
(*                                                                         *)
(* A search of freq may pass over whatever is smaller than the element of  *)
(* rare it searches for; the inductive invariant says where each function  *)
(* knows which elements are smaller.                                       *)
(***************************************************************************)
EXTENDS SortedIntersect, FiniteFacts

\* The first n elements of s.
Before(s, n) == {s[p] : p \in 1 .. n}

\* D holds what a and b have in common, as far as they have been passed.
Exact(a, b, D, m, n) ==
  /\ D \in Seq(Nat) /\ Ascending(D)
  /\ ToSet(D) = ToSet(a) \cap ToSet(b) \cap (Before(a, m) \cup Before(b, n))

ExactNow == Exact(rare, freq, C, IF stage = "done" THEN Len(rare) ELSE r, f)

Multiple(n, width) == \E m \in Nat : n = m * width

\* What has been passed in freq is smaller than the next element of rare.
Passed == f > 0 => freq[f] < rare[r + 1]

\* The merges stand at the beginning of blocks; of freq only what is smaller than
\* the maximum of the next block of rare has been passed.
MergeState ==
  /\ stage = "merge" =>
       /\ Multiple(r, VEC) /\ Multiple(f, VEC)
       /\ f > 0 /\ r < Trimmed(rare) => freq[f] < rare[r + VEC]
  /\ stage = "spans" => Multiple(r, SPAN) /\ Multiple(f, SPAN)

\* v1: whether the span at f ends below the element.
SpanState ==
  /\ stage \in {"advance_rare", "advance_freq"} => Passed
  /\ stage = "advance_rare" => At(freq, f + SPAN - 1) >= At(rare, r)
  /\ stage = "advance_freq" => At(freq, f + SPAN - 1) < At(rare, r)

\* v3 and galloping: the strides known to end below the element, and not below it.
SearchState ==
  /\ stage \in {"first", "linear", "rare", "gallop", "bisect", "probe"} =>
       r < Len(rare) /\ f <= stopFreq /\ Passed
  /\ stage \in {"gallop", "bisect", "probe"} => r < stopRare
  /\ stage = "first" => r = 0
  /\ stage = "gallop" => offset >= 1 /\ StrideMax(offset \div 2) < At(rare, r)
  /\ stage = "bisect" =>
       lower < offset /\ StrideMax(lower) < At(rare, r) /\ At(rare, r) <= StrideMax(offset)
  /\ stage = "probe" => At(rare, r) <= StrideMax(0)

\* What the reads and writes of the next step depend on.
Positions == TypeOK /\ AheadInFreq /\ stored <= Len(rare) + VEC - 1

IInv == Positions /\ ExactNow /\ MergeState /\ SpanState /\ SearchState
-----------------------------------------------------------------------------
\* An ascending sequence, place by place.
LEMMA AscendingOrder ==
  ASSUME NEW s \in Seq(Nat), Ascending(s)
  PROVE  \A p, q \in 1 .. Len(s) : s[p] < s[q] <=> p < q
<1>1. Len(s) \in Nat /\ \A p \in 1 .. Len(s) : s[p] \in Nat
  OBVIOUS
<1> DEFINE Far == {n \in Nat : \A p \in 1 .. Len(s) : p + n < Len(s) => s[p] < s[p + n + 1]}
<1>2. 0 \in Far
  BY <1>1 DEF Ascending
<1>3. ASSUME NEW n \in Nat, n \in Far PROVE n + 1 \in Far
  <2> SUFFICES ASSUME NEW p \in 1 .. Len(s), p + (n + 1) < Len(s)
               PROVE  s[p] < s[p + (n + 1) + 1]
    OBVIOUS
  <2>1. s[p] < s[p + n + 1]
    BY <1>1, <1>3
  <2>2. p + n + 1 \in 1 .. Len(s) - 1 /\ (p + n + 1) + 1 = p + (n + 1) + 1
    BY <1>1
  <2>3. s[p + n + 1] < s[p + (n + 1) + 1]
    BY <2>2 DEF Ascending
  <2> QED
    BY <1>1, <2>1, <2>2, <2>3
<1>4. Nat \subseteq Far
  <2> HIDE DEF Far
  <2> QED
    BY <1>2, <1>3, NatSetInduction
<1>5. ASSUME NEW p \in 1 .. Len(s), NEW q \in 1 .. Len(s), p < q PROVE s[p] < s[q]
  <2>1. PICK n \in Nat : q = p + n + 1
    <3>1. q - p - 1 \in Nat /\ q = p + (q - p - 1) + 1
      BY <1>1, <1>5
    <3> QED
      BY <3>1
  <2>2. n \in Far /\ p + n < Len(s)
    <3>1. p + n < Len(s)
      BY <1>1, <2>1
    <3> QED
      BY <1>4, <3>1
  <2> QED
    BY <2>1, <2>2
<1>6. ASSUME NEW p \in 1 .. Len(s), NEW q \in 1 .. Len(s), s[p] < s[q] PROVE p < q
  <2>1. p = q \/ p < q \/ q < p
    BY <1>1
  <2>2. q < p => s[q] < s[p]
    BY <1>5
  <2>3. s[p] \in Nat /\ s[q] \in Nat
    BY <1>1
  <2> QED
    BY <1>6, <2>1, <2>2, <2>3
<1> QED
  BY <1>5, <1>6

\* Elements of an ascending sequence are different, and in order also when equal.
LEMMA AscendingPlaces ==
  ASSUME NEW s \in Seq(Nat), Ascending(s)
  PROVE  /\ Len(s) \in Nat
         /\ \A p \in 1 .. Len(s) : s[p] \in Nat
         /\ \A p, q \in 1 .. Len(s) : s[p] < s[q] <=> p < q
         /\ \A p, q \in 1 .. Len(s) : s[p] = s[q] => p = q
         /\ \A p, q \in 1 .. Len(s) : s[p] <= s[q] <=> p <= q
<1>1. Len(s) \in Nat /\ \A p \in 1 .. Len(s) : s[p] \in Nat
  OBVIOUS
<1>2. \A p, q \in 1 .. Len(s) : s[p] < s[q] <=> p < q
  BY AscendingOrder
<1>3. \A p, q \in 1 .. Len(s) : p = q \/ p < q \/ q < p
  BY <1>1
<1> QED
  BY <1>1, <1>2, <1>3

\* What a shuffle moves to the front: the elements at the places, in ascending order.
LEMMA Compressed ==
  ASSUME NEW s \in Seq(Nat), Ascending(s), NEW P, P \subseteq 1 .. Len(s)
  PROVE  /\ Compress(s, P) \in Seq(Nat) /\ Ascending(Compress(s, P))
         /\ ToSet(Compress(s, P)) = {s[p] : p \in P}
<1> DEFINE D == Compress(s, P)
           n == Cardinality(P)
           places == Increasing(P)
<1>1. /\ Len(s) \in Nat /\ \A p \in 1 .. Len(s) : s[p] \in Nat
      /\ \A p, q \in 1 .. Len(s) : s[p] < s[q] <=> p < q
  BY AscendingPlaces
<1>2. P \subseteq Int /\ IsFiniteSet(P)
  <2>1. IsFiniteSet(1 .. Len(s))
    BY <1>1, FS_Interval
  <2> QED
    <3>1. P \in SUBSET (1 .. Len(s)) /\ P \subseteq Int
      BY <1>1
    <3>2. IsFiniteSet(P)
      BY ONLY <2>1, <3>1, FS_Subset
    <3> QED
      BY <3>1, <3>2
<1>3. /\ n \in Nat
      /\ \A i \in 1 .. n : places[i] \in P /\ RankIn(P, places[i]) = i - 1
      /\ \A x \in P : RankIn(P, x) + 1 \in 1 .. n /\ places[RankIn(P, x) + 1] = x
  BY ONLY <1>2, IncreasingPlaces
<1>4. \A x, y \in P : x < y <=> RankIn(P, x) < RankIn(P, y)
  BY ONLY <1>2, Ranks
<1> HIDE DEF n, places
<1>5. D = [i \in 1 .. n |-> s[places[i]]]
  BY DEF Compress, n, places
<1>6. \A i \in 1 .. n : places[i] \in 1 .. Len(s) /\ D[i] = s[places[i]]
  BY <1>3, <1>5
<1>7. D \in Seq(Nat) /\ Len(D) = n
  <2>1. \A i \in 1 .. n : s[places[i]] \in Nat
    BY <1>1, <1>6
  <2>2. D \in [1 .. n -> Nat]
    BY <1>5, <2>1
  <2> HIDE DEF D
  <2> QED
    BY <1>3, <2>2
<1> HIDE DEF D
<1>8. Ascending(D)
  <2> SUFFICES ASSUME NEW i \in 1 .. n - 1 PROVE D[i] < D[i + 1]
    BY <1>7 DEF Ascending
  <2>1. i \in 1 .. n /\ i + 1 \in 1 .. n
    BY <1>3
  <2>2. places[i] < places[i + 1]
    <3>1. /\ places[i] \in P /\ RankIn(P, places[i]) = i - 1
          /\ places[i + 1] \in P /\ RankIn(P, places[i + 1]) = i
      BY <1>3, <2>1
    <3>2. i - 1 < i
      BY <2>1
    <3> QED
      BY <1>4, <3>1, <3>2
  <2>3. /\ places[i] \in 1 .. Len(s) /\ D[i] = s[places[i]]
        /\ places[i + 1] \in 1 .. Len(s) /\ D[i + 1] = s[places[i + 1]]
    BY ONLY <1>6, <2>1
  <2> QED
    BY ONLY <1>1, <2>2, <2>3
<1>9. ToSet(D) = {s[p] : p \in P}
  <2>1. ToSet(D) = {D[i] : i \in 1 .. n}
    <3>1. DOMAIN D = 1 .. n
      BY ONLY <1>3, <1>7
    <3> QED
      BY ONLY <3>1 DEF ToSet
  <2>2. \A i \in 1 .. n : D[i] \in {s[p] : p \in P}
    BY <1>3, <1>6
  <2>3. ASSUME NEW p \in P PROVE \E i \in 1 .. n : D[i] = s[p]
    <3>1. RankIn(P, p) + 1 \in 1 .. n /\ places[RankIn(P, p) + 1] = p
      BY <1>3
    <3>2. D[RankIn(P, p) + 1] = s[p]
      BY <1>6, <3>1
    <3> QED
      BY <3>1, <3>2
  <2> QED
    BY <2>1, <2>2, <2>3
<1> QED
  BY <1>7, <1>8, <1>9 DEF D

\* Two ascending sequences, the second of larger elements.
LEMMA Joined ==
  ASSUME NEW s \in Seq(Nat), Ascending(s), NEW t \in Seq(Nat), Ascending(t),
         \A x \in ToSet(s), y \in ToSet(t) : x < y
  PROVE  /\ s \o t \in Seq(Nat) /\ Ascending(s \o t)
         /\ ToSet(s \o t) = ToSet(s) \cup ToSet(t)
<1> DEFINE u == s \o t
<1>1. /\ u \in Seq(Nat) /\ Len(u) = Len(s) + Len(t)
      /\ Len(s) \in Nat /\ Len(t) \in Nat
      /\ \A p \in 1 .. Len(s) : u[p] = s[p]
      /\ \A p \in Len(s) + 1 .. Len(s) + Len(t) : u[p] = t[p - Len(s)]
      /\ \A q \in 1 .. Len(t) : u[Len(s) + q] = t[q]
  OBVIOUS
<1> HIDE DEF u
<1>2. /\ ToSet(s) = {s[p] : p \in 1 .. Len(s)} /\ ToSet(t) = {t[p] : p \in 1 .. Len(t)}
      /\ ToSet(u) = {u[p] : p \in 1 .. Len(u)}
  <2>1. DOMAIN s = 1 .. Len(s) /\ DOMAIN t = 1 .. Len(t) /\ DOMAIN u = 1 .. Len(u)
    BY <1>1
  <2> QED
    BY <2>1 DEF ToSet
<1>3. Ascending(u)
  <2> SUFFICES ASSUME NEW p \in 1 .. Len(u) - 1 PROVE u[p] < u[p + 1]
    BY DEF Ascending
  <2>1. CASE p + 1 <= Len(s)
    <3>1. p \in 1 .. Len(s) - 1 /\ p \in 1 .. Len(s) /\ p + 1 \in 1 .. Len(s)
      BY <1>1, <2>1
    <3> QED
      BY <1>1, <3>1 DEF Ascending
  <2>2. CASE p = Len(s)
    <3>1. p \in 1 .. Len(s) /\ 1 \in 1 .. Len(t)
      BY <1>1, <2>2
    <3>2. u[p] \in ToSet(s) /\ t[1] \in ToSet(t)
      BY <1>1, <1>2, <3>1
    <3>4. u[p + 1] = t[1]
      BY <1>1, <2>2, <3>1
    <3> QED
      BY <3>2, <3>4
  <2>3. CASE p > Len(s)
    <3>1. /\ p - Len(s) \in 1 .. Len(t) - 1
          /\ p \in Len(s) + 1 .. Len(s) + Len(t)
          /\ p + 1 \in Len(s) + 1 .. Len(s) + Len(t)
          /\ p + 1 - Len(s) = (p - Len(s)) + 1
      BY <1>1, <2>3
    <3>2. u[p] = t[p - Len(s)] /\ u[p + 1] = t[(p - Len(s)) + 1]
      <4>1. u[p] = t[p - Len(s)] /\ u[p + 1] = t[p + 1 - Len(s)]
        <5>1. \A h \in Len(s) + 1 .. Len(s) + Len(t) : u[h] = t[h - Len(s)]
          BY ONLY <1>1
        <5> QED
          BY ONLY <3>1, <5>1
      <4> QED
        BY ONLY <3>1, <4>1
    <3> QED
      BY <3>1, <3>2 DEF Ascending
  <2> QED
    BY <1>1, <2>1, <2>2, <2>3
<1>4. ToSet(u) = ToSet(s) \cup ToSet(t)
  <2>1. \A p \in 1 .. Len(u) : u[p] \in ToSet(s) \cup ToSet(t)
    <3> SUFFICES ASSUME NEW p \in 1 .. Len(u) PROVE u[p] \in ToSet(s) \cup ToSet(t)
      OBVIOUS
    <3>1. CASE p <= Len(s)
      <4>1. p \in 1 .. Len(s)
        BY <1>1, <3>1
      <4> QED
        BY <1>1, <1>2, <4>1
    <3>2. CASE p > Len(s)
      <4>1. p - Len(s) \in 1 .. Len(t) /\ u[p] = t[p - Len(s)]
        <5>1. p - Len(s) \in 1 .. Len(t) /\ p \in Len(s) + 1 .. Len(s) + Len(t)
          BY <1>1, <3>2
        <5> QED
          BY <1>1, <5>1
      <4> QED
        BY <1>2, <4>1
    <3> QED
      BY <1>1, <3>1, <3>2
  <2>2. \A p \in 1 .. Len(s) : p \in 1 .. Len(u) /\ u[p] = s[p]
    BY <1>1
  <2>3. ASSUME NEW p \in 1 .. Len(t)
        PROVE  Len(s) + p \in 1 .. Len(u) /\ u[Len(s) + p] = t[p]
    <3>1. Len(s) + p \in 1 .. Len(u)
      BY <1>1
    <3> QED
      BY <1>1, <3>1
  <2>4. ToSet(s) \subseteq ToSet(u) /\ ToSet(t) \subseteq ToSet(u)
    BY <1>2, <2>2, <2>3
  <2> QED
    BY <1>2, <2>1, <2>4
<1> QED
  BY <1>1, <1>3, <1>4 DEF u

\* An ascending sequence of elements of a set is not longer than a list of them.
LEMMA NoLonger ==
  ASSUME NEW D \in Seq(Nat), Ascending(D), NEW s, NEW n \in Nat,
         ToSet(D) \subseteq Before(s, n)
  PROVE  Len(D) <= n
<1>1. /\ Len(D) \in Nat /\ \A p, q \in 1 .. Len(D) : D[p] = D[q] => p = q
  BY AscendingPlaces
<1>2. \A p \in 1 .. Len(D) : \E q \in 1 .. n : s[q] = D[p]
  <2>1. DOMAIN D = 1 .. Len(D)
    BY <1>1
  <2>2. \A p \in 1 .. Len(D) : D[p] \in Before(s, n)
    BY <2>1 DEF ToSet
  <2> QED
    BY <2>2 DEF Before
<1> DEFINE place == [p \in 1 .. Len(D) |-> CHOOSE q \in 1 .. n : s[q] = D[p]]
<1>3. \A p \in 1 .. Len(D) : place[p] \in 1 .. n /\ s[place[p]] = D[p]
  BY <1>2
<1>4. place \in [1 .. Len(D) -> 1 .. n]
  BY <1>3
<1>5. \A p, q \in 1 .. Len(D) : place[p] = place[q] => p = q
  BY <1>1, <1>3
<1> HIDE DEF place
<1>6. place \in Injection(1 .. Len(D), 1 .. n)
  BY <1>4, <1>5 DEF Injection, IsInjective
<1>7. /\ IsFiniteSet(1 .. Len(D)) /\ Cardinality(1 .. Len(D)) = Len(D)
      /\ IsFiniteSet(1 .. n) /\ Cardinality(1 .. n) = n
  <2>1. /\ 1 \in Int /\ n \in Int /\ Len(D) \in Int
        /\ (IF 1 > n THEN 0 ELSE n - 1 + 1) = n
        /\ (IF 1 > Len(D) THEN 0 ELSE Len(D) - 1 + 1) = Len(D)
    BY <1>1
  <2> QED
    BY ONLY <2>1, FS_Interval
<1>8. Cardinality(1 .. Len(D)) <= Cardinality(1 .. n)
  BY ONLY <1>6, <1>7, FS_Injection
<1> QED
  BY <1>7, <1>8
-----------------------------------------------------------------------------
\* Positions move on; D holds the common elements that are passed by this.  They are
\* larger than those found before, since they lie behind both positions.
LEMMA Moved ==
  ASSUME NEW a \in Seq(Nat), Ascending(a), NEW b \in Seq(Nat), Ascending(b), NEW E,
         NEW m \in Nat, NEW n \in Nat, Exact(a, b, E, m, n),
         NEW m2 \in Nat, NEW n2 \in Nat, m <= m2, n <= n2, m2 <= Len(a), n2 <= Len(b),
         NEW D \in Seq(Nat), Ascending(D),
         \A x : x \in ToSet(D) <=>
                  /\ x \in ToSet(a) /\ x \in ToSet(b)
                  /\ x \in Before(a, m2) \/ x \in Before(b, n2)
                  /\ x \notin Before(a, m) /\ x \notin Before(b, n)
  PROVE  Exact(a, b, E \o D, m2, n2)
<1>1. /\ Len(a) \in Nat /\ \A p \in 1 .. Len(a) : a[p] \in Nat
      /\ \A p, q \in 1 .. Len(a) : a[p] < a[q] <=> p < q
      /\ Len(b) \in Nat /\ \A p \in 1 .. Len(b) : b[p] \in Nat
      /\ \A p, q \in 1 .. Len(b) : b[p] < b[q] <=> p < q
  BY AscendingPlaces
<1>2. /\ DOMAIN a = 1 .. Len(a) /\ DOMAIN b = 1 .. Len(b)
      /\ ToSet(a) = {a[p] : p \in 1 .. Len(a)} /\ ToSet(b) = {b[p] : p \in 1 .. Len(b)}
  <2>1. DOMAIN a = 1 .. Len(a) /\ DOMAIN b = 1 .. Len(b)
    BY <1>1
  <2> QED
    BY <2>1 DEF ToSet
<1>3. /\ E \in Seq(Nat) /\ Ascending(E)
      /\ \A x : x \in ToSet(E) <=>
                  /\ x \in ToSet(a) /\ x \in ToSet(b)
                  /\ x \in Before(a, m) \/ x \in Before(b, n)
  BY DEF Exact
<1>4. ASSUME NEW x \in ToSet(E), NEW y \in ToSet(D) PROVE x < y
  <2>1. PICK p \in 1 .. Len(a), q \in 1 .. Len(b) : y = a[p] /\ y = b[q]
    BY <1>2
  <2>2. m < p /\ n < q
    <3>1. y \notin Before(a, m) /\ y \notin Before(b, n)
      OBVIOUS
    <3>2. p \notin 1 .. m /\ q \notin 1 .. n
      BY <2>1, <3>1 DEF Before
    <3> QED
      BY <3>2
  <2>3. CASE x \in Before(a, m)
    <3>1. PICK h \in 1 .. m : x = a[h]
      BY <2>3 DEF Before
    <3>2. h \in 1 .. Len(a) /\ h < p
      BY <1>1, <2>2
    <3>3. a[h] < a[p]
      BY <1>1, <3>2
    <3> QED
      BY <2>1, <3>1, <3>3
  <2>4. CASE x \in Before(b, n)
    <3>1. PICK h \in 1 .. n : x = b[h]
      BY <2>4 DEF Before
    <3>2. h \in 1 .. Len(b) /\ h < q
      BY <1>1, <2>2
    <3> QED
      BY <1>1, <2>1, <3>1, <3>2
  <2> QED
    BY <1>3, <2>3, <2>4
<1>5. /\ E \o D \in Seq(Nat) /\ Ascending(E \o D)
      /\ ToSet(E \o D) = ToSet(E) \cup ToSet(D)
  BY ONLY <1>3, <1>4, D \in Seq(Nat), Ascending(D), Joined
<1>6. /\ Before(a, m) \subseteq Before(a, m2) /\ Before(b, n) \subseteq Before(b, n2)
  <2>1. 1 .. m \subseteq 1 .. m2 /\ 1 .. n \subseteq 1 .. n2
    OBVIOUS
  <2> QED
    BY <2>1 DEF Before
<1>7. ToSet(E \o D) = ToSet(a) \cap ToSet(b) \cap (Before(a, m2) \cup Before(b, n2))
  BY <1>3, <1>5, <1>6
<1> QED
  BY <1>5, <1>7 DEF Exact

\* Nothing new is passed.
LEMMA NothingFound ==
  ASSUME NEW a, NEW b, NEW E,
         NEW m \in Nat, NEW n \in Nat, Exact(a, b, E, m, n),
         NEW m2 \in Nat, NEW n2 \in Nat, m <= m2, n <= n2,
         \A p \in m + 1 .. m2 : a[p] \in ToSet(b) => a[p] \in Before(b, n),
         \A q \in n + 1 .. n2 : b[q] \in ToSet(a) => b[q] \in Before(a, m)
  PROVE  Exact(a, b, E, m2, n2)
<1>1. /\ Before(a, m) \subseteq Before(a, m2) /\ Before(b, n) \subseteq Before(b, n2)
  <2>1. 1 .. m \subseteq 1 .. m2 /\ 1 .. n \subseteq 1 .. n2
    OBVIOUS
  <2> QED
    BY <2>1 DEF Before
<1>2. ASSUME NEW x \in ToSet(a) \cap ToSet(b), x \in Before(a, m2)
      PROVE  x \in Before(a, m) \cup Before(b, n)
  <2>1. PICK p \in 1 .. m2 : x = a[p]
    BY <1>2 DEF Before
  <2>2. p \in 1 .. m \/ p \in m + 1 .. m2
    OBVIOUS
  <2> QED
    BY <1>2, <2>1, <2>2 DEF Before
<1>3. ASSUME NEW x \in ToSet(a) \cap ToSet(b), x \in Before(b, n2)
      PROVE  x \in Before(a, m) \cup Before(b, n)
  <2>1. PICK q \in 1 .. n2 : x = b[q]
    BY <1>3 DEF Before
  <2>2. q \in 1 .. n \/ q \in n + 1 .. n2
    OBVIOUS
  <2> QED
    BY <1>3, <2>1, <2>2 DEF Before
<1>4. ToSet(a) \cap ToSet(b) \cap (Before(a, m2) \cup Before(b, n2))
        = ToSet(a) \cap ToSet(b) \cap (Before(a, m) \cup Before(b, n))
  BY <1>1, <1>2, <1>3
<1> QED
  BY <1>4 DEF Exact

\* The next element of a is also in b, behind its position there; nothing else that is
\* common is passed.
LEMMA OneFound ==
  ASSUME NEW a \in Seq(Nat), Ascending(a), NEW b \in Seq(Nat), Ascending(b), NEW E,
         NEW m \in Nat, NEW n \in Nat, Exact(a, b, E, m, n),
         NEW n2 \in Nat, n <= n2, m < Len(a), n2 <= Len(b),
         NEW place \in n + 1 .. Len(b), b[place] = a[m + 1],
         n2 <= place
  PROVE  Exact(a, b, Append(E, a[m + 1]), m + 1, n2)
<1>1. /\ Len(a) \in Nat /\ \A p \in 1 .. Len(a) : a[p] \in Nat
      /\ \A p, q \in 1 .. Len(a) : a[p] < a[q] <=> p < q
      /\ Len(b) \in Nat /\ \A p \in 1 .. Len(b) : b[p] \in Nat
      /\ \A p, q \in 1 .. Len(b) : b[p] < b[q] <=> p < q
  BY AscendingPlaces
<1>2. /\ DOMAIN a = 1 .. Len(a) /\ DOMAIN b = 1 .. Len(b)
      /\ ToSet(a) = {a[p] : p \in 1 .. Len(a)} /\ ToSet(b) = {b[p] : p \in 1 .. Len(b)}
  <2>1. DOMAIN a = 1 .. Len(a) /\ DOMAIN b = 1 .. Len(b)
    BY <1>1
  <2> QED
    BY <2>1 DEF ToSet
<1>3. m + 1 \in 1 .. Len(a) /\ place \in 1 .. Len(b) /\ m \in Nat /\ n \in Nat
  BY <1>1
<1> DEFINE e == a[m + 1]
           D == << e >>
<1>4. e \in Nat /\ e \in ToSet(a) /\ e \in ToSet(b) /\ e = b[place]
  BY <1>1, <1>2, <1>3
<1>5. e \in Before(a, m + 1)
  BY <1>3 DEF Before
<1>6. e \notin Before(a, m)
  <2> SUFFICES ASSUME NEW p \in 1 .. m, a[p] = e PROVE FALSE
    BY DEF Before
  <2>1. p \in 1 .. Len(a) /\ p < m + 1
    BY <1>1, <1>3
  <2> QED
    BY <1>1, <1>3, <2>1
<1>7. e \notin Before(b, n)
  <2> SUFFICES ASSUME NEW p \in 1 .. n, b[p] = e PROVE FALSE
    BY DEF Before
  <2>1. p \in 1 .. Len(b) /\ p < place
    BY <1>1, <1>3
  <2> QED
    BY <1>1, <1>3, <1>4, <2>1
<1>8. ASSUME NEW x \in ToSet(a) \cap ToSet(b), x \notin Before(a, m), x \notin Before(b, n),
             x \in Before(a, m + 1) \/ x \in Before(b, n2)
      PROVE  x = e
  <2>1. CASE x \in Before(a, m + 1)
    <3>1. PICK p \in 1 .. m + 1 : x = a[p]
      BY <2>1 DEF Before
    <3>2. p \in 1 .. m \/ p = m + 1
      OBVIOUS
    <3> QED
      BY <1>8, <3>1, <3>2 DEF Before
  <2>2. CASE x \in Before(b, n2)
    <3>0. PICK q \in 1 .. n2 : x = b[q]
      BY <2>2 DEF Before
    <3>00. PICK p \in 1 .. Len(a) : x = a[p]
      BY <1>2, <1>8
    <3>1. x = b[q] /\ x = a[p]
      BY <3>0, <3>00
    <3>2. ~ p < m + 1
      <4>1. p \notin 1 .. m
        BY <1>8, <3>1 DEF Before
      <4> QED
        BY ONLY <4>1, m \in Nat, Len(a) \in Nat, p \in 1 .. Len(a)
    <3>3. ~ a[p] < e
      BY ONLY <1>1, <1>3, <3>2, p \in 1 .. Len(a), e = a[m + 1]
    <3>4. q \in 1 .. Len(b) /\ ~ place < q
      BY ONLY <1>1, <1>3, q \in 1 .. n2, n2 \in Nat, n2 <= Len(b), n2 <= place
    <3>5. ~ b[place] < b[q]
      BY ONLY <1>1, <1>3, <3>4
    <3>6. x \in Nat
      BY <1>1, <3>1
    <3> QED
      BY <1>4, <3>1, <3>3, <3>5, <3>6
  <2> QED
    BY <1>8, <2>1, <2>2
<1> HIDE DEF e
<1>9. /\ D \in Seq(Nat) /\ Ascending(D) /\ ToSet(D) = {e}
      /\ Append(E, e) = E \o D
  <2>1. E \in Seq(Nat)
    BY DEF Exact
  <2>2. D \in Seq(Nat) /\ Len(D) = 1 /\ DOMAIN D = 1 .. 1 /\ D[1] = e
    BY <1>4
  <2>3. ToSet(D) = {e}
    BY <2>2 DEF ToSet
  <2>4. Append(E, e) = E \o D
    BY ONLY <1>4, <2>1, SMTT(30) DEF D
  <2> QED
    BY <2>2, <2>3, <2>4, 1 .. 1 - 1 = {} DEF Ascending
<1> HIDE DEF D
<1>10. \A x : x \in ToSet(D) <=>
                /\ x \in ToSet(a) /\ x \in ToSet(b)
                /\ x \in Before(a, m + 1) \/ x \in Before(b, n2)
                /\ x \notin Before(a, m) /\ x \notin Before(b, n)
  BY <1>4, <1>5, <1>6, <1>7, <1>8, <1>9
<1>11. Exact(a, b, E \o D, m + 1, n2)
  <2>1. m + 1 \in Nat /\ m <= m + 1 /\ m + 1 <= Len(a)
    BY <1>1
  <2> QED
    BY <1>9, <1>10, <2>1, Moved
<1> QED
  BY <1>9, <1>11 DEF e

\* What has been found is never longer than what has been passed of a, as long as what
\* has been passed of b is smaller than the next element of a.
LEMMA FoundIsShort ==
  ASSUME NEW a \in Seq(Nat), Ascending(a), NEW b \in Seq(Nat), Ascending(b), NEW E,
         NEW m \in Nat, NEW n \in Nat, Exact(a, b, E, m, n), m <= Len(a), n <= Len(b)
  PROVE  /\ Len(E) <= Len(a)
         /\ \A h \in m + 1 .. Len(a) : (n > 0 => b[n] < a[h]) => Len(E) < h
<1>1. /\ Len(a) \in Nat /\ \A p \in 1 .. Len(a) : a[p] \in Nat
      /\ \A p, q \in 1 .. Len(a) : a[p] < a[q] <=> p < q
      /\ Len(b) \in Nat /\ \A p \in 1 .. Len(b) : b[p] \in Nat
      /\ \A p, q \in 1 .. Len(b) : b[p] < b[q] <=> p < q
  BY AscendingPlaces
<1>2. /\ DOMAIN a = 1 .. Len(a)
      /\ ToSet(a) = {a[p] : p \in 1 .. Len(a)}
  BY <1>1 DEF ToSet
<1>3. /\ E \in Seq(Nat) /\ Ascending(E) /\ Len(E) \in Nat
      /\ ToSet(E) \subseteq ToSet(a) /\ ToSet(E) \subseteq Before(a, m) \cup Before(b, n)
  BY DEF Exact
<1>4. Len(E) <= Len(a)
  <2>1. ToSet(E) \subseteq Before(a, Len(a))
    BY <1>2, <1>3 DEF Before
  <2> QED
    BY ONLY <1>1, <1>3, <2>1, NoLonger
<1>5. ASSUME NEW h \in m + 1 .. Len(a), n > 0 => b[n] < a[h] PROVE Len(E) < h
  <2>0. h \in 1 .. Len(a)
    BY <1>1
  <2>1. ASSUME NEW x \in ToSet(E) PROVE x \in Before(a, h - 1)
    <3>1. PICK p \in 1 .. Len(a) : x = a[p]
      BY <1>2, <1>3
    <3>2. CASE x \in Before(a, m)
      <4>1. PICK q \in 1 .. m : x = a[q]
        BY <3>2 DEF Before
      <4>2. q \in 1 .. h - 1
        BY <1>1
      <4> QED
        BY <4>1, <4>2 DEF Before
    <3>3. CASE x \in Before(b, n)
      <4>1. PICK q \in 1 .. n : x = b[q]
        BY <3>3 DEF Before
      <4>2. q \in 1 .. Len(b) /\ n \in 1 .. Len(b) /\ n > 0
        BY ONLY n \in Nat, n <= Len(b), Len(b) \in Nat, <1>1, q \in 1 .. n
      <4>3. ~ b[n] < b[q] /\ b[q] \in Nat /\ b[n] \in Nat /\ b[n] < a[h] /\ a[h] \in Nat
        <5>1. ~ n < q
          OBVIOUS
        <5>2. ~ b[n] < b[q] /\ b[q] \in Nat /\ b[n] \in Nat
          BY ONLY <1>1, <4>2, <5>1
        <5>3. b[n] < a[h] /\ a[h] \in Nat
          BY ONLY <1>1, <1>5, <2>0, <4>2
        <5> QED
          BY <5>2, <5>3
      <4>4. a[p] < a[h]
        <5>1. b[q] = a[p]
          BY <3>1, <4>1
        <5> QED
          BY ONLY <4>3, <5>1, SMTT(30)
      <4>5. p < h
        BY <1>1, <2>0, <4>4
      <4>6. p \in 1 .. h - 1
        BY <1>1, <2>0, <4>5
      <4> QED
        BY <3>1, <4>6 DEF Before
    <3> QED
      BY <1>3, <3>2, <3>3
  <2>2. h - 1 \in Nat
    BY <2>0
  <2>3. ToSet(E) \subseteq Before(a, h - 1)
    BY <2>1
  <2>4. Len(E) <= h - 1
    BY ONLY <1>3, <2>2, <2>3, NoLonger
  <2> QED
    BY <1>3, <2>0, <2>4
<1> QED
  BY <1>4, <1>5
-----------------------------------------------------------------------------
\* Of b a part is passed that ends below the next element of a.
LEMMA SkipSmaller ==
  ASSUME NEW a \in Seq(Nat), Ascending(a), NEW b \in Seq(Nat), Ascending(b), NEW E,
         NEW m \in Nat, NEW n \in Nat, Exact(a, b, E, m, n), m < Len(a),
         NEW n2 \in Nat, n <= n2, n2 <= Len(b), n2 > 0 => b[n2] < a[m + 1]
  PROVE  Exact(a, b, E, m, n2)
<1>1. /\ Len(a) \in Nat /\ \A p \in 1 .. Len(a) : a[p] \in Nat
      /\ \A p, q \in 1 .. Len(a) : a[p] < a[q] <=> p < q
      /\ Len(b) \in Nat /\ \A p \in 1 .. Len(b) : b[p] \in Nat
      /\ \A p, q \in 1 .. Len(b) : b[p] < b[q] <=> p < q
  BY AscendingPlaces
<1>2. ToSet(a) = {a[p] : p \in 1 .. Len(a)}
  <2>1. DOMAIN a = 1 .. Len(a)
    BY <1>1
  <2> QED
    BY <2>1 DEF ToSet
<1>3. ASSUME NEW q \in n + 1 .. n2, b[q] \in ToSet(a) PROVE b[q] \in Before(a, m)
  <2>1. PICK p \in 1 .. Len(a) : b[q] = a[p]
    BY <1>2, <1>3
  <2>2. q \in 1 .. Len(b) /\ n2 \in 1 .. Len(b) /\ m + 1 \in 1 .. Len(a) /\ n2 > 0
    BY ONLY <1>1, m \in Nat, n \in Nat, n2 \in Nat, m < Len(a), n2 <= Len(b),
            q \in n + 1 .. n2
  <2>3. ~ n2 < q
    BY ONLY n \in Nat, n2 \in Nat, q \in n + 1 .. n2
  <2>4. ~ b[n2] < b[q]
    BY ONLY <1>1, <2>2, <2>3
  <2>5. b[n2] \in Nat /\ a[m + 1] \in Nat /\ b[q] \in Nat /\ b[n2] < a[m + 1]
    BY ONLY <1>1, <2>2, n2 > 0 => b[n2] < a[m + 1]
  <2>6. a[p] < a[m + 1]
    BY ONLY <2>1, <2>4, <2>5
  <2>7. p < m + 1
    BY ONLY <1>1, <2>2, <2>6, p \in 1 .. Len(a)
  <2>8. p \in 1 .. m
    BY <2>7
  <2> QED
    BY <2>1, <2>8 DEF Before
<1>4. \A p \in m + 1 .. m : a[p] \in ToSet(b) => a[p] \in Before(b, n)
  OBVIOUS
<1>5. m <= m
  OBVIOUS
<1> QED
  BY <1>3, <1>4, <1>5, NothingFound

\* The next element of a is not in what is left of b.
LEMMA SkipMissing ==
  ASSUME NEW a \in Seq(Nat), Ascending(a), NEW b \in Seq(Nat), Ascending(b), NEW E,
         NEW m \in Nat, NEW n \in Nat, Exact(a, b, E, m, n), m < Len(a), n <= Len(b),
         \A q \in n + 1 .. Len(b) : b[q] # a[m + 1]
  PROVE  Exact(a, b, E, m + 1, n)
<1>1. ToSet(b) = {b[q] : q \in 1 .. Len(b)} /\ Len(b) \in Nat
  <2>1. DOMAIN b = 1 .. Len(b) /\ Len(b) \in Nat
    OBVIOUS
  <2> QED
    BY <2>1 DEF ToSet
<1>2. ASSUME NEW p \in m + 1 .. m + 1, a[p] \in ToSet(b) PROVE a[p] \in Before(b, n)
  <2>1. PICK q \in 1 .. Len(b) : b[q] = a[m + 1]
    BY <1>1, <1>2
  <2>2. q \in 1 .. n
    BY <1>1, <2>1
  <2>3. p = m + 1
    OBVIOUS
  <2> QED
    BY <2>1, <2>2, <2>3 DEF Before
<1>3. \A q \in n + 1 .. n : b[q] \in ToSet(a) => b[q] \in Before(a, m)
  OBVIOUS
<1>4. m + 1 \in Nat /\ m <= m + 1 /\ n <= n
  OBVIOUS
<1> QED
  BY <1>2, <1>3, <1>4, NothingFound

\* A block of an ascending sequence.
LEMMA BlockOf ==
  ASSUME NEW s \in Seq(Nat), Ascending(s), NEW n \in Nat, NEW w \in Nat, n + w <= Len(s)
  PROVE  /\ SubSeq(s, n + 1, n + w) \in Seq(Nat) /\ Len(SubSeq(s, n + 1, n + w)) = w
         /\ \A p \in 1 .. w : SubSeq(s, n + 1, n + w)[p] = s[n + p]
         /\ Ascending(SubSeq(s, n + 1, n + w))
         /\ ToSet(SubSeq(s, n + 1, n + w)) = {s[q] : q \in n + 1 .. n + w}
<1> DEFINE t == SubSeq(s, n + 1, n + w)
<1>1. Len(s) \in Nat /\ \A p \in 1 .. Len(s) : s[p] \in Nat
  OBVIOUS
<1>2. t \in Seq(Nat) /\ Len(t) = w /\ DOMAIN t = 1 .. w /\ \A p \in 1 .. w : t[p] = s[n + p]
  <2>1. t = [p \in 1 .. n + w - (n + 1) + 1 |-> s[n + 1 + p - 1]]
    BY <1>1
  <2>2. /\ n + w - (n + 1) + 1 = w
        /\ \A p \in 1 .. w : n + 1 + p - 1 = n + p /\ n + p \in 1 .. Len(s)
    BY <1>1
  <2>3. t = [p \in 1 .. w |-> s[n + p]]
    BY <2>1, <2>2
  <2> HIDE DEF t
  <2>4. t \in [1 .. w -> Nat]
    BY <1>1, <2>2, <2>3
  <2> QED
    BY <2>3, <2>4
<1> HIDE DEF t
<1>3. Ascending(t)
  <2> SUFFICES ASSUME NEW p \in 1 .. w - 1 PROVE t[p] < t[p + 1]
    BY <1>2 DEF Ascending
  <2>1. /\ p \in 1 .. w /\ p + 1 \in 1 .. w /\ n + p \in 1 .. Len(s) - 1
        /\ n + (p + 1) = (n + p) + 1
    BY <1>1
  <2>2. s[n + p] < s[(n + p) + 1]
    BY <2>1 DEF Ascending
  <2>3. t[p] = s[n + p] /\ t[p + 1] = s[n + (p + 1)]
    BY ONLY <1>2, <2>1
  <2> QED
    BY ONLY <2>1, <2>2, <2>3
<1>4. ToSet(t) = {s[q] : q \in n + 1 .. n + w}
  <2>1. ToSet(t) = {t[p] : p \in 1 .. w}
    BY ONLY <1>2 DEF ToSet
  <2>2. \A p \in 1 .. w : n + p \in n + 1 .. n + w /\ t[p] = s[n + p]
    <3>1. \A p \in 1 .. w : n + p \in n + 1 .. n + w
      BY ONLY n \in Nat, w \in Nat
    <3> QED
      BY ONLY <1>2, <3>1
  <2>3. \A q \in n + 1 .. n + w : q - n \in 1 .. w /\ n + (q - n) = q
    OBVIOUS
  <2>4. \A q \in n + 1 .. n + w : t[q - n] = s[q]
    BY <2>2, <2>3
  <2> QED
    <3>1. \A x \in ToSet(t) : x \in {s[q] : q \in n + 1 .. n + w}
      BY <2>1, <2>2
    <3>2. \A q \in n + 1 .. n + w : s[q] \in ToSet(t)
      BY <2>1, <2>3, <2>4
    <3> QED
      BY <3>1, <3>2
<1> QED
  BY <1>2, <1>3, <1>4 DEF t

\* Two blocks are compared all against all; the one that ends first is left, or both.
LEMMA BlocksMerged ==
  ASSUME NEW a \in Seq(Nat), Ascending(a), NEW b \in Seq(Nat), Ascending(b), NEW E,
         NEW m \in Nat, NEW n \in Nat, Exact(a, b, E, m, n),
         NEW w \in Nat \ {0}, m + w <= Len(a), n + w <= Len(b),
         NEW P, P = {p \in 1 .. w : a[m + p] \in {b[q] : q \in n + 1 .. n + w}}
  PROVE  Exact(a, b, E \o Compress(SubSeq(a, m + 1, m + w), P),
               IF a[m + w] <= b[n + w] THEN m + w ELSE m,
               IF a[m + w] >= b[n + w] THEN n + w ELSE n)
<1> DEFINE block == SubSeq(a, m + 1, m + w)
           D == Compress(block, P)
           m2 == IF a[m + w] <= b[n + w] THEN m + w ELSE m
           n2 == IF a[m + w] >= b[n + w] THEN n + w ELSE n
<1>1. /\ Len(a) \in Nat /\ \A p \in 1 .. Len(a) : a[p] \in Nat
      /\ \A p, q \in 1 .. Len(a) : a[p] < a[q] <=> p < q
      /\ Len(b) \in Nat /\ \A p \in 1 .. Len(b) : b[p] \in Nat
      /\ \A p, q \in 1 .. Len(b) : b[p] < b[q] <=> p < q
  BY AscendingPlaces
<1>2. /\ ToSet(a) = {a[p] : p \in 1 .. Len(a)} /\ ToSet(b) = {b[p] : p \in 1 .. Len(b)}
  <2>1. DOMAIN a = 1 .. Len(a) /\ DOMAIN b = 1 .. Len(b)
    BY <1>1
  <2> QED
    BY <2>1 DEF ToSet
<1>3. /\ block \in Seq(Nat) /\ Ascending(block) /\ Len(block) = w
      /\ \A p \in 1 .. w : block[p] = a[m + p]
  BY ONLY a \in Seq(Nat), Ascending(a), m \in Nat, w \in Nat \ {0}, m + w <= Len(a), BlockOf
<1> HIDE DEF block
<1>4. /\ D \in Seq(Nat) /\ Ascending(D)
      /\ ToSet(D) = {block[p] : p \in P}
  <2>1. P \subseteq 1 .. Len(block)
    BY <1>3
  <2> QED
    BY ONLY <1>3, <2>1, Compressed
<1>5. \A x : x \in ToSet(D) <=> \E p \in m + 1 .. m + w, q \in n + 1 .. n + w : x = a[p] /\ x = b[q]
  <2>1. ASSUME NEW x, x \in ToSet(D)
        PROVE  \E p \in m + 1 .. m + w, q \in n + 1 .. n + w : x = a[p] /\ x = b[q]
    <3>1. PICK p \in P : x = block[p]
      BY <1>4, <2>1
    <3>2. p \in 1 .. w /\ a[m + p] \in {b[q] : q \in n + 1 .. n + w}
      OBVIOUS
    <3>3. m + p \in m + 1 .. m + w /\ x = a[m + p]
      <4>1. m + p \in m + 1 .. m + w
        BY <3>2
      <4>2. block[p] = a[m + p]
        BY <1>3, <3>2
      <4> QED
        BY <3>1, <4>1, <4>2
    <3> QED
      BY <3>2, <3>3
  <2>2. ASSUME NEW p \in m + 1 .. m + w, NEW q \in n + 1 .. n + w, a[p] = b[q]
        PROVE  a[p] \in ToSet(D)
    <3>1. p - m \in 1 .. w /\ m + (p - m) = p
      OBVIOUS
    <3>2. a[m + (p - m)] \in {b[h] : h \in n + 1 .. n + w}
      BY <2>2, <3>1
    <3>3. p - m \in P /\ block[p - m] = a[p]
      BY <1>3, <3>1, <3>2
    <3> QED
      BY <1>4, <3>3
  <2> QED
    BY <2>1, <2>2
<1> HIDE DEF D
<1>6. /\ m + w \in 1 .. Len(a) /\ n + w \in 1 .. Len(b)
      /\ m2 \in Nat /\ n2 \in Nat /\ m <= m2 /\ n <= n2 /\ m2 <= m + w /\ n2 <= n + w
      /\ m2 <= Len(a) /\ n2 <= Len(b)
      /\ m2 = m + w \/ n2 = n + w
  <2>1. m + w \in 1 .. Len(a) /\ n + w \in 1 .. Len(b)
    BY <1>1
  <2>2. a[m + w] \in Nat /\ b[n + w] \in Nat
    BY ONLY <1>1, <2>1
  <2>3. a[m + w] <= b[n + w] \/ a[m + w] >= b[n + w]
    BY ONLY <2>2
  <2>4. (m2 = m \/ m2 = m + w) /\ (n2 = n \/ n2 = n + w) /\ (m2 = m + w \/ n2 = n + w)
    BY <2>3
  <2> HIDE DEF m2, n2
  <2> QED
    <3>1. Len(a) \in Nat /\ Len(b) \in Nat
      BY ONLY <1>1
    <3> QED
      BY ONLY <2>1, <2>4, <3>1, m \in Nat, n \in Nat, w \in Nat,
              m + w <= Len(a), n + w <= Len(b)
\* What is common and passed is common to the blocks.
<1>7. ASSUME NEW p \in m + 1 .. Len(a), NEW q \in n + 1 .. Len(b), a[p] = b[q],
             p <= m2 \/ q <= n2
      PROVE  p <= m + w /\ q <= n + w
  <2>1. /\ p \in 1 .. Len(a) /\ q \in 1 .. Len(b)
        /\ p \in Int /\ q \in Int /\ m + w \in Int /\ n + w \in Int
    BY <1>1
  <2>2. /\ a[p] \in Nat /\ b[q] \in Nat /\ a[m + w] \in Nat /\ b[n + w] \in Nat
        /\ (a[m + w] < a[p] <=> m + w < p)
        /\ (b[n + w] < b[q] <=> n + w < q)
    BY <1>1, <1>6, <2>1
  <2>3. CASE p <= m2 /\ m2 # m
    <3>1. m2 = m + w /\ a[m + w] <= b[n + w]
      BY <2>3
    <3>2. p <= m + w
      BY <2>3, <3>1
    <3>3. ~ a[m + w] < a[p]
      BY ONLY <2>1, <2>2, <3>2
    <3>4. ~ b[n + w] < b[q]
      BY ONLY <2>2, <3>1, <3>3, a[p] = b[q]
    <3>5. ~ n + w < q
      BY <2>2, <3>4
    <3> QED
      BY <2>1, <3>2, <3>5
  <2>4. CASE q <= n2 /\ n2 # n
    <3>1. n2 = n + w /\ a[m + w] >= b[n + w]
      BY <2>4
    <3>2. q <= n + w
      BY <2>4, <3>1
    <3>3. ~ b[n + w] < b[q]
      BY ONLY <2>1, <2>2, <3>2
    <3>4. ~ a[m + w] < a[p]
      BY ONLY <2>2, <3>1, <3>3, a[p] = b[q]
    <3>5. ~ m + w < p
      BY <2>2, <3>4
    <3> QED
      BY <2>1, <3>2, <3>5
  <2>5. p > m /\ q > n
    OBVIOUS
  <2> HIDE DEF m2, n2
  <2>6. (p <= m2 => m2 # m) /\ (q <= n2 => n2 # n)
    BY ONLY <1>6, <2>1, <2>5, m \in Nat, n \in Nat, Len(a) \in Nat, Len(b) \in Nat, SMTT(30)
  <2> QED
    BY <1>7, <2>3, <2>4, <2>6
<1>8. \A x : x \in ToSet(D) <=>
               /\ x \in ToSet(a) /\ x \in ToSet(b)
               /\ x \in Before(a, m2) \/ x \in Before(b, n2)
               /\ x \notin Before(a, m) /\ x \notin Before(b, n)
  <2> HIDE DEF m2, n2
  <2>1. ASSUME NEW x, x \in ToSet(D)
        PROVE  /\ x \in ToSet(a) /\ x \in ToSet(b)
               /\ x \in Before(a, m2) \/ x \in Before(b, n2)
               /\ x \notin Before(a, m) /\ x \notin Before(b, n)
    <3>1. PICK p \in m + 1 .. m + w, q \in n + 1 .. n + w : x = a[p] /\ x = b[q]
      BY <1>5, <2>1
    <3>2. p \in 1 .. Len(a) /\ q \in 1 .. Len(b)
      BY ONLY m \in Nat, n \in Nat, w \in Nat, Len(a) \in Nat, Len(b) \in Nat,
              m + w <= Len(a), n + w <= Len(b), p \in m + 1 .. m + w, q \in n + 1 .. n + w
    <3>3. p \in 1 .. m2 \/ q \in 1 .. n2
      BY ONLY <1>6, m \in Nat, n \in Nat, w \in Nat,
              p \in m + 1 .. m + w, q \in n + 1 .. n + w
    <3>4. ASSUME NEW h \in 1 .. m, a[h] = x PROVE FALSE
      <4>1. h \in 1 .. Len(a) /\ h < p
        BY ONLY m \in Nat, w \in Nat, Len(a) \in Nat, m + w <= Len(a),
                h \in 1 .. m, p \in m + 1 .. m + w
      <4>2. a[h] < a[p] /\ a[p] \in Nat
        BY <1>1, <3>2, <4>1
      <4>3. a[h] = a[p]
        BY <3>1, <3>4
      <4> QED
        BY ONLY <4>2, <4>3
    <3>5. ASSUME NEW h \in 1 .. n, b[h] = x PROVE FALSE
      <4>1. h \in 1 .. Len(b) /\ h < q
        BY ONLY n \in Nat, w \in Nat, Len(b) \in Nat, n + w <= Len(b),
                h \in 1 .. n, q \in n + 1 .. n + w
      <4>2. b[h] < b[q] /\ b[q] \in Nat
        BY <1>1, <3>2, <4>1
      <4> QED
        BY <3>1, <3>5, <4>2
    <3> QED
      BY <1>2, <3>1, <3>2, <3>3, <3>4, <3>5 DEF Before
  <2>2. ASSUME NEW x, x \in ToSet(a), x \in ToSet(b),
               x \in Before(a, m2) \/ x \in Before(b, n2),
               x \notin Before(a, m), x \notin Before(b, n)
        PROVE  x \in ToSet(D)
    <3>1. PICK p \in 1 .. Len(a), q \in 1 .. Len(b) : x = a[p] /\ x = b[q]
      BY <1>2, <2>2
    <3>2. p \in m + 1 .. Len(a) /\ q \in n + 1 .. Len(b)
      <4>1. p \notin 1 .. m /\ q \notin 1 .. n
        BY <2>2, <3>1 DEF Before
      <4> QED
        BY <1>1, <4>1
    <3>3. p <= m2 \/ q <= n2
      <4>1. CASE x \in Before(a, m2)
        <5>1. PICK h \in 1 .. m2 : x = a[h]
          BY <4>1 DEF Before
        <5>2. h \in 1 .. Len(a)
          BY <1>1, <1>6
        <5>3. ~ a[h] < a[p]
          <6>1. a[h] = a[p] /\ a[p] \in Nat
            BY <1>1, <3>1, <5>1
          <6> QED
            BY ONLY <6>1
        <5>4. ~ h < p
          BY <1>1, <5>2, <5>3
        <5> QED
          BY <1>6, <5>4
      <4>2. CASE x \in Before(b, n2)
        <5>1. PICK h \in 1 .. n2 : x = b[h]
          BY <4>2 DEF Before
        <5>2. h \in 1 .. Len(b)
          BY <1>1, <1>6
        <5>3. ~ b[h] < b[q]
          <6>1. b[h] = b[q] /\ b[q] \in Nat
            BY <1>1, <3>1, <5>1
          <6> QED
            BY ONLY <6>1
        <5>4. ~ h < q
          BY <1>1, <5>2, <5>3
        <5> QED
          BY <1>6, <5>4
      <4> QED
        BY <2>2, <4>1, <4>2
    <3>4. p <= m + w /\ q <= n + w
      BY <1>7, <3>1, <3>2, <3>3
    <3>5. p \in m + 1 .. m + w /\ q \in n + 1 .. n + w
      BY <1>1, <3>2, <3>4
    <3> QED
      BY <1>5, <3>1, <3>5
  <2> QED
    BY <2>1, <2>2
<1>9. Exact(a, b, E \o D, m2, n2)
  <2> HIDE DEF m2, n2
  <2> QED
    BY <1>4, <1>6, <1>8, Moved
<1> QED
  BY <1>9 DEF D, block
-----------------------------------------------------------------------------
\* The widths of vectors and strides.
LEMMA Widths ==
  /\ VEC \in Nat /\ VEC >= 1
  /\ SPAN \in Nat /\ SPAN = 2 * VEC /\ SPAN >= 2
  /\ QUARTER \in Nat /\ QUARTER >= 1
  /\ STRIDE \in Nat /\ STRIDE = 4 * QUARTER /\ STRIDE >= 4
BY IntersectAssumption DEF SPAN, STRIDE

LEMMA MulMonotone ==
  ASSUME NEW b \in Nat, NEW i \in Nat, NEW j \in Nat
  PROVE  /\ b * i \in Nat /\ b * (i + 1) = b * i + b
         /\ i <= j => b * i <= b * j
         /\ i < j => b * i + b <= b * j
<1>1. ASSUME NEW k \in Nat, NEW l \in Nat, k <= l PROVE b * k <= b * l
  BY <1>1
<1>2. b * i \in Nat /\ b * j \in Nat /\ b * (i + 1) = b * i + b
  OBVIOUS
<1>3. i < j => b * (i + 1) <= b * j
  <2>1. i + 1 \in Nat /\ (i < j => i + 1 <= j)
    OBVIOUS
  <2> QED
    BY <1>1, <2>1
<1> QED
  BY <1>1, <1>2, <1>3

LEMMA Quotient ==
  ASSUME NEW n \in Nat, NEW b \in Nat, b >= 1
  PROVE  /\ n \div b \in Nat
         /\ b * (n \div b) <= n
         /\ n < b * (n \div b) + b
<1>1. n = b * (n \div b) + (n % b) /\ n % b \in 0 .. b - 1 /\ n \div b \in Nat
  OBVIOUS
<1>2. b * (n \div b) \in Nat
  BY <1>1
<1> QED
  BY <1>1, <1>2

\* Half of a number.
LEMMA Half ==
  ASSUME NEW n \in Nat
  PROVE  /\ n \div 2 \in Nat
         /\ n >= 1 => n \div 2 < n
         /\ 2 * (n \div 2) <= n /\ n <= 2 * (n \div 2) + 1
         /\ (2 * n) \div 2 = n
OBVIOUS

\* The beginning of a block that is not the last leaves room for it.
LEMMA WholeBlocks ==
  ASSUME NEW n \in Nat, NEW w \in Nat, w >= 1, NEW k \in Nat, Multiple(k, w)
  PROVE  /\ (n \div w) * w \in Nat /\ (n \div w) * w <= n
         /\ k < (n \div w) * w => k + w <= (n \div w) * w
         /\ Multiple(k + w, w) /\ Multiple(0, w)
<1>1. PICK m \in Nat : k = m * w
  BY DEF Multiple
<1>2. n \div w \in Nat /\ w * (n \div w) <= n
  BY Quotient
<1> DEFINE q == n \div w
<1>3. q \in Nat
  BY <1>2
<1> HIDE DEF q
<1>4. q * w = w * q /\ m * w = w * m /\ q * w \in Nat
  BY <1>3
<1>5. ASSUME m >= q PROVE ~ k < q * w
  <2>1. w * q <= w * m
    BY <1>3, <1>5, MulMonotone
  <2> QED
    BY <1>1, <1>4, <2>1
<1>6. m < q => w * m + w <= w * q
  BY <1>3, MulMonotone
<1>7. k < q * w => k + w <= q * w
  <2>1. m >= q \/ m < q
    BY <1>3
  <2> QED
    BY <1>1, <1>4, <1>5, <1>6, <2>1
<1>8. k + w = (m + 1) * w /\ 0 = 0 * w
  BY <1>1
<1>9. Multiple(k + w, w) /\ Multiple(0, w)
  BY <1>8 DEF Multiple
<1> QED
  BY <1>2, <1>4, <1>7, <1>9 DEF q

\* Where the n-th stride from a position ends.
LEMMA StrideEnds ==
  ASSUME NEW s \in Seq(Nat), NEW g \in Nat, NEW n \in Nat, g + STRIDE * n <= Len(s) - STRIDE
  PROVE  /\ STRIDE * n \in Nat /\ g + STRIDE * n + STRIDE \in 1 .. Len(s)
         /\ At(s, g + STRIDE * n + STRIDE - 1) = s[g + STRIDE * n + STRIDE]
         /\ s[g + STRIDE * n + STRIDE] \in Nat
<1>1. STRIDE \in Nat /\ STRIDE >= 4
  BY Widths
<1> DEFINE m == STRIDE * n
<1>2. m \in Nat
  BY <1>1
<1> HIDE DEF m
<1>3. Len(s) \in Nat /\ g + m + STRIDE \in 1 .. Len(s) /\ g + m + STRIDE - 1 + 1 = g + m + STRIDE
  BY <1>1, <1>2 DEF m
<1>4. s[g + m + STRIDE] \in Nat
  BY <1>3
<1> QED
  BY <1>2, <1>3, <1>4 DEF At, m

\* The first stride, from the position itself.
LEMMA FirstStrideEnds ==
  ASSUME NEW s \in Seq(Nat), NEW g \in Nat, g <= Len(s) - STRIDE
  PROVE  /\ g + STRIDE \in 1 .. Len(s)
         /\ At(s, g + STRIDE * 0 + STRIDE - 1) = s[g + STRIDE]
         /\ s[g + STRIDE] \in Nat
<1>1. STRIDE \in Nat
  BY Widths
<1>2. STRIDE * 0 = 0
  BY <1>1
<1>3. g + 0 = g /\ Len(s) \in Nat
  OBVIOUS
<1>4. g + STRIDE * 0 <= Len(s) - STRIDE /\ g + STRIDE * 0 + STRIDE = g + STRIDE
  BY <1>1, <1>2, <1>3
<1> QED
  BY ONLY <1>4, s \in Seq(Nat), g \in Nat, 0 \in Nat, StrideEnds
-----------------------------------------------------------------------------
inside == Len(rare) + VEC - 1

\* What the invariant says of the arrays and the positions.
LEMMA State ==
  ASSUME IInv
  PROVE  /\ rare \in Seq(Nat) /\ Ascending(rare) /\ Len(rare) \in Nat
         /\ freq \in Seq(Nat) /\ Ascending(freq) /\ Len(freq) \in Nat
         /\ \A p \in 1 .. Len(rare) : rare[p] \in Nat
         /\ \A p \in 1 .. Len(freq) : freq[p] \in Nat
         /\ r \in Nat /\ r <= Len(rare) /\ f \in Nat /\ f <= Len(freq)
         /\ offset \in Nat /\ lower \in Nat /\ stored \in Nat /\ stored <= inside
         /\ stage # "done" => Exact(rare, freq, C, r, f)
         /\ C \in Seq(Nat) /\ Len(C) \in Nat /\ Len(C) <= Len(rare)
<1>1. /\ rare \in Seq(Nat) /\ Ascending(rare) /\ freq \in Seq(Nat) /\ Ascending(freq)
      /\ r \in 0 .. Len(rare) /\ f \in 0 .. Len(freq)
      /\ offset \in Nat /\ lower \in Nat /\ stored \in Nat /\ stored <= inside
      /\ ExactNow
  BY DEF IInv, Positions, AheadInFreq, TypeOK, inside
<1>2. /\ Len(rare) \in Nat /\ Len(freq) \in Nat
      /\ \A p \in 1 .. Len(rare) : rare[p] \in Nat
      /\ \A p \in 1 .. Len(freq) : freq[p] \in Nat
  BY <1>1
<1> DEFINE m == IF stage = "done" THEN Len(rare) ELSE r
<1>3. m \in Nat /\ m <= Len(rare) /\ f \in Nat /\ f <= Len(freq)
  BY <1>1, <1>2
<1>4. Exact(rare, freq, C, m, f)
  BY <1>1 DEF ExactNow
<1>5. C \in Seq(Nat) /\ Len(C) \in Nat
  BY <1>4 DEF Exact
<1>6. Len(C) <= Len(rare)
  <2> HIDE DEF m
  <2> QED
    BY ONLY <1>1, <1>3, <1>4, FoundIsShort
<1> QED
  BY <1>1, <1>2, <1>3, <1>4, <1>5, <1>6

\* The result grows to n cells.
LEMMA StoredInside ==
  ASSUME stored \in Nat, stored <= inside, NEW n \in Nat, n <= inside, Stores(n)
  PROVE  stored' \in Nat /\ stored' <= inside
BY DEF Stores, Larger

\* What has been found at any positions fits the result.
LEMMA Fits ==
  ASSUME IInv, NEW m \in Nat, NEW n \in Nat, m <= Len(rare), n <= Len(freq), NEW E,
         Exact(rare, freq, E, m, n)
  PROVE  Len(E) \in Nat /\ Len(E) <= inside
<1>1. /\ rare \in Seq(Nat) /\ Ascending(rare) /\ freq \in Seq(Nat) /\ Ascending(freq)
      /\ Len(rare) \in Nat
  BY State
<1>2. Len(E) <= Len(rare)
  BY ONLY <1>1, m \in Nat, n \in Nat, m <= Len(rare), n <= Len(freq),
          Exact(rare, freq, E, m, n), FoundIsShort
<1>3. Len(E) \in Nat
  BY DEF Exact
<1> QED
  BY <1>1, <1>2, <1>3, Widths DEF inside
-----------------------------------------------------------------------------
\* What every step has to preserve, wherever it leads.
Basics == TypeOK /\ stored <= inside /\ ExactNow

AllStages == {"merge", "spans", "advance_rare", "advance_freq", "first", "linear",
              "rare", "gallop", "bisect", "probe", "scalar", "done"}

LEMMA NextBasics ==
  ASSUME IInv, UNCHANGED inputs, stage' \in AllStages,
         r' \in Nat, r' <= Len(rare), f' \in Nat, f' <= Len(freq),
         offset' \in Nat, lower' \in Nat, stored' \in Nat, stored' <= inside,
         Exact(rare, freq, C', IF stage' = "done" THEN Len(rare) ELSE r', f')
  PROVE  Basics'
<1>1. rare' = rare /\ freq' = freq
  BY DEF inputs
<1>2. TypeOK'
  BY <1>1, State DEF TypeOK, AllStages, Ascending
<1>3. ExactNow'
  BY <1>1 DEF ExactNow, Exact, Ascending, Before
<1> QED
  BY <1>1, <1>2, <1>3 DEF Basics, inside

LEMMA AtScalar ==
  ASSUME Basics', stage' \in {"scalar", "done"} PROVE IInv'
BY DEF Basics, IInv, Positions, AheadInFreq, MergeState, SpanState, SearchState, inside

LEMMA AtMerge ==
  ASSUME Basics', stage' \in {"merge", "spans"}, MergeState' PROVE IInv'
BY DEF Basics, IInv, Positions, AheadInFreq, SpanState, SearchState, inside

LEMMA AtSpan ==
  ASSUME Basics', stage' \in {"advance_rare", "advance_freq"}, SpanState',
         f' + SPAN <= Len(freq'), r' < Len(rare')
  PROVE  IInv'
BY DEF Basics, IInv, Positions, AheadInFreq, MergeState, SearchState, inside

LEMMA AtSearch ==
  ASSUME Basics', stage' \in {"first", "linear", "rare", "gallop", "bisect", "probe"},
         SearchState',
         stage' \in {"gallop", "bisect"} => f' + STRIDE * offset' <= stopFreq'
  PROVE  IInv'
BY DEF Basics, IInv, Positions, AheadInFreq, MergeState, SpanState, SearchState, inside
-----------------------------------------------------------------------------
(* set_intersect_standard and set_intersect_ibm                            *)

\* A block of each, compared: the positions, what has been found, and what is known of
\* the maxima.
LEMMA BlocksCompared ==
  ASSUME IInv, stage # "done", NEW w \in Nat, w >= 1, r + w <= Len(rare), f + w <= Len(freq),
         NEW P, P = {p \in 1 .. w : SubSeq(rare, r + 1, r + w)[p]
                                      \in ToSet(SubSeq(freq, f + 1, f + w))}
  PROVE  /\ SubSeq(rare, r + 1, r + w)[w] = rare[r + w]
         /\ SubSeq(freq, f + 1, f + w)[w] = freq[f + w]
         /\ Exact(rare, freq, C \o Compress(SubSeq(rare, r + 1, r + w), P),
                  IF rare[r + w] <= freq[f + w] THEN r + w ELSE r,
                  IF rare[r + w] >= freq[f + w] THEN f + w ELSE f)
<1> DEFINE a == SubSeq(rare, r + 1, r + w)
           b == SubSeq(freq, f + 1, f + w)
<1>1. /\ rare \in Seq(Nat) /\ Ascending(rare) /\ freq \in Seq(Nat) /\ Ascending(freq)
      /\ r \in Nat /\ f \in Nat /\ Exact(rare, freq, C, r, f)
  BY State
<1>2. /\ \A p \in 1 .. w : a[p] = rare[r + p]
      /\ \A p \in 1 .. w : b[p] = freq[f + p]
      /\ ToSet(b) = {freq[q] : q \in f + 1 .. f + w}
  BY ONLY <1>1, w \in Nat, r + w <= Len(rare), f + w <= Len(freq), BlockOf
<1>3. w \in 1 .. w
  OBVIOUS
<1> HIDE DEF a, b
<1>4. P = {p \in 1 .. w : rare[r + p] \in {freq[q] : q \in f + 1 .. f + w}}
  <2>1. P = {p \in 1 .. w : a[p] \in ToSet(b)}
    BY DEF a, b
  <2>2. \A p \in 1 .. w : a[p] \in ToSet(b)
                            <=> rare[r + p] \in {freq[q] : q \in f + 1 .. f + w}
    BY <1>2
  <2> QED
    BY <2>1, <2>2
<1>5. w \in Nat \ {0}
  OBVIOUS
<1>6. Exact(rare, freq, C \o Compress(SubSeq(rare, r + 1, r + w), P),
            IF rare[r + w] <= freq[f + w] THEN r + w ELSE r,
            IF rare[r + w] >= freq[f + w] THEN f + w ELSE f)
  BY ONLY <1>1, <1>4, <1>5, r + w <= Len(rare), f + w <= Len(freq), BlocksMerged
<1> QED
  BY <1>2, <1>3, <1>6 DEF a, b

LEMMA MergeBlocksStep == ASSUME IInv, MergeBlocks PROVE IInv'
<1> DEFINE a == Block(rare, r)
           b == Block(freq, f)
           P == Matches(a, b, 1)
           D == Compress(a, P)
           r2 == IF rare[r + VEC] <= freq[f + VEC] THEN r + VEC ELSE r
           f2 == IF rare[r + VEC] >= freq[f + VEC] THEN f + VEC ELSE f
<1>1. /\ stage = "merge" /\ r < Trimmed(rare) /\ f < Trimmed(freq)
      /\ C' = C \o D /\ Stores(Len(C) + VEC)
      /\ r' = (IF a[VEC] <= b[VEC] THEN r + VEC ELSE r)
      /\ f' = (IF a[VEC] >= b[VEC] THEN f + VEC ELSE f)
      /\ UNCHANGED <<inputs, stage, offset, lower>>
  BY DEF MergeBlocks
<1>2. /\ rare \in Seq(Nat) /\ Ascending(rare) /\ Len(rare) \in Nat
      /\ freq \in Seq(Nat) /\ Ascending(freq) /\ Len(freq) \in Nat
      /\ \A p \in 1 .. Len(rare) : rare[p] \in Nat
      /\ \A p \in 1 .. Len(freq) : freq[p] \in Nat
      /\ r \in Nat /\ r <= Len(rare) /\ f \in Nat /\ f <= Len(freq)
      /\ offset \in Nat /\ lower \in Nat /\ stored \in Nat /\ stored <= inside
      /\ Exact(rare, freq, C, r, f) /\ Len(C) \in Nat
  BY <1>1, State
<1>3. VEC \in Nat /\ VEC >= 1
  BY Widths
<1>4. Multiple(r, VEC) /\ Multiple(f, VEC) /\ (f > 0 => freq[f] < rare[r + VEC])
  BY <1>1 DEF IInv, MergeState
<1>5. /\ Trimmed(rare) \in Nat /\ Trimmed(rare) <= Len(rare) /\ r + VEC <= Trimmed(rare)
      /\ Trimmed(freq) \in Nat /\ Trimmed(freq) <= Len(freq) /\ f + VEC <= Trimmed(freq)
      /\ Multiple(r + VEC, VEC) /\ Multiple(f + VEC, VEC)
  BY ONLY <1>1, <1>2, <1>3, <1>4, WholeBlocks DEF Trimmed
<1>6. r + VEC <= Len(rare) /\ f + VEC <= Len(freq)
  <2>1. r \in Nat /\ f \in Nat /\ Len(rare) \in Nat /\ Len(freq) \in Nat /\ VEC \in Nat
    BY ONLY <1>2, <1>3
  <2>2. /\ Trimmed(rare) \in Nat /\ Trimmed(rare) <= Len(rare) /\ r + VEC <= Trimmed(rare)
        /\ Trimmed(freq) \in Nat /\ Trimmed(freq) <= Len(freq) /\ f + VEC <= Trimmed(freq)
    BY ONLY <1>5
  <2> QED
    BY ONLY <2>1, <2>2
<1>7. P = {p \in 1 .. VEC : SubSeq(rare, r + 1, r + VEC)[p]
                              \in ToSet(SubSeq(freq, f + 1, f + VEC))}
  <2>1. Len(a) = VEC
    BY ONLY <1>2, <1>3, <1>6, BlockOf DEF Block
  <2> QED
    BY <2>1 DEF Matches, Block
<1>8. /\ a[VEC] = rare[r + VEC] /\ b[VEC] = freq[f + VEC]
      /\ Exact(rare, freq, C \o D, r2, f2)
  <2> HIDE DEF P
  <2> QED
    BY <1>1, <1>3, <1>6, <1>7, BlocksCompared DEF Block
<1> HIDE DEF P, D, a, b
<1>9. r' = r2 /\ f' = f2
  BY <1>1, <1>8
<1>10. /\ r + VEC \in 1 .. Len(rare) /\ f + VEC \in 1 .. Len(freq)
       /\ rare[r + VEC] \in Nat /\ freq[f + VEC] \in Nat
  BY <1>2, <1>3, <1>6
<1>11. r2 \in Nat /\ r2 <= Len(rare) /\ f2 \in Nat /\ f2 <= Len(freq)
  BY <1>2, <1>3, <1>6
<1>12. Len(C) + VEC \in Nat /\ Len(C) + VEC <= inside
  <2>1. r + VEC \in r + 1 .. Len(rare)
    BY <1>2, <1>3, <1>6
  <2>2. Len(C) < r + VEC
    BY ONLY <1>2, <1>4, <2>1, FoundIsShort
  <2> QED
    BY <1>2, <1>3, <1>6, <2>2 DEF inside
<1>13. stored' \in Nat /\ stored' <= inside
  BY <1>1, <1>2, <1>12, StoredInside
<1>14. Basics'
  <2> HIDE DEF r2, f2
  <2>1. stage' = "merge" /\ UNCHANGED inputs /\ offset' = offset /\ lower' = lower
    BY <1>1
  <2>2. Exact(rare, freq, C', IF stage' = "done" THEN Len(rare) ELSE r', f')
    BY <1>1, <1>8, <1>9, <2>1
  <2> QED
    BY <1>2, <1>9, <1>11, <1>13, <2>1, <2>2, NextBasics DEF AllStages
<1>15. MergeState'
  <2>1. Multiple(r2, VEC) /\ Multiple(f2, VEC)
    BY <1>4, <1>5
  <2>2. ASSUME f2 > 0, r2 < Trimmed(rare) PROVE freq[f2] < rare[r2 + VEC]
    <3>1. CASE rare[r + VEC] > freq[f + VEC]
      BY <1>10, <3>1
    <3>2. CASE rare[r + VEC] <= freq[f + VEC]
      <4>1. r2 = r + VEC /\ Multiple(r2, VEC)
        BY <3>2, <1>5
      <4>2. r2 + VEC <= Trimmed(rare)
        BY ONLY <1>2, <1>3, <1>11, <2>1, <2>2, WholeBlocks DEF Trimmed
      <4>3. r2 + VEC \in 1 .. Len(rare) /\ r + VEC < r2 + VEC
        <5> HIDE DEF r2
        <5> QED
          BY <1>2, <1>3, <1>5, <4>1, <4>2
      <4>4. rare[r + VEC] < rare[r2 + VEC] /\ rare[r2 + VEC] \in Nat
        BY ONLY <1>2, <1>10, <4>3, AscendingPlaces
      <4>5. CASE rare[r + VEC] = freq[f + VEC]
        <5>1. f2 = f + VEC
          BY <1>10, <4>5
        <5> QED
          BY <4>4, <4>5, <5>1
      <4>6. CASE rare[r + VEC] < freq[f + VEC]
        <5>1. f2 = f
          BY <1>10, <4>6
        <5>2. freq[f] < rare[r + VEC] /\ freq[f] \in Nat
          BY <1>2, <1>4, <2>2, <5>1
        <5> QED
          BY <1>10, <4>4, <5>1, <5>2
      <4> QED
        BY <1>10, <3>2, <4>5, <4>6
    <3> QED
      BY <1>10, <3>1, <3>2
  <2> HIDE DEF r2, f2
  <2>3. stage' = "merge" /\ rare' = rare /\ freq' = freq
    BY <1>1 DEF inputs
  <2> QED
    BY <1>9, <2>1, <2>2, <2>3 DEF MergeState, Trimmed, Multiple
<1> QED
  BY <1>1, <1>14, <1>15, AtMerge

LEMMA MergeTailStep == ASSUME IInv, MergeTail PROVE IInv'
<1>1. /\ stage = "merge" /\ stage' = "scalar" /\ UNCHANGED inputs
      /\ UNCHANGED <<r, f, offset, lower, C, stored>>
  BY DEF MergeTail
<1>2. Basics'
  BY <1>1, State, NextBasics DEF AllStages
<1> QED
  BY <1>1, <1>2, AtScalar

\* The spans are merged from the first candidate on, which comes before every match.
LEMMA MergeSpansStep == ASSUME IInv, MergeSpans PROVE IInv'
<1> DEFINE a == Span(rare, r)
           b == Span(freq, f)
           P == {p \in 1 .. SPAN : a[p] \in ToSet(b)}
           r2 == IF rare[r + SPAN] <= freq[f + SPAN] THEN r + SPAN ELSE r
           f2 == IF rare[r + SPAN] >= freq[f + SPAN] THEN f + SPAN ELSE f
<1>1. /\ stage = "spans" /\ r < InSpans(rare) /\ f < InSpans(freq)
      /\ C' = IF Candidates(a, b) = {} THEN C
              ELSE C \o Compress(a, Matches(a, b, Min(Candidates(a, b))))
      /\ Stores(Len(C'))
      /\ r' = (IF a[SPAN] <= b[SPAN] THEN r + SPAN ELSE r)
      /\ f' = (IF a[SPAN] >= b[SPAN] THEN f + SPAN ELSE f)
      /\ UNCHANGED <<inputs, stage, offset, lower>>
  BY DEF MergeSpans
<1>2. /\ rare \in Seq(Nat) /\ Ascending(rare) /\ Len(rare) \in Nat
      /\ freq \in Seq(Nat) /\ Ascending(freq) /\ Len(freq) \in Nat
      /\ r \in Nat /\ r <= Len(rare) /\ f \in Nat /\ f <= Len(freq)
      /\ offset \in Nat /\ lower \in Nat /\ stored \in Nat /\ stored <= inside
      /\ C \in Seq(Nat)
  BY <1>1, State
<1>3. SPAN \in Nat /\ SPAN >= 1
  BY Widths
<1>4. Multiple(r, SPAN) /\ Multiple(f, SPAN)
  BY <1>1 DEF IInv, MergeState
<1>5. /\ InSpans(rare) \in Nat /\ InSpans(rare) <= Len(rare) /\ r + SPAN <= InSpans(rare)
      /\ InSpans(freq) \in Nat /\ InSpans(freq) <= Len(freq) /\ f + SPAN <= InSpans(freq)
      /\ Multiple(r + SPAN, SPAN) /\ Multiple(f + SPAN, SPAN)
  BY ONLY <1>1, <1>2, <1>3, <1>4, WholeBlocks DEF InSpans
<1>6. r + SPAN <= Len(rare) /\ f + SPAN <= Len(freq)
  <2>1. r \in Nat /\ f \in Nat /\ Len(rare) \in Nat /\ Len(freq) \in Nat /\ SPAN \in Nat
    BY ONLY <1>2, <1>3
  <2>2. /\ InSpans(rare) \in Nat /\ InSpans(rare) <= Len(rare) /\ r + SPAN <= InSpans(rare)
        /\ InSpans(freq) \in Nat /\ InSpans(freq) <= Len(freq) /\ f + SPAN <= InSpans(freq)
    BY ONLY <1>5
  <2> QED
    BY ONLY <2>1, <2>2
<1>7. a \in Seq(Nat) /\ Len(a) = SPAN /\ Ascending(a)
  <2>1. /\ rare \in Seq(Nat) /\ Ascending(rare) /\ r \in Nat /\ SPAN \in Nat
        /\ r + SPAN <= Len(rare)
    BY ONLY <1>2, <1>3, <1>6
  <2>2. /\ SubSeq(rare, r + 1, r + SPAN) \in Seq(Nat)
        /\ Len(SubSeq(rare, r + 1, r + SPAN)) = SPAN
        /\ Ascending(SubSeq(rare, r + 1, r + SPAN))
    BY ONLY <2>1, BlockOf
  <2> QED
    BY ONLY <2>2 DEF Span
<1>8. /\ a[SPAN] = rare[r + SPAN] /\ b[SPAN] = freq[f + SPAN]
      /\ Exact(rare, freq, C \o Compress(a, P), r2, f2)
  <2>1. P = {p \in 1 .. SPAN : SubSeq(rare, r + 1, r + SPAN)[p]
                                 \in ToSet(SubSeq(freq, f + 1, f + SPAN))}
    BY DEF Span
  <2> HIDE DEF P
  <2> QED
    BY <1>1, <1>3, <1>6, <2>1, BlocksCompared DEF Span
<1>9. r' = r2 /\ f' = f2
  BY <1>1, <1>8
<1> HIDE DEF a, b
\* An element of b that a holds has both halves in b.
<1>10. P \subseteq Candidates(a, b)
  BY DEF Candidates
<1>11. C' = C \o Compress(a, P)
  <2>1. CASE Candidates(a, b) = {}
    <3>1. P = {}
      BY <1>10, <2>1
    <3> DEFINE D == Compress(a, P)
    <3>2. D \in Seq(Nat) /\ ToSet(D) = {a[p] : p \in P}
      <4>1. P \subseteq 1 .. Len(a)
        BY <1>7
      <4> HIDE DEF P
      <4> QED
        BY ONLY <1>7, <4>1, Compressed
    <3> HIDE DEF D, P
    <3>3. DOMAIN D = 1 .. Len(D) /\ Len(D) \in Nat
      BY <3>2
    <3>4. ToSet(D) = {}
      BY <3>1, <3>2
    <3>5. 1 .. Len(D) = {}
      BY <3>3, <3>4 DEF ToSet
    <3>6. Len(D) = 0
      BY <3>3, <3>5
    <3>7. D = << >>
      BY <3>2, <3>6
    <3>8. C \o << >> = C
      BY <1>2
    <3> QED
      BY <1>1, <2>1, <3>7, <3>8 DEF D
  <2>2. CASE Candidates(a, b) # {}
    <3> DEFINE first == Min(Candidates(a, b))
    <3>1. first \in Candidates(a, b) /\ \A p \in Candidates(a, b) : first <= p
      <4>1. Candidates(a, b) \in SUBSET Nat
        BY DEF Candidates
      <4>2. \E p \in Candidates(a, b) : \A q \in Candidates(a, b) : p <= q
        BY ONLY <2>2, <4>1, LeastNumber
      <4> QED
        BY <4>2 DEF Min
    <3> HIDE DEF first
    <3>2. first \in 1 .. SPAN
      BY <3>1 DEF Candidates
    <3>3. \A p \in 1 .. SPAN : a[p] \in ToSet(b) => first <= p
      BY <1>10, <3>1
    <3>4. Matches(a, b, first) = P
      <4>1. \A p \in first .. SPAN : p \in 1 .. SPAN
        BY <1>3, <3>2
      <4>2. \A p \in 1 .. SPAN : first <= p => p \in first .. SPAN
        BY <1>3, <3>2
      <4> QED
        BY <1>7, <3>3, <4>1, <4>2 DEF Matches
    <3> QED
      BY <1>1, <2>2, <3>4 DEF first
  <2> QED
    BY <2>1, <2>2
<1> HIDE DEF P
<1>12. r2 \in Nat /\ r2 <= Len(rare) /\ f2 \in Nat /\ f2 <= Len(freq)
  BY <1>2, <1>3, <1>6
<1>13. Multiple(r2, SPAN) /\ Multiple(f2, SPAN)
  BY <1>4, <1>5
<1> HIDE DEF r2, f2
<1>14. Len(C') \in Nat /\ Len(C') <= inside
  BY <1>8, <1>11, <1>12, Fits
<1>15. stored' \in Nat /\ stored' <= inside
  BY <1>1, <1>2, <1>14, StoredInside
<1>16. Basics'
  <2>1. stage' = "spans" /\ UNCHANGED inputs /\ offset' = offset /\ lower' = lower
    BY <1>1
  <2>2. Exact(rare, freq, C', IF stage' = "done" THEN Len(rare) ELSE r', f')
    BY <1>8, <1>9, <1>11, <2>1
  <2> QED
    BY <1>2, <1>9, <1>12, <1>15, <2>1, <2>2, NextBasics DEF AllStages
<1>17. MergeState'
  BY <1>1, <1>9, <1>13 DEF MergeState, Multiple
<1> QED
  BY <1>1, <1>16, <1>17, AtMerge

LEMMA SpansTailStep == ASSUME IInv, SpansTail PROVE IInv'
<1>1. /\ stage = "spans" /\ stage' = "scalar" /\ UNCHANGED inputs
      /\ UNCHANGED <<r, f, offset, lower, C, stored>>
  BY DEF SpansTail
<1>2. Basics'
  BY <1>1, State, NextBasics DEF AllStages
<1> QED
  BY <1>1, <1>2, AtScalar
-----------------------------------------------------------------------------
(* scalar                                                                  *)

LEMMA ScalarStep == ASSUME IInv, Scalar PROVE IInv'
<1>1. /\ stage = "scalar" /\ Stores(Len(C')) /\ UNCHANGED <<inputs, offset, lower>>
  BY DEF Scalar
<1>2. /\ rare \in Seq(Nat) /\ Ascending(rare) /\ Len(rare) \in Nat
      /\ freq \in Seq(Nat) /\ Ascending(freq) /\ Len(freq) \in Nat
      /\ \A p \in 1 .. Len(rare) : rare[p] \in Nat
      /\ \A p \in 1 .. Len(freq) : freq[p] \in Nat
      /\ r \in Nat /\ r <= Len(rare) /\ f \in Nat /\ f <= Len(freq)
      /\ offset \in Nat /\ lower \in Nat /\ stored \in Nat /\ stored <= inside
      /\ Exact(rare, freq, C, r, f)
  BY <1>1, State
\* Wherever the step leads, what it has found fits.
<1>3. ASSUME r' \in Nat, r' <= Len(rare), f' \in Nat, f' <= Len(freq),
             stage' \in {"scalar", "done"},
             Exact(rare, freq, C', IF stage' = "done" THEN Len(rare) ELSE r', f')
      PROVE  IInv'
  <2>1. Len(C') \in Nat /\ Len(C') <= inside
    <3> DEFINE m == IF stage' = "done" THEN Len(rare) ELSE r'
    <3>1. m \in Nat /\ m <= Len(rare)
      BY <1>2, <1>3
    <3>2. Exact(rare, freq, C', m, f')
      BY <1>3
    <3> HIDE DEF m
    <3> QED
      BY <1>3, <3>1, <3>2, Fits
  <2>2. stored' \in Nat /\ stored' <= inside
    BY <1>1, <1>2, <2>1, StoredInside
  <2>3. Basics'
    <3>1. stage' \in AllStages /\ UNCHANGED inputs /\ offset' = offset /\ lower' = lower
      BY <1>1, <1>3 DEF AllStages
    <3> QED
      BY <1>2, <1>3, <2>2, <3>1, NextBasics
  <2> QED
    BY <1>3, <2>3, AtScalar
<1>4. CASE r = Len(rare) \/ f = Len(freq)
  <2>1. stage' = "done" /\ UNCHANGED <<r, f, C>>
    BY <1>4 DEF Scalar
  <2>2. ToSet(rare) \subseteq Before(rare, Len(rare)) /\ ToSet(freq) \subseteq Before(freq, Len(freq))
    <3>1. DOMAIN rare = 1 .. Len(rare) /\ DOMAIN freq = 1 .. Len(freq)
      BY <1>2
    <3> QED
      BY <3>1 DEF ToSet, Before
  <2>3. Exact(rare, freq, C, Len(rare), f)
    <3>1. CASE r = Len(rare)
      BY <1>2, <3>1
    <3>2. CASE f = Len(freq)
      BY <1>2, <2>2, <3>2 DEF Exact
    <3> QED
      BY <1>4, <3>1, <3>2
  <2> QED
    BY <1>2, <1>3, <2>1, <2>3
<1>5. CASE r # Len(rare) /\ f # Len(freq)
  <2> DEFINE x == rare[r + 1]
             y == freq[f + 1]
  <2>1. /\ C' = (IF x = y THEN Append(C, x) ELSE C)
        /\ r' = (IF x <= y THEN r + 1 ELSE r)
        /\ f' = (IF x >= y THEN f + 1 ELSE f)
        /\ stage' = "scalar"
    BY <1>1, <1>5 DEF Scalar, At
  <2>2. /\ r + 1 \in 1 .. Len(rare) /\ f + 1 \in 1 .. Len(freq) /\ r < Len(rare) /\ f < Len(freq)
        /\ r + 1 \in Nat /\ f + 1 \in Nat /\ f <= f + 1 /\ f + 1 <= Len(freq) /\ f + 1 > 0
        /\ r + 1 <= Len(rare)
    BY <1>2, <1>5
  <2>3. x \in Nat /\ y \in Nat
    BY <1>2, <2>2
  <2>4. CASE x = y
    <3>1. f + 1 \in f + 1 .. Len(freq) /\ freq[f + 1] = rare[r + 1] /\ f + 1 <= f + 1
      BY <1>2, <2>2, <2>4
    <3>2. Exact(rare, freq, Append(C, rare[r + 1]), r + 1, f + 1)
      BY ONLY <1>2, <2>2, <3>1, OneFound
    <3>3. C' = Append(C, rare[r + 1]) /\ r' = r + 1 /\ f' = f + 1
      BY <2>1, <2>3, <2>4
    <3> QED
      BY <1>3, <2>1, <2>2, <3>2, <3>3
  <2>5. CASE x > y
    <3>1. f + 1 > 0 => freq[f + 1] < rare[r + 1]
      BY <2>3, <2>5
    <3>2. Exact(rare, freq, C, r, f + 1)
      BY ONLY <1>2, <2>2, <3>1, SkipSmaller
    <3>3. C' = C /\ r' = r /\ f' = f + 1
      BY <2>1, <2>3, <2>5
    <3> QED
      BY <1>2, <1>3, <2>1, <2>2, <3>2, <3>3
  <2>6. CASE x < y
    <3>1. ASSUME NEW q \in f + 1 .. Len(freq) PROVE freq[q] # rare[r + 1]
      <4>1. q \in 1 .. Len(freq) /\ ~ q < f + 1
        BY <1>2
      <4>2. ~ freq[q] < freq[f + 1] /\ freq[q] \in Nat
        BY ONLY <1>2, <2>2, <4>1, AscendingPlaces
      <4> QED
        BY <2>3, <2>6, <4>2
    <3>2. Exact(rare, freq, C, r + 1, f)
      BY ONLY <1>2, <2>2, <3>1, SkipMissing
    <3>3. C' = C /\ r' = r + 1 /\ f' = f
      BY <2>1, <2>3, <2>6
    <3> QED
      BY <1>2, <1>3, <2>1, <2>2, <3>2, <3>3
  <2> QED
    BY <2>3, <2>4, <2>5, <2>6
<1> QED
  BY <1>4, <1>5
-----------------------------------------------------------------------------
(* set_intersect_v1                                                        *)

\* The next element of rare is looked for at the places Q of freq, and is at no other
\* place that has not been passed.
LEMMA LookedFor ==
  ASSUME IInv, stage # "done", r < Len(rare),
         NEW Q, \A q \in Q : q \in f + 1 .. Len(freq),
         \A q \in f + 1 .. Len(freq) : q \notin Q => freq[q] # rare[r + 1]
  PROVE  Exact(rare, freq,
               IF \E q \in Q : freq[q] = rare[r + 1] THEN Append(C, rare[r + 1]) ELSE C,
               r + 1, f)
<1>1. /\ rare \in Seq(Nat) /\ Ascending(rare) /\ freq \in Seq(Nat) /\ Ascending(freq)
      /\ r \in Nat /\ f \in Nat /\ f <= Len(freq) /\ Exact(rare, freq, C, r, f)
  BY State
<1>2. CASE \E q \in Q : freq[q] = rare[r + 1]
  <2>1. PICK q \in Q : freq[q] = rare[r + 1]
    BY <1>2
  <2>2. q \in f + 1 .. Len(freq) /\ f <= f /\ f <= q
    BY <1>1
  <2>3. Exact(rare, freq, Append(C, rare[r + 1]), r + 1, f)
    BY ONLY <1>1, <2>1, <2>2, r < Len(rare), OneFound
  <2> QED
    BY <1>2, <2>3
<1>3. CASE \A q \in Q : freq[q] # rare[r + 1]
  <2>1. \A q \in f + 1 .. Len(freq) : freq[q] # rare[r + 1]
    BY <1>3
  <2>2. Exact(rare, freq, C, r + 1, f)
    BY ONLY <1>1, <2>1, r < Len(rare), SkipMissing
  <2> QED
    BY <1>3, <2>2
<1> QED
  BY <1>2, <1>3

LEMMA AdvanceRareStep == ASSUME IInv, AdvanceRare PROVE IInv'
<1>1. /\ stage = "advance_rare" /\ Stores(Len(C) + 1) /\ UNCHANGED <<inputs, f, offset, lower>>
  BY DEF AdvanceRare
<1>2. /\ rare \in Seq(Nat) /\ Ascending(rare) /\ Len(rare) \in Nat
      /\ freq \in Seq(Nat) /\ Ascending(freq) /\ Len(freq) \in Nat
      /\ \A p \in 1 .. Len(rare) : rare[p] \in Nat
      /\ \A p \in 1 .. Len(freq) : freq[p] \in Nat
      /\ r \in Nat /\ r <= Len(rare) /\ f \in Nat /\ f <= Len(freq)
      /\ offset \in Nat /\ lower \in Nat /\ stored \in Nat /\ stored <= inside
      /\ Exact(rare, freq, C, r, f) /\ Len(C) \in Nat
  BY <1>1, State
<1>3. SPAN \in Nat /\ SPAN >= 2 /\ VEC \in Nat /\ VEC >= 1
  BY Widths
<1>4. /\ f + SPAN <= Len(freq) /\ r < Len(rare) /\ Passed
      /\ At(freq, f + SPAN - 1) >= At(rare, r)
  BY <1>1 DEF IInv, Positions, AheadInFreq, SpanState
<1>5. /\ r + 1 \in 1 .. Len(rare) /\ r + 1 \in r + 1 .. Len(rare)
      /\ f + SPAN \in 1 .. Len(freq) /\ f + SPAN - 1 + 1 = f + SPAN
  BY <1>2, <1>3, <1>4
<1>6. /\ At(freq, f + SPAN - 1) = freq[f + SPAN] /\ At(rare, r) = rare[r + 1]
      /\ freq[f + SPAN] \in Nat /\ rare[r + 1] \in Nat
  BY <1>2, <1>5 DEF At
<1>7. stored' \in Nat /\ stored' <= inside
  <2>1. Len(C) < r + 1
    BY ONLY <1>2, <1>4, <1>5, FoundIsShort DEF Passed
  <2>2. Len(C) + 1 \in Nat /\ Len(C) + 1 <= inside
    BY <1>2, <1>3, <1>4, <2>1 DEF inside
  <2> QED
    BY <1>1, <1>2, <2>2, StoredInside
<1>8. CASE r + 1 = Len(rare)
  <2>1. stage' = "scalar" /\ UNCHANGED <<inputs, r, f, offset, lower, C>>
    BY <1>1, <1>8 DEF AdvanceRare
  <2>2. Basics'
    BY <1>2, <1>7, <2>1, NextBasics DEF AllStages
  <2> QED
    BY <2>1, <2>2, AtScalar
<1>9. CASE r + 1 # Len(rare)
  <2> DEFINE Q == f + 1 .. f + SPAN
  <2>1. /\ C' = IF At(rare, r) \in ToSet(Span(freq, f)) THEN Append(C, At(rare, r)) ELSE C
        /\ r' = r + 1
        /\ stage' = IF At(freq, f + SPAN - 1) >= At(rare, r + 1) THEN stage ELSE "advance_freq"
    BY <1>9 DEF AdvanceRare
  <2>2. ToSet(Span(freq, f)) = {freq[q] : q \in Q}
    BY ONLY <1>2, <1>3, <1>4, BlockOf DEF Span
  <2>3. \A q \in Q : q \in f + 1 .. Len(freq)
    BY <1>2, <1>3, <1>4
  <2>4. ASSUME NEW q \in f + 1 .. Len(freq), q \notin Q PROVE freq[q] # rare[r + 1]
    <3>1. q \in 1 .. Len(freq) /\ f + SPAN < q
      BY <1>2, <1>3, <2>4
    <3>2. freq[f + SPAN] < freq[q]
      BY ONLY <1>2, <1>5, <3>1, AscendingPlaces
    <3>3. freq[q] \in Nat
      BY <1>2, <3>1
    <3> QED
      BY <1>4, <1>6, <3>2, <3>3
  <2> HIDE DEF Q
  <2>5. Exact(rare, freq,
              IF \E q \in Q : freq[q] = rare[r + 1] THEN Append(C, rare[r + 1]) ELSE C,
              r + 1, f)
    BY <1>1, <1>4, <2>3, <2>4, LookedFor
  <2>6. Exact(rare, freq, C', r + 1, f)
    <3>1. At(rare, r) \in ToSet(Span(freq, f)) <=> \E q \in Q : freq[q] = rare[r + 1]
      BY <1>6, <2>2
    <3> QED
      BY <1>6, <2>1, <2>5, <3>1
  <2>7. /\ r + 1 \in Nat /\ r + 1 < Len(rare) /\ r + 1 <= Len(rare)
        /\ r + 2 \in 1 .. Len(rare) /\ r + 1 < r + 2 /\ r + 1 + 1 = r + 2
    BY <1>2, <1>4, <1>9
  <2>8. stage' \in {"advance_rare", "advance_freq"}
    BY <1>1, <2>1
  <2>9. Basics'
    <3>1. Exact(rare, freq, C', IF stage' = "done" THEN Len(rare) ELSE r', f')
      BY <1>1, <2>1, <2>6, <2>8
    <3>2. stage' \in AllStages /\ UNCHANGED <<inputs, f, offset, lower>>
      BY <1>1, <2>8 DEF AllStages
    <3> QED
      BY <1>2, <1>7, <2>1, <2>7, <3>1, <3>2, NextBasics
  <2>10. SpanState'
    <3>1. rare' = rare /\ freq' = freq /\ f' = f /\ r' = r + 1
      BY <1>1, <2>1 DEF inputs
    <3>2. rare[r + 1] < rare[r + 2] /\ rare[r + 2] \in Nat
      BY ONLY <1>2, <1>5, <2>7, AscendingPlaces
    <3>3. f > 0 => freq[f] < rare[r + 1 + 1]
      <4>1. f > 0 => freq[f] < rare[r + 1] /\ freq[f] \in Nat
        BY <1>2, <1>4 DEF Passed
      <4> QED
        BY <1>6, <2>7, <3>2, <4>1
    <3>4. At(rare, r + 1) = rare[r + 2]
      BY <2>7 DEF At
    <3>5. /\ stage' = "advance_rare" => At(freq, f + SPAN - 1) >= At(rare, r + 1)
          /\ stage' = "advance_freq" => At(freq, f + SPAN - 1) < At(rare, r + 1)
      BY <1>1, <1>6, <2>1, <3>2, <3>4
    <3>6. Passed'
      BY <3>1, <3>3 DEF Passed
    <3> QED
      BY <3>1, <3>5, <3>6 DEF SpanState, At
  <2>11. f' + SPAN <= Len(freq') /\ r' < Len(rare')
    BY <1>1, <1>4, <2>1, <2>7 DEF inputs
  <2> QED
    BY <2>8, <2>9, <2>10, <2>11, AtSpan
<1> QED
  BY <1>8, <1>9

LEMMA AdvanceFreqStep == ASSUME IInv, AdvanceFreq PROVE IInv'
<1>1. /\ stage = "advance_freq" /\ UNCHANGED <<inputs, r, offset, lower, C, stored>>
  BY DEF AdvanceFreq
<1>2. /\ rare \in Seq(Nat) /\ Ascending(rare) /\ Len(rare) \in Nat
      /\ freq \in Seq(Nat) /\ Ascending(freq) /\ Len(freq) \in Nat
      /\ \A p \in 1 .. Len(rare) : rare[p] \in Nat
      /\ \A p \in 1 .. Len(freq) : freq[p] \in Nat
      /\ r \in Nat /\ r <= Len(rare) /\ f \in Nat /\ f <= Len(freq)
      /\ offset \in Nat /\ lower \in Nat /\ stored \in Nat /\ stored <= inside
      /\ Exact(rare, freq, C, r, f)
  BY <1>1, State
<1>3. SPAN \in Nat /\ SPAN >= 2
  BY Widths
<1>4. /\ f + SPAN <= Len(freq) /\ r < Len(rare)
      /\ At(freq, f + SPAN - 1) < At(rare, r)
  BY <1>1 DEF IInv, Positions, AheadInFreq, SpanState
<1>5. CASE f + SPAN >= Len(freq) - (SPAN - 1)
  <2>1. stage' = "scalar" /\ f' = f
    BY <1>5 DEF AdvanceFreq
  <2>2. Basics'
    BY <1>1, <1>2, <2>1, NextBasics DEF AllStages
  <2> QED
    BY <2>1, <2>2, AtScalar
<1>6. CASE ~ f + SPAN >= Len(freq) - (SPAN - 1)
  <2>1. /\ f' = f + SPAN
        /\ stage' = IF At(freq, f + 2 * SPAN - 1) < At(rare, r) THEN stage ELSE "advance_rare"
    BY <1>6 DEF AdvanceFreq
  <2>2. /\ f + SPAN \in Nat /\ f <= f + SPAN /\ f + SPAN + SPAN <= Len(freq)
        /\ f + 2 * SPAN - 1 + 1 = f + SPAN + SPAN /\ f + 2 * SPAN - 1 = f + SPAN + SPAN - 1
        /\ f + SPAN - 1 + 1 = f + SPAN
        /\ f + SPAN \in 1 .. Len(freq) /\ f + SPAN + SPAN \in 1 .. Len(freq)
        /\ r + 1 \in 1 .. Len(rare)
    BY <1>2, <1>3, <1>4, <1>6, SMTT(30)
  <2>3. freq[f + SPAN] < rare[r + 1]
    BY <1>4, <2>2 DEF At
  <2>4. Exact(rare, freq, C, r, f + SPAN)
    BY ONLY <1>2, <1>4, <2>2, <2>3, SkipSmaller
  <2>5. stage' \in {"advance_rare", "advance_freq"}
    BY <1>1, <2>1
  <2>6. Basics'
    <3>1. Exact(rare, freq, C', IF stage' = "done" THEN Len(rare) ELSE r', f')
      BY <1>1, <2>1, <2>4, <2>5
    <3>2. stage' \in AllStages /\ UNCHANGED inputs
      BY <1>1, <2>5 DEF AllStages
    <3> QED
      BY <1>1, <1>2, <2>1, <2>2, <3>1, <3>2, NextBasics
  <2>7. SpanState'
    <3>1. rare' = rare /\ freq' = freq /\ f' = f + SPAN /\ r' = r
      BY <1>1, <2>1 DEF inputs
    <3>2. At(freq, f + 2 * SPAN - 1) \in Nat /\ At(rare, r) \in Nat
      BY <1>2, <2>2 DEF At
    <3>3. /\ stage' = "advance_rare" => At(freq, f + SPAN + SPAN - 1) >= At(rare, r)
          /\ stage' = "advance_freq" => At(freq, f + SPAN + SPAN - 1) < At(rare, r)
      BY <1>1, <2>1, <2>2, <3>2
    <3>4. Passed'
      BY <2>3, <3>1 DEF Passed
    <3> QED
      BY <3>1, <3>3, <3>4 DEF SpanState, At
  <2>8. f' + SPAN <= Len(freq') /\ r' < Len(rare')
    BY <1>1, <1>4, <2>1, <2>2 DEF inputs
  <2> QED
    BY <2>5, <2>6, <2>7, <2>8, AtSpan
<1> QED
  BY <1>5, <1>6
-----------------------------------------------------------------------------
(* set_intersect_v3 and set_intersect_galloping                            *)

Searching == stage \in {"first", "linear", "rare", "gallop", "bisect", "probe"}

\* What the search knows of where it is.
LEMMA SearchFacts ==
  ASSUME IInv, Searching
  PROVE  /\ r < Len(rare) /\ r + 1 \in 1 .. Len(rare)
         /\ f <= stopFreq /\ f + STRIDE \in 1 .. Len(freq) /\ Passed
         /\ StrideMax(0) = freq[f + STRIDE] /\ freq[f + STRIDE] \in Nat
         /\ At(rare, r) = rare[r + 1] /\ rare[r + 1] \in Nat
<1>1. r < Len(rare) /\ f <= stopFreq /\ Passed
  BY DEF IInv, SearchState, Searching
<1>2. /\ rare \in Seq(Nat) /\ Len(rare) \in Nat /\ freq \in Seq(Nat) /\ Len(freq) \in Nat
      /\ r \in Nat /\ f \in Nat
  BY State
<1>3. r + 1 \in 1 .. Len(rare) /\ rare[r + 1] \in Nat
  BY <1>1, <1>2
<1>4. f <= Len(freq) - STRIDE
  BY <1>1 DEF stopFreq
<1>5. /\ f + STRIDE \in 1 .. Len(freq) /\ freq[f + STRIDE] \in Nat
      /\ At(freq, f + STRIDE * 0 + STRIDE - 1) = freq[f + STRIDE]
  BY ONLY <1>2, <1>4, FirstStrideEnds
<1> QED
  BY <1>1, <1>3, <1>5 DEF StrideMax, At

\* The n-th stride from f ends inside freq; the strides are in order.
LEMMA StrideOrder ==
  ASSUME IInv, NEW m \in Nat, NEW n \in Nat, m <= n, f + STRIDE * n <= stopFreq
  PROVE  /\ f + STRIDE * m <= stopFreq
         /\ StrideMax(m) \in Nat /\ StrideMax(n) \in Nat /\ StrideMax(m) <= StrideMax(n)
<1>1. /\ freq \in Seq(Nat) /\ Ascending(freq) /\ Len(freq) \in Nat /\ f \in Nat
      /\ STRIDE \in Nat
  BY State, Widths
<1>2. STRIDE * m \in Nat /\ STRIDE * n \in Nat /\ STRIDE * m <= STRIDE * n
  BY ONLY <1>1, m \in Nat, n \in Nat, m <= n, MulMonotone
<1>3. f + STRIDE * n <= Len(freq) - STRIDE
  BY DEF stopFreq
<1> DEFINE p == STRIDE * m
           q == STRIDE * n
<1> HIDE DEF p, q
<1>4. p \in Nat /\ q \in Nat /\ p <= q /\ f + q <= Len(freq) - STRIDE
  BY <1>2, <1>3 DEF p, q
<1>5. f + p <= Len(freq) - STRIDE
  BY ONLY <1>1, <1>4
<1>6. /\ f + q + STRIDE \in 1 .. Len(freq) /\ freq[f + q + STRIDE] \in Nat
      /\ StrideMax(n) = freq[f + q + STRIDE]
  BY ONLY <1>1, <1>3, n \in Nat, StrideEnds DEF StrideMax, q
<1>7. /\ f + p + STRIDE \in 1 .. Len(freq) /\ freq[f + p + STRIDE] \in Nat
      /\ StrideMax(m) = freq[f + p + STRIDE]
  <2>1. f + STRIDE * m <= Len(freq) - STRIDE
    BY <1>5 DEF p
  <2> QED
    BY ONLY <1>1, <2>1, m \in Nat, StrideEnds DEF StrideMax, p
<1>8. f + p + STRIDE <= f + q + STRIDE
  BY ONLY <1>1, <1>4
<1>9. freq[f + p + STRIDE] <= freq[f + q + STRIDE]
  BY ONLY <1>1, <1>6, <1>7, <1>8, AscendingPlaces
<1> QED
  BY <1>5, <1>6, <1>7, <1>9 DEF p, stopFreq

\* Strides that end below the element can be passed over, the last of them or not.
LEMMA StridesPassed ==
  ASSUME IInv, Searching, NEW n \in Nat, f + STRIDE * n <= stopFreq,
         StrideMax(n) < At(rare, r)
  PROVE  /\ f + STRIDE * n \in Nat /\ f + STRIDE * n <= Len(freq)
         /\ Exact(rare, freq, C, r, f + STRIDE * n)
         /\ f + STRIDE * n + STRIDE \in Nat /\ f + STRIDE * n + STRIDE <= Len(freq)
         /\ Exact(rare, freq, C, r, f + STRIDE * n + STRIDE)
         /\ freq[f + STRIDE * n + STRIDE] < rare[r + 1]
<1>1. /\ rare \in Seq(Nat) /\ Ascending(rare) /\ Len(rare) \in Nat
      /\ freq \in Seq(Nat) /\ Ascending(freq) /\ Len(freq) \in Nat
      /\ r \in Nat /\ f \in Nat /\ STRIDE \in Nat /\ STRIDE >= 4
      /\ \A p \in 1 .. Len(freq) : freq[p] \in Nat
      /\ Exact(rare, freq, C, r, f)
  BY State, Widths DEF Searching
<1>2. r < Len(rare) /\ At(rare, r) = rare[r + 1] /\ rare[r + 1] \in Nat
  BY SearchFacts
<1>3. f + STRIDE * n <= Len(freq) - STRIDE
  BY DEF stopFreq
<1>4. /\ STRIDE * n \in Nat /\ f + STRIDE * n + STRIDE \in 1 .. Len(freq)
      /\ StrideMax(n) = freq[f + STRIDE * n + STRIDE]
  BY ONLY <1>1, <1>3, n \in Nat, StrideEnds DEF StrideMax
<1> DEFINE g == f + STRIDE * n
           h == f + STRIDE * n + STRIDE
<1>5. /\ g \in Nat /\ f <= g /\ g <= Len(freq)
      /\ h \in Nat /\ f <= h /\ h <= Len(freq) /\ h \in 1 .. Len(freq) /\ g < h
  <2> DEFINE k == STRIDE * n
  <2> HIDE DEF k
  <2>1. k \in Nat /\ f + k + STRIDE \in 1 .. Len(freq)
    BY <1>4 DEF k
  <2>2. /\ f + k \in Nat /\ f <= f + k /\ f + k <= Len(freq)
        /\ f + k + STRIDE \in Nat /\ f <= f + k + STRIDE /\ f + k < f + k + STRIDE
        /\ f + k + STRIDE <= Len(freq)
    BY ONLY <1>1, <2>1
  <2> QED
    BY <2>1, <2>2 DEF k
<1>6. freq[h] < rare[r + 1]
  BY <1>2, <1>4
<1> HIDE DEF g, h
<1>7. g > 0 => freq[g] < rare[r + 1]
  <2> SUFFICES ASSUME g > 0 PROVE freq[g] < rare[r + 1]
    OBVIOUS
  <2>1. g \in 1 .. Len(freq)
    BY <1>1, <1>5
  <2>2. freq[g] < freq[h] /\ freq[g] \in Nat /\ freq[h] \in Nat
    BY ONLY <1>1, <1>5, <2>1, AscendingPlaces
  <2> QED
    BY ONLY <1>2, <1>6, <2>2
<1>8. Exact(rare, freq, C, r, g)
  BY ONLY <1>1, <1>2, <1>5, <1>7, SkipSmaller
<1>9. h > 0 => freq[h] < rare[r + 1]
  BY <1>6
<1>10. Exact(rare, freq, C, r, h)
  BY ONLY <1>1, <1>2, <1>5, <1>9, SkipSmaller
<1> QED
  BY <1>5, <1>6, <1>8, <1>10 DEF g, h

\* The stride at f ends below the element.
LEMMA StridePassed ==
  ASSUME IInv, Searching, StrideMax(0) < At(rare, r)
  PROVE  /\ f + STRIDE \in Nat /\ f + STRIDE <= Len(freq)
         /\ Exact(rare, freq, C, r, f + STRIDE) /\ freq[f + STRIDE] < rare[r + 1]
<1>1. f \in Nat /\ STRIDE \in Nat /\ f <= stopFreq
  BY State, Widths, SearchFacts
<1>2. STRIDE * 0 = 0 /\ f + 0 = f
  BY <1>1
<1>3. f + STRIDE * 0 <= stopFreq /\ f + STRIDE * 0 + STRIDE = f + STRIDE
  BY <1>1, <1>2
<1>4. /\ f + STRIDE * 0 + STRIDE \in Nat /\ f + STRIDE * 0 + STRIDE <= Len(freq)
      /\ Exact(rare, freq, C, r, f + STRIDE * 0 + STRIDE)
      /\ freq[f + STRIDE * 0 + STRIDE] < rare[r + 1]
  BY ONLY IInv, Searching, StrideMax(0) < At(rare, r), <1>3, 0 \in Nat, StridesPassed
<1> QED
  BY ONLY <1>3, <1>4

\* What stays as it is while strides are searched.
LEMMA SearchOn ==
  ASSUME IInv, Searching, UNCHANGED <<inputs, r, C, stored>>,
         f' \in Nat, f' <= Len(freq), Exact(rare, freq, C, r, f'),
         offset' \in Nat, lower' \in Nat, stage' \in AllStages, stage' # "done"
  PROVE  Basics'
BY State, NextBasics DEF Searching

LEMMA NextStrideStep ==
  ASSUME IInv, stage \in {"first", "linear"}, StrideMax(0) < At(rare, r), NextStride
  PROVE  IInv'
<1>1. /\ f' = f + STRIDE /\ UNCHANGED <<inputs, r, offset, lower, C, stored>>
      /\ stage' = IF f + STRIDE > stopFreq THEN "scalar" ELSE stage
  BY DEF NextStride
<1>2. Searching
  BY DEF Searching
<1>3. /\ f + STRIDE \in Nat /\ f + STRIDE <= Len(freq)
      /\ Exact(rare, freq, C, r, f + STRIDE) /\ freq[f + STRIDE] < rare[r + 1]
  BY <1>2, StridePassed
<1>4. Basics'
  <2>1. stage' \in AllStages /\ stage' # "done" /\ offset' \in Nat /\ lower' \in Nat
    BY <1>1, State DEF AllStages
  <2> QED
    BY <1>1, <1>2, <1>3, <2>1, SearchOn
<1>5. CASE f + STRIDE > stopFreq
  BY <1>1, <1>4, <1>5, AtScalar
<1>6. CASE ~ f + STRIDE > stopFreq
  <2>1. rare' = rare /\ freq' = freq /\ r' = r /\ stage' = stage /\ stopFreq' = stopFreq
    BY <1>1, <1>6 DEF inputs, stopFreq
  <2>2. f' <= stopFreq
    <3>1. stopFreq \in Int
      BY State, Widths DEF stopFreq
    <3> QED
      BY <1>1, <1>3, <1>6, <3>1
  <2>3. r < Len(rare) /\ (stage = "first" => r = 0)
    BY DEF IInv, SearchState
  <2>4. Passed'
    BY <1>1, <1>3, <2>1 DEF Passed
  <2>5. SearchState'
    BY <2>1, <2>2, <2>3, <2>4 DEF SearchState
  <2> QED
    BY <1>4, <2>1, <2>5, AtSearch
<1> QED
  BY <1>5, <1>6

\* The search ends, and the scalar merge goes on from where it is.
LEMMA EnterScalar ==
  ASSUME IInv, Searching, Enter("scalar") PROVE IInv'
<1>1. stage' = "scalar" /\ UNCHANGED <<inputs, r, f, offset, lower, C, stored>>
  BY DEF Enter
<1>2. Basics'
  BY <1>1, State, SearchOn DEF AllStages, Searching
<1> QED
  BY <1>1, <1>2, AtScalar

LEMMA EnterSearch ==
  ASSUME IInv, Searching, NEW next \in {"linear", "probe"}, Enter(next),
         next = "probe" => r < stopRare /\ At(rare, r) <= StrideMax(0)
  PROVE  IInv'
<1>1. stage' = next /\ UNCHANGED <<inputs, r, f, offset, lower, C, stored>>
  BY DEF Enter
<1>2. Basics'
  BY <1>1, State, SearchOn DEF AllStages, Searching
<1>3. r < Len(rare) /\ f <= stopFreq /\ Passed
  BY SearchFacts
<1>4. SearchState'
  BY <1>1, <1>3 DEF SearchState, inputs, stopFreq, stopRare, Passed, StrideMax, At
<1> QED
  BY <1>1, <1>2, <1>4, AtSearch

LEMMA FirstStrideStep == ASSUME IInv, FirstStride PROVE IInv'
<1>1. stage = "first" /\ Searching /\ r = 0
  BY DEF FirstStride, Searching, IInv, SearchState
<1>2. CASE StrideMax(0) < At(rare, 0)
  BY <1>1, <1>2, NextStrideStep DEF FirstStride
<1>3. CASE ~ StrideMax(0) < At(rare, 0)
  <2>1. Enter("linear")
    BY <1>3 DEF FirstStride
  <2> QED
    BY <1>1, <2>1, EnterSearch
<1> QED
  BY <1>2, <1>3

LEMMA LinearSearchStep == ASSUME IInv, LinearSearch PROVE IInv'
<1>1. stage = "linear" /\ Searching
  BY DEF LinearSearch, Searching
<1>2. CASE r >= stopRare
  BY <1>1, <1>2, EnterScalar DEF LinearSearch
<1>3. CASE ~ r >= stopRare /\ StrideMax(0) < At(rare, r)
  BY <1>1, <1>3, NextStrideStep DEF LinearSearch
<1>4. CASE ~ r >= stopRare /\ ~ StrideMax(0) < At(rare, r)
  <2>1. Enter("probe")
    BY <1>4 DEF LinearSearch
  <2>2. r \in Nat /\ stopRare \in Int /\ StrideMax(0) \in Nat /\ At(rare, r) \in Nat
    <3>1. r \in Nat /\ Len(rare) \in Nat
      BY State
    <3>2. stopRare \in Int
      BY ONLY <3>1 DEF stopRare
    <3>3. StrideMax(0) \in Nat /\ At(rare, r) \in Nat
      BY <1>1, SearchFacts
    <3> QED
      BY <3>1, <3>2, <3>3
  <2>3. r < stopRare /\ At(rare, r) <= StrideMax(0)
    BY ONLY <1>4, <2>2
  <2> QED
    BY <1>1, <2>1, <2>3, EnterSearch
<1> QED
  BY <1>2, <1>3, <1>4

LEMMA NextRareStep == ASSUME IInv, NextRare PROVE IInv'
<1>1. /\ stage = "rare" /\ Searching /\ UNCHANGED <<inputs, r, lower, C, stored>>
      /\ rare' = rare /\ freq' = freq /\ stopFreq' = stopFreq /\ stopRare' = stopRare
  BY DEF NextRare, Searching, inputs, stopFreq, stopRare
<1>2. /\ r < Len(rare) /\ f <= stopFreq /\ Passed
      /\ StrideMax(0) \in Nat /\ At(rare, r) \in Nat
  BY <1>1, SearchFacts
<1>3. /\ f \in Nat /\ f <= Len(freq) /\ Exact(rare, freq, C, r, f)
      /\ offset \in Nat /\ lower \in Nat /\ STRIDE \in Nat
  BY <1>1, State, Widths
<1>4. CASE r >= stopRare /\ stage' = "scalar" /\ UNCHANGED <<f, offset>>
  <2>1. Basics'
    BY <1>1, <1>3, <1>4, SearchOn DEF AllStages
  <2> QED
    BY <1>4, <2>1, AtScalar
<1>5. CASE /\ r < stopRare /\ StrideMax(0) >= At(rare, r)
           /\ stage' = "probe" /\ UNCHANGED <<f, offset>>
  <2>1. Basics'
    BY <1>1, <1>3, <1>5, SearchOn DEF AllStages
  <2>2. At(rare, r) <= StrideMax(0)
    BY <1>2, <1>5
  <2>3. SearchState'
    BY <1>1, <1>2, <1>5, <2>2 DEF SearchState, Passed, StrideMax, At
  <2> QED
    BY <1>5, <2>1, <2>3, AtSearch
<1>6. CASE /\ r < stopRare /\ StrideMax(0) < At(rare, r) /\ f + STRIDE > stopFreq
           /\ f' = f + STRIDE /\ stage' = "scalar" /\ UNCHANGED offset
  <2>1. /\ f + STRIDE \in Nat /\ f + STRIDE <= Len(freq)
        /\ Exact(rare, freq, C, r, f + STRIDE)
    BY <1>1, <1>6, StridePassed
  <2>2. Basics'
    BY <1>1, <1>3, <1>6, <2>1, SearchOn DEF AllStages
  <2> QED
    BY <1>6, <2>2, AtScalar
<1>7. CASE /\ r < stopRare /\ StrideMax(0) < At(rare, r) /\ f + STRIDE <= stopFreq
           /\ offset' = 1 /\ stage' = "gallop" /\ UNCHANGED f
  <2>1. Basics'
    BY <1>1, <1>3, <1>7, SearchOn DEF AllStages
  <2>2. 1 \div 2 = 0 /\ STRIDE * 1 = STRIDE
    BY <1>3
  <2>3. SearchState'
    BY <1>1, <1>2, <1>7, <2>2 DEF SearchState, Passed, StrideMax, At
  <2> QED
    BY <1>1, <1>7, <2>1, <2>2, <2>3, AtSearch
<1> QED
  BY <1>4, <1>5, <1>6, <1>7 DEF NextRare

\* The search begins to halve between two strides, of which the second is not below
\* the element and the half of it is.
LEMMA BracketStep ==
  ASSUME IInv, stage = "gallop", UNCHANGED <<inputs, r, C, stored>>,
         NEW n \in Nat, n >= 1, f + STRIDE * n <= stopFreq,
         StrideMax(n) >= At(rare, r), StrideMax(n \div 2) < At(rare, r), Bracket(n)
  PROVE  IInv'
<1>1. /\ Searching /\ offset' = n /\ lower' = n \div 2 /\ stage' = "bisect" /\ f' = f
      /\ rare' = rare /\ freq' = freq /\ r' = r
      /\ stopFreq' = stopFreq /\ stopRare' = stopRare
  BY DEF Bracket, Searching, inputs, stopFreq, stopRare
<1>2. /\ r < Len(rare) /\ f <= stopFreq /\ Passed /\ At(rare, r) \in Nat
  BY <1>1, SearchFacts
<1>3. /\ f \in Nat /\ f <= Len(freq) /\ Exact(rare, freq, C, r, f)
  BY <1>1, State
<1>4. n \div 2 \in Nat /\ n \div 2 < n
  BY Half
<1>5. Basics'
  BY <1>1, <1>3, <1>4, SearchOn DEF AllStages
<1>6. r < stopRare
  BY DEF IInv, SearchState
<1>7. StrideMax(n) \in Nat
  BY StrideOrder
<1>8. At(rare, r) <= StrideMax(n)
  BY <1>2, <1>7
<1>9. SearchState'
  BY <1>1, <1>2, <1>4, <1>6, <1>8 DEF SearchState, Passed, StrideMax, At
<1> QED
  BY <1>1, <1>5, <1>9, AtSearch

LEMMA GiveUpStep ==
  ASSUME IInv, stage = "gallop", UNCHANGED <<inputs, r, C, stored>>,
         NEW n \in Nat, f + STRIDE * n <= stopFreq, StrideMax(n) < At(rare, r), GiveUp(n)
  PROVE  IInv'
<1>1. Searching /\ f' = f + STRIDE * n /\ stage' = "scalar" /\ UNCHANGED <<offset, lower>>
  BY DEF GiveUp, Searching
<1>2. /\ f + STRIDE * n \in Nat /\ f + STRIDE * n <= Len(freq)
      /\ Exact(rare, freq, C, r, f + STRIDE * n)
  BY <1>1, StridesPassed
<1>3. Basics'
  BY <1>1, <1>2, State, SearchOn DEF AllStages
<1> QED
  BY <1>1, <1>3, AtScalar

LEMMA GallopStep == ASSUME IInv, Gallop PROVE IInv'
<1> DEFINE last == (stopFreq - f) \div STRIDE
<1>1. /\ stage = "gallop" /\ Searching /\ UNCHANGED <<inputs, r, C, stored>>
  BY DEF Gallop, Searching
<1>2. /\ r < Len(rare) /\ f <= stopFreq /\ Passed /\ At(rare, r) \in Nat
  BY <1>1, SearchFacts
<1>3. /\ f \in Nat /\ f <= Len(freq) /\ Exact(rare, freq, C, r, f) /\ Len(freq) \in Nat
      /\ offset \in Nat /\ lower \in Nat /\ STRIDE \in Nat /\ STRIDE >= 4
      /\ stopFreq \in Int
  BY <1>1, State, Widths DEF stopFreq
<1>4. /\ offset >= 1 /\ r < stopRare /\ StrideMax(offset \div 2) < At(rare, r)
      /\ f + STRIDE * offset <= stopFreq
  BY <1>1 DEF IInv, Positions, AheadInFreq, SearchState
<1>5. StrideMax(offset) \in Nat
  BY <1>1, <1>3, <1>4, StrideOrder
<1>6. CASE StrideMax(offset) >= At(rare, r) /\ Bracket(offset)
  BY <1>1, <1>3, <1>4, <1>6, BracketStep
<1>7. CASE /\ StrideMax(offset) < At(rare, r)
           /\ f + 2 * offset * STRIDE <= stopFreq
           /\ offset' = 2 * offset /\ UNCHANGED <<stage, f, lower>>
  <2>1. /\ 2 * offset \in Nat /\ 2 * offset >= 1 /\ (2 * offset) \div 2 = offset
        /\ STRIDE * (2 * offset) = 2 * offset * STRIDE
    BY <1>3, <1>4, Half
  <2>2. /\ rare' = rare /\ freq' = freq /\ r' = r /\ f' = f /\ stage' = "gallop"
        /\ stopFreq' = stopFreq /\ stopRare' = stopRare
    BY <1>1, <1>7 DEF inputs, stopFreq, stopRare
  <2>3. Basics'
    BY <1>1, <1>3, <1>7, <2>1, <2>2, SearchOn DEF AllStages
  <2>4. SearchState'
    BY <1>2, <1>4, <1>7, <2>1, <2>2 DEF SearchState, Passed, StrideMax, At
  <2>5. f' + STRIDE * offset' <= stopFreq'
    BY <1>7, <2>1, <2>2
  <2> QED
    BY <2>2, <2>3, <2>4, <2>5, AtSearch
<1>8. CASE /\ StrideMax(offset) < At(rare, r)
           /\ f + 2 * offset * STRIDE > stopFreq
           /\ f + (offset + 1) * STRIDE <= stopFreq
           /\ IF StrideMax(last) < At(rare, r) THEN GiveUp(last) ELSE Bracket(last)
  <2> DEFINE room == stopFreq - f
  <2>1. room \in Nat
    BY <1>2, <1>3
  <2>2. /\ last \in Nat /\ STRIDE * last <= room /\ room < STRIDE * last + STRIDE
    BY ONLY <1>3, <2>1, 4 >= 1, Quotient
  <2>3. STRIDE * last \in Nat
    BY ONLY <1>3, <2>2, MulMonotone
  <2>4. f + STRIDE * last <= stopFreq
    BY ONLY <1>3, <2>2, <2>3
  <2>5. /\ 2 * offset \in Nat /\ offset + 1 \in Nat
        /\ STRIDE * (2 * offset) = 2 * offset * STRIDE
        /\ STRIDE * (offset + 1) = (offset + 1) * STRIDE
    BY <1>3
  <2> HIDE DEF last
  <2>6. last < 2 * offset
    <3>1. ASSUME 2 * offset <= last PROVE FALSE
      <4>1. STRIDE * (2 * offset) <= STRIDE * last /\ STRIDE * (2 * offset) \in Nat
        BY ONLY <1>3, <2>2, <2>5, <3>1, MulMonotone
      <4> QED
        BY ONLY <1>3, <1>8, <2>3, <2>4, <2>5, <4>1
    <3> QED
      BY <2>2, <2>5, <3>1
  <2>7. offset < last
    <3>1. ASSUME last < offset + 1 PROVE FALSE
      <4>1. /\ STRIDE * last + STRIDE <= STRIDE * (offset + 1)
            /\ STRIDE * (offset + 1) \in Nat
        BY ONLY <1>3, <2>2, <2>5, <3>1, MulMonotone
      <4> QED
        BY ONLY <1>3, <1>8, <2>2, <2>3, <2>5, <4>1
    <3> QED
      BY <1>3, <2>2, <2>5, <3>1
  <2>8. last >= 1 /\ last \div 2 \in Nat /\ last \div 2 <= offset
    <3>1. /\ last \div 2 \in Nat /\ 2 * (last \div 2) <= last
      BY <2>2, Half
    <3> QED
      BY <1>3, <1>4, <2>2, <2>6, <2>7, <3>1
  <2>9. StrideMax(last \div 2) < At(rare, r)
    <3>1. /\ StrideMax(last \div 2) \in Nat /\ StrideMax(last \div 2) <= StrideMax(offset)
      BY <1>1, <1>3, <1>4, <2>8, StrideOrder
    <3> QED
      BY <1>2, <1>5, <1>8, <3>1
  <2>10. StrideMax(last) \in Nat
    BY <1>1, <2>2, <2>4, StrideOrder
  <2>11. CASE StrideMax(last) < At(rare, r)
    BY <1>1, <1>8, <2>2, <2>4, <2>11, GiveUpStep
  <2>12. CASE ~ StrideMax(last) < At(rare, r)
    <3>1. StrideMax(last) >= At(rare, r)
      BY <1>2, <2>10, <2>12
    <3> QED
      BY <1>1, <1>8, <2>2, <2>4, <2>8, <2>9, <2>12, <3>1, BracketStep
  <2> QED
    BY <2>11, <2>12
<1>9. CASE StrideMax(offset) < At(rare, r) /\ GiveUp(offset)
  BY <1>1, <1>3, <1>4, <1>9, GiveUpStep
<1> QED
  BY <1>6, <1>7, <1>8, <1>9 DEF Gallop

LEMMA BisectStep == ASSUME IInv, Bisect PROVE IInv'
<1> DEFINE mid == (lower + offset) \div 2
<1>1. /\ stage = "bisect" /\ Searching /\ UNCHANGED <<inputs, r, C, stored>>
      /\ rare' = rare /\ freq' = freq /\ r' = r
      /\ stopFreq' = stopFreq /\ stopRare' = stopRare
  BY DEF Bisect, Searching, inputs, stopFreq, stopRare
<1>2. /\ r < Len(rare) /\ f <= stopFreq /\ Passed
      /\ At(rare, r) \in Nat /\ At(rare, r) = rare[r + 1]
  BY <1>1, SearchFacts
<1>3. /\ f \in Nat /\ f <= Len(freq) /\ Exact(rare, freq, C, r, f) /\ freq \in Seq(Nat)
      /\ offset \in Nat /\ lower \in Nat /\ STRIDE \in Nat /\ STRIDE >= 4
  BY <1>1, State, Widths
<1>4. /\ lower < offset /\ r < stopRare
      /\ StrideMax(lower) < At(rare, r) /\ At(rare, r) <= StrideMax(offset)
      /\ f + STRIDE * offset <= stopFreq
  BY <1>1 DEF IInv, Positions, AheadInFreq, SearchState
<1>5. CASE lower + 1 # offset
  <2>1. /\ IF StrideMax(mid) < At(rare, r) THEN lower' = mid /\ UNCHANGED offset
                                            ELSE offset' = mid /\ UNCHANGED lower
        /\ UNCHANGED <<stage, f>>
    BY <1>5 DEF Bisect
  <2>2. mid \in Nat /\ lower < mid /\ mid < offset
    BY <1>3, <1>4, <1>5
  <2> HIDE DEF mid
  <2>3. f + STRIDE * mid <= stopFreq /\ StrideMax(mid) \in Nat
    <3>1. mid <= offset
      BY <1>3, <2>2
    <3> QED
      BY <1>3, <1>4, <2>2, <3>1, StrideOrder
  <2>4. stage' = "bisect" /\ f' = f
    BY <1>1, <2>1
  <2>5. Basics'
    <3>1. offset' \in Nat /\ lower' \in Nat
      BY <1>3, <2>1, <2>2
    <3> QED
      BY <1>1, <1>3, <2>4, <3>1, SearchOn DEF AllStages
  <2>6. CASE StrideMax(mid) < At(rare, r)
    <3>1. lower' = mid /\ offset' = offset
      BY <2>1, <2>6
    <3>2. SearchState'
      BY <1>1, <1>2, <1>4, <2>2, <2>4, <2>6, <3>1 DEF SearchState, Passed, StrideMax, At
    <3> QED
      BY <1>1, <1>4, <2>4, <2>5, <3>1, <3>2, AtSearch
  <2>7. CASE ~ StrideMax(mid) < At(rare, r)
    <3>1. lower' = lower /\ offset' = mid
      BY <2>1, <2>7
    <3>2. At(rare, r) <= StrideMax(mid)
      BY <1>2, <2>3, <2>7
    <3>3. SearchState'
      BY <1>1, <1>2, <1>4, <2>2, <2>4, <3>1, <3>2 DEF SearchState, Passed, StrideMax, At
    <3> QED
      BY <1>1, <2>3, <2>4, <2>5, <3>1, <3>3, AtSearch
  <2> QED
    BY <2>6, <2>7
<1>6. CASE lower + 1 = offset
  <2>1. f' = f + STRIDE * offset /\ stage' = "probe" /\ UNCHANGED <<offset, lower>>
    BY <1>6 DEF Bisect
  <2>2. STRIDE * offset = STRIDE * lower + STRIDE /\ STRIDE * lower \in Nat
    BY <1>3, <1>6, MulMonotone
  <2>3. f + STRIDE * lower <= stopFreq
    <3>1. lower <= offset
      BY <1>3, <1>4
    <3> QED
      BY <1>3, <1>4, <3>1, StrideOrder
  <2>4. /\ f + STRIDE * lower + STRIDE \in Nat /\ f + STRIDE * lower + STRIDE <= Len(freq)
        /\ Exact(rare, freq, C, r, f + STRIDE * lower + STRIDE)
        /\ freq[f + STRIDE * lower + STRIDE] < rare[r + 1]
    BY <1>1, <1>3, <1>4, <2>3, StridesPassed
  <2>5. f' = f + STRIDE * lower + STRIDE
    <3> DEFINE k == STRIDE * lower
    <3> HIDE DEF k
    <3>1. k \in Nat /\ f' = f + (k + STRIDE)
      BY <2>1, <2>2 DEF k
    <3>2. f' = f + k + STRIDE
      BY ONLY <1>3, <3>1
    <3> QED
      BY <3>2 DEF k
  <2>6. Basics'
    BY <1>1, <1>3, <2>1, <2>4, <2>5, SearchOn DEF AllStages
  <2>7. f' <= stopFreq
    BY <1>4, <2>1
  <2>8. f' > 0 => freq[f'] < rare[r + 1]
    BY <2>4, <2>5
  <2>9. At(rare, r) <= At(freq, f' + STRIDE * 0 + STRIDE - 1)
    <3>1. f' \in Nat /\ f' <= Len(freq) - STRIDE /\ f + STRIDE * offset <= Len(freq) - STRIDE
      BY <1>4, <2>4, <2>5, <2>7 DEF stopFreq
    <3>2. At(freq, f' + STRIDE * 0 + STRIDE - 1) = freq[f' + STRIDE]
      BY ONLY <1>3, <3>1, FirstStrideEnds
    <3>3. StrideMax(offset) = freq[f + STRIDE * offset + STRIDE]
      BY ONLY <1>3, <3>1, StrideEnds DEF StrideMax
    <3> QED
      BY <1>4, <2>1, <3>2, <3>3
  <2>10. SearchState'
    BY <1>1, <1>2, <1>4, <2>1, <2>7, <2>8, <2>9 DEF SearchState, Passed, StrideMax, At
  <2> QED
    BY <2>1, <2>6, <2>10, AtSearch
<1> QED
  BY <1>5, <1>6

\* The quarter that two comparisons choose: what comes before it is smaller than the
\* element, and its maximum is not.
LEMMA QuarterChosen ==
  ASSUME IInv, stage = "probe", NEW q, q = f + QuarterOf(At(rare, r)) * QUARTER
  PROVE  /\ q \in Nat /\ f <= q /\ q + QUARTER \in 1 .. Len(freq)
         /\ q > f => q \in 1 .. Len(freq) /\ freq[q] < rare[r + 1]
         /\ rare[r + 1] <= freq[q + QUARTER]
<1> DEFINE x == At(rare, r)
<1>1. Searching
  BY DEF Searching
<1>2. /\ x \in Nat /\ x = rare[r + 1] /\ f + STRIDE \in 1 .. Len(freq)
      /\ StrideMax(0) = freq[f + STRIDE] /\ freq[f + STRIDE] \in Nat
  BY <1>1, SearchFacts
<1>3. /\ f \in Nat /\ Len(freq) \in Nat /\ \A p \in 1 .. Len(freq) : freq[p] \in Nat
      /\ QUARTER \in Nat /\ QUARTER >= 1 /\ STRIDE = 4 * QUARTER
  BY State, Widths
<1>4. x <= freq[f + STRIDE]
  BY <1>2 DEF IInv, SearchState
<1> HIDE DEF x
<1> DEFINE end(k) == f + k * QUARTER
<1>5. \A k \in 1 .. 4 : /\ end(k) \in 1 .. Len(freq) /\ freq[end(k)] \in Nat
                        /\ end(k - 1) + QUARTER = end(k)
  <2>1. /\ f + 1 * QUARTER \in 1 .. Len(freq) /\ f + 2 * QUARTER \in 1 .. Len(freq)
        /\ f + 3 * QUARTER \in 1 .. Len(freq) /\ f + 4 * QUARTER \in 1 .. Len(freq)
        /\ f + 0 * QUARTER + QUARTER = f + 1 * QUARTER
        /\ f + 1 * QUARTER + QUARTER = f + 2 * QUARTER
        /\ f + 2 * QUARTER + QUARTER = f + 3 * QUARTER
        /\ f + 3 * QUARTER + QUARTER = f + 4 * QUARTER
    BY <1>2, <1>3
  <2>2. \A k \in 1 .. 4 : k = 1 \/ k = 2 \/ k = 3 \/ k = 4
    OBVIOUS
  <2>3. 1 - 1 = 0 /\ 2 - 1 = 1 /\ 3 - 1 = 2 /\ 4 - 1 = 3
    OBVIOUS
  <2> QED
    BY <1>3, <2>1, <2>2, <2>3
<1>6. /\ At(freq, f + 2 * QUARTER - 1) = freq[end(2)]
      /\ At(freq, f + QUARTER - 1) = freq[end(1)]
      /\ At(freq, f + 3 * QUARTER - 1) = freq[end(3)]
      /\ freq[f + STRIDE] = freq[end(4)]
  <2>1. /\ f + 2 * QUARTER - 1 + 1 = end(2) /\ f + QUARTER - 1 + 1 = end(1)
        /\ f + 3 * QUARTER - 1 + 1 = end(3) /\ f + STRIDE = end(4)
    BY <1>3
  <2> HIDE DEF end
  <2> QED
    BY <2>1 DEF At
<1>7. /\ q = end(QuarterOf(x))
      /\ QuarterOf(x) = IF freq[end(2)] >= x
                        THEN IF freq[end(1)] < x THEN 1 ELSE 0
                        ELSE IF freq[end(3)] < x THEN 3 ELSE 2
  <2>1. q = end(QuarterOf(x))
    BY DEF x
  <2> HIDE DEF end
  <2> QED
    BY <1>6, <2>1 DEF QuarterOf
<1>8. PICK k \in 0 .. 3 : /\ q = end(k)
                          /\ k > 0 => freq[end(k)] < x
                          /\ x <= freq[end(k + 1)]
  <2> HIDE DEF end
  <2>1. /\ freq[end(1)] \in Nat /\ freq[end(2)] \in Nat
        /\ freq[end(3)] \in Nat /\ freq[end(4)] \in Nat
    BY <1>5
  <2>2. x \in Nat /\ x <= freq[end(4)]
    BY <1>2, <1>4, <1>6 DEF x
  <2>3. CASE freq[end(2)] >= x /\ freq[end(1)] < x
    <3>1. q = end(1) /\ x <= freq[end(1 + 1)]
      BY <1>7, <2>1, <2>2, <2>3, 1 + 1 = 2
    <3> QED
      BY <2>3, <3>1
  <2>4. CASE freq[end(2)] >= x /\ ~ freq[end(1)] < x
    <3>1. q = end(0) /\ x <= freq[end(0 + 1)]
      BY <1>7, <2>1, <2>2, <2>4, 0 + 1 = 1
    <3> QED
      BY <3>1
  <2>5. CASE ~ freq[end(2)] >= x /\ freq[end(3)] < x
    <3>1. q = end(3) /\ x <= freq[end(3 + 1)]
      BY <1>7, <2>1, <2>2, <2>5, 3 + 1 = 4
    <3> QED
      BY <2>5, <3>1
  <2>6. CASE ~ freq[end(2)] >= x /\ ~ freq[end(3)] < x
    <3>1. q = end(2) /\ x <= freq[end(2 + 1)]
      BY <1>7, <2>1, <2>2, <2>6, 2 + 1 = 3
    <3>2. freq[end(2)] < x
      BY <2>1, <2>2, <2>6
    <3> QED
      BY <3>1, <3>2
  <2> QED
    BY <2>3, <2>4, <2>5, <2>6
<1>9. /\ q + QUARTER = end(k + 1) /\ end(k + 1) \in 1 .. Len(freq)
      /\ k > 0 => end(k) \in 1 .. Len(freq)
      /\ k = 0 => end(k) = f
  <2>1. k + 1 \in 1 .. 4 /\ k + 1 - 1 = k /\ (k > 0 => k \in 1 .. 4)
    OBVIOUS
  <2>2. end(0) = f
    BY <1>3
  <2> HIDE DEF end
  <2> QED
    BY <1>5, <1>8, <2>1, <2>2
<1>10. q \in Nat /\ f <= q
  BY <1>3, <1>8
<1>11. q > f => k > 0
  <2> HIDE DEF end
  <2> QED
    BY <1>3, <1>8, <1>9
<1> HIDE DEF end
<1> QED
  BY <1>2, <1>8, <1>9, <1>10, <1>11 DEF x

LEMMA ProbeStep == ASSUME IInv, Probe PROVE IInv'
<1> DEFINE q == f + QuarterOf(At(rare, r)) * QUARTER
           Q == q + 1 .. q + QUARTER
<1>1. /\ stage = "probe" /\ Searching
      /\ C' = IF \E p \in q .. q + QUARTER - 1 : At(freq, p) = At(rare, r)
              THEN Append(C, At(rare, r)) ELSE C
      /\ Stores(Len(C')) /\ r' = r + 1 /\ stage' \in {"linear", "rare"}
      /\ UNCHANGED <<inputs, f, offset, lower>>
  BY DEF Probe, Searching
<1>2. /\ rare \in Seq(Nat) /\ Ascending(rare) /\ Len(rare) \in Nat
      /\ freq \in Seq(Nat) /\ Ascending(freq) /\ Len(freq) \in Nat
      /\ r \in Nat /\ f \in Nat /\ f <= Len(freq)
      /\ offset \in Nat /\ lower \in Nat /\ stored \in Nat /\ stored <= inside
      /\ \A p \in 1 .. Len(freq) : freq[p] \in Nat
      /\ \A p \in 1 .. Len(rare) : rare[p] \in Nat
      /\ QUARTER \in Nat /\ QUARTER >= 1
  BY State, Widths
<1>3. /\ r < Len(rare) /\ r + 1 \in 1 .. Len(rare) /\ f <= stopFreq /\ Passed
      /\ At(rare, r) = rare[r + 1] /\ rare[r + 1] \in Nat
  BY <1>1, SearchFacts
<1>4. r < stopRare
  BY <1>1 DEF IInv, SearchState
<1>5. /\ q \in Nat /\ f <= q /\ q + QUARTER \in 1 .. Len(freq)
      /\ q > f => q \in 1 .. Len(freq) /\ freq[q] < rare[r + 1]
      /\ rare[r + 1] <= freq[q + QUARTER]
  BY <1>1, QuarterChosen
<1> HIDE DEF q
<1>6. \A p \in Q : p \in f + 1 .. Len(freq)
  BY <1>2, <1>5
<1>7. ASSUME NEW p \in f + 1 .. Len(freq), p \notin Q PROVE freq[p] # rare[r + 1]
  <2>1. p \in 1 .. Len(freq) /\ freq[p] \in Nat
    BY <1>2
  <2>2. CASE p <= q
    <3>1. q > f /\ ~ q < p
      BY <1>2, <1>5, <2>2
    <3>2. ~ freq[q] < freq[p] /\ freq[q] \in Nat
      BY ONLY <1>2, <1>5, <2>1, <3>1, AscendingPlaces
    <3>3. freq[q] < rare[r + 1]
      BY <1>5, <3>1
    <3> QED
      BY ONLY <1>3, <2>1, <3>2, <3>3
  <2>3. CASE q + QUARTER < p
    <3>1. freq[q + QUARTER] < freq[p] /\ freq[q + QUARTER] \in Nat
      BY ONLY <1>2, <1>5, <2>1, <2>3, AscendingPlaces
    <3>2. rare[r + 1] <= freq[q + QUARTER]
      BY <1>5
    <3> QED
      BY ONLY <1>3, <2>1, <3>1, <3>2
  <2> QED
    BY <1>2, <1>5, <1>7, <2>1, <2>2, <2>3
<1>8. (\E p \in q .. q + QUARTER - 1 : At(freq, p) = At(rare, r))
        <=> \E p \in Q : freq[p] = rare[r + 1]
  <2>1. \A p \in q .. q + QUARTER - 1 : p + 1 \in Q
    BY <1>2, <1>5
  <2>2. \A p \in Q : p - 1 \in q .. q + QUARTER - 1 /\ p - 1 + 1 = p
    BY <1>2, <1>5
  <2> HIDE DEF Q
  <2>3. \A p \in Q : At(freq, p - 1) = freq[p]
    BY <2>2 DEF At
  <2>4. \A p \in q .. q + QUARTER - 1 : At(freq, p) = freq[p + 1]
    BY DEF At
  <2> QED
    BY <1>3, <2>1, <2>2, <2>3, <2>4
<1> HIDE DEF Q
<1>9. Exact(rare, freq, C', r + 1, f)
  <2>1. Exact(rare, freq,
              IF \E p \in Q : freq[p] = rare[r + 1] THEN Append(C, rare[r + 1]) ELSE C,
              r + 1, f)
    BY <1>1, <1>3, <1>6, <1>7, LookedFor
  <2> QED
    BY <1>1, <1>3, <1>8, <2>1
<1>10. /\ r + 1 \in Nat /\ r + 1 <= Len(rare) /\ r + 1 < Len(rare)
       /\ r + 2 \in 1 .. Len(rare) /\ r + 1 < r + 2 /\ r + 1 + 1 = r + 2
  BY <1>2, <1>4 DEF stopRare
<1>11. Len(C') \in Nat /\ Len(C') <= inside
  BY <1>2, <1>9, <1>10, Fits
<1>12. stored' \in Nat /\ stored' <= inside
  BY <1>1, <1>2, <1>11, StoredInside
<1>13. Basics'
  <2>1. stage' \in AllStages /\ UNCHANGED <<inputs, f, offset, lower>>
    BY <1>1 DEF AllStages
  <2>2. Exact(rare, freq, C', IF stage' = "done" THEN Len(rare) ELSE r', f')
    BY <1>1, <1>9
  <2> QED
    BY <1>1, <1>2, <1>10, <1>12, <2>1, <2>2, NextBasics
<1>14. SearchState'
  <2>1. rare' = rare /\ freq' = freq /\ f' = f /\ r' = r + 1 /\ stopFreq' = stopFreq
    BY <1>1 DEF inputs, stopFreq
  <2>2. rare[r + 1] < rare[r + 2] /\ rare[r + 2] \in Nat
    BY ONLY <1>2, <1>3, <1>10, AscendingPlaces
  <2>3. f > 0 => freq[f] < rare[r + 1 + 1]
    <3>1. f > 0 => freq[f] < rare[r + 1] /\ freq[f] \in Nat
      BY <1>2, <1>3 DEF Passed
    <3> QED
      BY <1>3, <1>10, <2>2, <3>1
  <2>4. Passed'
    BY <2>1, <2>3 DEF Passed
  <2> QED
    BY <1>1, <1>3, <1>10, <2>1, <2>4 DEF SearchState
<1> QED
  BY <1>1, <1>13, <1>14, AtSearch
-----------------------------------------------------------------------------
\* Wherever a function begins, it has passed nothing.
LEMMA InitInv == Init => IInv
<1> SUFFICES ASSUME Init PROVE IInv
  OBVIOUS
<1>1. /\ r = 0 /\ f = 0 /\ offset = 0 /\ lower = 0 /\ C = << >> /\ stored = 0
      /\ stage = Dispatch(callee, rare, freq)
  BY DEF Init
<1>2. PICK in \in Inputs : \E A \in in[2], B \in in[3] :
        /\ callee \in in[1]
        /\ IF Len(A) > Len(B) THEN rare = B /\ freq = A ELSE rare = A /\ freq = B
  BY DEF Init
<1>3. PICK A \in in[2], B \in in[3] :
        /\ callee \in in[1]
        /\ IF Len(A) > Len(B) THEN rare = B /\ freq = A ELSE rare = A /\ freq = B
  BY <1>2
<1>4. /\ rare \in Seq(Nat) /\ Ascending(rare) /\ freq \in Seq(Nat) /\ Ascending(freq)
      /\ callee \in {"set_intersect", "v1", "v3", "ibm"}
  BY <1>3, IntersectAssumption
<1>5. /\ Len(rare) \in Nat /\ Len(freq) \in Nat
      /\ SPAN \in Nat /\ SPAN >= 2 /\ STRIDE \in Nat /\ STRIDE >= 4
      /\ VEC \in Nat /\ VEC >= 1
      /\ \A p \in 1 .. Len(rare) : rare[p] \in Nat
      /\ \A p \in 1 .. Len(freq) : freq[p] \in Nat
  BY <1>4, Widths
<1>6. \A n \in Nat : n = 0 => Exact(rare, freq, << >>, n, 0)
  <2>1. Before(rare, 0) = {} /\ Before(freq, 0) = {}
    BY 1 .. 0 = {} DEF Before
  <2>2. ToSet(<< >>) = {} /\ << >> \in Seq(Nat) /\ Ascending(<< >>)
    <3>1. << >> \in Seq(Nat) /\ Len(<< >>) = 0 /\ DOMAIN << >> = {} /\ 1 .. 0 - 1 = {}
      OBVIOUS
    <3> QED
      BY <3>1 DEF ToSet, Ascending
  <2> QED
    BY <2>1, <2>2 DEF Exact
<1>7. /\ stage \in AllStages
      /\ stage = "done" => Len(rare) = 0
      /\ stage \notin {"gallop", "bisect", "probe", "linear"}
      /\ stage \in {"rare", "first"} => Len(rare) # 0 /\ STRIDE <= Len(freq)
      /\ stage \in {"advance_rare", "advance_freq"} => Len(rare) # 0 /\ SPAN <= Len(freq)
      /\ stage = "advance_rare" => ~ At(freq, SPAN - 1) < At(rare, 0)
      /\ stage = "advance_freq" => At(freq, SPAN - 1) < At(rare, 0)
  <2>1. CASE callee = "set_intersect"
    BY <1>1, <1>5, <2>1 DEF Dispatch, ByRatio, AllStages
  <2>2. CASE callee = "ibm"
    BY <1>1, <2>2 DEF Dispatch, AllStages
  <2>3. CASE callee = "v1"
    BY <1>1, <1>5, <2>3 DEF Dispatch, AllStages
  <2>4. CASE callee = "v3"
    BY <1>1, <1>5, <2>4 DEF Dispatch, AllStages
  <2> QED
    BY <1>4, <2>1, <2>2, <2>3, <2>4
<1>8. TypeOK
  BY <1>1, <1>4, <1>5, <1>7 DEF TypeOK, AllStages
<1>9. ExactNow
  <2>1. (IF stage = "done" THEN Len(rare) ELSE r) = 0
    BY <1>1, <1>7
  <2> QED
    BY <1>1, <1>6, <2>1 DEF ExactNow
<1>10. Passed
  BY <1>1 DEF Passed
<1>11. /\ stage \in {"rare", "first"} => f <= stopFreq
       /\ stage \in {"advance_rare", "advance_freq"} => f + SPAN <= Len(freq) /\ r < Len(rare)
  BY <1>1, <1>5, <1>7 DEF stopFreq
<1>12. stored <= inside
  BY <1>1, <1>5 DEF inside
<1>13. Positions
  BY <1>7, <1>8, <1>11, <1>12 DEF Positions, AheadInFreq, inside
<1>14. MergeState
  <2>1. 0 = 0 * VEC /\ 0 = 0 * SPAN
    BY <1>5
  <2> QED
    BY <1>1, <2>1 DEF MergeState, Multiple
<1>15. SpanState
  <2>1. /\ f + SPAN - 1 = SPAN - 1 /\ SPAN - 1 + 1 = SPAN
    BY <1>1, <1>5
  <2>2. stage \in {"advance_rare", "advance_freq"} =>
          At(freq, SPAN - 1) \in Nat /\ At(rare, 0) \in Nat
    <3>1. stage \in {"advance_rare", "advance_freq"} =>
            SPAN \in 1 .. Len(freq) /\ 0 + 1 \in 1 .. Len(rare)
      BY <1>5, <1>7
    <3> QED
      BY <1>5, <2>1, <3>1 DEF At
  <2> QED
    BY <1>1, <1>7, <1>10, <2>1, <2>2 DEF SpanState
<1>16. SearchState
  <2>1. stage \in {"rare", "first"} => r < Len(rare)
    BY <1>1, <1>5, <1>7
  <2> QED
    BY <1>1, <1>7, <1>10, <1>11, <2>1 DEF SearchState
<1> QED
  BY <1>9, <1>13, <1>14, <1>15, <1>16 DEF IInv

LEMMA NextInv == IInv /\ [Next]_vars => IInv'
<1> SUFFICES ASSUME IInv, [Next]_vars PROVE IInv'
  OBVIOUS
<1>1. CASE UNCHANGED vars
  BY <1>1 DEF vars, inputs, IInv, Positions, AheadInFreq, TypeOK, ExactNow, Exact, MergeState,
              SpanState, SearchState, Passed, Multiple, Trimmed, StrideMax, At, Ascending,
              Before, stopFreq, stopRare
<1>2. CASE Terminated
  BY <1>1, <1>2 DEF Terminated
<1>3. CASE Step
  BY <1>3, MergeBlocksStep, MergeTailStep, MergeSpansStep, SpansTailStep, AdvanceRareStep,
     AdvanceFreqStep, FirstStrideStep, LinearSearchStep, NextRareStep, GallopStep,
     BisectStep, ProbeStep, ScalarStep DEF Step
<1> QED
  BY <1>1, <1>2, <1>3 DEF Next

\* The inductive invariant holds for arrays of any lengths and any widths.
THEOREM IntersectInvariance == SafeSpec => []IInv
<1>1. Init => IInv
  BY InitInv
<1>2. IInv /\ [Next]_vars => IInv'
  BY NextInv
<1> QED
  BY <1>1, <1>2, PTL DEF SafeSpec
-----------------------------------------------------------------------------
(* How far the arrays are read                                             *)

\* Only v1 comes to the stages that read ahead of their tests.
ReadsInv ==
  /\ callee \in {"set_intersect", "v1", "v3", "ibm"}
  /\ stage \in {"advance_rare", "advance_freq"} => callee = "v1"
  /\ readRare \in 0 .. Len(rare) + behindRare
  /\ readFreq \in 0 .. Len(freq) + behindFreq

\* One more access of each array.
LEMMA ReadsInside ==
  ASSUME IInv, ReadsInv, UNCHANGED inputs, NEW m \in Nat, NEW n \in Nat, Reads(m, n),
         m <= Len(rare) + behindRare, n <= Len(freq) + behindFreq,
         stage' \in {"advance_rare", "advance_freq"} => callee = "v1"
  PROVE  ReadsInv'
<1>1. /\ rare' = rare /\ freq' = freq /\ callee' = callee
      /\ behindRare' = behindRare /\ behindFreq' = behindFreq
  BY DEF inputs, behindRare, behindFreq
<1>2. /\ Len(rare) \in Nat /\ Len(freq) \in Nat /\ behindRare \in Nat /\ behindFreq \in Nat
  BY State, Widths DEF behindRare, behindFreq
<1>3. /\ readRare \in 0 .. Len(rare) + behindRare /\ readFreq \in 0 .. Len(freq) + behindFreq
      /\ callee \in {"set_intersect", "v1", "v3", "ibm"}
  BY DEF ReadsInv
<1>4. /\ readRare' = (IF readRare > m THEN readRare ELSE m)
      /\ readFreq' = (IF readFreq > n THEN readFreq ELSE n)
  BY DEF Reads, Larger
<1>5. readRare' \in 0 .. Len(rare) + behindRare /\ readFreq' \in 0 .. Len(freq) + behindFreq
  BY ONLY <1>2, <1>3, <1>4, m \in Nat, n \in Nat,
          m <= Len(rare) + behindRare, n <= Len(freq) + behindFreq
<1> QED
  BY <1>1, <1>3, <1>5 DEF ReadsInv

\* No access.
LEMMA NothingRead ==
  ASSUME ReadsInv, UNCHANGED <<inputs, reads>>,
         stage' \in {"advance_rare", "advance_freq"} => callee = "v1"
  PROVE  ReadsInv'
BY DEF ReadsInv, inputs, reads, behindRare, behindFreq

\* A stride read by a search.
LEMMA StrideInside ==
  ASSUME IInv, ReadsInv, UNCHANGED inputs, Searching, NEW n \in Nat, ReadsStride(n),
         f + STRIDE * n <= stopFreq, stage' \notin {"advance_rare", "advance_freq"}
  PROVE  ReadsInv'
<1>1. /\ r \in Nat /\ f \in Nat /\ Len(rare) \in Nat /\ freq \in Seq(Nat) /\ Len(freq) \in Nat
  BY State
<1>2. r + 1 \in Nat /\ r + 1 <= Len(rare)
  BY <1>1, SearchFacts
<1>3. f + STRIDE * n + STRIDE \in 1 .. Len(freq)
  BY <1>1, StrideEnds DEF stopFreq
<1>4. behindRare \in Nat /\ behindFreq \in Nat
  BY Widths DEF behindRare, behindFreq
<1> DEFINE end == f + STRIDE * n + STRIDE
<1>5. end \in 1 .. Len(freq) /\ Reads(r + 1, end)
  BY <1>3 DEF ReadsStride
<1> HIDE DEF end
<1>6. end \in Nat /\ r + 1 <= Len(rare) + behindRare /\ end <= Len(freq) + behindFreq
  BY ONLY <1>1, <1>2, <1>4, <1>5
<1> QED
  BY <1>2, <1>5, <1>6, ReadsInside

LEMMA ReadsStep == ASSUME IInv, ReadsInv, [Next]_vars PROVE ReadsInv'
<1>1. /\ rare \in Seq(Nat) /\ Len(rare) \in Nat /\ freq \in Seq(Nat) /\ Len(freq) \in Nat
      /\ r \in Nat /\ r <= Len(rare) /\ f \in Nat /\ f <= Len(freq) /\ offset \in Nat /\ lower \in Nat
  BY State
<1>2. /\ VEC \in Nat /\ VEC >= 1 /\ SPAN \in Nat /\ SPAN = 2 * VEC
      /\ STRIDE \in Nat /\ STRIDE >= 4 /\ STRIDE * 0 = 0
  BY Widths DEF SPAN
<1>3. behindRare \in Nat /\ behindFreq \in Nat
  BY <1>2 DEF behindRare, behindFreq
\* The strides known to end inside freq.
<1>4. Searching => f + STRIDE * 0 <= stopFreq
  BY <1>1, <1>2, SearchFacts
<1>5. CASE MergeBlocks
  <2>1. /\ stage = "merge" /\ stage' = "merge" /\ UNCHANGED inputs
        /\ r < Trimmed(rare) /\ f < Trimmed(freq) /\ Reads(r + VEC, f + VEC)
    BY <1>5 DEF MergeBlocks
  <2>2. Multiple(r, VEC) /\ Multiple(f, VEC)
    BY <2>1 DEF IInv, MergeState
  <2>3. /\ Trimmed(rare) \in Nat /\ Trimmed(rare) <= Len(rare) /\ r + VEC <= Trimmed(rare)
        /\ Trimmed(freq) \in Nat /\ Trimmed(freq) <= Len(freq) /\ f + VEC <= Trimmed(freq)
    BY ONLY <1>1, <1>2, <2>1, <2>2, WholeBlocks DEF Trimmed
  <2>4. /\ r + VEC \in Nat /\ r + VEC <= Len(rare) + behindRare
        /\ f + VEC \in Nat /\ f + VEC <= Len(freq) + behindFreq
    BY ONLY <1>1, <1>2, <1>3, <2>3
  <2> QED
    BY <2>1, <2>4, ReadsInside
<1>6. CASE MergeSpans
  <2>1. /\ stage = "spans" /\ stage' = "spans" /\ UNCHANGED inputs
        /\ r < InSpans(rare) /\ f < InSpans(freq) /\ Reads(r + SPAN, f + SPAN)
    BY <1>6 DEF MergeSpans
  <2>2. Multiple(r, SPAN) /\ Multiple(f, SPAN) /\ SPAN >= 1
    BY <1>2, <2>1 DEF IInv, MergeState
  <2>3. /\ InSpans(rare) \in Nat /\ InSpans(rare) <= Len(rare) /\ r + SPAN <= InSpans(rare)
        /\ InSpans(freq) \in Nat /\ InSpans(freq) <= Len(freq) /\ f + SPAN <= InSpans(freq)
    BY ONLY <1>1, <1>2, <2>1, <2>2, WholeBlocks DEF InSpans
  <2>4. /\ r + SPAN \in Nat /\ r + SPAN <= Len(rare) + behindRare
        /\ f + SPAN \in Nat /\ f + SPAN <= Len(freq) + behindFreq
    BY ONLY <1>1, <1>2, <1>3, <2>3
  <2> QED
    BY <2>1, <2>4, ReadsInside
<1>7. CASE MergeTail \/ SpansTail
  <2>1. stage' = "scalar" /\ UNCHANGED <<inputs, reads>>
    BY <1>7 DEF MergeTail, SpansTail
  <2> QED
    BY <2>1, NothingRead
\* v1 reads the cell behind the element and the span at f.
<1>8. CASE AdvanceRare
  <2>1. stage = "advance_rare" /\ UNCHANGED inputs /\ Reads(r + 2, f + SPAN)
    BY <1>8 DEF AdvanceRare
  <2>2. /\ f + SPAN <= Len(freq) /\ r < Len(rare) /\ callee = "v1" /\ behindRare = 1
    BY <2>1 DEF IInv, Positions, AheadInFreq, ReadsInv, behindRare
  <2>3. /\ r + 2 \in Nat /\ r + 2 <= Len(rare) + behindRare
        /\ f + SPAN \in Nat /\ f + SPAN <= Len(freq) + behindFreq
    BY ONLY <1>1, <1>2, <1>3, <2>2
  <2> QED
    BY <2>1, <2>2, <2>3, ReadsInside
\* v1 reads the end of the span behind that at f.
<1>9. CASE AdvanceFreq
  <2>1. stage = "advance_freq" /\ UNCHANGED inputs /\ Reads(r + 1, f + 2 * SPAN)
    BY <1>9 DEF AdvanceFreq
  <2>2. /\ f + SPAN <= Len(freq) /\ r < Len(rare) /\ callee = "v1" /\ behindFreq = SPAN
    BY <2>1 DEF IInv, Positions, AheadInFreq, ReadsInv, behindFreq
  <2>3. /\ r + 1 \in Nat /\ r + 1 <= Len(rare) + behindRare
        /\ f + 2 * SPAN \in Nat /\ f + 2 * SPAN <= Len(freq) + behindFreq
    BY ONLY <1>1, <1>2, <1>3, <2>2
  <2> QED
    BY <2>1, <2>2, <2>3, ReadsInside
<1>10. CASE FirstStride
  <2>1. /\ stage = "first" /\ UNCHANGED inputs /\ ReadsStride(0)
        /\ stage' \in {"first", "linear", "scalar"}
    BY <1>10 DEF FirstStride, NextStride, Enter
  <2> QED
    BY <1>4, <2>1, StrideInside DEF Searching
<1>11. CASE LinearSearch
  <2>1. /\ stage = "linear" /\ UNCHANGED inputs
        /\ ReadsStride(0) \/ UNCHANGED reads
        /\ stage' \in {"linear", "probe", "scalar"}
    BY <1>11 DEF LinearSearch, NextStride, Enter
  <2>2. CASE ReadsStride(0)
    BY <1>4, <2>1, <2>2, StrideInside DEF Searching
  <2>3. CASE UNCHANGED reads
    <3>1. UNCHANGED <<inputs, reads>>
      BY <2>1, <2>3
    <3> QED
      BY <2>1, <3>1, NothingRead
  <2> QED
    BY <2>1, <2>2, <2>3
<1>12. CASE NextRare
  <2>1. /\ stage = "rare" /\ UNCHANGED inputs
        /\ ReadsStride(0) \/ UNCHANGED reads
        /\ stage' \in {"gallop", "probe", "scalar"}
    BY <1>12 DEF NextRare
  <2>2. CASE ReadsStride(0)
    BY <1>4, <2>1, <2>2, StrideInside DEF Searching
  <2>3. CASE UNCHANGED reads
    <3>1. UNCHANGED <<inputs, reads>>
      BY <2>1, <2>3
    <3> QED
      BY <2>1, <3>1, NothingRead
  <2> QED
    BY <2>1, <2>2, <2>3
<1>13. CASE Gallop
  <2> DEFINE last == (stopFreq - f) \div STRIDE
  <2>1. /\ stage = "gallop" /\ UNCHANGED inputs /\ stage' \in {"gallop", "bisect", "scalar"}
        /\ ReadsStride(offset) \/ ReadsStride(last)
    <3> HIDE DEF last
    <3> QED
      BY <1>13 DEF Gallop, GiveUp, Bracket, last
  <2>2. f + STRIDE * offset <= stopFreq
    BY <2>1 DEF IInv, Positions, AheadInFreq
  <2>3. last \in Nat /\ f + STRIDE * last <= stopFreq
    <3>1. stopFreq - f \in Nat
      BY <1>1, <1>2, <2>1, SearchFacts DEF Searching, stopFreq
    <3>2. STRIDE \in Nat /\ STRIDE >= 1
      BY <1>2
    <3>3. last \in Nat /\ STRIDE * last <= stopFreq - f
      BY ONLY <3>1, <3>2, Quotient
    <3> HIDE DEF last
    <3>4. STRIDE * last \in Nat /\ stopFreq \in Int
      BY <1>1, <1>2, <3>3 DEF stopFreq
    <3> QED
      BY ONLY <1>1, <3>3, <3>4
  <2> HIDE DEF last
  <2> QED
    BY <1>1, <2>1, <2>2, <2>3, StrideInside DEF Searching
<1>14. CASE Bisect
  <2> DEFINE mid == (lower + offset) \div 2
  <2>1. /\ stage = "bisect" /\ UNCHANGED inputs /\ stage' \in {"bisect", "probe"}
        /\ ReadsStride(mid) \/ UNCHANGED reads
    <3> HIDE DEF mid
    <3> QED
      BY <1>14 DEF Bisect, mid
  <2>2. f + STRIDE * offset <= stopFreq /\ lower < offset
    BY <2>1 DEF IInv, Positions, AheadInFreq, SearchState
  <2>3. mid \in Nat /\ mid <= offset
    BY <1>1, <2>2
  <2> HIDE DEF mid
  <2>4. f + STRIDE * mid <= stopFreq
    BY <1>1, <2>2, <2>3, StrideOrder
  <2> QED
    BY <2>1, <2>3, <2>4, StrideInside, NothingRead DEF Searching
<1>15. CASE Probe
  <2>1. /\ stage = "probe" /\ UNCHANGED inputs /\ ReadsStride(0)
        /\ stage' \in {"linear", "rare"}
    BY <1>15 DEF Probe
  <2> QED
    BY <1>4, <2>1, StrideInside DEF Searching
<1>16. CASE Scalar
  <2>1. /\ stage = "scalar" /\ UNCHANGED inputs /\ stage' \in {"scalar", "done"}
    BY <1>16 DEF Scalar
  <2>2. CASE r = Len(rare) \/ f = Len(freq)
    <3>1. UNCHANGED reads
      BY <1>16, <2>2 DEF Scalar
    <3> QED
      BY <2>1, <3>1, NothingRead
  <2>3. CASE ~ (r = Len(rare) \/ f = Len(freq))
    <3>1. Reads(r + 1, f + 1)
      BY <1>16, <2>3 DEF Scalar
    <3>2. /\ r + 1 \in Nat /\ r + 1 <= Len(rare) + behindRare
          /\ f + 1 \in Nat /\ f + 1 <= Len(freq) + behindFreq
      BY <1>1, <1>3, <2>3
    <3> QED
      BY <2>1, <3>1, <3>2, ReadsInside
  <2> QED
    BY <2>2, <2>3
<1>17. CASE UNCHANGED vars
  BY <1>17, NothingRead DEF vars, ReadsInv
<1> QED
  BY <1>5, <1>6, <1>7, <1>8, <1>9, <1>10, <1>11, <1>12, <1>13, <1>14, <1>15, <1>16, <1>17
     DEF Next, Step, Terminated

LEMMA ReadsInit == Init => ReadsInv
<1> SUFFICES ASSUME Init PROVE ReadsInv
  OBVIOUS
<1>1. IInv
  BY InitInv
<1>2. /\ stage = Dispatch(callee, rare, freq)
      /\ readRare = (IF stage \in {"advance_rare", "advance_freq"} THEN 1 ELSE 0)
      /\ readFreq = (IF stage \in {"advance_rare", "advance_freq"} THEN SPAN ELSE 0)
  BY DEF Init
<1>3. callee \in {"set_intersect", "v1", "v3", "ibm"}
  BY IntersectAssumption DEF Init
<1>4. stage \in {"advance_rare", "advance_freq"} => callee = "v1"
  BY <1>2, <1>3 DEF Dispatch, ByRatio
<1>5. /\ Len(rare) \in Nat /\ Len(freq) \in Nat /\ r \in Nat /\ f \in Nat
      /\ SPAN \in Nat /\ behindRare \in Nat /\ behindFreq \in Nat
  BY <1>1, State, Widths DEF behindRare, behindFreq
<1>6. stage \in {"advance_rare", "advance_freq"} => f + SPAN <= Len(freq) /\ r < Len(rare)
  BY <1>1 DEF IInv, Positions, AheadInFreq
<1>7. readRare \in 0 .. Len(rare) + behindRare /\ readFreq \in 0 .. Len(freq) + behindFreq
  BY ONLY <1>2, <1>5, <1>6
<1> QED
  BY <1>3, <1>4, <1>7 DEF ReadsInv

\* Every access is inside the arrays, but for the one cell behind rare and the one span
\* behind freq that v1 reads before its tests; and the result never reaches further than
\* a block beyond the shorter of the arrays.
THEOREM StaysInBoundsHolds == SafeSpec => []StaysInBounds
<1>1. IInv /\ ReadsInv => StaysInBounds
  BY DEF IInv, Positions, ReadsInv, StaysInBounds
<1>2. Init => IInv /\ ReadsInv
  BY InitInv, ReadsInit
<1>3. (IInv /\ ReadsInv) /\ [Next]_vars => (IInv /\ ReadsInv)'
  BY NextInv, ReadsStep
<1> QED
  BY <1>1, <1>2, <1>3, PTL DEF SafeSpec

\* What has been found is at every step what the arrays have in common before the
\* positions, in increasing order, and at the end all of it.
THEOREM ExactSoFarHolds == SafeSpec => []ExactSoFar
<1>1. ASSUME IInv PROVE ExactSoFar
  <2>1. /\ rare \in Seq(Nat) /\ Len(rare) \in Nat /\ r \in Nat /\ r <= Len(rare)
        /\ freq \in Seq(Nat) /\ Len(freq) \in Nat /\ f \in Nat /\ f <= Len(freq)
        /\ Ascending(rare) /\ Ascending(freq)
    BY <1>1, State
  <2>2. ASSUME NEW s \in Seq(Nat), Ascending(s), NEW n \in Nat, n <= Len(s)
        PROVE  ToSet(SubSeq(s, 1, n)) = Before(s, n)
    <3>1. 0 + n <= Len(s) /\ 0 + 1 = 1 /\ 0 + n = n
      BY <2>2
    <3>2. ToSet(SubSeq(s, 0 + 1, 0 + n)) = {s[q] : q \in 0 + 1 .. 0 + n}
      BY ONLY <3>1, s \in Seq(Nat), Ascending(s), 0 \in Nat, n \in Nat, BlockOf
    <3> QED
      BY <3>1, <3>2 DEF Before
  <2>3. ToSet(rare) = Before(rare, Len(rare))
    <3>1. DOMAIN rare = 1 .. Len(rare)
      BY <2>1
    <3> QED
      BY <3>1 DEF ToSet, Before
  <2>4. /\ ToSet(SubSeq(rare, 1, r)) = Before(rare, r)
        /\ ToSet(SubSeq(freq, 1, f)) = Before(freq, f)
    BY <2>1, <2>2
  <2>5. ExactNow
    BY <1>1 DEF IInv
  <2>6. CASE stage = "done"
    BY <2>3, <2>5, <2>6 DEF ExactNow, Exact, ExactSoFar
  <2>7. CASE stage # "done"
    BY <2>4, <2>5, <2>7 DEF ExactNow, Exact, ExactSoFar
  <2> QED
    BY <2>6, <2>7
<1> QED
  BY <1>1, IntersectInvariance, PTL
==============================================================================
