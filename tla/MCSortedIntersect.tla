-------------------------- MODULE MCSortedIntersect --------------------------
(* For the merges: all pairs of subsets of 0 .. Universe, and for spans     *)
(* arrays of two spans with few numbers missing.  For the searches: the     *)
(* odd numbers, as many as one of the lengths, against every set of up to   *)
(* three numbers, so that each lies on or between any two of them.          *)
EXTENDS SortedIntersect, FiniteSets

CONSTANTS Universe,   \* largest element of the sets for the merge
          Lengths,    \* lengths of the arrays searched by strides that double
          Shorter     \* lengths of those searched one stride after the other

\* The elements of S, a set of numbers up to 9, in order.
Sorted(S) == SelectSeq([p \in 1 .. 10 |-> p - 1], LAMBDA x : x \in S)
SortedOf(sets) == {Sorted(S) : S \in sets}

ForMerge ==
  {<<{"set_intersect"}, SortedOf(SUBSET (0 .. Universe)), SortedOf(SUBSET (0 .. Universe))>>,
   <<{"v1", "v3", "ibm"}, SortedOf(SUBSET (0 .. Universe - 1)),
                          SortedOf(SUBSET (0 .. Universe - 1))>>}
ForSpans ==
  {<<{"ibm", "v1"}, SortedOf({S \in SUBSET (0 .. 9) : Cardinality(S) = 5}),
                    SortedOf({S \in SUBSET (0 .. 9) : Cardinality(S) = 8})>>}

Odd(n) == [p \in 1 .. n |-> 2 * p - 1]
UpToThree(n) ==
  {<< >>} \cup {<<x>> : x \in 0 .. 2 * n}
    \cup {s \in (0 .. 2 * n) \X (0 .. 2 * n) : Ascending(s)}
    \cup {s \in (0 .. 2 * n) \X (0 .. 2 * n) \X (0 .. 2 * n) : Ascending(s)}
ForSearch ==
  {<<{"set_intersect"}, UpToThree(n), {Odd(n)}>> : n \in Lengths}
    \cup {<<{"v1", "v3"}, UpToThree(n), {Odd(n)}>> : n \in Shorter}

MCInputs == ForMerge \cup ForSpans \cup ForSearch
==============================================================================
