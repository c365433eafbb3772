--------------------------- MODULE SortedIntersect ---------------------------
(***************************************************************************)
(* The intersection of two sets in the uinteger layout, strictly           *)
(* increasing arrays.  set_intersect sends them by the ratio of their      *)
(* lengths to the merge that compares blocks of VEC elements               *)
(* (set_intersect_standard) or to the galloping search of the longer array *)
(* in strides of 4 * QUARTER elements (set_intersect_galloping).  Others   *)
(* call set_intersect_v1, a search in spans of two blocks, v3, a search of *)
(* one stride after the other, or ibm, a merge of spans.  All end with the *)
(* scalar merge.                                                           *)
(*                                                                         *)
(* Positions count from 0, as in the code; At(s, p) is s[p] of the code.   *)
(***************************************************************************)
EXTENDS Integers, Sequences, SortedSets

CONSTANTS Inputs,    \* triples of functions called and two sets of increasing sequences,
                     \* of which one each is intersected
          VEC,       \* elements compared at once by the merge, 4 in the code
          QUARTER,   \* elements compared at once by the search, 32 in the code
          RATIO,     \* above which ratio of lengths the search is used, 32
          HALF       \* values of the lower half of an element, 65536

Ascending(s) == \A p \in 1 .. Len(s) - 1 : s[p] < s[p + 1]

ASSUME IntersectAssumption ==
  /\ \A in \in Inputs :
       /\ in[1] \subseteq {"set_intersect", "v1", "v3", "ibm"}
       /\ \A s \in in[2] \cup in[3] : s \in Seq(Nat) /\ Ascending(s)
  /\ VEC \in Nat \ {0}
  /\ QUARTER \in Nat \ {0}
  /\ RATIO \in Nat
  /\ HALF \in Nat \ {0}

VARIABLES callee,       \* the function called
          rare, freq,   \* the shorter and the longer input
          stage,
          r, f,         \* positions in rare and freq
          offset, lower,\* strides from f, during a search
          C,            \* the elements found so far
          stored,       \* the cells of the result written, found or not
          readRare, readFreq \* how far rare and freq have been read, in cells

inputs == <<callee, rare, freq>>
reads == <<readRare, readFreq>>
vars == <<inputs, stage, r, f, offset, lower, C, stored, reads>>

At(s, p) == s[p + 1]
Larger(x, y) == IF x > y THEN x ELSE y
STRIDE == 4 * QUARTER
SPAN == 2 * VEC

\* stopFreq and stopRare, as positions.
stopFreq == Len(freq) - STRIDE
stopRare == Len(rare) - 1

\* The largest element of the n-th stride from f.
StrideMax(n) == At(freq, f + STRIDE * n + STRIDE - 1)

\* Where set_intersect(Set<uinteger>*, ...) sends two arrays.
ByRatio(short, long) ==
  IF Len(long) \div Larger(1, Len(short)) > RATIO
  THEN IF Len(short) = 0 THEN "done"
       ELSE IF Len(long) < STRIDE THEN "scalar" ELSE "rare"
  ELSE "merge"

\* Where the function called begins.
Dispatch(function, short, long) ==
  CASE function = "set_intersect" -> ByRatio(short, long)
    [] function = "ibm" -> "spans"
    [] OTHER -> IF Len(short) = 0 THEN "done"
                ELSE IF Len(long) < (IF function = "v1" THEN SPAN ELSE STRIDE) THEN "scalar"
                ELSE IF function = "v3" THEN "first"
                ELSE IF At(long, SPAN - 1) < At(short, 0) THEN "advance_freq"
                ELSE "advance_rare"

Init ==
  /\ \E in \in Inputs : \E A \in in[2], B \in in[3] :
       /\ callee \in in[1]
       /\ IF Len(A) > Len(B) THEN rare = B /\ freq = A ELSE rare = A /\ freq = B
  /\ stage = Dispatch(callee, rare, freq)
  /\ r = 0
  /\ f = 0
  /\ offset = 0
  /\ lower = 0
  /\ C = << >>
  /\ stored = 0
  /\ readRare = IF stage \in {"advance_rare", "advance_freq"} THEN 1 ELSE 0
  /\ readFreq = IF stage \in {"advance_rare", "advance_freq"} THEN SPAN ELSE 0

\* The elements of a at the places P, in their order: what a shuffle moves to the front.
Compress(a, P) == [i \in 1 .. Cardinality(P) |-> a[Increasing(P)[i]]]

\* The places of a, from the first on, of elements that b holds.
Matches(a, b, first) == {p \in first .. Len(a) : a[p] \in ToSet(b)}

\* The cells of the result up to n have been written.
Stores(n) == stored' = Larger(stored, n)

\* The cells of rare up to m and of freq up to n have been read, whether the values are
\* used or not.
Reads(m, n) ==
  /\ readRare' = Larger(readRare, m)
  /\ readFreq' = Larger(readFreq, n)

\* The element at r and the n-th stride from f.
ReadsStride(n) == Reads(r + 1, f + STRIDE * n + STRIDE)

-----------------------------------------------------------------------------
(* set_intersect_standard                                                  *)

\* Lengths trimmed to whole blocks.
Trimmed(s) == (Len(s) \div VEC) * VEC

Block(s, p) == SubSeq(s, p + 1, p + VEC)

\* Compare two blocks all against all, store a whole block that begins with the
\* matches, and leave the block with the smaller maximum.
MergeBlocks ==
  LET a == Block(rare, r)  b == Block(freq, f)
  IN  /\ stage = "merge"
      /\ r < Trimmed(rare) /\ f < Trimmed(freq)
      /\ Reads(r + VEC, f + VEC)
      /\ C' = C \o Compress(a, Matches(a, b, 1))
      /\ Stores(Len(C) + VEC)
      /\ r' = IF a[VEC] <= b[VEC] THEN r + VEC ELSE r
      /\ f' = IF a[VEC] >= b[VEC] THEN f + VEC ELSE f
      /\ UNCHANGED <<inputs, stage, offset, lower>>

MergeTail ==
  /\ stage = "merge"
  /\ r >= Trimmed(rare) \/ f >= Trimmed(freq)
  /\ stage' = "scalar"
  /\ UNCHANGED <<inputs, r, f, offset, lower, C, stored, reads>>

-----------------------------------------------------------------------------
(* set_intersect_ibm                                                       *)

Span(s, p) == SubSeq(s, p + 1, p + SPAN)
InSpans(s) == (Len(s) \div SPAN) * SPAN

\* The places of a that hold a lower and an upper half which b holds, of whichever
\* elements.
Candidates(a, b) ==
  {p \in 1 .. SPAN : /\ a[p] % HALF \in {x % HALF : x \in ToSet(b)}
                     /\ a[p] \div HALF \in {x \div HALF : x \in ToSet(b)}}

\* The spans are merged from the first candidate on.
MergeSpans ==
  LET a == Span(rare, r)  b == Span(freq, f)
      from == Candidates(a, b)
  IN  /\ stage = "spans"
      /\ r < InSpans(rare) /\ f < InSpans(freq)
      /\ Reads(r + SPAN, f + SPAN)
      /\ C' = IF from = {} THEN C
              ELSE C \o Compress(a, Matches(a, b, Min(from)))
      /\ Stores(Len(C'))
      /\ r' = IF a[SPAN] <= b[SPAN] THEN r + SPAN ELSE r
      /\ f' = IF a[SPAN] >= b[SPAN] THEN f + SPAN ELSE f
      /\ UNCHANGED <<inputs, stage, offset, lower>>

SpansTail ==
  /\ stage = "spans"
  /\ r >= InSpans(rare) \/ f >= InSpans(freq)
  /\ stage' = "scalar"
  /\ UNCHANGED <<inputs, r, f, offset, lower, C, stored, reads>>

-----------------------------------------------------------------------------
(* set_intersect_v1                                                        *)

\* The element is stored in any case, and kept if it is in the span at f; the last of
\* rare is left to the scalar merge.  The next element is read before it is known that
\* there is one.
AdvanceRare ==
  /\ stage = "advance_rare"
  /\ Stores(Len(C) + 1)
  /\ Reads(r + 2, f + SPAN)
  /\ IF r + 1 = Len(rare)
     THEN stage' = "scalar" /\ UNCHANGED <<r, C>>
     ELSE /\ C' = IF At(rare, r) \in ToSet(Span(freq, f)) THEN Append(C, At(rare, r)) ELSE C
          /\ r' = r + 1
          /\ stage' = IF At(freq, f + SPAN - 1) >= At(rare, r + 1)
                      THEN stage ELSE "advance_freq"
  /\ UNCHANGED <<inputs, f, offset, lower>>

\* The maximum of the next span is read before it is known that there is one.
AdvanceFreq ==
  /\ stage = "advance_freq"
  /\ Reads(r + 1, f + 2 * SPAN)
  /\ IF f + SPAN >= Len(freq) - (SPAN - 1)
     THEN stage' = "scalar" /\ UNCHANGED f
     ELSE /\ f' = f + SPAN
          /\ stage' = IF At(freq, f + 2 * SPAN - 1) < At(rare, r)
                      THEN stage ELSE "advance_rare"
  /\ UNCHANGED <<inputs, r, offset, lower, C, stored>>

-----------------------------------------------------------------------------
(* set_intersect_v3                                                        *)

\* One stride on, if a stride is left.
NextStride ==
  /\ f' = f + STRIDE
  /\ stage' = IF f + STRIDE > stopFreq THEN "scalar" ELSE stage
  /\ UNCHANGED <<inputs, r, offset, lower, C, stored>>

Enter(next) == stage' = next /\ UNCHANGED <<inputs, r, f, offset, lower, C, stored>>

FirstStride ==
  /\ stage = "first"
  /\ ReadsStride(0)
  /\ IF StrideMax(0) < At(rare, 0) THEN NextStride ELSE Enter("linear")

LinearSearch ==
  /\ stage = "linear"
  /\ IF r >= stopRare THEN Enter("scalar") /\ UNCHANGED reads
     ELSE /\ ReadsStride(0)
          /\ IF StrideMax(0) < At(rare, r) THEN NextStride ELSE Enter("probe")

-----------------------------------------------------------------------------
(* set_intersect_galloping                                                 *)

\* The head of the loop over rare: is a match in the stride at f possible?
NextRare ==
  /\ stage = "rare"
  /\ \/ /\ r >= stopRare
        /\ stage' = "scalar"
        /\ UNCHANGED <<f, offset, reads>>
     \/ /\ r < stopRare
        /\ ReadsStride(0)
        /\ StrideMax(0) >= At(rare, r)
        /\ stage' = "probe"
        /\ UNCHANGED <<f, offset>>
     \/ /\ r < stopRare
        /\ ReadsStride(0)
        /\ StrideMax(0) < At(rare, r)
        /\ f + STRIDE > stopFreq
        /\ f' = f + STRIDE
        /\ stage' = "scalar"
        /\ UNCHANGED offset
     \/ /\ r < stopRare
        /\ ReadsStride(0)
        /\ StrideMax(0) < At(rare, r)
        /\ f + STRIDE <= stopFreq
        /\ offset' = 1
        /\ stage' = "gallop"
        /\ UNCHANGED f
  /\ UNCHANGED <<inputs, r, lower, C, stored>>

\* The search of the rest of freq ended: the scalar merge goes on from there.
GiveUp(strides) ==
  /\ f' = f + STRIDE * strides
  /\ stage' = "scalar"
  /\ UNCHANGED <<offset, lower>>

\* offset is the first stride known to end at or above the element searched.
Bracket(strides) ==
  /\ offset' = strides
  /\ lower' = strides \div 2
  /\ stage' = "bisect"
  /\ UNCHANGED f

\* Fault of Gallop: the end of freq is not tested before doubling.
Gallop_Unbounded ==
  /\ stage = "gallop"
  /\ ReadsStride(offset)
  /\ \/ StrideMax(offset) >= At(rare, r) /\ Bracket(offset)
     \/ /\ StrideMax(offset) < At(rare, r)
        /\ IF f + offset * STRIDE <= stopFreq
           THEN /\ offset' = 2 * offset
                /\ UNCHANGED <<stage, f, lower>>
           ELSE GiveUp(offset)
  /\ UNCHANGED <<inputs, r, C, stored>>

\* The exponential search: double the distance while the stride there ends below
\* the element; near the end of freq try the last whole stride.
Gallop ==
  LET last == (stopFreq - f) \div STRIDE
  IN  /\ stage = "gallop"
      /\ \/ StrideMax(offset) >= At(rare, r) /\ Bracket(offset) /\ ReadsStride(offset)
         \/ /\ StrideMax(offset) < At(rare, r)
            /\ \/ /\ f + 2 * offset * STRIDE <= stopFreq
                  /\ ReadsStride(offset)
                  /\ offset' = 2 * offset
                  /\ UNCHANGED <<stage, f, lower>>
               \/ /\ f + 2 * offset * STRIDE > stopFreq
                  /\ f + (offset + 1) * STRIDE <= stopFreq
                  /\ ReadsStride(last)
                  /\ IF StrideMax(last) < At(rare, r) THEN GiveUp(last)
                                                      ELSE Bracket(last)
               \/ /\ f + (offset + 1) * STRIDE > stopFreq
                  /\ ReadsStride(offset)
                  /\ GiveUp(offset)
      /\ UNCHANGED <<inputs, r, C, stored>>

\* Faults of Bisect: it goes on until the ends meet, or a stride that ends at or above
\* the element is passed over.
Bisect_UntilMeet ==
  LET mid == (lower + offset) \div 2
  IN  /\ stage = "bisect"
      /\ IF lower # offset
         THEN /\ ReadsStride(mid)
              /\ IF StrideMax(mid) < At(rare, r)
                 THEN lower' = mid /\ UNCHANGED offset
                 ELSE offset' = mid /\ UNCHANGED lower
              /\ UNCHANGED <<stage, f>>
         ELSE /\ f' = f + STRIDE * offset
              /\ stage' = "probe"
              /\ UNCHANGED <<offset, lower, reads>>
      /\ UNCHANGED <<inputs, r, C, stored>>

Bisect_PassesOver ==
  LET mid == (lower + offset) \div 2
  IN  /\ stage = "bisect"
      /\ IF lower + 1 # offset
         THEN /\ ReadsStride(mid)
              /\ lower' = mid
              /\ UNCHANGED <<stage, f, offset>>
         ELSE /\ f' = f + STRIDE * offset
              /\ stage' = "probe"
              /\ UNCHANGED <<offset, lower, reads>>
      /\ UNCHANGED <<inputs, r, C, stored>>

\* The binary search between lower and offset.
Bisect ==
  LET mid == (lower + offset) \div 2
  IN  /\ stage = "bisect"
      /\ IF lower + 1 # offset
         THEN /\ ReadsStride(mid)
              /\ IF StrideMax(mid) < At(rare, r)
                 THEN lower' = mid /\ UNCHANGED offset
                 ELSE offset' = mid /\ UNCHANGED lower
              /\ UNCHANGED <<stage, f>>
         ELSE /\ f' = f + STRIDE * offset
              /\ stage' = "probe"
              /\ UNCHANGED <<offset, lower, reads>>
      /\ UNCHANGED <<inputs, r, C, stored>>

\* The quarter of the stride at f that may hold x, found by two comparisons.
QuarterOf(x) ==
  IF At(freq, f + 2 * QUARTER - 1) >= x
  THEN IF At(freq, f + QUARTER - 1) < x THEN 1 ELSE 0
  ELSE IF At(freq, f + 3 * QUARTER - 1) < x THEN 3 ELSE 2

\* Compare the element with every element of that quarter, within the stride at f.
Probe ==
  LET x == At(rare, r)
      q == f + QuarterOf(x) * QUARTER
  IN  /\ stage = "probe"
      /\ ReadsStride(0)
      /\ C' = IF \E p \in q .. q + QUARTER - 1 : At(freq, p) = x
              THEN Append(C, x) ELSE C
      /\ Stores(Len(C'))
      /\ r' = r + 1
      /\ stage' = IF callee = "v3" THEN "linear" ELSE "rare"
      /\ UNCHANGED <<inputs, f, offset, lower>>

-----------------------------------------------------------------------------
(* scalar                                                                  *)

\* One comparison of the heads; the smaller one, or both if equal, move on.
Scalar ==
  /\ stage = "scalar"
  /\ IF r = Len(rare) \/ f = Len(freq)
     THEN stage' = "done" /\ UNCHANGED <<r, f, C, reads>>
     ELSE /\ Reads(r + 1, f + 1)
          /\ C' = IF At(rare, r) = At(freq, f) THEN Append(C, At(rare, r)) ELSE C
          /\ r' = IF At(rare, r) <= At(freq, f) THEN r + 1 ELSE r
          /\ f' = IF At(rare, r) >= At(freq, f) THEN f + 1 ELSE f
          /\ UNCHANGED stage
  /\ Stores(Len(C'))
  /\ UNCHANGED <<inputs, offset, lower>>

Terminated == stage = "done" /\ UNCHANGED vars

Step ==
  \/ MergeBlocks \/ MergeTail \/ MergeSpans \/ SpansTail
  \/ AdvanceRare \/ AdvanceFreq \/ FirstStride \/ LinearSearch
  \/ NextRare \/ Gallop \/ Bisect \/ Probe \/ Scalar

Next == Step \/ Terminated

SafeSpec == Init /\ [][Next]_vars

\* The program is sequential: it runs on.
Spec == SafeSpec /\ WF_vars(Step)
-----------------------------------------------------------------------------
TypeOK ==
  /\ rare \in Seq(Nat) /\ Ascending(rare)
  /\ freq \in Seq(Nat) /\ Ascending(freq)
  /\ stage \in {"merge", "spans", "advance_rare", "advance_freq", "first", "linear",
               "rare", "gallop", "bisect", "probe", "scalar", "done"}
  /\ r \in 0 .. Len(rare)
  /\ f \in 0 .. Len(freq)
  /\ offset \in Nat
  /\ lower \in Nat
  /\ stored \in Nat

\* The strides and spans that the next step compares lie within freq.
AheadInFreq ==
  /\ stage = "rare" /\ r < stopRare => f <= stopFreq
  /\ stage \in {"first", "linear"} => f <= stopFreq
  /\ stage = "gallop" => f + STRIDE * offset <= stopFreq
  /\ stage = "bisect" => f + STRIDE * offset <= stopFreq
  /\ stage = "probe" => f <= stopFreq /\ r < Len(rare)
  /\ stage \in {"advance_rare", "advance_freq"} => f + SPAN <= Len(freq) /\ r < Len(rare)

\* How many cells behind rare and behind freq a function may read: v1 reads the next
\* element, and the maximum of the next span, before it tests whether they exist, and
\* uses neither if they do not.
behindRare == IF callee = "v1" THEN 1 ELSE 0
behindFreq == IF callee = "v1" THEN SPAN ELSE 0

\* The variables have their types and the arrays are accessed inside their bounds,
\* whichever way the search goes, except that v1 reads up to one cell behind rare and one
\* span behind freq; and of the result, which may be as long as rare, only the rest of
\* one block more is written.
StaysInBounds ==
  /\ TypeOK
  /\ AheadInFreq
  /\ readRare \in 0 .. Len(rare) + behindRare
  /\ readFreq \in 0 .. Len(freq) + behindFreq
  /\ stored <= Len(rare) + VEC - 1

\* No common element is passed over or found twice: at every step what has been
\* found is exactly the common elements that lie before r or before f, and at the end
\* all of them, in increasing order.
ExactSoFar ==
  LET before(s, n) == ToSet(SubSeq(s, 1, n))
      passed == IF stage = "done" THEN ToSet(rare)
                ELSE before(rare, r) \cup before(freq, f)
  IN  /\ C \in Seq(Nat) /\ Ascending(C)
      /\ ToSet(C) = ToSet(rare) \cap ToSet(freq) \cap passed

\* Every function returns.
Terminates == <>(stage = "done")
==============================================================================
