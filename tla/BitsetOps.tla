------------------------------ MODULE BitsetOps ------------------------------
(***************************************************************************)
(* The bitset layout and the operations on it: a bitset is the index of    *)
(* its first word and the words from there to the one that holds its last  *)
(* element.  Two bitsets are combined on the words they share, VEC at a    *)
(* time and then one by one; a bitset and an array, element by element.    *)
(* A hybrid set is an array or a bitset with a word that tells which; its  *)
(* operations look at that word and go on as those of the two layouts.     *)
(*                                                                         *)
(* A word is the set of its bits that are one.  A bitset of no elements    *)
(* has no bytes at all, here no words.                                     *)
(***************************************************************************)
EXTENDS SortedSets

CONSTANTS Words,        \* the words of the largest bitset considered
          WordBits,     \* BITS_PER_WORD, 64 in the code
          VEC,          \* words combined by one vector instruction, 4 in the code
          Sparsity      \* numbers per element below which a hybrid set is a bitset,
                        \* 1 / bitset_req, 256 in the code

ASSUME BitsetAssumption ==
  /\ Words \in Nat \ {0} /\ WordBits \in Nat \ {0} /\ VEC \in Nat \ {0}
  /\ Sparsity \in Nat \ {0}

Bit == 0 .. WordBits - 1
Universe == 0 .. Words * WordBits - 1
HybridCalls == {"hybrid_intersect", "hybrid_union"}
BitsetCalls ==
  {"intersect", "probe", "union", "add", "difference", "foreach_until"} \cup HybridCalls

VARIABLES
  op,         \* the operation called
  a, b,       \* the sets that its operands hold when it is called
  A, B,       \* its operands as bitsets
  target,     \* the element at which the callback of foreach_until returns true
  C,          \* the result: a bitset for intersect, an array of elements else
  i,          \* the position reached
  layout,     \* of hybrid operands and their result, the type that each has
  done

inputVars == <<op, a, b, B, target, layout>>
bitsetVars == <<inputVars, A, C, i, done>>

word_index(x) == x \div WordBits
bit(x) == x % WordBits

\* Fault of Build: the words that hold no element are not cleared.
Build_NotCleared(S, memory) ==
  LET offset == word_index(Min(S))
      Holds(w) == {x \in S : word_index(x) = offset + w}
  IN  [index |-> offset,
       words |-> [w \in 1 .. word_index(Max(S)) - offset + 1 |->
                    IF Holds(w - 1) # {} THEN {bit(x) : x \in Holds(w - 1)} ELSE memory]]

\* A bitset is built over memory that holds anything: the words before the last are
\* cleared, then every word that holds an element is written.
Build(S, memory) ==
  LET offset == word_index(Min(S))
      num_words_to_clear == word_index(Max(S)) - offset
      Holds(w) == {x \in S : word_index(x) = offset + w}
      cleared == [w \in 1 .. num_words_to_clear + 1 |->
                    IF w <= num_words_to_clear THEN {} ELSE memory]
  IN  [index |-> offset,
       words |-> [w \in DOMAIN cleared |->
                    IF Holds(w - 1) # {} THEN {bit(x) : x \in Holds(w - 1)}
                    ELSE cleared[w]]]

NoBytes == [index |-> 0, words |-> << >>]
FromArray(S) == IF S = {} THEN NoBytes ELSE Build(S, Bit)

\* The n words from first on, with a bit for each element of S among them.
Span(S, first, n) ==
  [index |-> first,
   words |-> [w \in 1 .. n |->
                {bit(x) : x \in {y \in S : word_index(y) = first + w - 1}}]]

\* A bitset that starts at word 0, allocated with n words and cleared, whose bits
\* have been set one by one.
Zeroed(S, n) == Span(S, 0, n)

\* What an intersection leaves: words of which the outer ones may hold no element, or
\* no word at all.
Intersected(S) ==
  {Span(S, r[1], r[2] - r[1]) :
     r \in {r \in (0 .. Words - 1) \X (0 .. Words) :
              r[1] <= r[2] /\ \A x \in S : word_index(x) \in r[1] .. r[2] - 1}}

NotHybrid == [A |-> "none", B |-> "none", C |-> "none"]

\* hybrid::get_type
get_type(S) ==
  IF Cardinality(S) > 1 /\ Cardinality(S) * Sparsity > Max(S) - Min(S)
  THEN "BITSET" ELSE "UINTEGER"

\* Of the first operand as of BitsetInit, which may be a result: an array or a bitset
\* with few elements.  The object for a result is new, without a layout, or that of an
\* earlier result, as in n_clique, with its layout.
HybridInit ==
  /\ op \in HybridCalls
  /\ layout \in [A : {"UINTEGER", "BITSET"}, B : {get_type(b)},
                  C : IF op = "hybrid_union" THEN {"HYBRID"}
                      ELSE {"HYBRID", "UINTEGER", "BITSET"}]
  /\ B = FromArray(b)
  /\ IF op = "hybrid_union" THEN layout.A = "BITSET" /\ A = Zeroed(a, Words)
     ELSE A \in IF layout.A = "UINTEGER" THEN {NoBytes} ELSE
               Intersected(a) \cup IF get_type(a) = "BITSET" THEN {FromArray(a)} ELSE {}

s_a == Len(A.words)
s_b == Len(B.words)

\* The operands that the operations are given: rows of a matrix for intersections, of
\* which the first may also be the result of one; for a union a zeroed bitset and a row
\* or another zeroed one that is no longer; for a difference two that start at word 0.
DirectInit ==
  /\ op \in BitsetCalls \ HybridCalls
  /\ layout = NotHybrid
  /\ \/ op = "intersect" /\ A \in {FromArray(a)} \cup Intersected(a) /\ B = FromArray(b)
     \/ op \in {"probe", "foreach_until"} /\ A = FromArray(a) /\ B = FromArray(b)
     \/ op = "union" /\ A = Zeroed(a, Words) /\ B \in {FromArray(b), Zeroed(b, Words)}
     \/ op = "add" /\ A = Zeroed(a, Words) /\ B = FromArray(b)
     \/ /\ op = "difference"
        /\ A = Zeroed(a, Words)
        /\ B \in {Zeroed(b, n) : n \in {n \in 1 .. Words :
                                          \A x \in b : word_index(x) < n}}

BitsetInit ==
  /\ a \in SUBSET Universe
  /\ b \in SUBSET Universe
  /\ DirectInit \/ HybridInit
  /\ target \in IF op = "foreach_until" THEN a ELSE {0}
  /\ C = IF op = "intersect" THEN NoBytes ELSE << >>
  /\ i = 0
  /\ done = FALSE

-----------------------------------------------------------------------------
(* Hybrid sets.                                                            *)

\* The call becomes that of the two layouts; what the result will be is known.
Becomes(call, result) ==
  /\ op' = call
  /\ layout' = [layout EXCEPT !.C = result]
  /\ UNCHANGED <<target, i>>

\* set_intersect(hybrid, hybrid): a bitset and an array are exchanged; two arrays are
\* intersected as SortedIntersect has it; an empty operand leaves the type of the
\* result as it was, and no bytes.
DispatchIntersect ==
  /\ ~done
  /\ op = "hybrid_intersect"
  /\ \/ /\ a = {} \/ b = {}
        /\ C' = (IF layout.C = "BITSET" THEN NoBytes ELSE << >>)
        /\ done' = TRUE
        /\ UNCHANGED <<inputVars, A, i>>
     \/ /\ a # {} /\ b # {}
        /\ \/ /\ layout.A = "UINTEGER" /\ layout.B = "UINTEGER"
              /\ Becomes("hybrid_intersect", "UINTEGER")
              /\ C' = Increasing(a \cap b) /\ done' = TRUE
              /\ UNCHANGED <<a, b, A, B>>
           \/ /\ layout.A = "UINTEGER" /\ layout.B = "BITSET"
              /\ Becomes("probe", "UINTEGER")
              /\ UNCHANGED <<a, b, A, B, C, done>>
           \/ /\ layout.A = "BITSET" /\ layout.B = "UINTEGER"
              /\ Becomes("probe", "UINTEGER")
              /\ a' = b /\ b' = a /\ A' = B /\ B' = A
              /\ UNCHANGED <<C, done>>
           \/ /\ layout.A = "BITSET" /\ layout.B = "BITSET"
              /\ Becomes("intersect", "BITSET")
              /\ C' = NoBytes
              /\ UNCHANGED <<a, b, A, B, done>>

\* set_union(bitset, hybrid)
DispatchUnion ==
  /\ ~done
  /\ op = "hybrid_union"
  /\ Becomes(IF layout.B = "BITSET" THEN "union" ELSE "add", "none")
  /\ UNCHANGED <<a, b, A, B, C, done>>

-----------------------------------------------------------------------------
(* The words that two bitsets share.                                       *)

start_index == Max({A.index, B.index})
a_start_index == start_index - A.index
b_start_index == start_index - B.index

\* Fault of end_index: it is the end of the longer one.
end_index_Longer == Max({A.index + s_a, B.index + s_b})

end_index == Min({A.index + s_a, B.index + s_b})
total_size == Max({0, end_index - start_index})

AWord(w) == A.words[w + a_start_index + 1]
BWord(w) == B.words[w + b_start_index + 1]

\* The elements of a word of the result, in order.
Decoded(w, word) ==
  [j \in 1 .. Cardinality(word) |-> WordBits * (start_index + w) + Increasing(word)[j]]

\* Words i to i + n - 1 are combined.  The union writes into its first operand.
Combine(n) ==
  LET chunk == i .. i + n - 1
  IN  /\ \/ /\ op = "intersect"
            /\ C' = [index |-> start_index,
                     words |-> C.words \o [w \in 1 .. n |->
                                 AWord(i + w - 1) \cap BWord(i + w - 1)]]
            /\ UNCHANGED A
         \/ /\ op = "union"
            /\ A' = [A EXCEPT !.words = [w \in DOMAIN @ |->
                       IF w - a_start_index - 1 \in chunk
                       THEN @[w] \cup BWord(w - a_start_index - 1) ELSE @[w]]]
            /\ UNCHANGED C
         \/ /\ op = "difference"
            /\ C' = C \o FlattenSeq([w \in 1 .. n |->
                      Decoded(i + w - 1, AWord(i + w - 1) \ BWord(i + w - 1))])
            /\ UNCHANGED A
      /\ i' = i + n
      /\ UNCHANGED <<inputVars, done>>

OnWords == ~done /\ op \in {"intersect", "union", "difference"} /\ s_a > 0 /\ s_b > 0

VectorStep == OnWords /\ i + VEC <= total_size /\ Combine(VEC)
WordStep == OnWords /\ i + VEC > total_size /\ i < total_size /\ Combine(1)

\* The words of the first operand that lie behind those of the second.
DifferenceTail ==
  /\ OnWords
  /\ op = "difference"
  /\ i >= total_size
  /\ i < s_a + A.index
  /\ C' = C \o Decoded(i, AWord(i))
  /\ i' = i + 1
  /\ UNCHANGED <<inputVars, A, done>>

-----------------------------------------------------------------------------
(* The elements of an array, and of a bitset passed to a callback.         *)

\* Whether x is in a bitset, with the test of its bounds.
IsSet(x, S) ==
  /\ word_index(x) < Len(S.words) + S.index
  /\ word_index(x) >= S.index
  /\ bit(x) \in S.words[word_index(x) - S.index + 1]

\* set_intersect(uinteger, bitset): an element behind the last word ends the loop.
ProbeStep ==
  LET x == Increasing(a)[i + 1]
  IN  /\ ~done
      /\ op = "probe"
      /\ i < Cardinality(a)
      /\ \/ IsSet(x, B) /\ C' = Append(C, x) /\ UNCHANGED done
         \/ ~IsSet(x, B) /\ done' = (word_index(x) >= s_b + B.index) /\ UNCHANGED C
      /\ i' = i + 1
      /\ UNCHANGED <<inputVars, A>>

\* set_union(bitset, uinteger): the word is found without the first word's index.
AddStep ==
  LET x == Increasing(b)[i + 1]
  IN  /\ ~done
      /\ op = "add"
      /\ i < Cardinality(b)
      /\ A' = [A EXCEPT !.words[word_index(x) + 1] = @ \cup {bit(x)}]
      /\ i' = i + 1
      /\ UNCHANGED <<inputVars, C, done>>

\* foreach_until on one word: the callback's answer ends the loop over its bits, the
\* loop over the words goes on.
VisitWord ==
  LET start == WordBits * (i + A.index)
      until == {j \in A.words[i + 1] : start + j <= target \/ target < start}
  IN  /\ ~done
      /\ op = "foreach_until"
      /\ i < s_a
      /\ C' = C \o [j \in 1 .. Cardinality(until) |-> start + Increasing(until)[j]]
      /\ i' = i + 1
      /\ UNCHANGED <<inputVars, A, done>>

Progress ==
  \/ DispatchIntersect \/ DispatchUnion
  \/ VectorStep \/ WordStep \/ DifferenceTail \/ ProbeStep \/ AddStep \/ VisitWord

\* The loops have run to their ends.
Finish ==
  /\ ~done
  /\ op \in BitsetCalls \ HybridCalls
  /\ \/ op \in {"intersect", "union"} /\ (~OnWords \/ i >= total_size)
     \/ op = "difference" /\ i >= Max({total_size, s_a + A.index})
     \/ op = "probe" /\ i = Cardinality(a)
     \/ op = "add" /\ i = Cardinality(b)
     \/ op = "foreach_until" /\ i = s_a
  /\ done' = TRUE
  /\ UNCHANGED <<inputVars, A, C, i>>

BitsetNext == Progress \/ Finish

BitsetSpec == BitsetInit /\ [][BitsetNext]_bitsetVars
-----------------------------------------------------------------------------
\* The elements that foreach passes to its callback.
Elements(S) ==
  UNION {{WordBits * (S.index + w - 1) + j : j \in S.words[w]} : w \in DOMAIN S.words}

\* The elements that foreach of a hybrid result passes: its type tells how C is read.
HybridElements ==
  CASE layout.C = "UINTEGER" -> ToSet(C)
    [] layout.C = "BITSET" -> Elements(C)
    [] layout.C = "HYBRID" -> {}

\* The words that the next step reads lie inside both operands.
ReadsSharedWords ==
  /\ OnWords /\ i < total_size =>
       /\ i + a_start_index < s_a /\ i + b_start_index < s_b
       /\ i + VEC <= total_size =>
            i + VEC + a_start_index <= s_a /\ i + VEC + b_start_index <= s_b
  /\ OnWords /\ op = "difference" /\ i >= total_size /\ i < s_a + A.index =>
       i + a_start_index < s_a

\* The result is the set that the operation's name says, whatever words the operands
\* start and end with and whatever the memory held that they were built in.  Arrays
\* increase.  A hybrid result, read as its type says, is the intersection.
IsOperation ==
  done /\ op \in BitsetCalls =>
    /\ layout.C # "none" => HybridElements = a \cap b
    /\ op = "intersect" => Elements(C) = a \cap b
    /\ op = "probe" => C = Increasing(a \cap b)
    /\ op \in {"union", "add"} => Elements(A) = a \cup b
    /\ op = "difference" => C = Increasing(a \ b)
    /\ op = "foreach_until" => target \in ToSet(C) /\ ToSet(C) \subseteq a

\* Set.hpp says that foreach_until applies the function until it returns true.
StopsWhenTrue == op = "foreach_until" => \A x \in ToSet(C) : x <= target
==============================================================================
