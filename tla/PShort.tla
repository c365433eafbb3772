-------------------------------- MODULE PShort --------------------------------
(***************************************************************************)
(* The prefix-short layout and the operations on it.  The elements with    *)
(* the same upper 16 bits form a partition: a cell with the prefix, one    *)
(* with the number of elements less one, and their lower 16 bits.  Cells   *)
(* have 16 bits, so a full partition has a size that fits in a cell only   *)
(* less one.                                                               *)
(*                                                                         *)
(* A set is the sequence of its cells.  A step is one round of the outer   *)
(* loop of an operation, over partitions, or of an inner loop.             *)
(***************************************************************************)
EXTENDS BitsetOps

CONSTANTS Cell,         \* values of a cell, 65536 in the code
          Shorts,       \* cells compared by one vector instruction, 8 in the code
          PShortSets    \* the sets considered, elements below Cell * Cell

ASSUME PShortAssumption ==
  /\ Cell \in Nat \ {0}
  /\ Cell % WordBits = 0
  /\ Shorts \in Nat \ {0}
  /\ \A S \in PShortSets : S \subseteq 0 .. Cell * Cell - 1

VARIABLES j,       \* the position in the second operand
          inner,   \* the position in a partition of it, -1 outside its loops
          count    \* elements counted so far

positions == <<i, j, inner, count>>
pshortVars == <<bitsetVars, j, inner, count>>

PShortCalls == {"ps_foreach", "ps_foreach_until", "ps_decode", "ps_intersect",
                "ps_bitset", "ps_uinteger", "ps_union"}

prefix(x) == x \div Cell
low(x) == x % Cell
Partition(S, p) == Increasing({low(x) : x \in {y \in S : prefix(y) = p}})

\* Fault of BuildPShort: the size is stored as it is.
BuildPShort_PlainSize(S) ==
  LET Piece(p) == <<p, Len(Partition(S, p)) % Cell>> \o Partition(S, p)
  IN  FlattenSeq([n \in 1 .. Cardinality({prefix(x) : x \in S}) |->
                    Piece(Increasing({prefix(x) : x \in S})[n])])

BuildPShort(S) ==
  LET Piece(p) == <<p, Len(Partition(S, p)) - 1>> \o Partition(S, p)
  IN  FlattenSeq([n \in 1 .. Cardinality({prefix(x) : x \in S}) |->
                    Piece(Increasing({prefix(x) : x \in S})[n])])

\* A cell of the data, or of the memory behind it.
CellOf(D, n) == IF n < Len(D) THEN D[n + 1] ELSE 0

PShortInit ==
  /\ op \in PShortCalls
  /\ a \in PShortSets
  /\ b \in IF op \in {"ps_intersect", "ps_bitset", "ps_uinteger", "ps_union"}
           THEN PShortSets ELSE {{}}
  /\ A = CASE op = "ps_uinteger" -> Increasing(a)
           [] op = "ps_union" -> Zeroed(a, word_index(Cell * Cell - 1) + 1)
           [] OTHER -> BuildPShort(a)
  /\ B = IF op = "ps_bitset" THEN FromArray(b) ELSE BuildPShort(b)
  /\ target \in IF op = "ps_foreach_until" THEN a \cup {-1} ELSE {-1}
  /\ C = << >>
  /\ i = 0
  /\ j = 0
  /\ inner = -1
  /\ count = 0
  /\ layout = NotHybrid
  /\ done = FALSE

Call(o) == ~done /\ op = o

\* The partition of D at position n.
Lows(D, n) == [m \in 1 .. CellOf(D, n + 1) + 1 |-> CellOf(D, n + 1 + m)]
Elems(D, n) == [m \in DOMAIN Lows(D, n) |-> CellOf(D, n) * Cell + Lows(D, n)[m]]
Common(D, n, E, m) == ToSet(Lows(D, n)) \cap ToSet(Lows(E, m))

-----------------------------------------------------------------------------
(* Iteration.                                                              *)

\* foreach and foreach_until on one partition; the answer true leaves both loops.
VisitPartition ==
  LET found == SelectInSeq(Elems(A, i), LAMBDA x : x = target)
  IN  /\ Call("ps_foreach") \/ Call("ps_foreach_until")
      /\ count < Cardinality(a)
      /\ IF found = 0
         THEN /\ C' = C \o Elems(A, i)
              /\ i' = i + 2 + Len(Elems(A, i))
              /\ count' = count + Len(Elems(A, i))
              /\ UNCHANGED done
         ELSE /\ C' = C \o SubSeq(Elems(A, i), 1, found)
              /\ done' = TRUE
              /\ UNCHANGED <<i, count>>
      /\ UNCHANGED <<inputVars, A, j, inner>>

\* PShortDecoder::at, for indices in increasing order, as a parallel loop gives them
\* to one thread: i is curr_prefix_start, count is curr_prefix_index_start, inner is
\* the index asked for, and j the first that may be asked for next.  A decoder that
\* has left the data is not followed.
AskDecoder(n) ==
  /\ Call("ps_decode")
  /\ inner = -1
  /\ n >= j
  /\ inner' = n
  /\ UNCHANGED <<inputVars, A, C, i, j, count, done>>

AdvanceDecoder ==
  /\ Call("ps_decode")
  /\ i < Len(A)
  /\ inner > count + CellOf(A, i + 1)
  /\ i' = i + CellOf(A, i + 1) + 2
  /\ count' = count + CellOf(A, i + 1)
  /\ UNCHANGED <<inputVars, A, C, j, inner, done>>

Decode ==
  /\ Call("ps_decode")
  /\ inner \in 0 .. count + CellOf(A, i + 1)
  /\ C' = Append(C, <<inner, CellOf(A, i) * Cell + CellOf(A, i + inner - count + 2)>>)
  /\ j' = inner + 1
  /\ inner' = -1
  /\ UNCHANGED <<inputVars, A, i, count, done>>

\* set_union(bitset, pshort): foreach over the second operand.
UnionPartition ==
  LET E == ToSet(Elems(B, j))
  IN  /\ Call("ps_union")
      /\ count < Cardinality(b)
      /\ A' = [A EXCEPT !.words = [w \in DOMAIN @ |->
                 @[w] \cup {bit(x) : x \in {y \in E : word_index(y) - A.index = w - 1}}]]
      /\ j' = j + 2 + Cardinality(E)
      /\ count' = count + Cardinality(E)
      /\ UNCHANGED <<inputVars, C, i, inner, done>>

-----------------------------------------------------------------------------
(* Intersections.                                                          *)

\* The partition that starts at n is left behind.
Skip(D, n) == n + CellOf(D, n + 1) + 3

\* The cells written for a partition that both operands have: the number of common
\* elements is kept in 16 bits.
MergePartitions(lows) ==
  LET partition_size == Len(lows) % Cell
  IN  IF partition_size = 0 THEN << >>
      ELSE <<CellOf(A, i), partition_size - 1>> \o lows

\* set_intersect(pshort, pshort): the partition with the smaller prefix is skipped,
\* two with the same prefix are intersected.
StepPShort ==
  LET lows == Increasing(Common(A, i, B, j))
  IN  /\ Call("ps_intersect")
      /\ i < Len(A) /\ j < Len(B)
      /\ i' = IF CellOf(A, i) <= CellOf(B, j) THEN Skip(A, i) ELSE i
      /\ j' = IF CellOf(B, j) <= CellOf(A, i) THEN Skip(B, j) ELSE j
      /\ IF CellOf(A, i) = CellOf(B, j)
         THEN /\ C' = C \o MergePartitions(lows)
              /\ count' = count + (Len(lows) % Cell)
         ELSE UNCHANGED <<C, count>>
      /\ UNCHANGED <<inputVars, A, inner, done>>

\* set_intersect(pshort, bitset): j is write_pos.  Two cells are left for a header,
\* which is written, and kept, only where nothing was found; where something was,
\* write_pos is set back by two.
StepPShortBitset ==
  LET p == word_index(CellOf(A, i) * Cell)
      end == s_b + B.index
      near == p < end /\ p + word_index(Cell) >= B.index
      lows == Increasing({l \in ToSet(Lows(A, i)) : IsSet(CellOf(A, i) * Cell + l, B)})
      written == IF lows = << >> THEN <<CellOf(A, i), Cell - 1>> ELSE lows
      at == IF lows = << >> THEN j ELSE j + 2
  IN  /\ Call("ps_bitset")
      /\ i < Len(A)
      /\ IF near
         THEN /\ C' = [n \in 1 .. Max({Len(C), at + Len(written)}) |->
                         IF n - at \in DOMAIN written THEN written[n - at]
                         ELSE CellOf(C, n - 1)]
              /\ j' = IF lows = << >> THEN j + 2 ELSE j + Len(lows)
              /\ count' = count + Len(lows)
         ELSE UNCHANGED <<C, j, count>>
      /\ done' = (~near /\ p >= end)
      /\ i' = Skip(A, i)
      /\ UNCHANGED <<inputVars, A, inner>>

\* set_intersect(uinteger, pshort).  The size of a partition is kept in 16 bits.
b_inner_size == (CellOf(B, j + 1) + 1) % Cell
inner_end == j + b_inner_size + 2
AOf(n) == A[n + 1]
InPartition(n) == n < Len(A) /\ prefix(AOf(n)) = CellOf(B, j)
MoreInBoth == i < Len(A) /\ j < Len(B)

SkipPartition ==
  /\ Call("ps_uinteger") /\ inner = -1 /\ MoreInBoth
  /\ CellOf(B, j) < prefix(AOf(i))
  /\ j' = inner_end
  /\ UNCHANGED <<inputVars, A, C, i, inner, count, done>>

SkipElement ==
  /\ Call("ps_uinteger") /\ inner = -1 /\ MoreInBoth
  /\ CellOf(B, j) * Cell > AOf(i)
  /\ i' = i + 1
  /\ UNCHANGED <<inputVars, A, C, j, inner, count, done>>

EnterPartition ==
  /\ Call("ps_uinteger") /\ inner = -1 /\ MoreInBoth
  /\ CellOf(B, j) = prefix(AOf(i))
  /\ inner' = 0
  /\ UNCHANGED <<inputVars, A, C, i, j, count, done>>

\* A block of each is compared as long as a whole block of the array, and one element
\* behind it, lie in it and the block in the partition; the element C[count] is then
\* overwritten with the first of the array's block.
VectorApplies ==
  /\ i + Shorts < Len(A)
  /\ InPartition(i + Shorts - 1)
  /\ inner < (b_inner_size \div Shorts) * Shorts

CompareShorts ==
  LET block_a == SubSeq(A, i + 1, i + Shorts)
      block_b == [m \in 1 .. Shorts |-> CellOf(B, j + 2 + inner + m - 1)]
      r == Increasing({x \in ToSet(block_a) : low(x) \in ToSet(block_b)})
      a_max == low(block_a[Shorts])
      b_max == block_b[Shorts]
  IN  /\ Call("ps_uinteger") /\ inner >= 0 /\ VectorApplies
      /\ C' = C \o (IF r = << >> THEN r ELSE [r EXCEPT ![1] = AOf(i)])
      /\ count' = count + Len(r)
      /\ i' = IF a_max <= b_max THEN i + Shorts ELSE i
      /\ inner' = IF a_max >= b_max THEN inner + Shorts ELSE inner
      /\ UNCHANGED <<inputVars, A, j, done>>

\* The scalar loop over what is left of the partition.
FinishPartition ==
  LET rest == {CellOf(B, j + 2 + n) : n \in inner .. b_inner_size - 1}
      stop == {n \in i .. Len(A) :
                 \/ ~InPartition(n)
                 \/ \A l \in rest : l < low(AOf(n))}
      taken == Increasing({x \in {AOf(n) : n \in i .. Min(stop) - 1} : low(x) \in rest})
  IN  /\ Call("ps_uinteger") /\ inner >= 0 /\ ~VectorApplies
      /\ C' = C \o taken
      /\ count' = count + Len(taken)
      /\ i' = IF rest # {} /\ InPartition(Min(stop)) THEN Min(stop) + 1 ELSE Min(stop)
      /\ j' = inner_end
      /\ inner' = -1
      /\ UNCHANGED <<inputVars, A, done>>
PShortStep ==
  \/ VisitPartition \/ AdvanceDecoder \/ Decode \/ UnionPartition
  \/ \E n \in 0 .. Cardinality(a) - 1 : AskDecoder(n)
  \/ StepPShort \/ StepPShortBitset
  \/ SkipPartition \/ SkipElement \/ EnterPartition
  \/ CompareShorts \/ FinishPartition

\* The loops have run to their ends; a thread may leave its decoder at any index.
PShortFinish ==
  /\ ~done
  /\ \/ op \in {"ps_foreach", "ps_foreach_until"} /\ count >= Cardinality(a)
     \/ op = "ps_decode" /\ (inner = -1 \/ i >= Len(A))
     \/ op = "ps_union" /\ count >= Cardinality(b)
     \/ op = "ps_intersect" /\ ~MoreInBoth
     \/ op = "ps_bitset" /\ i >= Len(A)
     \/ op = "ps_uinteger" /\ ~MoreInBoth /\ inner = -1
  /\ done' = TRUE
  /\ UNCHANGED <<inputVars, A, C, positions>>

PShortNext == PShortStep \/ PShortFinish

PShortSpec == PShortInit /\ [][PShortNext]_pshortVars
-----------------------------------------------------------------------------
\* A partition with all Cell elements.
HasFullPartition(S) ==
  \E p \in {prefix(x) : x \in S} : p * Cell .. (p + 1) * Cell - 1 \subseteq S

\* Iteration passes the elements of the set in order, up to the one asked for, and
\* the union is the union.  The intersection of two sets is the layout of their
\* intersection unless that has a full partition, whose size does not fit into the
\* 16 bits that count it; with an array likewise unless a full partition is met, and
\* then the count is right while the elements are so only if no blocks were
\* compared; with a bitset only the count is right.  A decoder is right for the
\* elements of the first partition, on which the decoders of par_foreach start.
PShortOperation ==
  done =>
    CASE op \in {"ps_foreach", "ps_foreach_until"} ->
           C = Increasing({x \in a : target = -1 \/ x <= target})
      [] op = "ps_union" -> Elements(A) = a \cup b
      [] op = "ps_intersect" -> \/ HasFullPartition(a \cap b)
                                \/ C = BuildPShort(a \cap b) /\ count = Cardinality(a \cap b)
      [] op = "ps_bitset" -> count = Cardinality(a \cap b)
      [] op = "ps_uinteger" -> \/ HasFullPartition(b)
                               \/ /\ count = Cardinality(a \cap b)
                                  /\ Len(A) <= Shorts => C = Increasing(a \cap b)
      [] op = "ps_decode" ->
           \A n \in DOMAIN C : C[n][1] <= CellOf(A, 1) =>
             C[n][2] = Increasing(a)[C[n][1] + 1]
      [] OTHER -> TRUE
==============================================================================
