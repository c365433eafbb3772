------------------------------- MODULE BlockSets -------------------------------
(***************************************************************************)
(* The layouts made of blocks.  bitset_new keeps, for each block of the    *)
(* numbers with an element, its id and its bits; new_type keeps the dense  *)
(* blocks so and the elements of the others in an array.  An intersection  *)
(* first writes the positions of the blocks that both operands have into   *)
(* its scratch space, then reads them back to combine the blocks.          *)
(*                                                                         *)
(* Several workers intersect at a time, each its own sets.  The scratch    *)
(* space is common::scratch_space[common::tid], for arrays                 *)
(* common::scratch_space1[common::tid]; nothing ever sets common::tid.     *)
(***************************************************************************)
EXTENDS SortedSets

CONSTANTS Worker,
          BlockSize,    \* BLOCK_SIZE, 128 in the code
          Sparse,       \* elements of a block that are still kept in an array, 8
          Positions,    \* positions compared by one vector instruction, 4
          BlockCalls    \* the calls: records of the operation and two sets

ASSUME BlockAssumption ==
  /\ BlockSize \in Nat \ {0}
  /\ Sparse \in Nat
  /\ Positions \in Nat \ {0}
  /\ \A c \in BlockCalls : c.name \in {"bitset_new", "uint_bitset_new", "new_type"}

VARIABLES worker,           \* for each worker what it does
          scratch, scratch1 \* the cells of the scratch spaces, indexed from 0

blockVars == <<worker, scratch, scratch1>>

\* The elements of S that new_type keeps in dense blocks.
Block(S, id) == {x \in S : x \div BlockSize = id}
Dense(S) ==
  {x \in S : LET n == Cardinality(Block(S, x \div BlockSize)) IN n >= 2 /\ n > Sparse}

\* The blocks of bitset_new: ids and bits.
Blocks(S) ==
  LET ids == Increasing({x \div BlockSize : x \in S})
  IN  [n \in DOMAIN ids |->
         [id |-> ids[n], bits |-> {x % BlockSize : x \in Block(S, ids[n])}]]

\* How the operands of a call are kept.
Parts(c) ==
  CASE c.name = "bitset_new" -> [au |-> {}, ab |-> c.a, bu |-> {}, bb |-> c.b]
    [] c.name = "uint_bitset_new" -> [au |-> c.a, ab |-> {}, bu |-> {}, bb |-> c.b]
    [] c.name = "new_type" -> [au |-> c.a \ Dense(c.a), ab |-> Dense(c.a),
                               bu |-> c.b \ Dense(c.b), bb |-> Dense(c.b)]

\* The first of the intersections that a call consists of.
FirstStage(c) ==
  LET p == Parts(c)
  IN  IF c.a = {} \/ c.b = {} THEN "done"
      ELSE CASE c.name = "bitset_new" -> "blocks"
             [] c.name = "uint_bitset_new" -> "ab"
             [] c.name = "new_type" -> IF p.au = {} /\ p.bu = {} THEN "blocks" ELSE "uints"

Called(c) ==
  [call |-> c, stage |-> FirstStage(c), i_a |-> 0, i_b |-> 0, offset_count |-> 0, i |-> 0,
   count |-> 0, uu |-> 0, ubs |-> 0, uints |-> << >>, ids |-> << >>, bits |-> << >>]

BlockInit ==
  /\ worker \in [Worker -> {Called(c) : c \in BlockCalls}]
  /\ scratch = << >>
  /\ scratch1 = << >>

-----------------------------------------------------------------------------
\* The cells from `at' on hold the values given; cells never written hold 0.
Store(memory, at, values) ==
  [n \in 1 .. Max({Len(memory), at + Len(values)}) |->
     IF n - at \in DOMAIN values THEN values[n - at]
     ELSE IF n \in DOMAIN memory THEN memory[n] ELSE 0]

\* What is intersected: an array with blocks, or blocks with blocks.
Probing(w) == worker[w].stage \in {"ab", "ba"}
Left(w) ==
  LET p == Parts(worker[w].call)
  IN  CASE worker[w].stage = "ab" -> Increasing(p.au)
        [] worker[w].stage = "ba" -> Increasing(p.bu)
        [] OTHER -> Blocks(p.ab)
Right(w) ==
  LET p == Parts(worker[w].call)
  IN  Blocks(IF worker[w].stage = "ba" THEN p.ab ELSE p.bb)

\* The id of the block that the n-th on the left belongs to.
Id(w, n) == IF Probing(w) THEN Left(w)[n + 1] \div BlockSize ELSE Left(w)[n + 1].id

\* Where the positions in the right operand are written, behind those in the left.
RightAt(w) == IF Probing(w) THEN Len(Left(w)) ELSE 4 * Len(Left(w))

Combining(w) == worker[w].stage \in {"ab", "ba", "blocks"}
OffsetsDone(w) == worker[w].i_a >= Len(Left(w)) \/ worker[w].i_b >= Len(Right(w))
Whole(length) == (length \div Positions) * Positions

VectorRound(w) ==
  /\ worker[w].stage = "blocks"
  /\ worker[w].i_a < Whole(Len(Left(w)))
  /\ worker[w].i_b < Whole(Len(Right(w)))

\* Fault of VectorPositions: they are counted from the block on, not from the start.
VectorPositions_FromBlock(w, found) == [n \in DOMAIN found |-> found[n] - 1]

\* The positions in the left operand of those found.
VectorPositions(w, found) == [n \in DOMAIN found |-> worker[w].i_a + found[n] - 1]

\* simd_intersect_offsets: whole blocks of positions are compared, all of them are
\* stored, and those behind the matches are overwritten by the next store.
CompareOffsets(w) ==
  LET r == worker[w]
      v_a == [n \in 1 .. Positions |-> Left(w)[r.i_a + n].id]
      v_b == [n \in 1 .. Positions |-> Right(w)[r.i_b + n].id]
      found == SelectSeq([n \in 1 .. Positions |-> n], LAMBDA n : v_a[n] \in ToSet(v_b))
      stored == VectorPositions(w, found \o
                  [n \in 1 .. Positions - Len(found) |-> Len(found) + n])
      right == [n \in DOMAIN found |->
                  r.i_b + (CHOOSE m \in 1 .. Positions : v_b[m] = v_a[found[n]]) - 1]
      a_max == v_a[Positions]
      b_max == v_b[Positions]
  IN  /\ VectorRound(w)
      /\ scratch' = Store(Store(scratch, r.offset_count, stored),
                          RightAt(w) + r.offset_count, right)
      /\ worker' = [worker EXCEPT ![w] =
           [@ EXCEPT !.ids = @ \o [n \in DOMAIN found |-> v_a[found[n]]],
                     !.i_a = IF a_max <= b_max THEN @ + Positions ELSE @,
                     !.i_b = IF a_max >= b_max THEN @ + Positions ELSE @,
                     !.offset_count = @ + Len(found)]]
      /\ UNCHANGED scratch1

\* The rest one by one, and hetero_intersect_offsets.
NextOffset(w) ==
  LET r == worker[w]
      next == Min({n \in r.i_b .. Len(Right(w)) :
                     n = Len(Right(w)) \/ Right(w)[n + 1].id >= Id(w, r.i_a)})
      matches == next < Len(Right(w)) /\ Right(w)[next + 1].id = Id(w, r.i_a)
  IN  /\ Combining(w) /\ ~VectorRound(w) /\ ~OffsetsDone(w)
      /\ scratch' = IF matches
                    THEN Store(Store(scratch, r.offset_count, <<r.i_a>>),
                               RightAt(w) + r.offset_count, <<next>>)
                    ELSE scratch
      /\ worker' = [worker EXCEPT ![w] =
           [@ EXCEPT !.ids = IF matches /\ ~Probing(w) THEN Append(@, Id(w, r.i_a)) ELSE @,
                     !.i_a = @ + 1,
                     !.i_b = next,
                     !.offset_count = IF matches THEN @ + 1 ELSE @]]
      /\ UNCHANGED scratch1

-----------------------------------------------------------------------------
\* The positions that the worker reads next.
Reading(w) == Combining(w) /\ OffsetsDone(w) /\ worker[w].i < worker[w].offset_count
LeftPosition(w) == scratch[worker[w].i + 1]
RightPosition(w) == scratch[RightAt(w) + worker[w].i + 1]

\* They are positions of one block in both operands.
SameBlock(w) ==
  /\ LeftPosition(w) < Len(Left(w))
  /\ RightPosition(w) < Len(Right(w))
  /\ Right(w)[RightPosition(w) + 1].id = Id(w, LeftPosition(w))

\* The blocks are combined; a worker that would read behind its operands is not
\* followed.
CombineBlocks(w) ==
  LET result == Left(w)[LeftPosition(w) + 1].bits \cap Right(w)[RightPosition(w) + 1].bits
  IN  /\ Reading(w) /\ ~Probing(w)
      /\ LeftPosition(w) < Len(Left(w)) /\ RightPosition(w) < Len(Right(w))
      /\ worker' = [worker EXCEPT ![w] = [@ EXCEPT !.bits = Append(@, result),
                                                   !.count = @ + Cardinality(result),
                                                   !.i = @ + 1]]
      /\ UNCHANGED <<scratch, scratch1>>

\* new_type keeps what an array and blocks have in common behind what it has so far.
ProbeBlock(w) ==
  LET r == worker[w]
      x == Left(w)[LeftPosition(w) + 1]
      hit == x % BlockSize \in Right(w)[RightPosition(w) + 1].bits
      scratch2 == Cardinality(Parts(r.call).au)
      at == IF r.stage = "ab" THEN scratch2 + r.count - r.uu
            ELSE 2 * scratch2 + r.count - r.uu - r.ubs
      inScratch == r.call.name = "new_type"
  IN  /\ Reading(w) /\ Probing(w)
      /\ LeftPosition(w) < Len(Left(w)) /\ RightPosition(w) < Len(Right(w))
      /\ worker' = [worker EXCEPT ![w] =
           [@ EXCEPT !.count = IF hit THEN @ + 1 ELSE @,
                     !.uints = IF hit /\ ~inScratch THEN Append(@, x) ELSE @,
                     !.i = @ + 1]]
      /\ scratch1' = IF hit /\ inScratch THEN Store(scratch1, at, <<x>>) ELSE scratch1
      /\ UNCHANGED scratch

\* set_intersect(new_type, new_type): the arrays are intersected into the scratch
\* space, or into the result when neither operand has blocks.
IntersectUints(w) ==
  LET p == Parts(worker[w].call)
      common == Increasing(p.au \cap p.bu)
      direct == p.ab = {} /\ p.bb = {}
  IN  /\ worker[w].stage = "uints"
      /\ worker' = [worker EXCEPT ![w] =
           [@ EXCEPT !.stage = IF direct THEN "done" ELSE "ab",
                     !.uints = IF direct THEN common ELSE @,
                     !.count = Len(common),
                     !.uu = Len(common)]]
      /\ scratch1' = IF direct THEN scratch1 ELSE Store(scratch1, 0, common)
      /\ UNCHANGED scratch

\* One of the intersections has ended, and the next begins.
EndStage(w) ==
  LET r == worker[w]
      next == CASE r.stage = "ab" /\ r.call.name = "new_type" -> "ba"
                [] r.stage = "ba" -> "merge"
                [] OTHER -> "done"
  IN  /\ Combining(w) /\ OffsetsDone(w) /\ ~VectorRound(w)
      /\ r.i >= r.offset_count
      /\ worker' = [worker EXCEPT ![w] =
           [@ EXCEPT !.stage = next,
                     !.ubs = IF r.stage = "ab" THEN r.count - r.uu ELSE @,
                     !.i_a = 0, !.i_b = 0, !.offset_count = 0, !.i = 0]]
      /\ UNCHANGED <<scratch, scratch1>>

\* distinct_merge_three_way on three arrays: the least of those that are left, the
\* first of them where two are equal.
Merge3(total, s1, s2, s3) ==
  LET Arrays == <<s1, s2, s3>>
      Next1(t) ==
        LET open == {n \in 1 .. 3 : t.at[n] < Len(Arrays[n])}
            Head1(n) == Arrays[n][t.at[n] + 1]
            from == Min({n \in open : \A m \in open : Head1(n) <= Head1(m)})
        IN  [result |-> Append(t.result, Head1(from)), at |-> [t.at EXCEPT ![from] = @ + 1]]
  IN  FoldLeft(LAMBDA t, n : Next1(t), [result |-> << >>, at |-> <<0, 0, 0>>],
               [n \in 1 .. total |-> n]).result

Merge(w) ==
  LET r == worker[w]
      scratch2 == Cardinality(Parts(r.call).au)
      Cells(at, length) == SubSeq(scratch1, at + 1, at + length)
  IN  /\ r.stage = "merge"
      /\ worker' = [worker EXCEPT ![w] =
           [@ EXCEPT !.stage = "blocks",
                     !.uints = Merge3(r.count, Cells(0, r.uu), Cells(scratch2, r.ubs),
                                      Cells(2 * scratch2, r.count - r.uu - r.ubs))]]
      /\ UNCHANGED <<scratch, scratch1>>

WorkerStep(w) ==
  \/ CompareOffsets(w) \/ NextOffset(w) \/ CombineBlocks(w) \/ ProbeBlock(w)
  \/ IntersectUints(w) \/ EndStage(w) \/ Merge(w)

BlocksDone == \A w \in Worker : worker[w].stage = "done"
BlockNext == \E w \in Worker : WorkerStep(w)
BlocksTerminated == BlocksDone /\ UNCHANGED blockVars
BlockSpec == BlockInit /\ [][BlockNext \/ BlocksTerminated]_blockVars
-----------------------------------------------------------------------------
\* The elements that foreach passes of a result.
BlockElements(r) ==
  ToSet(r.uints) \cup
    UNION {{BlockSize * r.ids[n] + x : x \in r.bits[n]} : n \in DOMAIN r.bits}

\* A result is the intersection, counted once, and its array increases: the blocks
\* are matched by the positions in the scratch space, whatever was left there by an
\* intersection before, and what is kept in an array on one side and in a block on
\* the other is found.
BlockIntersection ==
  \A w \in DOMAIN worker : worker[w].stage = "done" =>
    LET r == worker[w]
    IN  /\ BlockElements(r) = r.call.a \cap r.call.b
        /\ r.count = Cardinality(r.call.a \cap r.call.b)
        /\ r.uints = Increasing(ToSet(r.uints))

\* emptyheaded.hpp allocates a scratch space for every thread: the positions that a
\* worker reads are those of a block that its own operands share.
ReadsOwnOffsets == \A w \in Worker : Reading(w) => SameBlock(w)
==============================================================================
