------------------------------ MODULE PackedSets ------------------------------
(***************************************************************************)
(* The compressed layouts.  variant stores the difference of each element  *)
(* to the one before in bytes of seven bits with a bit that says that more *)
(* follow.  bitpacked stores the first element so, then, for a set of at   *)
(* least two registers, the differences to the element one register before *)
(* in as many bits as the largest needs, lane by lane, and the rest of the *)
(* elements as variant does.                                               *)
(*                                                                         *)
(* The data of a set is a sequence of items: a byte is an item of one lane,*)
(* a register one of Lanes lanes.  Encoding is computed; decoding, which   *)
(* passes the elements to a callback, is one step per number or register.  *)
(***************************************************************************)
EXTENDS BitsetOps

CONSTANTS Payload,      \* values of the bits of a byte that hold data, 128 in the code
          Width,        \* bits of a lane, 32 in the code
          Lanes,        \* INTS_PER_REG, 4 in the code
          CompressedSets, \* the sets considered, elements below 2 ^ Width
          Accumulated   \* the sets that a union adds one of them to

ASSUME PackedAssumption ==
  /\ Payload \in Nat \ {0, 1}
  /\ Width \in Nat \ {0}
  /\ Lanes \in Nat \ {0}
  /\ \A S \in CompressedSets \cup Accumulated : S \subseteq 0 .. 2^Width - 1

VARIABLES num_decoded, prev_result, bit_i, incr_data_i, cardinality
\* num_decoded elements have been passed; prev_result are the last of each lane; the
\* next lies from bit_i on in the register at position i; incr_data_i says that
\* this register has been begun; cardinality is that of the bitset in a union.

decoderVars == <<num_decoded, prev_result, bit_i, incr_data_i>>
packedVars == <<bitsetVars, decoderVars, cardinality>>

PackedCalls == {"v_foreach", "v_foreach_until", "v_union",
                "bp_foreach", "bp_foreach_until", "bp_union"}
IsVariant == op \in {"v_foreach", "v_foreach_until", "v_union"}

-----------------------------------------------------------------------------
(* Encoding.                                                               *)

\* The bytes that the code computes from the logarithm, at times one too many; for a
\* difference of zero, whose logarithm no integer holds, one.
bytes_needed(cur) == Min({n \in 1 .. Width + 1 : Payload^n >= 2 * cur})

encode(cur) ==
  [n \in 1 .. bytes_needed(cur) |->
     [lanes |-> <<(cur \div Payload^(n - 1)) % Payload>>, more |-> n < bytes_needed(cur)]]

Variant(numbers) == FlattenSeq([n \in DOMAIN numbers |-> encode(numbers[n])])

\* The difference of each element to the one n places before, or to the value given.
Deltas(data, n, first) ==
  [m \in DOMAIN data |-> data[m] - (IF m > n THEN data[m - n] ELSE first)]

get_num_simd_packed(n) == IF n >= 2 * Lanes THEN (n \div Lanes) * Lanes ELSE 0

Bits(x) == Min({n \in 1 .. Width : 2^n > x})

\* Fault of PackRegister: the part that does not fit is not carried over.
PackRegister_NotCarried(s, register, bits) ==
  LET Shift(n) == [l \in 1 .. Lanes |-> (register[l] * 2^n) % 2^Width]
      Joined == [l \in 1 .. Lanes |-> s.packed[l] + Shift(s.bit_i)[l]]
      none == [l \in 1 .. Lanes |-> 0]
  IN  IF s.bit_i + bits <= Width
      THEN [s EXCEPT !.packed = Joined, !.bit_i = @ + bits]
      ELSE IF s.bit_i < Width
      THEN [result |-> Append(s.result, [lanes |-> Joined, more |-> FALSE]),
            packed |-> none, bit_i |-> bits - (Width - s.bit_i)]
      ELSE [result |-> Append(s.result, [lanes |-> s.packed, more |-> FALSE]),
            packed |-> Shift(0), bit_i |-> bits]

\* One register of differences joins those packed: it fits, or it is split over the
\* register and a new one, or the register is full and stored.
PackRegister(s, register, bits) ==
  LET Shift(n) == [l \in 1 .. Lanes |-> (register[l] * 2^n) % 2^Width]
      Joined == [l \in 1 .. Lanes |-> s.packed[l] + Shift(s.bit_i)[l]]
      stored == Append(s.result, [lanes |-> Joined, more |-> FALSE])
  IN  IF s.bit_i + bits <= Width
      THEN [s EXCEPT !.packed = Joined, !.bit_i = @ + bits]
      ELSE IF s.bit_i < Width
      THEN [result |-> stored,
            packed |-> [l \in 1 .. Lanes |-> register[l] \div 2^(Width - s.bit_i)],
            bit_i |-> bits - (Width - s.bit_i)]
      ELSE [result |-> Append(s.result, [lanes |-> s.packed, more |-> FALSE]),
            packed |-> Shift(0), bit_i |-> bits]

\* All registers, the last one stored as far as it is filled.
simd_bit_pack(deltas, bits) ==
  LET Register(n) == SubSeq(deltas, n * Lanes + 1, (n + 1) * Lanes)
      s == FoldLeft(LAMBDA t, n : PackRegister(t, Register(n - 1), bits),
                    [result |-> << >>, packed |-> [l \in 1 .. Lanes |-> 0], bit_i |-> 0],
                    [n \in 1 .. Len(deltas) \div Lanes |-> n])
  IN  Append(s.result, [lanes |-> s.packed, more |-> FALSE])

BuildVariant(data) == [bits |-> 0, items |-> Variant(Deltas(data, 1, 0))]

BuildPacked(data) ==
  LET n == get_num_simd_packed(Len(data))
      deltas == Deltas(SubSeq(data, 1, n), Lanes, data[1])
      bits == Bits(Max({0} \cup ToSet(deltas)))
      rest == Deltas(SubSeq(data, n + 1, Len(data)), 1, data[IF n > 0 THEN n ELSE 1])
  IN  [bits |-> bits,
       items |-> encode(data[1])
                 \o (IF n > 0 THEN simd_bit_pack(deltas, bits) ELSE << >>)
                 \o Variant(rest)]

\* bitpacked decodes a first element also of a set that has none, so sets are not
\* empty there.
PackedInit ==
  /\ op \in PackedCalls
  /\ b \in CompressedSets \ (IF IsVariant THEN {} ELSE {{}})
  /\ a \in IF op \in {"v_union", "bp_union"} THEN Accumulated ELSE {{}}
  /\ A = Zeroed(a, word_index(2^Width - 1) + 1)
  /\ B = IF IsVariant THEN BuildVariant(Increasing(b)) ELSE BuildPacked(Increasing(b))
  /\ target \in IF op \in {"v_foreach_until", "bp_foreach_until"} THEN b \cup {-1} ELSE {-1}
  /\ C = << >>
  /\ i = 0
  /\ layout = NotHybrid
  /\ done = FALSE
  /\ num_decoded = 0
  /\ prev_result = << >>
  /\ bit_i = 0
  /\ incr_data_i = FALSE
  /\ cardinality = Cardinality(a)

-----------------------------------------------------------------------------
(* Decoding.                                                               *)

Lane(n, l) ==
  IF n < Len(B.items) /\ l \in DOMAIN B.items[n + 1].lanes
  THEN B.items[n + 1].lanes[l] ELSE 0

\* The bytes of the number at position n, and the number.
Length(n) ==
  CHOOSE m \in 1 .. Len(B.items) - n :
    /\ ~B.items[n + m].more
    /\ \A k \in 1 .. m - 1 : B.items[n + k].more

decode(n) ==
  FoldLeft(LAMBDA sum, m : sum + Lane(n + m - 1, 1) * Payload^(m - 1), 0,
           [m \in 1 .. Length(n) |-> m])

num_simd_packed == get_num_simd_packed(Cardinality(b))
Running == ~done /\ op \in PackedCalls

\* The callback gets the elements given, in a bitset's union or in an iteration.  The
\* answer true ends it; variant's foreach_until calls again and goes on unless it is
\* the first element.
Pass(elements) ==
  LET found == SelectInSeq(elements, LAMBDA x : x = target)
      ends == found > 0 /\ (IsVariant => num_decoded = 0)
      Bits_(w) == {bit(x) : x \in {y \in ToSet(elements) : word_index(y) = w}}
  IN  /\ IF op \in {"v_union", "bp_union"}
         THEN /\ A' = [A EXCEPT !.words = [w \in DOMAIN @ |-> @[w] \cup Bits_(w - 1)]]
              /\ cardinality' = IF op = "v_union" THEN cardinality
                                ELSE cardinality + Cardinality({x \in ToSet(elements) : ~IsSet(x, A)})
              /\ UNCHANGED C
         ELSE /\ C' = C \o (IF ends THEN SubSeq(elements, 1, found)
                            ELSE IF found > 0 THEN elements \o <<target>> ELSE elements)
              /\ UNCHANGED <<A, cardinality>>
      /\ done' = ends
      /\ num_decoded' = num_decoded + Len(elements)

\* bitpacked decodes the first element, from which all lanes start.
DecodeFirst ==
  /\ Running /\ ~IsVariant
  /\ prev_result = << >>
  /\ prev_result' = [l \in 1 .. Lanes |-> decode(0)]
  /\ i' = Length(0)
  /\ UNCHANGED <<inputVars, A, C, done, num_decoded, bit_i, incr_data_i, cardinality>>

Unpacking ==
  Running /\ ~IsVariant /\ prev_result # << >> /\ num_decoded < num_simd_packed

\* The elements whose differences are the bits given of each lane.
PassRegister(Difference(_)) ==
  LET result == [l \in 1 .. Lanes |-> Difference(l) + prev_result[l]]
  IN  Pass(result) /\ prev_result' = result

UnpackWhole ==
  LET last == bit_i + B.bits >= Width \/ num_decoded + Lanes >= num_simd_packed
      Difference(l) == (Lane(i, l) \div 2^bit_i) % 2^B.bits
  IN  /\ Unpacking
      /\ bit_i + B.bits <= Width
      /\ PassRegister(Difference)
      /\ i' = IF last THEN i + 1 ELSE i
      /\ bit_i' = IF last THEN 0 ELSE bit_i + B.bits
      /\ incr_data_i' = (incr_data_i /\ ~last)
      /\ UNCHANGED inputVars

\* The elements lie across the end of the register.
UnpackSplit ==
  LET Difference(l) ==
        (Lane(i, l) \div 2^bit_i + Lane(i + 1, l) * 2^(Width - bit_i)) % 2^B.bits
  IN  /\ Unpacking
      /\ bit_i + B.bits > Width
      /\ PassRegister(Difference)
      /\ i' = i + 1
      /\ bit_i' = B.bits - (Width - bit_i)
      /\ incr_data_i' = TRUE
      /\ UNCHANGED inputVars

\* After the last register, one that has been begun is left.
LeaveRegister ==
  /\ Running /\ incr_data_i
  /\ num_decoded >= num_simd_packed
  /\ i' = i + 1
  /\ incr_data_i' = FALSE
  /\ UNCHANGED <<inputVars, A, C, done, num_decoded, prev_result, bit_i, cardinality>>

\* The numbers that are encoded in bytes.
DecodeNumber ==
  LET prev == IF prev_result = << >> THEN 0 ELSE prev_result[Len(prev_result)]
      cur == decode(i) + prev
  IN  /\ Running
      /\ IsVariant \/ prev_result # << >>
      /\ ~incr_data_i
      /\ num_decoded >= num_simd_packed \/ IsVariant
      /\ num_decoded < Cardinality(b)
      /\ Pass(<<cur>>)
      /\ prev_result' = <<cur>>
      /\ i' = i + Length(i)
      /\ UNCHANGED <<inputVars, bit_i, incr_data_i>>

PackedFinish ==
  /\ Running
  /\ num_decoded >= Cardinality(b)
  /\ ~incr_data_i
  /\ done' = TRUE
  /\ UNCHANGED <<inputVars, A, C, i, decoderVars, cardinality>>

PackedNext ==
  \/ DecodeFirst \/ UnpackWhole \/ UnpackSplit \/ LeaveRegister \/ DecodeNumber
  \/ PackedFinish
-----------------------------------------------------------------------------
\* What was encoded is decoded: iteration passes the elements of the set in order,
\* up to the one asked for, though variant may go on; a union adds them, and the one
\* with a bitpacked set counts the elements that are new.  The decoder stops at the
\* end of the data.
PackedRoundTrip ==
  done =>
    CASE op \in {"v_foreach", "bp_foreach"} -> C = Increasing(b) /\ i = Len(B.items)
      [] op = "bp_foreach_until" -> C = Increasing({x \in b : target = -1 \/ x <= target})
      [] op = "v_foreach_until" ->
           IsPrefix(Increasing({x \in b : target = -1 \/ x <= target}), C)
      [] op \in {"v_union", "bp_union"} ->
           /\ Elements(A) = a \cup b
           /\ op = "bp_union" => cardinality = Cardinality(a \cup b)
      [] OTHER -> TRUE
==============================================================================
