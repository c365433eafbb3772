------------------------------- MODULE MCSetOps -------------------------------
(* Small sets for every layout: partitions of four cells, numbers of five    *)
(* bits packed in registers of two lanes, blocks of two numbers.             *)
EXTENDS SetOps

\* Three partitions, each with nothing, its first element, two others, all but one, or
\* all of its elements.
MCPShortSets ==
  {UNION {{4 * p + x : x \in f[p]} : p \in 0 .. 2} :
     f \in [0 .. 2 -> {{}, {0}, {1, 3}, {0, 1, 2}, {0, 1, 2, 3}}]}

MCCompressedSets ==
  SUBSET (0 .. 5) \cup SUBSET {0, 1, 5, 10, 11, 21, 30, 31}
    \cup SUBSET {0, 2, 3, 5, 6, 7, 9, 11}
MCAccumulated == {{}, {x \in 0 .. 31 : x % 3 # 1}}

\* Sets over four blocks, with nothing of a block, one number, or both.
MCBlockSetsOf(single) ==
  {UNION {{2 * n + x : x \in CASE f[n] = 0 -> {}
                               [] f[n] = 1 -> {single[n + 1]}
                               [] f[n] = 2 -> {0, 1}} : n \in 0 .. 3} :
     f \in [0 .. 3 -> 0 .. 2]}
MCBlockCalls ==
  [name : {"bitset_new", "uint_bitset_new", "new_type"},
   a : MCBlockSetsOf(<<0, 1, 0, 1>>), b : MCBlockSetsOf(<<0, 1, 1, 1>>)]
==============================================================================
