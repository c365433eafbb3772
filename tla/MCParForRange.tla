---------------------------- MODULE MCParForRange ----------------------------
(* Every call with up to 3 threads, ranges within 0 .. 4 and blocks of 1 to *)
(* 3 offsets: ranges shorter than a block, exact multiples of the block,    *)
(* empty ranges, more threads than blocks and the sequential case.          *)
EXTENDS ParForRange
==============================================================================
