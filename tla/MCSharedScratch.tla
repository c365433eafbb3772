---------------------------- MODULE MCSharedScratch ----------------------------
(* Two workers of a parallel loop, each intersecting a row with another. *)
EXTENDS BlockSets

MCBlockCalls ==
  [name : {"bitset_new"}, a : {{0, 4}, {2, 5}}, b : {{1, 2, 4}, {3, 5}}]
==============================================================================
