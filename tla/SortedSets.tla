------------------------------ MODULE SortedSets ------------------------------
(***************************************************************************)
(* The arrays that the layouts are built from and decoded to: the elements *)
(* of a set of naturals in increasing order.                               *)
(***************************************************************************)
EXTENDS Integers, Sequences, FiniteSets, SequencesExt, FiniteSetsExt

\* The elements of S in increasing order: place p holds the one that p - 1 others are
\* less than.
Increasing(S) ==
  [p \in 1 .. Cardinality(S) |->
     CHOOSE x \in S : Cardinality({y \in S : y < x}) = p - 1]
==============================================================================
