------------------------------- MODULE NodeLoop -------------------------------
(***************************************************************************)
(* The state of a ParallelFor over the nodes of a graph, with which the    *)
(* applications are composed.  Their names are distinct, so that one       *)
(* module can state theorems about several.                                *)
(***************************************************************************)
EXTENDS SortedSets

CONSTANTS MaxThreads, MaxNodes

ASSUME LoopAssumption == MaxThreads \in Nat \ {0} /\ MaxNodes \in Nat

VARIABLES numThreads, from, to, workers, prepared, unclaimed, pending, running,
          completed, released

loopVars == <<numThreads, from, to, workers, prepared, unclaimed, pending,
              running, completed, released>>

Loop == INSTANCE ParallelFor WITH MaxIndex <- MaxNodes

Tid == 0 .. MaxThreads - 1
AllNodes == 0 .. MaxNodes - 1
Node == 0 .. to - 1       \* there are as many nodes as indices
==============================================================================
