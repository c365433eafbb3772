------------------------------ MODULE MCReorder ------------------------------
(* Every graph an edge list can give with up to MaxNodes nodes, connected or *)
(* not: no node without an edge, self-loops with fewer than MaxNodes nodes   *)
(* only.  Two nodes of one level, each with a node of its own to find, take  *)
(* five nodes: the paths of five are among the graphs as well.               *)
EXTENDS Reorder

CONSTANT MaxNodes

Symmetric(n) ==
  {[u \in 0 .. n - 1 |-> {v \in 0 .. n - 1 : {u, v} \in g}] :
     g \in SUBSET {{u, v} : u \in 0 .. n - 1, v \in 0 .. n - 1}}

LoopFree(g) == \A u \in DOMAIN g : u \notin g[u]

\* The paths with node 0 in the middle.
PathsOfFive ==
  {[u \in 0 .. 4 |-> {v \in 0 .. 4 : \E k \in 1 .. 4 : {u, v} = {p[k], p[k + 1]}}] :
     p \in {q \in [1 .. 5 -> 0 .. 4] : q[3] = 0 /\ ToSet(q) = 0 .. 4}}

MCGraphs ==
  {g \in UNION {Symmetric(n) : n \in 1 .. MaxNodes} :
     Loadable(g) /\ (Cardinality(DOMAIN g) < MaxNodes \/ LoopFree(g))}
  \cup PathsOfFive
==============================================================================
