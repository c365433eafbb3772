----------------------------- MODULE BreadthFirst -----------------------------
(***************************************************************************)
(* Breadth-first search by levels, as a sequential program would do it:    *)
(* each step replaces the level at distance path_length from the start by  *)
(* the unseen nodes one edge further, and the search stops when there are  *)
(* none or when path_length has reached the requested depth.  NPath shows  *)
(* that the parallel search of apps/n_path.cpp does no more and no less.   *)
(***************************************************************************)
EXTENDS Integers

CONSTANT Node

VARIABLES graph,        \* set of edges <<n, m>>
          query_depth,  \* where to stop
          visited,      \* nodes seen
          frontier,     \* nodes at distance path_length
          path_length,
          finished

vars == <<graph, query_depth, visited, frontier, path_length, finished>>

\* The nodes one edge away from a node of S.
Neighbors(S) == {m \in Node : \E n \in S : <<n, m>> \in graph}

Init ==
  /\ graph \subseteq Node \X Node
  /\ query_depth \in Nat
  /\ \E start \in Node : visited = {start} /\ frontier = {start}
  /\ path_length = 0
  /\ finished = FALSE

Step ==
  LET next == Neighbors(frontier) \ visited
      stop == next = {} \/ path_length >= query_depth
  IN  /\ ~finished
      /\ visited' = visited \cup next
      /\ frontier' = next
      /\ finished' = stop
      /\ path_length' = IF stop THEN path_length ELSE path_length + 1
      /\ UNCHANGED <<graph, query_depth>>

SafeSpec == Init /\ [][Step]_vars

\* The search runs to its end.
Spec == SafeSpec /\ WF_vars(Step)
==============================================================================
