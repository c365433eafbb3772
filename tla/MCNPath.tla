------------------------------- MODULE MCNPath -------------------------------
(* All directed graphs over three nodes, self-loops included, and all       *)
(* undirected graphs over four, searched from every node.                   *)
EXTENDS NPath

CONSTANTS a, b, c, d

MCNode == {a, b, c, d}
Directed == SUBSET ({a, b, c} \X {a, b, c})
Undirected ==
  {{e \in MCNode \X MCNode : {e[1], e[2]} \in u} :
     u \in SUBSET {{n, m} : n \in MCNode, m \in MCNode}}
LoopFree == {g \in Undirected : \A n \in MCNode : <<n, n>> \notin g}
MCGraphs == Directed \cup LoopFree
==============================================================================
