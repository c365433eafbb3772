------------------------ MODULE MCSparseMatrixBuild ------------------------
(* Undirected and directed graphs over up to MaxRows nodes, self-loops      *)
(* included, with and without attributes, every selection of nodes, and the *)
(* two selections of edges that the applications use: all, and those to a   *)
(* smaller neighbour.                                                       *)
EXTENDS SparseMatrixBuild

\* The edges that the graphs may have.
DirectedEdges == {<<0, 1>>, <<1, 0>>, <<1, 2>>, <<2, 2>>}
UndirectedEdges == {<<0, 1>>, <<0, 2>>, <<1, 2>>, <<0, 0>>}

Transpose(rows) == [j \in Row |-> {i \in Row : j \in rows[i]}]
RowsOf(g) == [i \in Row |-> {j \in Row : <<i, j>> \in g}]
Smaller == {<<i, j>> \in Row \X Row : j < i}

Directed ==
  {[row |-> RowsOf(g), column |-> Transpose(RowsOf(g))] : g \in SUBSET DirectedEdges}
Undirected ==
  {[row |-> RowsOf(g \cup {<<e[2], e[1]>> : e \in g}), column |-> [i \in Row |-> {}]] :
     g \in SUBSET UndirectedEdges}

MCInputs ==
  [symmetric : {TRUE}, attributed : BOOLEAN, neighborhoods : Undirected,
   node_selection : SUBSET Row, edge_selection : {Row \X Row, Smaller}]
  \cup
  [symmetric : {FALSE}, attributed : BOOLEAN, neighborhoods : Directed,
   node_selection : SUBSET Row, edge_selection : {Row \X Row, Smaller}]
==============================================================================
