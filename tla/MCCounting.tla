------------------------------ MODULE MCCounting ------------------------------
(* Triangles and lollipops in every undirected graph over four nodes without   *)
(* loops and over three with loops, similar nodes in the same graphs, and      *)
(* symbiosis in these and in every directed graph over three nodes.            *)
EXTENDS Counting

UndirectedOver(n, least) ==
  {{<<u, v>> \in (0 .. n - 1) \X (0 .. n - 1) : {u, v} \in g} :
     g \in SUBSET {{u, v} : <<u, v>> \in
                     {p \in (0 .. n - 1) \X (0 .. n - 1) : p[1] - p[2] >= least}}}

Undirected(n, least, apps, compressed) ==
  [app : apps, symmetric : {TRUE}, nodes : {n}, compressed : compressed,
   edges : UndirectedOver(n, least)]

MCInputs ==
  Undirected(4, 1, {"triangles", "similar"}, {FALSE})
  \cup Undirected(4, 1, {"lollipops"}, BOOLEAN)
  \cup Undirected(3, 0, {"lollipops"}, {TRUE})
  \cup Undirected(3, 0, {"triangles", "similar", "symbiotic"}, {FALSE})
  \cup [app : {"symbiotic"}, symmetric : {FALSE}, nodes : {3}, compressed : {FALSE},
        edges : SUBSET ((0 .. 2) \X (0 .. 2))]
==============================================================================
