-------------------------- MODULE MutableGraph_proofs --------------------------
(***************************************************************************)
(* Theorems about MutableGraph: how the loaders of GraphLoad build one, and *)
(* how the loops of Reorder renumber it.                                   *)
(*                                                                         *)
(* Loading: for every edge list, node list and loader, every edge of the   *)
(* file stands in the graph once, in both directions, with its attributes  *)
(* beside it, and a binary file gives back the graph that was written.     *)
(* Reordering: for every graph that can be loaded, every order that a sort *)
(* or a shuffle may give and every number of reorderings, reassign_ids     *)
(* renames the nodes by a permutation; both loops number every node once,  *)
(* so that what they hand to it is one.                                    *)
(***************************************************************************)
EXTENDS Reorder, GraphLoad, FiniteFacts

-----------------------------------------------------------------------------
(* Reordering (Reorder).                                                   *)

Distinct(s) == \A p, q \in 1 .. Len(s) : s[p] = s[q] => p = q

\* The nodes that have been visited are the ones that have been numbered.
Numbering == ToSet(new2old) = visited /\ Distinct(new2old)

\* How many nodes were numbered before the level of reorder_bfs, and how many have
\* been expanded: the levels are the end of what is numbered.
Base == Len(new2old) - Len(cur_level) - Len(next_level)
Expanded == Base + i

Levels ==
  /\ Base >= 0 /\ i <= Len(cur_level)
  /\ \A p \in 1 .. Len(cur_level) : cur_level[p] = new2old[Base + p]
  /\ \A p \in 1 .. Len(next_level) :
       next_level[p] = new2old[Base + Len(cur_level) + p]

\* r is the first position in s of a neighbour of the node at position p.
Finder(s, p, r) ==
  s[r] \in hood[s[p]] /\ \A t \in 1 .. r - 1 : s[t] \notin hood[s[p]]

\* Nodes that were found were found from the h first, in the order of their finders.
InOrder(s, h) ==
  /\ \A p \in 1 .. Len(s) : \A r \in 1 .. p - 1 : Finder(s, p, r) => r <= h
  /\ \A p, q \in 1 .. Len(s) : \A r \in 1 .. p - 1, t \in 1 .. q - 1 :
       Finder(s, p, r) /\ Finder(s, q, t) /\ r < t => p < q

\* reorder_bfs: every start before bfs_i has been visited, and so have the neighbours
\* of what has been expanded.
BfsState ==
  stage = "bfs" =>
    /\ tmp_new2old \in Orders
    /\ \A p \in 1 .. bfs_i : tmp_new2old[p] \in visited
    /\ Levels
    /\ \A p \in 1 .. Expanded : hood[new2old[p]] \subseteq visited
    /\ InOrder(new2old, Expanded)

\* reorder_strong_run: the neighbours of the first i nodes have been visited.
UpTo(p) == UNION {hood[tmp_new2old[q]] : q \in 1 .. p}

StrongState ==
  stage = "strong" =>
    /\ tmp_new2old \in Orders
    /\ visited = UpTo(i)
    /\ LargestHoodsFirst

\* The inductive invariant.  Neither loop leaves a node out, so that reassign_ids
\* does not throw.
IInv ==
  /\ TypeOK /\ Numbering /\ SameGraph
  /\ stage # "aborted"
  /\ BfsState /\ StrongState
-----------------------------------------------------------------------------
\* The nodes of a loaded graph are numbered from zero.
LEMMA NodeNumbers ==
  ASSUME Loadable(hood)
  PROVE  /\ num_nodes \in Nat \ {0}
         /\ Node = 0 .. num_nodes - 1
         /\ IsFiniteSet(Node)
         /\ Node \subseteq Int
<1>1. IsFiniteSet(Node) /\ Node # {} /\ Node = 0 .. num_nodes - 1
  BY DEF Loadable, Node, num_nodes
<1>2. num_nodes \in Nat
  BY <1>1, FS_CardinalityType DEF num_nodes
<1>3. num_nodes # 0
  BY <1>1, <1>2
<1>4. Node \subseteq Int
  BY <1>1, <1>2
<1> QED
  BY <1>1, <1>2, <1>3, <1>4

\* A sequence that numbers no node twice is as long as its nodes are many.
LEMMA Permutation ==
  ASSUME Loadable(hood), NEW order \in Seq(Node), Distinct(order)
  PROVE  /\ ToSet(order) \subseteq Node
         /\ Cardinality(ToSet(order)) = Len(order)
         /\ Len(order) <= num_nodes
         /\ Len(order) = num_nodes <=> ToSet(order) = Node
<1>1. Len(order) \in Nat /\ order \in [1 .. Len(order) -> Node]
  OBVIOUS
<1>2. ToSet(order) = {order[p] : p \in 1 .. Len(order)} /\ ToSet(order) \in SUBSET Node
  BY <1>1 DEF ToSet
<1>3. Cardinality(ToSet(order)) = Len(order)
  <2>1. /\ order \in [1 .. Len(order) -> ToSet(order)]
        /\ \A u \in ToSet(order) : \E p \in 1 .. Len(order) : order[p] = u
        /\ \A p, q \in 1 .. Len(order) : order[p] = order[q] => p = q
    BY <1>1, <1>2 DEF Distinct
  <2> QED
    BY <1>1, <2>1, WithoutRepetition
<1>4. IsFiniteSet(Node) /\ num_nodes \in Nat
  BY NodeNumbers
<1>5. Cardinality(ToSet(order)) <= num_nodes
      /\ (Cardinality(ToSet(order)) = num_nodes => ToSet(order) = Node)
  BY <1>2, <1>4, FS_Subset DEF num_nodes
<1>6. ToSet(order) = Node => Cardinality(ToSet(order)) = num_nodes
  BY DEF num_nodes
<1> QED
  BY <1>2, <1>3, <1>5, <1>6

\* Every order of the nodes is such a sequence.
LEMMA OrderIsPermutation ==
  ASSUME Loadable(hood), NEW order \in Orders
  PROVE  /\ order \in Seq(Node)
         /\ Len(order) = num_nodes
         /\ Distinct(order)
         /\ \A u \in Node : \E p \in 1 .. num_nodes : order[p] = u
<1>1. num_nodes \in Nat /\ IsFiniteSet(Node)
  BY NodeNumbers
<1>2. order \in [1 .. num_nodes -> Node] /\ ToSet(order) = Node
  BY DEF Orders
<1>3. order \in Seq(Node) /\ Len(order) = num_nodes
  BY <1>1, <1>2
<1>4. \A u \in Node : \E p \in 1 .. num_nodes : order[p] = u
  BY <1>2 DEF ToSet
<1>5. order \in Surjection(1 .. num_nodes, Node)
  BY <1>2, <1>4 DEF Surjection
<1>6. IsFiniteSet(1 .. num_nodes) /\ Cardinality(1 .. num_nodes) = Cardinality(Node)
  BY <1>1, FS_Interval DEF num_nodes
<1>7. order \in Injection(1 .. num_nodes, Node)
  BY <1>5, <1>6, FS_SurjSameCardinalityImpliesInj
<1>8. Distinct(order)
  BY <1>2, <1>3, <1>7 DEF Injection, IsInjective, Distinct
<1> QED
  BY <1>3, <1>4, <1>8

\* The nodes of a set, in increasing order.
LEMMA IncreasingNodes ==
  ASSUME Loadable(hood), NEW S \in SUBSET Node
  PROVE  /\ Increasing(S) \in Seq(S)
         /\ Increasing(S) \in Seq(Node)
         /\ ToSet(Increasing(S)) = S
         /\ Distinct(Increasing(S))
<1> DEFINE s == Increasing(S)
<1>1. IsFiniteSet(S) /\ S \subseteq Int
  BY NodeNumbers, FS_Subset
<1>2. s = [p \in 1 .. Cardinality(S) |-> CHOOSE x \in S : RankIn(S, x) = p - 1]
  BY DEF Increasing, RankIn
<1> HIDE DEF s
<1>3. /\ Cardinality(S) \in Nat
      /\ s \in [1 .. Cardinality(S) -> S]
      /\ \A x \in S : \E p \in 1 .. Cardinality(S) : s[p] = x
      /\ \A p, q \in 1 .. Cardinality(S) : s[p] = s[q] => p = q
  <2>1. Cardinality(S) \in Nat
    BY <1>1, FS_CardinalityType
  <2>2. \A p \in 1 .. Cardinality(S) : \E x \in S : RankIn(S, x) = p - 1
    <3>1. \A p \in 1 .. Cardinality(S) : p - 1 \in 0 .. Cardinality(S) - 1
      BY <2>1
    <3> QED
      BY <1>1, <3>1, Ranks
  <2>3. /\ s \in [1 .. Cardinality(S) -> S]
        /\ \A p \in 1 .. Cardinality(S) : RankIn(S, s[p]) = p - 1
    BY <1>2, <2>2
  <2>4. /\ \A x \in S : \E p \in 1 .. Cardinality(S) : s[p] = x /\ p = RankIn(S, x) + 1
        /\ \A p, q \in 1 .. Cardinality(S) : s[p] = s[q] => p = q
    BY <1>1, <2>3, PlacedByRank
  <2> QED
    BY <2>1, <2>3, <2>4
<1>4. s \in Seq(S) /\ s \in Seq(Node) /\ Len(s) = Cardinality(S)
  BY <1>3
<1>5. ToSet(s) = S
  BY <1>3 DEF ToSet
<1>6. Distinct(s)
  BY <1>3, <1>4 DEF Distinct
<1> QED
  BY <1>4, <1>5, <1>6 DEF s
-----------------------------------------------------------------------------
\* Renumbering by a permutation gives the graph again, with its nodes renamed.
LEMMA Renumbered ==
  ASSUME Loadable(hood), id_map \in [Node -> Nat], SameGraph,
         NEW order \in Seq(Node), Distinct(order), Len(order) = num_nodes,
         Renumber(order), UNCHANGED loaded
  PROVE  /\ Loadable(hood)' /\ Node' = Node /\ num_nodes' = num_nodes
         /\ id_map' \in [Node -> Nat]
         /\ SameGraph'
<1> DEFINE old(u) == order[u + 1]
           new(u) == OldToNew(order)[u]
<1>1. /\ num_nodes \in Nat \ {0} /\ Node = 0 .. num_nodes - 1
      /\ order \in [1 .. num_nodes -> Node] /\ ToSet(order) = Node
  BY NodeNumbers, Permutation
<1>2. \A u \in Node : old(u) \in Node
  BY <1>1
<1>3. \A u \in Node : \E p \in Node : old(p) = u
  <2> SUFFICES ASSUME NEW u \in Node PROVE \E p \in Node : old(p) = u
    OBVIOUS
  <2>1. PICK q \in 1 .. num_nodes : order[q] = u
    BY <1>1 DEF ToSet
  <2>2. q - 1 \in Node /\ old(q - 1) = u
    BY <1>1, <2>1
  <2> QED
    BY <2>2
<1>4. \A p, q \in Node : old(p) = old(q) => p = q
  BY <1>1 DEF Distinct
<1>5. \A u \in Node : new(u) \in Node /\ old(new(u)) = u
  <2> SUFFICES ASSUME NEW u \in Node PROVE new(u) \in Node /\ old(new(u)) = u
    OBVIOUS
  <2>1. PICK p \in Node : old(p) = u
    BY <1>3
  <2>2. {q \in Node : order[q + 1] = u} = {p}
    BY <1>4, <2>1
  <2>3. Max({p}) = p
    BY <1>1 DEF Max
  <2>4. new(u) = p
    BY <2>2, <2>3 DEF OldToNew
  <2> QED
    BY <2>1, <2>4
<1>6. \A p \in Node : new(old(p)) = p
  BY <1>2, <1>4, <1>5
<1>7. /\ hood' = [u \in Node |-> {new(v) : v \in hood[old(u)]}]
      /\ id_map' = [u \in Node |-> id_map[old(u)]]
  BY DEF Renumber
<1> HIDE DEF old, new
<1>8. \A u \in Node : hood[u] # {} /\ hood[u] \subseteq Node
  BY DEF Loadable, Node
<1>9. \A u, v \in Node : v \in hood[u] => u \in hood[v]
  BY DEF Loadable, Node
<1>10. Node' = Node
  BY <1>7 DEF Node
<1>11. num_nodes' = num_nodes
  BY <1>10 DEF num_nodes
<1>12. \A u, v \in Node : v \in hood'[u] <=> old(v) \in hood[old(u)]
  <2> SUFFICES ASSUME NEW u \in Node, NEW v \in Node
               PROVE  v \in hood'[u] <=> old(v) \in hood[old(u)]
    OBVIOUS
  <2>1. hood'[u] = {new(w) : w \in hood[old(u)]}
    BY <1>7
  <2>2. ASSUME old(v) \in hood[old(u)] PROVE v \in hood'[u]
    BY <1>6, <2>1, <2>2
  <2>3. ASSUME v \in hood'[u] PROVE old(v) \in hood[old(u)]
    <3>1. PICK w \in hood[old(u)] : v = new(w)
      BY <2>1, <2>3
    <3>2. old(v) = w
      BY <1>2, <1>5, <1>8, <3>1
    <3> QED
      BY <3>2
  <2> QED
    BY <2>2, <2>3
<1>13. Loadable(hood)'
  <2>1. ASSUME NEW u \in Node PROVE hood'[u] # {} /\ hood'[u] \subseteq Node
    <3>1. hood'[u] = {new(w) : w \in hood[old(u)]} /\ old(u) \in Node
      BY <1>2, <1>7
    <3>2. hood[old(u)] # {} /\ hood[old(u)] \subseteq Node
      BY <1>8, <3>1
    <3> QED
      BY <1>5, <3>1, <3>2
  <2>2. ASSUME NEW u \in Node, NEW v \in hood'[u] PROVE u \in hood'[v]
    BY <1>2, <1>9, <1>12, <2>1, <2>2
  <2>3. DOMAIN hood' = Node
    BY <1>7
  <2>4. Node # {} /\ IsFiniteSet(Node) /\ Node = 0 .. Cardinality(Node) - 1
    BY DEF Loadable, Node
  <2> QED
    BY <2>1, <2>2, <2>3, <2>4 DEF Loadable
<1>14. id_map' \in [Node -> Nat]
  BY <1>2, <1>7
<1>15. Edges' = Edges
  <2> DEFINE E == {x \in Node \X Node : x[2] \in hood[x[1]]}
             F == {x \in Node \X Node : x[2] \in hood'[x[1]]}
  <2>1. Edges = {<<id_map[e[1]], id_map[e[2]]>> : e \in E}
    BY DEF Edges
  <2>2. Edges' = {<<id_map'[e[1]], id_map'[e[2]]>> : e \in F}
    BY <1>10 DEF Edges
  <2>3. ASSUME NEW e \in F
        PROVE  /\ <<old(e[1]), old(e[2])>> \in E
               /\ id_map'[e[1]] = id_map[old(e[1])] /\ id_map'[e[2]] = id_map[old(e[2])]
    BY <1>2, <1>7, <1>12
  <2>4. ASSUME NEW e \in E
        PROVE  /\ <<new(e[1]), new(e[2])>> \in F
               /\ id_map'[new(e[1])] = id_map[e[1]] /\ id_map'[new(e[2])] = id_map[e[2]]
    <3>1. e[1] \in Node /\ e[2] \in Node /\ e[2] \in hood[e[1]]
      OBVIOUS
    <3>2. /\ new(e[1]) \in Node /\ old(new(e[1])) = e[1]
          /\ new(e[2]) \in Node /\ old(new(e[2])) = e[2]
      BY <1>5, <3>1
    <3> QED
      BY <1>7, <1>12, <3>1, <3>2
  <2> HIDE DEF E, F
  <2>5. ASSUME NEW x \in Edges' PROVE x \in Edges
    <3>1. PICK e \in F : x = <<id_map'[e[1]], id_map'[e[2]]>>
      BY <2>2
    <3> DEFINE d == <<old(e[1]), old(e[2])>>
    <3>2. d \in E /\ x = <<id_map[d[1]], id_map[d[2]]>>
      BY <2>3, <3>1
    <3> QED
      BY <2>1, <3>2
  <2>6. ASSUME NEW x \in Edges PROVE x \in Edges'
    <3>1. PICK e \in E : x = <<id_map[e[1]], id_map[e[2]]>>
      BY <2>1
    <3> DEFINE d == <<new(e[1]), new(e[2])>>
    <3>2. d \in F /\ x = <<id_map'[d[1]], id_map'[d[2]]>>
      BY <2>4, <3>1
    <3> QED
      BY <2>2, <3>2
  <2> QED
    BY <2>5, <2>6
<1>16. SameGraph'
  <2>1. ASSUME NEW u \in Node, NEW v \in Node, id_map'[u] = id_map'[v] PROVE u = v
    <3>1. id_map[old(u)] = id_map[old(v)] /\ old(u) \in Node /\ old(v) \in Node
      BY <1>2, <1>7, <2>1
    <3>2. old(u) = old(v)
      BY <3>1 DEF SameGraph
    <3> QED
      BY <1>4, <3>2 DEF old
  <2> QED
    BY <1>10, <1>15, <2>1 DEF SameGraph
<1> QED
  BY <1>10, <1>11, <1>13, <1>14, <1>16
-----------------------------------------------------------------------------
LEMMA InitIInv == Init => IInv
<1> SUFFICES ASSUME Init PROVE IInv
  OBVIOUS
<1>1. Loadable(hood)
  BY ReorderAssumption DEF Init
<1>2. num_nodes \in Nat \ {0} /\ Node = 0 .. num_nodes - 1
  BY <1>1, NodeNumbers
<1>3. id_map \in [Node -> Nat] /\ \A u \in Node : id_map[u] = u
  BY <1>2 DEF Init
<1>4. << >> \in Seq(Node)
  OBVIOUS
<1>5. TypeOK
  <2>1. /\ stage \in {"idle", "bfs", "strong", "degree", "aborted"}
        /\ then_degree \in BOOLEAN /\ tmp_new2old \in Orders \cup {<< >>}
        /\ visited \subseteq Node /\ reorderings \in Nat
    BY DEF Init
  <2>2. i \in 0 .. num_nodes /\ bfs_i \in 0 .. num_nodes
    BY <1>2 DEF Init
  <2>3. new2old \in Seq(Node) /\ cur_level \in Seq(Node) /\ next_level \in Seq(Node)
    BY <1>4 DEF Init
  <2> QED
    BY <1>1, <1>3, <2>1, <2>2, <2>3 DEF TypeOK
<1>6. Numbering
  BY DEF Init, Numbering, ToSet, Distinct
<1>7. SameGraph
  BY <1>3 DEF Init, SameGraph
<1> QED
  BY <1>5, <1>6, <1>7 DEF Init, IInv, BfsState, StrongState

\* What reassign_ids does with a permutation.
LEMMA Reassigned ==
  ASSUME IInv, NEW order \in Seq(Node), Distinct(order), Len(order) = num_nodes,
         ReassignIds(order)
  PROVE  IInv'
<1>1. num_nodes \in Nat \ {0} /\ Loadable(hood) /\ id_map \in [Node -> Nat] /\ SameGraph
  BY NodeNumbers DEF IInv, TypeOK
<1>2. /\ Renumber(order) /\ UNCHANGED loaded
      /\ stage' \in {"idle", "degree"} /\ then_degree' = FALSE
      /\ tmp_new2old' = << >> /\ new2old' = << >> /\ visited' = {}
      /\ cur_level' = << >> /\ next_level' = << >> /\ i' = 0 /\ bfs_i' = 0
      /\ reorderings' = reorderings + 1
  BY <1>1 DEF ReassignIds
<1>3. /\ Loadable(hood)' /\ Node' = Node /\ num_nodes' = num_nodes
      /\ id_map' \in [Node -> Nat] /\ SameGraph'
  BY <1>1, <1>2, Renumbered
<1>4. TypeOK'
  <2>1. << >> \in Seq(Node)
    OBVIOUS
  <2>2. reorderings' \in Nat
    BY <1>2 DEF IInv, TypeOK
  <2>3. /\ (stage \in {"idle", "bfs", "strong", "degree", "aborted"})'
        /\ (then_degree \in BOOLEAN)' /\ (tmp_new2old \in Orders \cup {<< >>})'
        /\ (visited \subseteq Node)'
    BY <1>2
  <2>4. (i \in 0 .. num_nodes)' /\ (bfs_i \in 0 .. num_nodes)'
    BY <1>1, <1>2, <1>3
  <2>5. new2old' \in Seq(Node') /\ cur_level' \in Seq(Node') /\ next_level' \in Seq(Node')
    BY <1>2, <1>3, <2>1
  <2> QED
    BY <1>3, <2>2, <2>3, <2>4, <2>5 DEF TypeOK
<1>5. Numbering'
  BY <1>2 DEF Numbering, ToSet, Distinct
<1> QED
  BY <1>2, <1>3, <1>4, <1>5 DEF IInv, BfsState, StrongState

\* The orders of the sorts and shuffles are permutations.
LEMMA OrderReassigned ==
  ASSUME IInv, NEW order \in Orders, ReassignIds(order)
  PROVE  IInv'
<1>1. Loadable(hood)
  BY DEF IInv, TypeOK
<1> QED
  BY <1>1, OrderIsPermutation, Reassigned

LEMMA SortingInv ==
  ASSUME IInv,
         \/ reorder_random \/ reorder_by_degree \/ reorder_by_rev_degree
         \/ reorder_by_shingles
  PROVE  IInv'
<1>1. CASE reorder_random
  BY <1>1, OrderReassigned DEF reorder_random
<1>2. CASE reorder_by_degree
  BY <1>2, OrderReassigned DEF reorder_by_degree, Sorted
<1>3. CASE reorder_by_rev_degree
  BY <1>3, OrderReassigned DEF reorder_by_rev_degree, Sorted
<1>4. CASE reorder_by_shingles
  BY <1>4, OrderReassigned DEF reorder_by_shingles, Sorted
<1> QED
  BY <1>1, <1>2, <1>3, <1>4
-----------------------------------------------------------------------------
\* What is numbered, with what is found from u behind it.
LEMMA FoundNumbered ==
  ASSUME IInv, NEW u \in Node
  PROVE  /\ Found(u) \in Seq(Node) /\ ToSet(Found(u)) = hood[u] \ visited
         /\ new2old \o Found(u) \in Seq(Node)
         /\ ToSet(new2old \o Found(u)) = visited \cup ToSet(Found(u))
         /\ Distinct(new2old \o Found(u))
<1> DEFINE t == Found(u)
           w == new2old \o t
<1>1. /\ Loadable(hood) /\ new2old \in Seq(Node) /\ visited \subseteq Node
      /\ ToSet(new2old) = visited /\ Distinct(new2old)
  BY DEF IInv, TypeOK, Numbering
<1>2. hood[u] \ visited \in SUBSET Node
  BY <1>1 DEF Loadable, Node
<1>3. t \in Seq(Node) /\ ToSet(t) = hood[u] \ visited /\ Distinct(t)
  BY <1>1, <1>2, IncreasingNodes DEF Found
<1> HIDE DEF t
<1>4. /\ w \in Seq(Node) /\ Len(w) = Len(new2old) + Len(t)
      /\ Len(new2old) \in Nat /\ Len(t) \in Nat
      /\ \A p \in 1 .. Len(new2old) : w[p] = new2old[p]
      /\ \A p \in 1 .. Len(t) : w[Len(new2old) + p] = t[p]
  BY <1>1, <1>3
<1> HIDE DEF w
<1>5. \A p \in 1 .. Len(w) : \/ p \in 1 .. Len(new2old) /\ w[p] = new2old[p]
                             \/ p - Len(new2old) \in 1 .. Len(t) /\ p > Len(new2old)
                                /\ w[p] = t[p - Len(new2old)]
  <2> SUFFICES ASSUME NEW p \in 1 .. Len(w), p > Len(new2old)
               PROVE  p - Len(new2old) \in 1 .. Len(t) /\ w[p] = t[p - Len(new2old)]
    BY <1>4
  <2>1. p - Len(new2old) \in 1 .. Len(t) /\ Len(new2old) + (p - Len(new2old)) = p
    BY <1>4
  <2> QED
    BY <1>4, <2>1
<1>6. DOMAIN new2old = 1 .. Len(new2old) /\ DOMAIN t = 1 .. Len(t) /\ DOMAIN w = 1 .. Len(w)
  BY <1>1, <1>3, <1>4
<1>7. ToSet(w) = visited \cup ToSet(t)
  <2>1. \A p \in 1 .. Len(new2old) : p \in 1 .. Len(w)
    BY <1>4
  <2>2. \A p \in 1 .. Len(t) : Len(new2old) + p \in 1 .. Len(w)
    BY <1>4
  <2>3. ASSUME NEW x \in ToSet(w) PROVE x \in visited \cup ToSet(t)
    <3>1. PICK p \in 1 .. Len(w) : x = w[p]
      BY <1>6 DEF ToSet
    <3> QED
      BY <1>1, <1>5, <1>6, <3>1 DEF ToSet
  <2>4. ASSUME NEW x \in visited PROVE x \in ToSet(w)
    <3>1. PICK p \in 1 .. Len(new2old) : x = new2old[p]
      BY <1>1, <1>6 DEF ToSet
    <3> QED
      BY <1>4, <1>6, <2>1, <3>1 DEF ToSet
  <2>5. ASSUME NEW x \in ToSet(t) PROVE x \in ToSet(w)
    <3>1. PICK p \in 1 .. Len(t) : x = t[p]
      BY <1>6 DEF ToSet
    <3> QED
      BY <1>4, <1>6, <2>2, <3>1 DEF ToSet
  <2> QED
    BY <2>3, <2>4, <2>5
<1>8. \A p \in 1 .. Len(new2old) : new2old[p] \in visited
  BY <1>1, <1>6 DEF ToSet
<1>9. \A p \in 1 .. Len(t) : t[p] \notin visited
  BY <1>3, <1>6 DEF ToSet
<1>10. ASSUME NEW p \in 1 .. Len(w), NEW q \in 1 .. Len(w), w[p] = w[q] PROVE p = q
  <2>1. CASE p \in 1 .. Len(new2old) /\ q \in 1 .. Len(new2old)
    BY <1>1, <1>4, <1>10, <2>1 DEF Distinct
  <2>2. CASE p > Len(new2old) /\ q > Len(new2old)
    <3>1. /\ p - Len(new2old) \in 1 .. Len(t) /\ w[p] = t[p - Len(new2old)]
          /\ q - Len(new2old) \in 1 .. Len(t) /\ w[q] = t[q - Len(new2old)]
      BY <1>4, <1>5, <2>2
    <3>2. p - Len(new2old) = q - Len(new2old)
      BY <1>3, <1>10, <3>1 DEF Distinct
    <3> QED
      BY <1>4, <3>2
  <2> QED
    BY <1>4, <1>5, <1>8, <1>9, <1>10, <2>1, <2>2, SMTT(30)
<1>11. Distinct(w)
  BY <1>10 DEF Distinct
<1> QED
  BY <1>3, <1>4, <1>7, <1>11 DEF w, t

\* The elements of a prefix.
LEMMA Prefix ==
  ASSUME NEW S, NEW s \in Seq(S), NEW k \in 0 .. Len(s)
  PROVE  ToSet(SubSeq(s, 1, k)) = {s[p] : p \in 1 .. k}
<1>1. Len(SubSeq(s, 1, k)) = k /\ SubSeq(s, 1, k) \in Seq(S)
  BY SubSeqProperties
<1>2. \A p \in 1 .. k : SubSeq(s, 1, k)[p] = s[p]
  BY SubSeqProperties
<1>3. DOMAIN SubSeq(s, 1, k) = 1 .. k
  BY <1>1
<1> QED
  BY <1>2, <1>3 DEF ToSet
-----------------------------------------------------------------------------
\* reorder_strong_run.
LEMMA StartStrongRunInv ==
  ASSUME IInv, StartStrongRun
  PROVE  IInv'
<1>1. /\ Loadable(hood) /\ UNCHANGED <<hood, id_map, loaded, then_degree, cur_level,
                                       next_level, bfs_i, reorderings>>
      /\ tmp_new2old' \in Orders /\ new2old' = << >> /\ visited' = {} /\ i' = 0
      /\ stage' = "strong"
  BY DEF IInv, TypeOK, StartStrongRun, graphVars, levelVars, Sorted
<1>2. Node' = Node /\ num_nodes' = num_nodes /\ Orders' = Orders /\ Edges' = Edges
  BY <1>1 DEF Node, num_nodes, Orders, Edges
<1>3. num_nodes \in Nat
  BY <1>1, NodeNumbers
<1>4. TypeOK'
  <2>1. << >> \in Seq(Node) /\ 0 \in 0 .. num_nodes
    BY <1>3
  <2>2. new2old' \in Seq(Node') /\ cur_level' \in Seq(Node') /\ next_level' \in Seq(Node')
    BY <1>1, <1>2, <2>1 DEF IInv, TypeOK
  <2>3. /\ Loadable(hood)' /\ id_map' \in [Node' -> Nat]
        /\ (then_degree \in BOOLEAN)' /\ reorderings' \in Nat
    BY <1>1, <1>2 DEF IInv, TypeOK
  <2>4. (i \in 0 .. num_nodes)' /\ (bfs_i \in 0 .. num_nodes)'
    BY <1>1, <1>2, <2>1 DEF IInv, TypeOK
  <2>5. (stage \in {"idle", "bfs", "strong", "degree", "aborted"})'
        /\ (visited \subseteq Node)' /\ (tmp_new2old \in Orders \cup {<< >>})'
    BY <1>1, <1>2
  <2> QED
    BY <2>2, <2>3, <2>4, <2>5 DEF TypeOK
<1>5. Numbering'
  BY <1>1 DEF Numbering, ToSet, Distinct
<1>6. SameGraph'
  BY <1>1, <1>2 DEF IInv, SameGraph
<1>7. StrongState'
  <2>1. UpTo(i)' = {}
    BY <1>1 DEF UpTo
  <2>2. LargestHoodsFirst'
    BY <1>1 DEF LargestHoodsFirst
  <2> QED
    BY <1>1, <1>2, <2>1, <2>2 DEF StrongState
<1>8. BfsState'
  BY <1>1 DEF BfsState
<1> QED
  BY <1>1, <1>4, <1>5, <1>6, <1>7, <1>8 DEF IInv

\* The prefix that is as long as a set of numbered nodes is large.
LEMMA PrefixOfSize ==
  ASSUME Loadable(hood), NEW s \in Seq(Node), Distinct(s), NEW T \in SUBSET ToSet(s)
  PROVE  /\ Cardinality(T) \in 0 .. Len(s)
         /\ ToSet(SubSeq(s, 1, Cardinality(T))) = {s[p] : p \in 1 .. Cardinality(T)}
         /\ T = ToSet(s) => ToSet(SubSeq(s, 1, Cardinality(T))) = T
<1>1. Cardinality(ToSet(s)) = Len(s) /\ ToSet(s) \subseteq Node /\ Len(s) \in Nat
  BY Permutation
<1>2. IsFiniteSet(ToSet(s))
  BY <1>1, NodeNumbers, FS_Subset
<1>3. Cardinality(T) \in Nat /\ Cardinality(T) <= Len(s)
  BY <1>1, <1>2, FS_Subset, FS_CardinalityType
<1>4. Cardinality(T) \in 0 .. Len(s)
  BY <1>1, <1>3
<1>5. ToSet(SubSeq(s, 1, Cardinality(T))) = {s[p] : p \in 1 .. Cardinality(T)}
  BY <1>4, Prefix
<1>6. ToSet(s) = {s[p] : p \in 1 .. Len(s)}
  BY DEF ToSet
<1> QED
  BY <1>1, <1>4, <1>5, <1>6

LEMMA StrongRunStepInv ==
  ASSUME IInv, StrongRunStep
  PROVE  IInv'
<1> DEFINE u == tmp_new2old[i + 1]
           t == Found(u)
<1>1. /\ Loadable(hood) /\ stage = "strong" /\ i \in Nat /\ i < num_nodes
      /\ new2old \in Seq(Node) /\ visited \subseteq Node /\ Distinct(new2old)
      /\ ToSet(new2old) = visited
      /\ UNCHANGED <<hood, id_map, loaded, stage, then_degree, tmp_new2old, cur_level,
                     next_level, bfs_i, reorderings>>
      /\ new2old' = new2old \o t /\ visited' = visited \cup ToSet(t) /\ i' = i + 1
  <2>1. num_nodes \in Nat
    BY NodeNumbers DEF IInv, TypeOK
  <2> QED
    BY <2>1 DEF IInv, TypeOK, Numbering, StrongRunStep, NumberFound, graphVars, levelVars
<1>2. Node' = Node /\ num_nodes' = num_nodes /\ Orders' = Orders /\ Edges' = Edges
  BY <1>1 DEF Node, num_nodes, Orders, Edges
<1>3. tmp_new2old \in Orders /\ visited = UpTo(i) /\ LargestHoodsFirst
  BY <1>1 DEF IInv, StrongState
<1>4. num_nodes \in Nat /\ u \in Node
  <2>1. num_nodes \in Nat /\ tmp_new2old \in [1 .. num_nodes -> Node]
    BY <1>1, <1>3, NodeNumbers DEF Orders
  <2> QED
    BY <1>1, <2>1
<1>5. /\ ToSet(t) = hood[u] \ visited
      /\ new2old' \in Seq(Node) /\ ToSet(new2old') = visited' /\ Distinct(new2old')
  BY <1>1, <1>4, FoundNumbered
<1>6. hood[u] \subseteq Node
  BY <1>1, <1>4 DEF Loadable, Node
<1>7. TypeOK'
  <2>1. visited' \subseteq Node /\ i' \in 0 .. num_nodes
    BY <1>1, <1>4, <1>5, <1>6
  <2> QED
    BY <1>1, <1>2, <1>5, <2>1 DEF IInv, TypeOK
<1>8. visited' = UpTo(i)'
  <2>1. visited' = UpTo(i) \cup hood[u]
    BY <1>1, <1>3, <1>5
  <2>2. 1 .. i + 1 = (1 .. i) \cup {i + 1}
    BY <1>1
  <2>3. UpTo(i + 1) = UpTo(i) \cup hood[u]
    BY <2>2 DEF UpTo
  <2>4. UpTo(i)' = UpTo(i + 1)
    BY <1>1 DEF UpTo
  <2> QED
    BY <2>1, <2>3, <2>4
<1>9. ASSUME NEW p \in 1 .. i + 1
      PROVE  ToSet(SubSeq(new2old', 1, Cardinality(UpTo(p)))) = UpTo(p)
  <2> DEFINE k == Cardinality(UpTo(p))
  <2>1. visited' = UpTo(i + 1)
    BY <1>1, <1>8 DEF UpTo
  <2>2. CASE p = i + 1
    BY <1>1, <1>5, <2>1, <2>2, PrefixOfSize
  <2>3. CASE p # i + 1
    <3>1. p \in 1 .. i
      BY <1>1, <2>3
    <3>2. UpTo(p) \subseteq UpTo(i) /\ UpTo(p) \subseteq UpTo(i + 1)
      BY <1>1, <3>1 DEF UpTo
    <3>3. k \in 0 .. Len(new2old)
          /\ ToSet(SubSeq(new2old, 1, k)) = {new2old[q] : q \in 1 .. k}
      BY <1>1, <1>3, <3>2, PrefixOfSize
    <3>4. ToSet(SubSeq(new2old', 1, k)) = {new2old'[q] : q \in 1 .. k}
      BY <1>1, <1>5, <2>1, <3>2, PrefixOfSize
    <3>5. ToSet(SubSeq(new2old, 1, k)) = UpTo(p)
      BY <1>1, <1>3, <3>1 DEF LargestHoodsFirst, UpTo
    <3>6. \A q \in 1 .. k : new2old'[q] = new2old[q]
      <4>1. \A q \in 1 .. Len(new2old) : new2old'[q] = new2old[q]
        <5>1. t \in Seq(Node)
          BY <1>4, FoundNumbered
        <5> QED
          BY <1>1, <5>1
      <4>2. Len(new2old) \in Nat
        BY <1>1
      <4> QED
        BY <3>3, <4>1, <4>2
    <3>7. {new2old'[q] : q \in 1 .. k} = {new2old[q] : q \in 1 .. k}
      BY <3>6
    <3> QED
      BY <3>3, <3>4, <3>5, <3>7
  <2> QED
    BY <2>2, <2>3
<1>10. StrongState'
  <2>1. LargestHoodsFirst'
    <3>1. \A p : UpTo(p)' = UpTo(p)
      BY <1>1 DEF UpTo
    <3>2. \A p \in 1 .. i' :
            ToSet(SubSeq(new2old', 1, Cardinality(UpTo(p)'))) = UpTo(p)'
      BY <1>1, <1>9, <3>1
    <3> QED
      BY <3>2 DEF LargestHoodsFirst, UpTo
  <2> QED
    BY <1>1, <1>2, <1>3, <1>8, <2>1 DEF StrongState
<1>11. Numbering'
  BY <1>5 DEF Numbering, ToSet, Distinct
<1>12. SameGraph'
  BY <1>1, <1>2 DEF IInv, SameGraph
<1>13. BfsState'
  BY <1>1 DEF BfsState
<1> QED
  BY <1>1, <1>7, <1>10, <1>11, <1>12, <1>13 DEF IInv

\* Every node is a neighbour of one, so that all have been numbered in the end.
LEMMA StrongRunDoneInv ==
  ASSUME IInv, StrongRunDone
  PROVE  IInv'
<1>1. /\ Loadable(hood) /\ stage = "strong" /\ i = num_nodes
      /\ new2old \in Seq(Node) /\ Distinct(new2old) /\ ToSet(new2old) = visited
      /\ visited \subseteq Node /\ ReassignIds(new2old)
      /\ tmp_new2old \in Orders /\ visited = UpTo(i)
  BY DEF IInv, TypeOK, Numbering, StrongState, StrongRunDone
<1>2. ASSUME NEW v \in Node PROVE v \in UpTo(i)
  <2>1. PICK w \in hood[v] : w \in Node /\ v \in hood[w]
    BY <1>1 DEF Loadable, Node
  <2>2. PICK q \in 1 .. num_nodes : tmp_new2old[q] = w
    BY <1>1, <2>1, OrderIsPermutation
  <2> QED
    BY <1>1, <2>1, <2>2 DEF UpTo
<1>3. ToSet(new2old) = Node
  BY <1>1, <1>2
<1>4. Len(new2old) = num_nodes
  BY <1>1, <1>3, Permutation
<1> QED
  BY <1>1, <1>4, Reassigned
-----------------------------------------------------------------------------
\* reorder_bfs.  What is put behind s is found from position k, or by none.
LEMMA OrderExtends ==
  ASSUME NEW s \in Seq(Node), NEW w \in Seq(Node), Len(s) <= Len(w),
         \A p \in 1 .. Len(s) : w[p] = s[p],
         NEW h \in Nat, NEW k \in Nat, h <= k, InOrder(s, h),
         \A p \in 1 .. Len(w) : \A r \in 1 .. p - 1 :
           p > Len(s) /\ Finder(w, p, r) => r = k
  PROVE  InOrder(w, k)
<1>1. Len(s) \in Nat /\ Len(w) \in Nat
  OBVIOUS
<1>2. ASSUME NEW p \in 1 .. Len(s), NEW r \in 1 .. p - 1, Finder(w, p, r)
      PROVE  Finder(s, p, r)
  <2>1. \A x \in 1 .. r : x \in 1 .. Len(s)
    BY <1>1
  <2>2. \A x \in 1 .. r : w[x] = s[x]
    BY <2>1
  <2>3. w[p] = s[p]
    OBVIOUS
  <2>4. r \in 1 .. r /\ \A x \in 1 .. r - 1 : x \in 1 .. r
    BY <1>1
  <2> QED
    BY <1>2, <2>2, <2>3, <2>4 DEF Finder
<1>3. ASSUME NEW p \in 1 .. Len(w), NEW r \in 1 .. p - 1, Finder(w, p, r)
      PROVE  /\ p > Len(s) => r = k
             /\ p <= Len(s) => p \in 1 .. Len(s) /\ r <= h /\ Finder(s, p, r)
  <2>1. ASSUME p <= Len(s) PROVE p \in 1 .. Len(s) /\ r <= h /\ Finder(s, p, r)
    <3>1. p \in 1 .. Len(s)
      BY <1>1, <2>1
    <3> QED
      BY <1>2, <1>3, <3>1 DEF InOrder
  <2> QED
    BY <1>3, <2>1
<1>4. ASSUME NEW p \in 1 .. Len(w), NEW r \in 1 .. p - 1, Finder(w, p, r)
      PROVE  r <= k
  BY <1>1, <1>3, <1>4
<1>5. ASSUME NEW p \in 1 .. Len(w), NEW q \in 1 .. Len(w),
             NEW r \in 1 .. p - 1, NEW t \in 1 .. q - 1,
             Finder(w, p, r), Finder(w, q, t), r < t
      PROVE  p < q
  <2>1. /\ p \in Int /\ q \in Int /\ r \in Int /\ t \in Int
        /\ r <= k /\ t <= k
    BY <1>4, <1>5
  <2>2. CASE p <= Len(s) /\ q <= Len(s)
    <3>1. /\ p \in 1 .. Len(s) /\ q \in 1 .. Len(s)
          /\ Finder(s, p, r) /\ Finder(s, q, t)
      BY <1>3, <1>5, <2>2
    <3> QED
      BY <1>5, <3>1 DEF InOrder
  <2>3. CASE p > Len(s)
    <3>1. r = k
      BY <1>3, <1>5, <2>3
    <3> QED
      BY <1>5, <2>1, <3>1
  <2>4. CASE p <= Len(s) /\ q > Len(s)
    BY <1>1, <2>1, <2>4
  <2> QED
    BY <1>1, <2>1, <2>2, <2>3, <2>4
<1> QED
  BY <1>4, <1>5 DEF InOrder

\* What IInv says while reorder_bfs runs.
LEMMA BfsFacts ==
  ASSUME IInv, stage = "bfs"
  PROVE  /\ num_nodes \in Nat \ {0} /\ Node = 0 .. num_nodes - 1 /\ Loadable(hood)
         /\ new2old \in Seq(Node) /\ ToSet(new2old) = visited /\ visited \subseteq Node
         /\ Distinct(new2old) /\ Len(new2old) <= num_nodes
         /\ cur_level \in Seq(Node) /\ next_level \in Seq(Node)
         /\ Len(cur_level) \in Nat /\ Len(next_level) \in Nat /\ Len(new2old) \in Nat
         /\ i \in Nat /\ i <= Len(cur_level) /\ Base \in Nat /\ Expanded \in Nat
         /\ Expanded <= Base + Len(cur_level)
         /\ Len(new2old) = Base + Len(cur_level) + Len(next_level)
         /\ tmp_new2old \in Orders /\ bfs_i \in 0 .. num_nodes
         /\ \A p \in 1 .. Len(new2old) : new2old[p] \in visited
<1>1. num_nodes \in Nat \ {0} /\ Node = 0 .. num_nodes - 1 /\ Loadable(hood)
  BY NodeNumbers DEF IInv, TypeOK
<1>2. /\ new2old \in Seq(Node) /\ ToSet(new2old) = visited /\ visited \subseteq Node
      /\ Distinct(new2old) /\ cur_level \in Seq(Node) /\ next_level \in Seq(Node)
      /\ tmp_new2old \in Orders /\ bfs_i \in 0 .. num_nodes
  BY DEF IInv, TypeOK, Numbering, BfsState
<1>3. Len(new2old) <= num_nodes
  BY <1>1, <1>2, Permutation
<1>4. i \in Nat /\ Base >= 0 /\ i <= Len(cur_level)
  BY <1>1 DEF IInv, TypeOK, BfsState, Levels
<1>5. Len(cur_level) \in Nat /\ Len(next_level) \in Nat /\ Len(new2old) \in Nat
  BY <1>2
<1>6. /\ Base \in Nat /\ Expanded \in Nat
      /\ Expanded <= Base + Len(cur_level)
      /\ Len(new2old) = Base + Len(cur_level) + Len(next_level)
  BY <1>4, <1>5 DEF Base, Expanded
<1>7. \A p \in 1 .. Len(new2old) : new2old[p] \in visited
  BY <1>2 DEF ToSet
<1> QED
  BY <1>1, <1>2, <1>3, <1>4, <1>5, <1>6, <1>7

LEMMA StartBfsInv ==
  ASSUME IInv, NEW game \in BOOLEAN, StartBfs(game)
  PROVE  IInv'
<1>1. PICK order \in Orders :
        /\ tmp_new2old' = order
        /\ cur_level' = <<order[1]>>
        /\ new2old' = <<order[1]>>
        /\ visited' = {order[1]}
  BY DEF StartBfs
<1>2. /\ Loadable(hood) /\ UNCHANGED <<hood, id_map, loaded, reorderings>>
      /\ next_level' = << >> /\ i' = 0 /\ bfs_i' = 1 /\ then_degree' = game
      /\ stage' = "bfs"
  BY DEF IInv, TypeOK, StartBfs, graphVars
<1>3. Node' = Node /\ num_nodes' = num_nodes /\ Orders' = Orders /\ Edges' = Edges
  BY <1>2 DEF Node, num_nodes, Orders, Edges
<1>4. num_nodes \in Nat \ {0} /\ order[1] \in Node
  BY <1>2, NodeNumbers DEF Orders
<1> DEFINE s == <<order[1]>>
<1>5. s \in Seq(Node) /\ << >> \in Seq(Node) /\ Len(s) = 1 /\ s[1] = order[1]
  BY <1>4
<1>6. TypeOK'
  <2>1. 0 \in 0 .. num_nodes /\ 1 \in 0 .. num_nodes
    BY <1>4
  <2>2. new2old' \in Seq(Node') /\ cur_level' \in Seq(Node') /\ next_level' \in Seq(Node')
    BY <1>1, <1>2, <1>3, <1>5
  <2>3. /\ Loadable(hood)' /\ id_map' \in [Node' -> Nat]
        /\ (then_degree \in BOOLEAN)' /\ reorderings' \in Nat
    BY <1>2, <1>3 DEF IInv, TypeOK
  <2>4. (i \in 0 .. num_nodes)' /\ (bfs_i \in 0 .. num_nodes)'
    BY <1>2, <1>3, <2>1
  <2>5. (stage \in {"idle", "bfs", "strong", "degree", "aborted"})'
        /\ (visited \subseteq Node)' /\ (tmp_new2old \in Orders \cup {<< >>})'
    BY <1>1, <1>2, <1>3, <1>4
  <2> QED
    BY <2>2, <2>3, <2>4, <2>5 DEF TypeOK
<1>7. Numbering'
  <2>1. ToSet(s) = {order[1]}
    BY <1>5 DEF ToSet
  <2>2. Distinct(s)
    BY <1>5 DEF Distinct
  <2> QED
    BY <1>1, <2>1, <2>2 DEF Numbering, ToSet, Distinct
<1>8. SameGraph'
  BY <1>2, <1>3 DEF IInv, SameGraph
<1>9. Base' = 0 /\ Expanded' = 0
  <2>1. Len(new2old') = 1 /\ Len(cur_level') = 1 /\ Len(next_level') = 0 /\ i' = 0
    BY <1>1, <1>2, <1>5
  <2> QED
    BY <2>1 DEF Base, Expanded
<1>10. Levels'
  <2>1. \A p \in 1 .. Len(s) : s[p] = s[0 + p]
    BY <1>5
  <2>2. 1 .. Len(next_level') = {}
    BY <1>2
  <2> QED
    BY <1>1, <1>2, <1>5, <1>9, <2>1, <2>2 DEF Levels
<1>11. InOrder(new2old, Expanded)'
  <2>1. \A p \in 1 .. Len(new2old') : 1 .. p - 1 = {}
    BY <1>1, <1>5
  <2> QED
    BY <2>1 DEF InOrder
<1>12. BfsState'
  <2>1. \A p \in 1 .. bfs_i' : tmp_new2old'[p] \in visited'
    BY <1>1, <1>2
  <2>2. 1 .. Expanded' = {}
    BY <1>9
  <2> QED
    BY <1>1, <1>3, <1>10, <1>11, <2>1, <2>2 DEF BfsState
<1>13. StrongState'
  BY <1>2 DEF StrongState
<1> QED
  BY <1>2, <1>6, <1>7, <1>8, <1>12, <1>13 DEF IInv

\* A sequence behind another.
LEMMA Concatenated ==
  ASSUME NEW S, NEW s \in Seq(S), NEW t \in Seq(S)
  PROVE  /\ s \o t \in Seq(S)
         /\ Len(s) \in Nat /\ Len(t) \in Nat /\ Len(s \o t) = Len(s) + Len(t)
         /\ \A p \in 1 .. Len(s) : (s \o t)[p] = s[p]
         /\ \A p \in 1 .. Len(t) : (s \o t)[Len(s) + p] = t[p]
OBVIOUS

LEMMA BfsExpandInv ==
  ASSUME IInv, BfsExpand
  PROVE  IInv'
<1> DEFINE u == cur_level[i + 1]
           t == Found(u)
           w == new2old \o t
           h == Expanded
<1>1. /\ stage = "bfs" /\ i < Len(cur_level)
      /\ new2old' = w /\ visited' = visited \cup ToSet(t) /\ i' = i + 1
      /\ next_level' = next_level \o t
      /\ UNCHANGED <<hood, id_map, loaded, stage, then_degree, tmp_new2old, cur_level,
                     bfs_i, reorderings>>
  BY DEF BfsExpand, InBfs, NumberFound, graphVars
<1>2. /\ num_nodes \in Nat \ {0} /\ Node = 0 .. num_nodes - 1 /\ Loadable(hood)
      /\ new2old \in Seq(Node) /\ ToSet(new2old) = visited /\ visited \subseteq Node
      /\ cur_level \in Seq(Node) /\ next_level \in Seq(Node)
      /\ Len(cur_level) \in Nat /\ Len(next_level) \in Nat /\ Len(new2old) \in Nat
      /\ i \in Nat /\ Base \in Nat /\ h \in Nat
      /\ Len(new2old) = Base + Len(cur_level) + Len(next_level)
      /\ tmp_new2old \in Orders /\ bfs_i \in 0 .. num_nodes
      /\ \A p \in 1 .. Len(new2old) : new2old[p] \in visited
  BY <1>1, BfsFacts
<1>3. Node' = Node /\ num_nodes' = num_nodes /\ Orders' = Orders /\ Edges' = Edges
  BY <1>1 DEF Node, num_nodes, Orders, Edges
<1>4. h + 1 \in 1 .. Len(new2old) /\ u = new2old[h + 1] /\ u \in Node /\ h = Base + i
  <2>1. i + 1 \in 1 .. Len(cur_level) /\ h = Base + i
    BY <1>1, <1>2 DEF Expanded
  <2>2. h + 1 \in 1 .. Len(new2old)
    BY <1>1, <1>2, <2>1
  <2>3. u = new2old[Base + (i + 1)]
    BY <1>1, <2>1 DEF IInv, BfsState, Levels
  <2>4. Base + (i + 1) = h + 1
    BY <1>2, <2>1
  <2> QED
    BY <1>2, <2>1, <2>2, <2>3, <2>4
<1>5. /\ t \in Seq(Node) /\ ToSet(t) = hood[u] \ visited
      /\ w \in Seq(Node) /\ ToSet(w) = visited' /\ Distinct(w)
  BY <1>1, <1>4, FoundNumbered
<1> HIDE DEF t, u, h
<1>6. /\ Len(t) \in Nat /\ Len(w) = Len(new2old) + Len(t)
      /\ \A p \in 1 .. Len(new2old) : w[p] = new2old[p]
      /\ \A p \in 1 .. Len(t) : w[Len(new2old) + p] = t[p]
  <2>1. new2old \in Seq(Node) /\ t \in Seq(Node)
    BY <1>2, <1>5
  <2> QED
    BY <2>1, Concatenated
<1>7. /\ next_level' \in Seq(Node) /\ Len(next_level') = Len(next_level) + Len(t)
      /\ \A p \in 1 .. Len(next_level) : next_level'[p] = next_level[p]
      /\ \A p \in 1 .. Len(t) : next_level'[Len(next_level) + p] = t[p]
  BY <1>1, <1>2, <1>5, Concatenated
<1> HIDE DEF w
<1>8. hood[u] \subseteq Node /\ hood[u] \subseteq visited'
  BY <1>1, <1>2, <1>4, <1>5 DEF Loadable, Node
<1>9. TypeOK'
  <2>1. Len(cur_level) <= num_nodes
    BY <1>1, <1>2, BfsFacts
  <2>2. i' \in 0 .. num_nodes
    BY <1>1, <1>2, <2>1
  <2>3. visited' \subseteq Node
    BY <1>1, <1>2, <1>5, <1>8
  <2> QED
    BY <1>1, <1>3, <1>5, <1>7, <2>2, <2>3 DEF IInv, TypeOK
<1>10. Base' = Base /\ Expanded' = h + 1
  <2>1. Base' = Len(w) - Len(cur_level) - Len(next_level')
    BY <1>1 DEF Base
  <2>2. Base' = Base
    BY <1>2, <1>6, <1>7, <2>1
  <2> QED
    BY <1>1, <1>2, <1>4, <2>2 DEF Expanded
<1>11. Levels'
  <2>1. \A p \in 1 .. Len(cur_level) : cur_level[p] = w[Base + p]
    <3>1. \A p \in 1 .. Len(cur_level) : Base + p \in 1 .. Len(new2old)
      BY <1>2
    <3> QED
      BY <1>1, <1>6, <3>1 DEF IInv, BfsState, Levels
  <2>2. ASSUME NEW p \in 1 .. Len(next_level')
        PROVE  next_level'[p] = w[Base + Len(cur_level) + p]
    <3>1. CASE p <= Len(next_level)
      <4>1. p \in 1 .. Len(next_level) /\ Base + Len(cur_level) + p \in 1 .. Len(new2old)
        BY <1>2, <3>1
      <4>2. next_level[p] = new2old[Base + Len(cur_level) + p]
        BY <1>1, <4>1 DEF IInv, BfsState, Levels
      <4> QED
        BY <1>6, <1>7, <4>1, <4>2
    <3>2. CASE p > Len(next_level)
      <4> DEFINE q == p - Len(next_level)
      <4>1. /\ q \in 1 .. Len(t) /\ Len(next_level) + q = p
            /\ Len(new2old) + q = Base + Len(cur_level) + p
        BY <1>2, <1>6, <1>7, <3>2
      <4> HIDE DEF q
      <4>2. next_level'[Len(next_level) + q] = t[q] /\ w[Len(new2old) + q] = t[q]
        BY <1>6, <1>7, <4>1
      <4> QED
        BY <4>1, <4>2
    <3> QED
      BY <1>2, <3>1, <3>2
  <2>3. i' <= Len(cur_level)
    BY <1>1, <1>2
  <2>4. /\ \A p \in 1 .. Len(cur_level') : cur_level'[p] = new2old'[Base' + p]
        /\ \A p \in 1 .. Len(next_level') :
             next_level'[p] = new2old'[Base' + Len(cur_level') + p]
    BY <1>1, <1>10, <2>1, <2>2
  <2>5. Base' >= 0 /\ i' <= Len(cur_level')
    BY <1>1, <1>2, <1>10, <2>3
  <2> QED
    BY <2>4, <2>5 DEF Levels
<1>12. \A p \in 1 .. h : hood[new2old[p]] \subseteq visited
  BY <1>1 DEF IInv, BfsState, h
<1>13. \A p \in 1 .. h + 1 : hood[w[p]] \subseteq visited'
  <2> SUFFICES ASSUME NEW p \in 1 .. h + 1 PROVE hood[w[p]] \subseteq visited'
    OBVIOUS
  <2>1. p \in 1 .. Len(new2old) /\ (p \in 1 .. h \/ p = h + 1)
    BY <1>2, <1>4
  <2>2. w[p] = new2old[p]
    BY <1>6, <2>1
  <2> QED
    BY <1>1, <1>4, <1>8, <1>12, <2>1, <2>2
<1>14. InOrder(w, h + 1)
  <2>1. ASSUME NEW p \in 1 .. Len(w), NEW r \in 1 .. p - 1,
               p > Len(new2old), Finder(w, p, r)
        PROVE  r = h + 1
    <3> DEFINE q == p - Len(new2old)
    <3>1. q \in 1 .. Len(t) /\ Len(new2old) + q = p
      BY <1>2, <1>6, <2>1
    <3>2. w[p] = t[q]
      BY <1>6, <3>1
    <3> HIDE DEF q
    <3>3. w[p] \in hood[u] /\ w[p] \notin visited
      BY <1>5, <3>1, <3>2 DEF ToSet
    <3>4. w[p] \in Node /\ u \in hood[w[p]]
      BY <1>2, <1>4, <1>8, <3>3 DEF Loadable, Node
    <3>5. \A x \in 1 .. h : w[x] \notin hood[w[p]]
      <4> SUFFICES ASSUME NEW x \in 1 .. h, w[x] \in hood[w[p]] PROVE FALSE
        OBVIOUS
      <4>1. x \in 1 .. Len(new2old)
        BY <1>2, <1>4
      <4>2. w[x] = new2old[x]
        BY <1>6, <4>1
      <4>3. w[p] \in hood[w[x]]
        BY <1>2, <3>4 DEF Loadable, Node
      <4> QED
        BY <1>12, <3>3, <4>2, <4>3
    <3>6. w[h + 1] = u
      BY <1>4, <1>6
    <3>7. r \in Int /\ h \in Int
      BY <1>2
    <3>8. ~(r <= h)
      BY <2>1, <3>5, <3>7 DEF Finder
    <3>9. ~(h + 1 < r)
      <4> SUFFICES ASSUME h + 1 < r PROVE FALSE
        OBVIOUS
      <4>1. h + 1 \in 1 .. r - 1
        BY <1>2, <3>7
      <4> QED
        BY <2>1, <3>4, <3>6, <4>1 DEF Finder
    <3> QED
      BY <3>7, <3>8, <3>9
  <2>2. InOrder(new2old, h)
    BY <1>1 DEF IInv, BfsState, h
  <2>3. Len(new2old) <= Len(w) /\ h + 1 \in Nat /\ h <= h + 1
    BY <1>2, <1>6
  <2> QED
    BY <1>2, <1>5, <1>6, <2>1, <2>2, <2>3, OrderExtends
<1>15. BfsState'
  <2>1. \A p \in 1 .. bfs_i' : tmp_new2old'[p] \in visited'
    BY <1>1 DEF IInv, BfsState
  <2>2. \A p \in 1 .. Expanded' : hood'[new2old'[p]] \subseteq visited'
    BY <1>1, <1>10, <1>13
  <2>3. InOrder(new2old, Expanded)'
    BY <1>1, <1>10, <1>14 DEF InOrder, Finder
  <2> QED
    BY <1>1, <1>2, <1>3, <1>11, <2>1, <2>2, <2>3 DEF BfsState
<1>16. Numbering'
  BY <1>1, <1>5 DEF Numbering, ToSet, Distinct
<1>17. SameGraph'
  BY <1>1, <1>3 DEF IInv, SameGraph
<1>18. StrongState'
  BY <1>1 DEF StrongState
<1> QED
  BY <1>1, <1>9, <1>15, <1>16, <1>17, <1>18 DEF IInv

\* While nodes are missing, one at or behind bfs_i has not been visited.
LEMMA StartExists ==
  ASSUME IInv, stage = "bfs", Len(new2old) < num_nodes
  PROVE  /\ NextStart \in bfs_i .. num_nodes - 1
         /\ tmp_new2old[NextStart + 1] \in Node \ visited
         /\ \A p \in 1 .. NextStart : tmp_new2old[p] \in visited
<1> DEFINE S == {p \in bfs_i .. num_nodes - 1 : tmp_new2old[p + 1] \notin visited}
<1>1. /\ num_nodes \in Nat \ {0} /\ bfs_i \in 0 .. num_nodes /\ Loadable(hood)
      /\ tmp_new2old \in Orders /\ new2old \in Seq(Node) /\ Distinct(new2old)
      /\ ToSet(new2old) = visited /\ visited \subseteq Node
  BY BfsFacts
<1>2. \A p \in 1 .. bfs_i : tmp_new2old[p] \in visited
  BY DEF IInv, BfsState
<1>3. PICK u \in Node : u \notin visited
  <2>1. ToSet(new2old) # Node
    <3>1. Len(new2old) = num_nodes <=> ToSet(new2old) = Node
      BY <1>1, Permutation
    <3>2. Len(new2old) # num_nodes
      BY <1>1
    <3> QED
      BY <3>1, <3>2
  <2> QED
    BY <1>1, <2>1
<1>4. PICK q \in 1 .. num_nodes : tmp_new2old[q] = u
  BY <1>1, OrderIsPermutation
<1>5. q - 1 \in S
  <2>1. ~(q <= bfs_i)
    <3> SUFFICES ASSUME q <= bfs_i PROVE FALSE
      OBVIOUS
    <3>1. q \in 1 .. bfs_i
      BY <1>1
    <3> QED
      BY <1>2, <1>3, <1>4, <3>1
  <2>2. q - 1 \in bfs_i .. num_nodes - 1 /\ (q - 1) + 1 = q
    BY <1>1, <2>1
  <2> QED
    BY <1>3, <1>4, <2>2
<1>6. \A p \in S : p \in Nat /\ p < num_nodes /\ bfs_i <= p /\ tmp_new2old[p + 1] \notin visited
  BY <1>1
<1> HIDE DEF S
<1>7. PICK m \in {num_nodes} \cup S : \A p \in {num_nodes} \cup S : m <= p
  <2>1. {num_nodes} \cup S \in SUBSET Nat /\ {num_nodes} \cup S # {}
    BY <1>1, <1>6
  <2> QED
    BY <2>1, LeastNumber
<1>8. NextStart \in {num_nodes} \cup S /\ \A p \in {num_nodes} \cup S : NextStart <= p
  BY <1>7 DEF NextStart, Min, S
<1>9. NextStart \in S
  <2>1. NextStart <= q - 1 /\ q - 1 < num_nodes /\ q - 1 \in Nat
    BY <1>5, <1>6, <1>8
  <2>2. NextStart # num_nodes
    BY <1>1, <2>1
  <2> QED
    BY <1>8, <2>2
<1>10. NextStart \in bfs_i .. num_nodes - 1 /\ tmp_new2old[NextStart + 1] \in Node \ visited
  <2>1. NextStart \in Nat /\ NextStart < num_nodes /\ bfs_i <= NextStart
        /\ tmp_new2old[NextStart + 1] \notin visited
    BY <1>6, <1>9
  <2>2. NextStart + 1 \in 1 .. num_nodes
    BY <1>1, <2>1
  <2>3. tmp_new2old[NextStart + 1] \in Node
    BY <1>1, <2>2 DEF Orders
  <2> QED
    BY <1>1, <2>1, <2>3
<1>11. ASSUME NEW p \in 1 .. NextStart PROVE tmp_new2old[p] \in visited
  <2>1. CASE p <= bfs_i
    <3>1. p \in 1 .. bfs_i
      BY <1>1, <1>10, <2>1
    <3> QED
      BY <1>2, <3>1
  <2>2. CASE p > bfs_i
    <3>1. p - 1 \in bfs_i .. num_nodes - 1 /\ ~(NextStart <= p - 1) /\ (p - 1) + 1 = p
      BY <1>1, <1>10, <2>2
    <3>2. p - 1 \notin S
      BY <1>8, <3>1
    <3> QED
      BY <3>1, <3>2 DEF S
  <2> QED
    BY <1>1, <1>10, <2>1, <2>2
<1> QED
  BY <1>10, <1>11

\* The end of a level, with the next one or with the next component.
LEMMA BfsNextLevelInv ==
  ASSUME IInv, BfsNextLevel
  PROVE  IInv'
<1> DEFINE start == tmp_new2old[NextStart + 1]
           w == Append(new2old, start)
<1>1. /\ stage = "bfs" /\ i >= Len(cur_level)
      /\ UNCHANGED <<hood, id_map, loaded, stage, then_degree, tmp_new2old, reorderings>>
  BY DEF BfsNextLevel, InBfs, graphVars
<1>2. /\ num_nodes \in Nat \ {0} /\ Node = 0 .. num_nodes - 1 /\ Loadable(hood)
      /\ new2old \in Seq(Node) /\ ToSet(new2old) = visited /\ visited \subseteq Node
      /\ Distinct(new2old) /\ Len(new2old) <= num_nodes
      /\ cur_level \in Seq(Node) /\ next_level \in Seq(Node)
      /\ Len(cur_level) \in Nat /\ Len(next_level) \in Nat /\ Len(new2old) \in Nat
      /\ i = Len(cur_level) /\ Base \in Nat /\ Expanded \in Nat
      /\ Len(new2old) = Base + Len(cur_level) + Len(next_level)
      /\ tmp_new2old \in Orders /\ bfs_i \in 0 .. num_nodes
      /\ \A p \in 1 .. Len(new2old) : new2old[p] \in visited
  BY <1>1, BfsFacts
<1>3. Node' = Node /\ num_nodes' = num_nodes /\ Orders' = Orders /\ Edges' = Edges
  BY <1>1 DEF Node, num_nodes, Orders, Edges
<1>4. Expanded = Base + Len(cur_level)
  BY <1>2 DEF Expanded
<1>5. /\ \A p \in 1 .. bfs_i : tmp_new2old[p] \in visited
      /\ \A p \in 1 .. Expanded : hood[new2old[p]] \subseteq visited
      /\ InOrder(new2old, Expanded)
      /\ \A p \in 1 .. Len(next_level) :
           next_level[p] = new2old[Base + Len(cur_level) + p]
  BY <1>1 DEF IInv, BfsState, Levels
<1>6. CASE /\ Len(next_level) = 0 /\ Len(new2old) < num_nodes
           /\ EnterLevel(<<start>>) /\ new2old' = w
           /\ visited' = visited \cup {start} /\ bfs_i' = NextStart + 1
  <2>1. /\ NextStart \in bfs_i .. num_nodes - 1 /\ start \in Node /\ start \notin visited
        /\ \A p \in 1 .. NextStart : tmp_new2old[p] \in visited
    BY <1>1, <1>6, StartExists
  <2>2. cur_level' = <<start>> /\ next_level' = << >> /\ i' = 0
    BY <1>6 DEF EnterLevel
  <2> HIDE DEF start
  <2>3. /\ w \in Seq(Node) /\ Len(w) = Len(new2old) + 1
        /\ \A p \in 1 .. Len(new2old) : w[p] = new2old[p]
        /\ w[Len(new2old) + 1] = start
    <3>1. new2old \in Seq(Node) /\ start \in Node
      BY <1>2, <2>1
    <3> QED
      BY ONLY <3>1, AppendProperties DEF w
  <2> HIDE DEF w
  <2>4. \A p \in 1 .. Len(w) : p \in 1 .. Len(new2old) \/ p = Len(new2old) + 1
    <3>1. Len(new2old) \in Nat /\ Len(w) = Len(new2old) + 1
      BY <1>2, <2>3
    <3> QED
      BY ONLY <3>1
  <2>5. Numbering'
    <3>1. DOMAIN w = 1 .. Len(w) /\ DOMAIN new2old = 1 .. Len(new2old)
      BY <1>2, <2>3
    <3>2. Len(new2old) + 1 \in 1 .. Len(w) /\ \A p \in 1 .. Len(new2old) : p \in 1 .. Len(w)
      BY <1>2, <2>3
    <3>3. ToSet(w) = visited \cup {start}
      <4>1. ASSUME NEW x \in ToSet(w) PROVE x \in visited \cup {start}
        BY <1>2, <2>3, <2>4, <3>1 DEF ToSet
      <4>2. ASSUME NEW x \in visited PROVE x \in ToSet(w)
        BY <1>2, <2>3, <3>1, <3>2 DEF ToSet
      <4>3. start \in ToSet(w)
        BY <2>3, <3>1, <3>2 DEF ToSet
      <4> QED
        BY <4>1, <4>2, <4>3
    <3>4. ASSUME NEW p \in 1 .. Len(w), NEW q \in 1 .. Len(w), w[p] = w[q] PROVE p = q
      <4>1. CASE p \in 1 .. Len(new2old) /\ q \in 1 .. Len(new2old)
        BY <1>2, <2>3, <3>4, <4>1 DEF Distinct
      <4> QED
        BY <1>2, <2>1, <2>3, <2>4, <3>4, <4>1
    <3> QED
      BY <1>6, <3>3, <3>4, ZenonT(30) DEF Numbering, ToSet, Distinct
  <2>6. TypeOK'
    <3>1. <<start>> \in Seq(Node) /\ << >> \in Seq(Node)
      BY <2>1
    <3>2. 0 \in 0 .. num_nodes /\ NextStart + 1 \in 0 .. num_nodes
      BY <1>2, <2>1
    <3>3. visited' \subseteq Node
      BY <1>2, <1>6, <2>1
    <3> QED
      BY <1>1, <1>3, <1>6, <2>2, <2>3, <3>1, <3>2, <3>3 DEF IInv, TypeOK
  <2>7. Base' = Len(new2old) /\ Expanded' = Len(new2old)
    <3>1. Len(new2old') = Len(new2old) + 1 /\ Len(cur_level') = 1 /\ Len(next_level') = 0
          /\ i' = 0
      BY <1>6, <2>2, <2>3
    <3> QED
      BY <1>2, <3>1 DEF Base, Expanded
  <2>8. Levels'
    <3>1. \A p \in 1 .. Len(cur_level') : cur_level'[p] = new2old'[Base' + p]
      <4>1. \A p \in 1 .. Len(cur_level') : p = 1
        BY <2>2
      <4> QED
        BY <1>6, <2>2, <2>3, <2>7, <4>1
    <3>2. 1 .. Len(next_level') = {}
      BY <2>2
    <3>3. Base' >= 0 /\ i' <= Len(cur_level')
      BY <1>2, <2>2, <2>7
    <3> QED
      BY <3>1, <3>2, <3>3 DEF Levels
  <2>9. Expanded = Len(new2old)
    BY <1>2, <1>4, <1>6
  <2>10. InOrder(w, Len(new2old))
    <3>1. ASSUME NEW p \in 1 .. Len(w), NEW r \in 1 .. p - 1,
                 p > Len(new2old), Finder(w, p, r)
          PROVE  r = Len(new2old)
      <4>1. p = Len(new2old) + 1 /\ r \in 1 .. Len(new2old)
        BY <1>2, <2>4, <3>1
      <4>2. w[p] = start /\ w[r] = new2old[r]
        BY <2>3, <4>1
      <4>3. new2old[r] \in hood[start]
        BY <3>1, <4>2 DEF Finder
      <4>4. start \in hood[new2old[r]]
        BY <1>2, <2>1, <4>3 DEF Loadable, Node
      <4> QED
        BY <1>5, <2>1, <2>9, <4>1, <4>4
    <3>2. Len(new2old) <= Len(w)
      BY <1>2, <2>3
    <3>3. InOrder(new2old, Len(new2old))
      BY <1>5, <2>9
    <3>4. /\ new2old \in Seq(Node) /\ w \in Seq(Node)
          /\ \A p \in 1 .. Len(new2old) : w[p] = new2old[p]
          /\ Len(new2old) \in Nat /\ Len(new2old) <= Len(new2old)
      BY <1>2, <2>3
    <3>5. \A p \in 1 .. Len(w) : \A r \in 1 .. p - 1 :
            p > Len(new2old) /\ Finder(w, p, r) => r = Len(new2old)
      BY <3>1
    <3> QED
      BY <3>2, <3>3, <3>4, <3>5, OrderExtends
  <2>11. BfsState'
    <3>1. \A p \in 1 .. bfs_i' : tmp_new2old'[p] \in visited'
      <4>1. \A p \in 1 .. NextStart + 1 : p \in 1 .. NextStart \/ p = NextStart + 1
        BY <1>2, <2>1
      <4> QED
        BY <1>1, <1>6, <2>1, <4>1 DEF start
    <3>2. \A p \in 1 .. Expanded' : hood'[new2old'[p]] \subseteq visited'
      BY <1>1, <1>5, <1>6, <2>3, <2>7, <2>9
    <3>3. InOrder(new2old, Expanded)'
      <4>1. new2old' = w /\ Expanded' = Len(new2old) /\ hood' = hood
        BY <1>1, <1>6, <2>7
      <4> QED
        BY <2>10, <4>1 DEF InOrder, Finder
    <3> QED
      BY <1>1, <1>2, <1>3, <2>8, <3>1, <3>2, <3>3 DEF BfsState
  <2>12. SameGraph'
    BY <1>1, <1>3 DEF IInv, SameGraph
  <2>13. StrongState'
    BY <1>1 DEF StrongState
  <2> QED
    BY <1>1, <2>5, <2>6, <2>11, <2>12, <2>13 DEF IInv
<1>7. CASE EnterLevel(next_level) /\ UNCHANGED <<new2old, visited, bfs_i>>
  <2>1. cur_level' = next_level /\ next_level' = << >> /\ i' = 0
    BY <1>7 DEF EnterLevel
  <2>2. TypeOK'
    <3>1. << >> \in Seq(Node) /\ 0 \in 0 .. num_nodes
      BY <1>2
    <3> QED
      BY <1>1, <1>3, <1>7, <2>1, <3>1 DEF IInv, TypeOK
  <2>3. Base' = Expanded /\ Expanded' = Expanded
    <3>1. Len(new2old') = Len(new2old) /\ Len(cur_level') = Len(next_level)
          /\ Len(next_level') = 0 /\ i' = 0
      BY <1>7, <2>1
    <3> QED
      BY <1>2, <1>4, <3>1 DEF Base, Expanded
  <2>4. Levels'
    <3>1. \A p \in 1 .. Len(cur_level') : cur_level'[p] = new2old'[Base' + p]
      BY <1>4, <1>5, <1>7, <2>1, <2>3
    <3>2. 1 .. Len(next_level') = {}
      BY <2>1
    <3>3. Base' >= 0 /\ i' <= Len(cur_level')
      BY <1>2, <2>1, <2>3
    <3> QED
      BY <3>1, <3>2, <3>3 DEF Levels
  <2>5. BfsState'
    <3>1. InOrder(new2old, Expanded)'
      BY <1>1, <1>5, <1>7, <2>3 DEF InOrder, Finder
    <3>2. /\ \A p \in 1 .. bfs_i' : tmp_new2old'[p] \in visited'
          /\ \A p \in 1 .. Expanded' : hood'[new2old'[p]] \subseteq visited'
      BY <1>1, <1>5, <1>7, <2>3
    <3> QED
      BY <1>1, <1>2, <1>3, <2>4, <3>1, <3>2 DEF BfsState
  <2>6. Numbering'
    BY <1>7 DEF IInv, Numbering, ToSet, Distinct
  <2>7. SameGraph'
    BY <1>1, <1>3 DEF IInv, SameGraph
  <2>8. StrongState'
    BY <1>1 DEF StrongState
  <2> QED
    BY <1>1, <2>2, <2>5, <2>6, <2>7, <2>8 DEF IInv
<1> QED
  BY <1>6, <1>7 DEF BfsNextLevel

LEMMA BfsDoneInv ==
  ASSUME IInv, BfsDone
  PROVE  IInv'
<1>1. stage = "bfs" /\ Len(new2old) = num_nodes /\ ReassignIds(new2old)
  BY DEF BfsDone
<1>2. new2old \in Seq(Node) /\ Distinct(new2old)
  BY <1>1, BfsFacts
<1> QED
  BY <1>1, <1>2, Reassigned
-----------------------------------------------------------------------------
LEMMA NextIInv == IInv /\ [Next]_vars => IInv'
<1> SUFFICES ASSUME IInv, [Next]_vars PROVE IInv'
  OBVIOUS
<1>1. CASE \/ reorder_random \/ reorder_by_degree \/ reorder_by_rev_degree
           \/ reorder_by_shingles
  BY <1>1, SortingInv
<1>2. CASE StartStrongRun
  BY <1>2, StartStrongRunInv
<1>3. CASE \E game \in BOOLEAN : StartBfs(game)
  BY <1>3, StartBfsInv
<1>4. CASE BfsExpand
  BY <1>4, BfsExpandInv
<1>5. CASE BfsNextLevel
  BY <1>5, BfsNextLevelInv
<1>6. CASE BfsDone
  BY <1>6, BfsDoneInv
<1>7. CASE StrongRunStep
  BY <1>7, StrongRunStepInv
<1>8. CASE StrongRunDone
  BY <1>8, StrongRunDoneInv
<1>9. CASE UNCHANGED vars
  <2>1. UNCHANGED <<hood, id_map, loaded, stage, then_degree, tmp_new2old, new2old,
                    visited, cur_level, next_level, i, bfs_i, reorderings>>
    BY <1>9 DEF vars
  <2>2. Node' = Node /\ num_nodes' = num_nodes /\ Orders' = Orders /\ Edges' = Edges
    BY <2>1 DEF Node, num_nodes, Orders, Edges
  <2>3. TypeOK'
    BY <2>1, <2>2 DEF IInv, TypeOK
  <2>4. Numbering'
    BY <2>1 DEF IInv, Numbering, ToSet, Distinct
  <2>5. SameGraph'
    BY <2>1, <2>2 DEF IInv, SameGraph
  <2>6. BfsState'
    <3>1. Base' = Base /\ Expanded' = Expanded
      BY <2>1 DEF Base, Expanded
    <3>2. Levels <=> Levels'
      BY <2>1, <3>1 DEF Levels
    <3>3. InOrder(new2old, Expanded) <=> InOrder(new2old, Expanded)'
      BY <2>1, <3>1 DEF InOrder, Finder
    <3> QED
      BY <2>1, <2>2, <3>1, <3>2, <3>3 DEF IInv, BfsState
  <2>7. StrongState'
    <3>1. UpTo(i)' = UpTo(i)
      BY <2>1 DEF UpTo
    <3>2. LargestHoodsFirst <=> LargestHoodsFirst'
      BY <2>1 DEF LargestHoodsFirst
    <3> QED
      BY <2>1, <2>2, <3>1, <3>2 DEF IInv, StrongState
  <2> QED
    BY <2>1, <2>3, <2>4, <2>5, <2>6, <2>7 DEF IInv
<1> QED
  BY <1>1, <1>2, <1>3, <1>4, <1>5, <1>6, <1>7, <1>8, <1>9
     DEF Next, Calls, Loops, Finished

\* The inductive invariant of the reorderings.
THEOREM ReorderInvariance == SafeSpec => []IInv
  BY InitIInv, NextIInv, PTL DEF SafeSpec

\* The graph stays the one that was loaded under every reordering.
THEOREM SameGraphHolds == SafeSpec => []SameGraph
<1>1. IInv => SameGraph
  BY DEF IInv
<1> QED
  BY <1>1, ReorderInvariance, PTL

\* reorder_bfs and reorder_strong_run number every node: reassign_ids, which takes
\* as many ids as there are nodes, never throws.
THEOREM NeverThrows == SafeSpec => [](stage # "aborted")
<1>1. IInv => stage # "aborted"
  BY DEF IInv
<1> QED
  BY <1>1, ReorderInvariance, PTL

\* No node is numbered twice, and the search for a start of the next component ends
\* inside the array.
THEOREM NumberedOnceHolds == SafeSpec => []NumberedOnce
<1>1. ASSUME IInv PROVE NumberedOnce
  <2>1. ASSUME stage = "bfs", Len(new2old) < num_nodes PROVE NextStart < num_nodes
    <3>1. NextStart \in bfs_i .. num_nodes - 1 /\ num_nodes \in Nat /\ bfs_i \in Nat
      BY <1>1, <2>1, StartExists, BfsFacts
    <3> QED
      BY <3>1
  <2> QED
    BY <1>1, <2>1 DEF IInv, Numbering, Distinct, NumberedOnce
<1> QED
  BY <1>1, ReorderInvariance, PTL

\* The first neighbour that has been numbered is the finder.
LEMMA FirstNeighborFinds ==
  ASSUME IInv, NEW p \in 1 .. Len(new2old), FirstNeighbor(new2old[p]) < p
  PROVE  /\ FirstNeighbor(new2old[p]) \in 1 .. p - 1
         /\ Finder(new2old, p, FirstNeighbor(new2old[p]))
<1> DEFINE n == Len(new2old)
           S == {r \in 1 .. n : new2old[r] \in hood[new2old[p]]}
           f == FirstNeighbor(new2old[p])
<1>1. n \in Nat
  BY DEF IInv, TypeOK
<1> HIDE DEF n
<1>2. {n + 1} \cup S \in SUBSET Nat
  BY <1>1
<1>3. f \in {n + 1} \cup S /\ \A r \in {n + 1} \cup S : f <= r
  <2>1. \E m \in {n + 1} \cup S : \A r \in {n + 1} \cup S : m <= r
    <3> HIDE DEF S
    <3> QED
      BY <1>2, LeastNumber
  <2>2. f = Min({n + 1} \cup S)
    BY DEF FirstNeighbor, n
  <2> HIDE DEF S, f
  <2> QED
    BY <2>1, <2>2 DEF Min
<1>4. p \in 1 .. n
  BY DEF n
<1>5. f \in S /\ f \in 1 .. p - 1
  <2>1. f < p
    OBVIOUS
  <2> HIDE DEF f
  <2>2. f # n + 1
    BY <1>1, <1>4, <2>1
  <2> QED
    BY <1>1, <1>3, <1>4, <2>1, <2>2
<1>6. \A t \in 1 .. f - 1 : t \notin S
  <2> HIDE DEF f, S
  <2>1. \A t \in 1 .. f - 1 : ~(f <= t)
    BY <1>4, <1>5
  <2> QED
    BY <1>3, <2>1
<1>7. \A t \in 1 .. f - 1 : t \in 1 .. n
  <2> HIDE DEF f, S
  <2> QED
    BY <1>1, <1>4, <1>5
<1> QED
  BY <1>5, <1>6, <1>7 DEF Finder

\* The loops number the nodes breadth first, and the largest neighbourhoods first.
THEOREM NumberingOrderHolds == SafeSpec => []NumberingOrder
<1>1. ASSUME IInv PROVE NumberingOrder
  <2>1. ASSUME stage = "bfs",
               NEW p \in 1 .. Len(new2old), FirstNeighbor(new2old[p]) < p,
               NEW q \in 1 .. Len(new2old), FirstNeighbor(new2old[q]) < q,
               FirstNeighbor(new2old[p]) < FirstNeighbor(new2old[q])
        PROVE  p < q
    <3>1. InOrder(new2old, Expanded)
      BY <1>1, <2>1 DEF IInv, BfsState
    <3>2. /\ FirstNeighbor(new2old[p]) \in 1 .. p - 1
          /\ Finder(new2old, p, FirstNeighbor(new2old[p]))
          /\ FirstNeighbor(new2old[q]) \in 1 .. q - 1
          /\ Finder(new2old, q, FirstNeighbor(new2old[q]))
      BY <1>1, <2>1, FirstNeighborFinds
    <3> QED
      BY <2>1, <3>1, <3>2 DEF InOrder
  <2>2. BreadthFirstOrder
    BY <2>1 DEF BreadthFirstOrder
  <2>3. LargestHoodsFirst
    <3>1. CASE stage = "strong"
      BY <1>1, <3>1 DEF IInv, StrongState
    <3>2. CASE stage # "strong"
      BY <3>2 DEF LargestHoodsFirst
    <3> QED
      BY <3>1, <3>2
  <2> QED
    BY <2>2, <2>3 DEF NumberingOrder
<1> QED
  BY <1>1, ReorderInvariance, PTL

-----------------------------------------------------------------------------
(* Loading (GraphLoad).                                                    *)

\* The numbers of the nodes of a graph.
Places(g) == 0 .. Size(g) - 1

\* Where v stands in a row with a year of Y beside it, and how often.
Stands(row, attr, v, Y) == {j \in 1 .. Len(row) : row[j] = v /\ attr[j] \in Y}
Copies(row, attr, v, Y) == Cardinality(Stands(row, attr, v, Y))

\* The lines of K that lead from u to v in a year of Y, and how many.
Joins(g, K, u, v, Y) ==
  {k \in K : /\ file[k][1] = g.id_map[u + 1] /\ file[k][2] = g.id_map[v + 1]
             /\ file[k][3] \in Y}
Uses(g, K, u, v, Y) == Cardinality(Joins(g, K, u, v, Y))
Joined(g, K, u, v) == Joins(g, K, u, v, Nat) # {}

\* A graph has all its vectors, with rows of nodes and of attributes for each node.
IsGraph(g) ==
  /\ g = [extern_ids |-> g.extern_ids, id_map |-> g.id_map, node_attr |-> g.node_attr,
          out |-> g.out, in |-> g.in, out_attr |-> g.out_attr, in_attr |-> g.in_attr]
  /\ g.id_map \in Seq(Nat)
  /\ g.extern_ids \in [DOMAIN g.extern_ids -> Places(g)]
  /\ g.out \in [Places(g) -> Seq(Places(g))] /\ g.in \in [Places(g) -> Seq(Places(g))]
  /\ g.out_attr \in [Places(g) -> Seq(Nat)] /\ g.in_attr \in [Places(g) -> Seq(Nat)]
  /\ loader.attributes => \A u \in Places(g) : /\ Len(g.out_attr[u]) = Len(g.out[u])
                                               /\ Len(g.in_attr[u]) = Len(g.in[u])

\* The table of external ids and id_map are inverses, with the ends of the lines of K
\* among the nodes.
Named(g, K) ==
  /\ \A x \in DOMAIN g.extern_ids : g.id_map[g.extern_ids[x] + 1] = x
  /\ \A u \in Places(g) : /\ g.id_map[u + 1] \in DOMAIN g.extern_ids
                          /\ g.extern_ids[g.id_map[u + 1]] = u
  /\ \A k \in K : {file[k][1], file[k][2]} \subseteq DOMAIN g.extern_ids

\* The nodes are ends of lines of K.
OnlyEnds(g, K) == \A x \in DOMAIN g.extern_ids : \E k \in K : x \in {file[k][1], file[k][2]}

\* A node is in the rows of those it is joined to by a line of K.
Members(g, K) ==
  \A u \in Places(g), v \in Places(g) :
    /\ v \in ToSet(g.out[u]) <=>
         Joined(g, K, u, v) \/ (loader.symmetric /\ Joined(g, K, v, u))
    /\ ~loader.symmetric => (v \in ToSet(g.in[u]) <=> Joined(g, K, v, u))

\* It is so as often, and with the years, as there are lines.
CopiesAre(g, K, u, v, Y) ==
  /\ loader.symmetric =>
       Copies(g.out[u], g.out_attr[u], v, Y) = Uses(g, K, u, v, Y) + Uses(g, K, v, u, Y)
  /\ ~loader.symmetric =>
       /\ Copies(g.out[u], g.out_attr[u], v, Y) = Uses(g, K, u, v, Y)
       /\ Copies(g.in[u], g.in_attr[u], v, Y) = Uses(g, K, v, u, Y)

Counts(g, K) ==
  \A u \in Places(g), v \in Places(g), Y \in SUBSET Nat : CopiesAre(g, K, u, v, Y)

\* What the rows hold of the lines of K.
Holds(g, K) == Members(g, K) /\ (loader.attributes => Counts(g, K))
-----------------------------------------------------------------------------
\* Rows of elements of T for those in D.
RowsOver(R, D, T) == R \in [D -> Seq(T)]

\* One more element at the end of a row.
LEMMA PushFacts ==
  ASSUME NEW D, NEW T, NEW R, RowsOver(R, D, T), NEW u \in D, NEW x \in T
  PROVE  /\ RowsOver(Push(R, u, x), D, T)
         /\ Push(R, u, x)[u] = Append(R[u], x)
         /\ Len(Push(R, u, x)[u]) = Len(R[u]) + 1
         /\ \A w \in D : w # u => Push(R, u, x)[w] = R[w]
<1>0. R \in [D -> Seq(T)]
  BY DEF RowsOver
<1>1. R[u] \in Seq(T) /\ Append(R[u], x) \in Seq(T) /\ Len(Append(R[u], x)) = Len(R[u]) + 1
  BY <1>0
<1> QED
  BY <1>0, <1>1 DEF Push, RowsOver

LEMMA StandsFinite ==
  ASSUME NEW row, Len(row) \in Nat, NEW attr, NEW v, NEW Y
  PROVE  IsFiniteSet(Stands(row, attr, v, Y)) /\ Copies(row, attr, v, Y) \in Nat
<1>1. Stands(row, attr, v, Y) \in SUBSET (1 .. Len(row)) /\ IsFiniteSet(1 .. Len(row))
  BY FS_Interval DEF Stands
<1>2. IsFiniteSet(Stands(row, attr, v, Y))
  BY <1>1, FS_Subset
<1> QED
  BY <1>2, FS_CardinalityType DEF Copies

\* How often an entry of d in the row of s, with year y, counts as one of v in the row
\* of w with a year of Y.
Entry(w, v, s, d, y, Y) == IF w = s /\ v = d /\ y \in Y THEN 1 ELSE 0

LEMMA EntryNat ==
  ASSUME NEW w, NEW v, NEW s, NEW d, NEW y, NEW Y
  PROVE  Entry(w, v, s, d, y, Y) \in Nat
BY DEF Entry

\* It counts once, where it has been pushed, for what it is.
LEMMA AppendCounts ==
  ASSUME NEW T, NEW row \in Seq(T), NEW attr \in Seq(Nat), Len(attr) = Len(row),
         NEW x \in T, NEW y \in Nat, NEW v, NEW Y
  PROVE  Copies(Append(row, x), Append(attr, y), v, Y) =
           Copies(row, attr, v, Y) + Entry(0, v, 0, x, y, Y)
<1> DEFINE S == Stands(row, attr, v, Y)
           n == Len(row)
           S2 == Stands(Append(row, x), Append(attr, y), v, Y)
<1>1. n \in Nat /\ IsFiniteSet(S) /\ Cardinality(S) \in Nat
  BY StandsFinite DEF Copies
<1>2. S \subseteq 1 .. n /\ n + 1 \notin S
  BY <1>1 DEF Stands
<1>3. /\ Len(Append(row, x)) = n + 1
      /\ \A j \in 1 .. n : Append(row, x)[j] = row[j] /\ Append(attr, y)[j] = attr[j]
      /\ Append(row, x)[n + 1] = x /\ Append(attr, y)[n + 1] = y
  OBVIOUS
<1>4. CASE v = x /\ y \in Y
  <2>1. S2 = S \cup {n + 1}
    BY <1>1, <1>3, <1>4 DEF Stands
  <2> HIDE DEF S, S2, n
  <2>2. Cardinality(S2) = Cardinality(S) + 1
    BY <1>1, <1>2, <2>1, FS_AddElement
  <2>3. Entry(0, v, 0, x, y, Y) = 1
    BY <1>4 DEF Entry
  <2> QED
    BY <2>2, <2>3 DEF Copies, S, S2
<1>5. CASE ~(v = x /\ y \in Y)
  <2>1. S2 = S
    BY <1>1, <1>3, <1>5 DEF Stands
  <2>2. Entry(0, v, 0, x, y, Y) = 0
    BY <1>5 DEF Entry
  <2> HIDE DEF S, S2
  <2>3. Cardinality(S2) = Cardinality(S) + 0
    BY <1>1, <2>1
  <2> QED
    BY <2>2, <2>3 DEF Copies, S, S2
<1> QED
  BY <1>4, <1>5

LEMMA PushCounts ==
  ASSUME NEW D, NEW T, NEW R, RowsOver(R, D, T), NEW A, RowsOver(A, D, Nat),
         NEW u \in D, Len(A[u]) = Len(R[u]), NEW x \in T, NEW y \in Nat,
         NEW w \in D, NEW v, NEW Y
  PROVE  Copies(Push(R, u, x)[w], Push(A, u, y)[w], v, Y) =
           Copies(R[w], A[w], v, Y) + Entry(w, v, u, x, y, Y)
<1>0. R \in [D -> Seq(T)] /\ A \in [D -> Seq(Nat)]
  BY DEF RowsOver
<1>1. /\ Push(R, u, x)[u] = Append(R[u], x)
      /\ \A z \in D : z # u => Push(R, u, x)[z] = R[z]
  BY <1>0 DEF Push
<1>2. /\ Push(A, u, y)[u] = Append(A[u], y)
      /\ \A z \in D : z # u => Push(A, u, y)[z] = A[z]
  BY <1>0 DEF Push
<1>3. CASE w = u
  <2>1. R[u] \in Seq(T) /\ A[u] \in Seq(Nat)
    BY <1>0
  <2>2. Copies(Append(R[u], x), Append(A[u], y), v, Y) =
           Copies(R[u], A[u], v, Y) + Entry(0, v, 0, x, y, Y)
    BY <2>1, AppendCounts
  <2>3. Entry(0, v, 0, x, y, Y) = Entry(w, v, u, x, y, Y)
    BY <1>3 DEF Entry
  <2> QED
    BY <1>1, <1>2, <1>3, <2>2, <2>3
<1>4. CASE w # u
  <2>1. Copies(R[w], A[w], v, Y) \in Nat
    <3>1. R[w] \in Seq(T)
      BY <1>0
    <3>2. Len(R[w]) \in Nat
      BY <3>1
    <3> QED
      BY <3>2, StandsFinite
  <2>2. Entry(w, v, u, x, y, Y) = 0
    BY <1>4 DEF Entry
  <2> QED
    BY <1>1, <1>2, <1>4, <2>1, <2>2
<1> QED
  BY <1>3, <1>4

LEMMA ToSetAppend ==
  ASSUME NEW T, NEW row \in Seq(T), NEW x \in T
  PROVE  ToSet(Append(row, x)) = ToSet(row) \cup {x}
<1>1. DOMAIN row = 1 .. Len(row) /\ DOMAIN Append(row, x) = 1 .. Len(row) + 1 /\ Len(row) \in Nat
  OBVIOUS
<1>2. \A j \in 1 .. Len(row) : Append(row, x)[j] = row[j]
  OBVIOUS
<1>3. Append(row, x)[Len(row) + 1] = x
  OBVIOUS
<1>4. ToSet(row) = {row[j] : j \in 1 .. Len(row)}
  BY <1>1 DEF ToSet
<1>5. ToSet(Append(row, x)) = {Append(row, x)[j] : j \in 1 .. Len(row) + 1}
  BY <1>1 DEF ToSet
<1> QED
  BY <1>1, <1>2, <1>3, <1>4, <1>5

LEMMA PushMembers ==
  ASSUME NEW D, NEW T, NEW R, RowsOver(R, D, T),
         NEW u \in D, NEW x \in T, NEW w \in D, NEW v
  PROVE  v \in ToSet(Push(R, u, x)[w]) <=> v \in ToSet(R[w]) \/ (w = u /\ v = x)
<1>0. R \in [D -> Seq(T)]
  BY DEF RowsOver
<1>1. /\ Push(R, u, x)[u] = Append(R[u], x)
      /\ \A z \in D : z # u => Push(R, u, x)[z] = R[z]
  BY <1>0 DEF Push
<1>2. R[u] \in Seq(T)
  BY <1>0
<1>3. ToSet(Append(R[u], x)) = ToSet(R[u]) \cup {x}
  BY <1>2, ToSetAppend
<1> QED
  BY <1>1, <1>3
-----------------------------------------------------------------------------
LEMMA JoinsFinite ==
  ASSUME NEW g, NEW K, IsFiniteSet(K), NEW u, NEW v, NEW Y
  PROVE  IsFiniteSet(Joins(g, K, u, v, Y)) /\ Uses(g, K, u, v, Y) \in Nat
<1>1. Joins(g, K, u, v, Y) \in SUBSET K
  BY DEF Joins
<1>2. IsFiniteSet(Joins(g, K, u, v, Y))
  BY <1>1, FS_Subset
<1> QED
  BY <1>2, FS_CardinalityType DEF Uses

\* Line n, which is not in K, leads from s to d.
NewLine(g, K, n, s, d) ==
  /\ IsFiniteSet(K) /\ n \notin K /\ s \in Places(g) /\ d \in Places(g)
  /\ file[n][1] = g.id_map[s + 1] /\ file[n][2] = g.id_map[d + 1] /\ file[n][3] \in Nat

\* A line more joins the nodes that are its ends.
LEMMA LineAdded ==
  ASSUME NEW g, NEW K, Named(g, K), NEW n, NEW s, NEW d, NewLine(g, K, n, s, d),
         NEW u \in Places(g), NEW v \in Places(g), NEW Y
  PROVE  Uses(g, K \cup {n}, u, v, Y) =
           Uses(g, K, u, v, Y) + Entry(u, v, s, d, file[n][3], Y)
<1> DEFINE J == Joins(g, K, u, v, Y)
           J2 == Joins(g, K \cup {n}, u, v, Y)
<1>0. /\ IsFiniteSet(K) /\ n \notin K /\ s \in Places(g) /\ d \in Places(g)
      /\ file[n][1] = g.id_map[s + 1] /\ file[n][2] = g.id_map[d + 1]
  BY DEF NewLine
<1>1. IsFiniteSet(J) /\ Cardinality(J) \in Nat /\ n \notin J
  <2>1. IsFiniteSet(J) /\ Uses(g, K, u, v, Y) \in Nat
    BY <1>0, JoinsFinite
  <2> QED
    BY <1>0, <2>1 DEF Uses, Joins
<1>2. \A w \in Places(g) : g.extern_ids[g.id_map[w + 1]] = w
  BY DEF Named
<1>3. (file[n][1] = g.id_map[u + 1] <=> u = s) /\ (file[n][2] = g.id_map[v + 1] <=> v = d)
  BY <1>0, <1>2
<1>4. CASE u = s /\ v = d /\ file[n][3] \in Y
  <2>1. J2 = J \cup {n}
    BY <1>3, <1>4 DEF Joins
  <2> HIDE DEF J, J2
  <2>2. Cardinality(J2) = Cardinality(J) + 1
    BY <1>1, <2>1, FS_AddElement
  <2> QED
    BY <1>4, <2>2 DEF Uses, J, J2, Entry
<1>5. CASE ~(u = s /\ v = d /\ file[n][3] \in Y)
  <2>1. J2 = J
    BY <1>3, <1>5 DEF Joins
  <2> HIDE DEF J, J2
  <2>2. Cardinality(J2) = Cardinality(J) + 0
    BY <1>1, <2>1
  <2> QED
    BY <1>5, <2>1, <2>2 DEF Uses, J, J2, Entry
<1> QED
  BY <1>4, <1>5

LEMMA LineJoins ==
  ASSUME NEW g, NEW K, Named(g, K), NEW n, NEW s, NEW d, NewLine(g, K, n, s, d),
         NEW u \in Places(g), NEW v \in Places(g)
  PROVE  Joined(g, K \cup {n}, u, v) <=>
           Joined(g, K, u, v) \/ (u = s /\ v = d)
<1>1. /\ file[n][1] = g.id_map[s + 1] /\ file[n][2] = g.id_map[d + 1] /\ file[n][3] \in Nat
      /\ s \in Places(g) /\ d \in Places(g)
  BY DEF NewLine
<1>2. \A w \in Places(g) : g.extern_ids[g.id_map[w + 1]] = w
  BY DEF Named
<1>3. (file[n][1] = g.id_map[u + 1] <=> u = s) /\ (file[n][2] = g.id_map[v + 1] <=> v = d)
  BY <1>1, <1>2
<1> QED
  BY <1>1, <1>3 DEF Joined, Joins

-----------------------------------------------------------------------------
\* The vectors after a new end of an edge.
LEMMA AddedFields ==
  ASSUME NEW g, IsGraph(g), NEW id, id \notin DOMAIN g.extern_ids
  PROVE  /\ AddNode(g, id).extern_ids = Entered(g.extern_ids, id, Size(g))
         /\ AddNode(g, id).id_map = Append(g.id_map, id)
         /\ AddNode(g, id).node_attr = g.node_attr
         /\ AddNode(g, id).out = Entered(g.out, Size(g), << >>)
         /\ AddNode(g, id).in = Entered(g.in, Size(g), << >>)
         /\ AddNode(g, id).out_attr = Entered(g.out_attr, Size(g), << >>)
         /\ AddNode(g, id).in_attr = Entered(g.in_attr, Size(g), << >>)
         /\ AddNode(g, id) =
              [extern_ids |-> Entered(g.extern_ids, id, Size(g)),
               id_map |-> Append(g.id_map, id), node_attr |-> g.node_attr,
               out |-> Entered(g.out, Size(g), << >>), in |-> Entered(g.in, Size(g), << >>),
               out_attr |-> Entered(g.out_attr, Size(g), << >>),
               in_attr |-> Entered(g.in_attr, Size(g), << >>)]
<1>1. g = [extern_ids |-> g.extern_ids, id_map |-> g.id_map, node_attr |-> g.node_attr,
           out |-> g.out, in |-> g.in, out_attr |-> g.out_attr, in_attr |-> g.in_attr]
  BY DEF IsGraph
<1>2. AddNode(g, id) =
        [extern_ids |-> Entered(g.extern_ids, id, Size(g)),
         id_map |-> Append(g.id_map, id), node_attr |-> g.node_attr,
         out |-> Entered(g.out, Size(g), << >>), in |-> Entered(g.in, Size(g), << >>),
         out_attr |-> Entered(g.out_attr, Size(g), << >>),
         in_attr |-> Entered(g.in_attr, Size(g), << >>)]
  BY <1>1 DEF AddNode
<1> QED
  BY <1>2

\* The table of rows after a new node.
LEMMA EnteredRow ==
  ASSUME NEW n \in Nat, NEW T, NEW R, RowsOver(R, 0 .. n - 1, T)
  PROVE  /\ Entered(R, n, << >>) \in [0 .. n -> Seq(T)]
         /\ \A u \in 0 .. n - 1 : Entered(R, n, << >>)[u] = R[u]
         /\ Entered(R, n, << >>)[n] = << >>
<1>0. R \in [0 .. n - 1 -> Seq(T)]
  BY DEF RowsOver
<1>1. \A u \in 0 .. n - 1 : R[u] \in Seq(T)
  BY <1>0
<1>2. << >> \in Seq(T) /\ (0 .. n - 1) \cup {n} = 0 .. n /\ n \notin 0 .. n - 1
  OBVIOUS
<1> QED
  BY <1>0, <1>1, <1>2 DEF Entered

\* What a new end of an edge leaves of a graph: one node more, and the rows of the
\* others.
Extended(g, h, id) ==
  /\ IsGraph(h) /\ Size(h) = Size(g) + 1
  /\ DOMAIN h.extern_ids = DOMAIN g.extern_ids \cup {id}
  /\ h.extern_ids[id] = Size(g) /\ h.id_map[Size(g) + 1] = id
  /\ \A x \in DOMAIN g.extern_ids : h.extern_ids[x] = g.extern_ids[x]
  /\ \A u \in Places(g) : /\ h.id_map[u + 1] = g.id_map[u + 1]
                          /\ h.out[u] = g.out[u] /\ h.in[u] = g.in[u]
                          /\ h.out_attr[u] = g.out_attr[u] /\ h.in_attr[u] = g.in_attr[u]
  /\ h.out[Size(g)] = << >> /\ h.in[Size(g)] = << >>
  /\ h.out_attr[Size(g)] = << >> /\ h.in_attr[Size(g)] = << >>

LEMMA AddNodeExtends ==
  ASSUME NEW g, IsGraph(g), NEW id \in Nat, id \notin DOMAIN g.extern_ids
  PROVE  Extended(g, AddNode(g, id), id)
<1> DEFINE h == AddNode(g, id)
           n == Size(g)
           P == Places(g)
           ids == g.extern_ids
<1>1. /\ h.extern_ids = Entered(ids, id, n)
      /\ h.id_map = Append(g.id_map, id)
      /\ h.out = Entered(g.out, n, << >>) /\ h.in = Entered(g.in, n, << >>)
      /\ h.out_attr = Entered(g.out_attr, n, << >>)
      /\ h.in_attr = Entered(g.in_attr, n, << >>)
      /\ h = [extern_ids |-> Entered(ids, id, n), id_map |-> Append(g.id_map, id),
              node_attr |-> g.node_attr,
              out |-> Entered(g.out, n, << >>), in |-> Entered(g.in, n, << >>),
              out_attr |-> Entered(g.out_attr, n, << >>),
              in_attr |-> Entered(g.in_attr, n, << >>)]
      /\ h.node_attr = g.node_attr
  BY AddedFields
<1>2. /\ g.id_map \in Seq(Nat) /\ n \in Nat /\ n = Len(g.id_map)
      /\ ids \in [DOMAIN ids -> P]
      /\ g.out \in [0 .. n - 1 -> Seq(P)] /\ g.in \in [0 .. n - 1 -> Seq(P)]
      /\ g.out_attr \in [0 .. n - 1 -> Seq(Nat)] /\ g.in_attr \in [0 .. n - 1 -> Seq(Nat)]
      /\ P = 0 .. n - 1
  BY DEF IsGraph, Size, Places
<1>3. h.id_map \in Seq(Nat) /\ Size(h) = n + 1 /\ h.id_map[n + 1] = id
      /\ \A u \in P : h.id_map[u + 1] = g.id_map[u + 1]
  <2>1. /\ h.id_map \in Seq(Nat) /\ Len(h.id_map) = n + 1 /\ h.id_map[n + 1] = id
        /\ \A j \in 1 .. n : h.id_map[j] = g.id_map[j]
    <3>1. h.id_map = Append(g.id_map, id) /\ g.id_map \in Seq(Nat) /\ Len(g.id_map) = n
      BY <1>1, <1>2
    <3> QED
      BY ONLY <3>1, id \in Nat
  <2>2. n \in Nat /\ P = 0 .. n - 1 /\ Size(h) = Len(h.id_map)
    BY <1>2 DEF Size
  <2>3. \A u \in P : u + 1 \in 1 .. n
    BY ONLY <2>2
  <2> QED
    BY ONLY <2>1, <2>2, <2>3
<1>4. Places(h) = 0 .. n /\ P \subseteq 0 .. n
  BY <1>2, <1>3 DEF Places
<1>5. /\ DOMAIN h.extern_ids = DOMAIN ids \cup {id} /\ h.extern_ids[id] = n
      /\ \A x \in DOMAIN ids : h.extern_ids[x] = ids[x]
      /\ h.extern_ids \in [DOMAIN h.extern_ids -> 0 .. n]
  <2>1. n \in 0 .. n /\ \A x \in DOMAIN ids : ids[x] \in 0 .. n /\ x # id
    BY <1>2, <1>4
  <2> HIDE DEF ids, n
  <2>2. Entered(ids, id, n) \in [DOMAIN ids \cup {id} -> 0 .. n]
    BY <2>1 DEF Entered
  <2>3. Entered(ids, id, n)[id] = n /\ \A x \in DOMAIN ids : Entered(ids, id, n)[x] = ids[x]
    BY <2>1 DEF Entered
  <2> HIDE DEF h
  <2> QED
    BY <1>1, <2>2, <2>3
<1> HIDE DEF n, P, h
<1>14. /\ RowsOver(g.out, 0 .. n - 1, 0 .. n) /\ RowsOver(g.in, 0 .. n - 1, 0 .. n)
       /\ RowsOver(g.out_attr, 0 .. n - 1, Nat) /\ RowsOver(g.in_attr, 0 .. n - 1, Nat)
  <2>1. P \subseteq 0 .. n
    BY <1>4
  <2>2. Seq(P) \subseteq Seq(0 .. n)
    <3> DEFINE Q == 0 .. n
    <3>1. P \subseteq Q
      BY <2>1
    <3> HIDE DEF Q
    <3>2. Seq(P) \subseteq Seq(Q)
      BY ONLY <3>1
    <3> QED
      BY <3>2 DEF Q
  <2> QED
    BY <1>2, <2>2 DEF RowsOver

<1>6. /\ h.out \in [0 .. n -> Seq(0 .. n)] /\ h.out[n] = << >>
      /\ \A u \in 0 .. n - 1 : h.out[u] = g.out[u]
  <2>1. n \in Nat /\ RowsOver(g.out, 0 .. n - 1, 0 .. n)
    BY <1>2, <1>14
  <2>2. /\ Entered(g.out, n, << >>) \in [0 .. n -> Seq(0 .. n)]
        /\ \A u \in 0 .. n - 1 : Entered(g.out, n, << >>)[u] = g.out[u]
        /\ Entered(g.out, n, << >>)[n] = << >>
    BY ONLY <2>1, EnteredRow
  <2> QED
    BY <1>1, <2>2
<1>7. /\ h.in \in [0 .. n -> Seq(0 .. n)] /\ h.in[n] = << >>
      /\ \A u \in 0 .. n - 1 : h.in[u] = g.in[u]
  <2>1. n \in Nat /\ RowsOver(g.in, 0 .. n - 1, 0 .. n)
    BY <1>2, <1>14
  <2>2. /\ Entered(g.in, n, << >>) \in [0 .. n -> Seq(0 .. n)]
        /\ \A u \in 0 .. n - 1 : Entered(g.in, n, << >>)[u] = g.in[u]
        /\ Entered(g.in, n, << >>)[n] = << >>
    BY ONLY <2>1, EnteredRow
  <2> QED
    BY <1>1, <2>2
<1>8. /\ h.out_attr \in [0 .. n -> Seq(Nat)] /\ h.out_attr[n] = << >>
      /\ \A u \in 0 .. n - 1 : h.out_attr[u] = g.out_attr[u]
  <2>1. n \in Nat /\ RowsOver(g.out_attr, 0 .. n - 1, Nat)
    BY <1>2, <1>14
  <2>2. /\ Entered(g.out_attr, n, << >>) \in [0 .. n -> Seq(Nat)]
        /\ \A u \in 0 .. n - 1 : Entered(g.out_attr, n, << >>)[u] = g.out_attr[u]
        /\ Entered(g.out_attr, n, << >>)[n] = << >>
    BY ONLY <2>1, EnteredRow
  <2> QED
    BY <1>1, <2>2
<1>9. /\ h.in_attr \in [0 .. n -> Seq(Nat)] /\ h.in_attr[n] = << >>
      /\ \A u \in 0 .. n - 1 : h.in_attr[u] = g.in_attr[u]
  <2>1. n \in Nat /\ RowsOver(g.in_attr, 0 .. n - 1, Nat)
    BY <1>2, <1>14
  <2>2. /\ Entered(g.in_attr, n, << >>) \in [0 .. n -> Seq(Nat)]
        /\ \A u \in 0 .. n - 1 : Entered(g.in_attr, n, << >>)[u] = g.in_attr[u]
        /\ Entered(g.in_attr, n, << >>)[n] = << >>
    BY ONLY <2>1, EnteredRow
  <2> QED
    BY <1>1, <2>2
<1>10. ASSUME loader.attributes, NEW u \in 0 .. n
       PROVE  Len(h.out_attr[u]) = Len(h.out[u]) /\ Len(h.in_attr[u]) = Len(h.in[u])
  <2>1. CASE u = n
    BY <1>6, <1>7, <1>8, <1>9, <2>1
  <2>2. CASE u # n
    <3>1. u \in 0 .. n - 1
      BY <1>2, <2>2
    <3>2. Len(g.out_attr[u]) = Len(g.out[u]) /\ Len(g.in_attr[u]) = Len(g.in[u])
      BY <1>2, <1>10, <3>1 DEF IsGraph, P
    <3> QED
      BY <1>6, <1>7, <1>8, <1>9, <3>1, <3>2
  <2> QED
    BY <2>1, <2>2
<1>11. h = [extern_ids |-> h.extern_ids, id_map |-> h.id_map, node_attr |-> h.node_attr,
            out |-> h.out, in |-> h.in, out_attr |-> h.out_attr, in_attr |-> h.in_attr]
  BY <1>1
<1>12. IsGraph(h)
  BY <1>3, <1>4, <1>5, <1>6, <1>7, <1>8, <1>9, <1>10, <1>11 DEF IsGraph
<1>13. \A u \in P : /\ h.out[u] = g.out[u] /\ h.in[u] = g.in[u]
                    /\ h.out_attr[u] = g.out_attr[u] /\ h.in_attr[u] = g.in_attr[u]
  BY <1>2, <1>6, <1>7, <1>8, <1>9
<1>15. Extended(g, h, id)
  BY <1>3, <1>5, <1>6, <1>7, <1>8, <1>9, <1>12, <1>13 DEF Extended, P, n, ids
<1> QED
  BY <1>15 DEF h

\* The lines join the nodes there were as before, and the new one to none.
LEMMA ExtendedJoins ==
  ASSUME NEW g, IsGraph(g), NEW K, Named(g, K), NEW id, id \notin DOMAIN g.extern_ids,
         NEW h, Extended(g, h, id), NEW u \in Places(h), NEW v \in Places(h), NEW Y
  PROVE  /\ u \in Places(g) /\ v \in Places(g) => Joins(h, K, u, v, Y) = Joins(g, K, u, v, Y)
         /\ ~(u \in Places(g) /\ v \in Places(g)) => Joins(h, K, u, v, Y) = {}
<1>1. CASE u \in Places(g) /\ v \in Places(g)
  <2>1. h.id_map[u + 1] = g.id_map[u + 1] /\ h.id_map[v + 1] = g.id_map[v + 1]
    BY <1>1 DEF Extended
  <2> QED
    BY <1>1, <2>1 DEF Joins
<1>2. CASE ~(u \in Places(g) /\ v \in Places(g))
  <2>1. Size(g) \in Nat /\ Size(h) = Size(g) + 1
    BY DEF IsGraph, Size, Extended
  <2>2. u = Size(g) \/ v = Size(g)
    BY <1>2, <2>1 DEF Places
  <2>3. h.id_map[u + 1] = id \/ h.id_map[v + 1] = id
    BY <2>2 DEF Extended
  <2>4. \A k \in K : file[k][1] # id /\ file[k][2] # id
    BY DEF Named
  <2> QED
    BY <1>2, <2>3, <2>4 DEF Joins
<1> QED
  BY <1>1, <1>2

LEMMA EmptyRow ==
  ASSUME NEW attr, NEW v, NEW Y
  PROVE  ToSet(<< >>) = {} /\ Copies(<< >>, attr, v, Y) = 0
<1>1. ToSet(<< >>) = {}
  BY DEF ToSet
<1>2. Stands(<< >>, attr, v, Y) = {}
  BY DEF Stands
<1> QED
  BY <1>1, <1>2, FS_EmptySet DEF Copies

LEMMA NotInRow ==
  ASSUME NEW T, NEW row \in Seq(T), NEW attr, NEW v, v \notin T, NEW Y
  PROVE  v \notin ToSet(row) /\ Copies(row, attr, v, Y) = 0
<1>1. \A j \in 1 .. Len(row) : row[j] \in T
  OBVIOUS
<1>2. DOMAIN row = 1 .. Len(row)
  OBVIOUS
<1>3. v \notin ToSet(row)
  BY <1>1, <1>2 DEF ToSet
<1>4. Stands(row, attr, v, Y) = {}
  BY <1>1 DEF Stands
<1> QED
  BY <1>3, <1>4, FS_EmptySet DEF Copies

\* So do the rows.
LEMMA ExtendedRows ==
  ASSUME NEW g, IsGraph(g), NEW id, NEW h, Extended(g, h, id),
         NEW u \in Places(h), NEW v \in Places(h), NEW Y
  PROVE  /\ u \in Places(g) /\ v \in Places(g) =>
              /\ h.out[u] = g.out[u] /\ h.in[u] = g.in[u]
              /\ h.out_attr[u] = g.out_attr[u] /\ h.in_attr[u] = g.in_attr[u]
         /\ ~(u \in Places(g) /\ v \in Places(g)) =>
              /\ v \notin ToSet(h.out[u]) /\ Copies(h.out[u], h.out_attr[u], v, Y) = 0
              /\ v \notin ToSet(h.in[u]) /\ Copies(h.in[u], h.in_attr[u], v, Y) = 0
<1>1. CASE u \in Places(g)
  <2>1. /\ h.out[u] = g.out[u] /\ h.in[u] = g.in[u]
        /\ h.out_attr[u] = g.out_attr[u] /\ h.in_attr[u] = g.in_attr[u]
    BY <1>1 DEF Extended
  <2>2. ASSUME v \notin Places(g)
        PROVE  /\ v \notin ToSet(h.out[u]) /\ Copies(h.out[u], h.out_attr[u], v, Y) = 0
               /\ v \notin ToSet(h.in[u]) /\ Copies(h.in[u], h.in_attr[u], v, Y) = 0
    <3>1. h.out[u] \in Seq(Places(g)) /\ h.in[u] \in Seq(Places(g))
      BY <1>1, <2>1 DEF IsGraph
    <3> QED
      BY <2>2, <3>1, NotInRow
  <2> QED
    BY <1>1, <2>1, <2>2
<1>2. CASE u \notin Places(g)
  <2>1. Size(g) \in Nat /\ Size(h) = Size(g) + 1
    BY DEF IsGraph, Size, Extended
  <2>2. u = Size(g)
    BY <1>2, <2>1 DEF Places
  <2>3. h.out[u] = << >> /\ h.in[u] = << >>
    BY <2>2 DEF Extended
  <2> QED
    BY <1>2, <2>3, EmptyRow
<1> QED
  BY <1>1, <1>2

LEMMA ExtendedKeeps ==
  ASSUME NEW g, IsGraph(g), NEW K, Named(g, K), Holds(g, K),
         NEW id, id \notin DOMAIN g.extern_ids, NEW h, Extended(g, h, id)
  PROVE  Named(h, K) /\ Holds(h, K)
<1>1. Size(g) \in Nat /\ Places(h) = Places(g) \cup {Size(g)} /\ Size(g) \notin Places(g)
      /\ Size(g) \in Places(h)
  <2>1. Size(g) \in Nat /\ Size(h) = Size(g) + 1
    BY DEF IsGraph, Size, Extended
  <2> QED
    BY <2>1 DEF Places
<1>2. Named(h, K)
  <2>1. \A x \in DOMAIN h.extern_ids : h.id_map[h.extern_ids[x] + 1] = x
    <3>1. h.id_map[h.extern_ids[id] + 1] = id
      BY DEF Extended
    <3>2. ASSUME NEW x \in DOMAIN g.extern_ids PROVE h.id_map[h.extern_ids[x] + 1] = x
      <4>1. g.extern_ids[x] \in Places(g) /\ g.id_map[g.extern_ids[x] + 1] = x
        BY DEF IsGraph, Named
      <4>2. h.extern_ids[x] = g.extern_ids[x]
        BY DEF Extended
      <4>3. h.id_map[g.extern_ids[x] + 1] = g.id_map[g.extern_ids[x] + 1]
        BY <4>1 DEF Extended
      <4> QED
        BY <4>1, <4>2, <4>3
    <3>3. DOMAIN h.extern_ids = DOMAIN g.extern_ids \cup {id}
      BY DEF Extended
    <3> QED
      BY <3>1, <3>2, <3>3
  <2>2. ASSUME NEW u \in Places(h)
        PROVE  /\ h.id_map[u + 1] \in DOMAIN h.extern_ids
               /\ h.extern_ids[h.id_map[u + 1]] = u
    <3>1. CASE u \in Places(g)
      <4>1. /\ g.id_map[u + 1] \in DOMAIN g.extern_ids
            /\ g.extern_ids[g.id_map[u + 1]] = u
        BY <3>1 DEF Named
      <4>2. h.id_map[u + 1] = g.id_map[u + 1]
        BY <3>1 DEF Extended
      <4>3. \A x \in DOMAIN g.extern_ids :
              x \in DOMAIN h.extern_ids /\ h.extern_ids[x] = g.extern_ids[x]
        BY DEF Extended
      <4> QED
        BY <4>1, <4>2, <4>3
    <3>2. CASE u = Size(g)
      BY <3>2 DEF Extended
    <3> QED
      BY <1>1, <3>1, <3>2
  <2>3. \A k \in K : {file[k][1], file[k][2]} \subseteq DOMAIN h.extern_ids
    BY DEF Named, Extended
  <2> QED
    BY <2>1, <2>2, <2>3 DEF Named
<1>3. Members(h, K)
  <2> SUFFICES ASSUME NEW u \in Places(h), NEW v \in Places(h)
               PROVE  /\ v \in ToSet(h.out[u]) <=>
                           \/ Joined(h, K, u, v)
                           \/ loader.symmetric /\ Joined(h, K, v, u)
                      /\ ~loader.symmetric =>
                           (v \in ToSet(h.in[u]) <=> Joined(h, K, v, u))
    BY DEF Members
  <2>1. CASE u \in Places(g) /\ v \in Places(g)
    <3>1. /\ Joins(h, K, u, v, Nat) = Joins(g, K, u, v, Nat)
          /\ Joins(h, K, v, u, Nat) = Joins(g, K, v, u, Nat)
      BY <2>1, ExtendedJoins
    <3>2. h.out[u] = g.out[u] /\ h.in[u] = g.in[u]
      BY <2>1, ExtendedRows
    <3>3. Members(g, K)
      BY DEF Holds
    <3> QED
      BY <2>1, <3>1, <3>2, <3>3 DEF Members, Joined
  <2>2. CASE ~(u \in Places(g) /\ v \in Places(g))
    <3>1. Joins(h, K, u, v, Nat) = {} /\ Joins(h, K, v, u, Nat) = {}
      BY <2>2, ExtendedJoins
    <3>2. v \notin ToSet(h.out[u]) /\ v \notin ToSet(h.in[u])
      BY <2>2, ExtendedRows
    <3> QED
      BY <3>1, <3>2 DEF Joined
  <2> QED
    BY <2>1, <2>2
<1>4. ASSUME loader.attributes PROVE Counts(h, K)
  <2>0. Counts(g, K)
    BY <1>4 DEF Holds
  <2> SUFFICES ASSUME NEW u \in Places(h), NEW v \in Places(h), NEW Y \in SUBSET Nat
               PROVE  /\ loader.symmetric =>
                           Copies(h.out[u], h.out_attr[u], v, Y) =
                             Uses(h, K, u, v, Y) + Uses(h, K, v, u, Y)
                      /\ ~loader.symmetric =>
                           /\ Copies(h.out[u], h.out_attr[u], v, Y) = Uses(h, K, u, v, Y)
                           /\ Copies(h.in[u], h.in_attr[u], v, Y) = Uses(h, K, v, u, Y)
    BY DEF Counts, CopiesAre
  <2>1. CASE u \in Places(g) /\ v \in Places(g)
    <3>1. /\ Joins(h, K, u, v, Y) = Joins(g, K, u, v, Y)
          /\ Joins(h, K, v, u, Y) = Joins(g, K, v, u, Y)
      BY <2>1, ExtendedJoins
    <3>2. /\ h.out[u] = g.out[u] /\ h.in[u] = g.in[u]
          /\ h.out_attr[u] = g.out_attr[u] /\ h.in_attr[u] = g.in_attr[u]
      BY <2>1, ExtendedRows
    <3>3. Uses(h, K, u, v, Y) = Uses(g, K, u, v, Y) /\ Uses(h, K, v, u, Y) = Uses(g, K, v, u, Y)
      BY <3>1 DEF Uses
    <3> QED
      BY <2>0, <2>1, <3>2, <3>3 DEF Counts, CopiesAre
  <2>2. CASE ~(u \in Places(g) /\ v \in Places(g))
    <3>1. Joins(h, K, u, v, Y) = {} /\ Joins(h, K, v, u, Y) = {}
      BY <2>2, ExtendedJoins
    <3>2. Copies(h.out[u], h.out_attr[u], v, Y) = 0 /\ Copies(h.in[u], h.in_attr[u], v, Y) = 0
      BY <2>2, ExtendedRows
    <3>3. Uses(h, K, u, v, Y) = 0 /\ Uses(h, K, v, u, Y) = 0
      BY <3>1, FS_EmptySet DEF Uses
    <3> QED
      BY <3>2, <3>3
  <2> QED
    BY <2>1, <2>2
<1> QED
  BY <1>2, <1>3, <1>4 DEF Holds
-----------------------------------------------------------------------------
\* The number of entries in the rows.
RowTotal(g, rows) == SumFunctionOnSet([u \in Places(g) |-> Len(rows[u])], Places(g))

LEMMA PlacesFinite ==
  ASSUME NEW g, IsGraph(g)
  PROVE  /\ Size(g) \in Nat /\ IsFiniteSet(Places(g))
         /\ \A u \in Places(g) : /\ Len(g.out[u]) \in Nat /\ Len(g.in[u]) \in Nat
                                 /\ g.out[u] \in Seq(Places(g)) /\ g.in[u] \in Seq(Places(g))
                                 /\ g.out_attr[u] \in Seq(Nat) /\ g.in_attr[u] \in Seq(Nat)
<1>1. Size(g) \in Nat
  BY DEF IsGraph, Size
<1>2. IsFiniteSet(Places(g))
  BY <1>1, FS_Interval DEF Places
<1>3. \A u \in Places(g) : g.out[u] \in Seq(Places(g)) /\ g.in[u] \in Seq(Places(g))
                           /\ g.out_attr[u] \in Seq(Nat) /\ g.in_attr[u] \in Seq(Nat)
  BY DEF IsGraph
<1>4. \A u \in Places(g) : Len(g.out[u]) \in Nat /\ Len(g.in[u]) \in Nat
  BY <1>3
<1> QED
  BY <1>1, <1>2, <1>3, <1>4

LEMMA RowTotalNat ==
  ASSUME NEW g, IsGraph(g)
  PROVE  RowTotal(g, g.out) \in Nat /\ RowTotal(g, g.in) \in Nat
<1> DEFINE f == [u \in Places(g) |-> Len(g.out[u])]
           h == [u \in Places(g) |-> Len(g.in[u])]
<1>1. /\ IsFiniteSet(Places(g))
      /\ \A u \in Places(g) : f[u] \in Nat /\ h[u] \in Nat
  BY PlacesFinite
<1> HIDE DEF f, h
<1>2. SumFunctionOnSet(f, Places(g)) \in Nat /\ SumFunctionOnSet(h, Places(g)) \in Nat
  BY <1>1, SumType
<1> QED
  BY <1>2 DEF RowTotal, f, h

LEMMA EmptyRowAdded ==
  ASSUME NEW n \in Nat, NEW f, NEW h, \A u \in 0 .. n - 1 : f[u] \in Nat /\ h[u] = f[u], h[n] = 0
  PROVE  SumFunctionOnSet(h, 0 .. n) = SumFunctionOnSet(f, 0 .. n - 1)
<1>1. IsFiniteSet(0 .. n) /\ IsFiniteSet(0 .. n - 1)
  BY FS_Interval
<1>2. (0 .. n) \ {n} = 0 .. n - 1 /\ n \in 0 .. n
  OBVIOUS
<1>3. \A u \in 0 .. n : h[u] \in Nat
  OBVIOUS
<1>4. SumFunctionOnSet(h, 0 .. n) = h[n] + SumFunctionOnSet(h, (0 .. n) \ {n})
  BY ONLY <1>1, <1>2, <1>3, SumRemove
<1>5. SumFunctionOnSet(h, 0 .. n) = h[n] + SumFunctionOnSet(h, 0 .. n - 1)
  BY ONLY <1>2, <1>4
<1>6. SumFunctionOnSet(h, 0 .. n - 1) = SumFunctionOnSet(f, 0 .. n - 1)
  BY <1>1, SumAgrees
<1>7. SumFunctionOnSet(f, 0 .. n - 1) \in Nat
  BY <1>1, SumType
<1> DEFINE total == SumFunctionOnSet(h, 0 .. n)
           before == SumFunctionOnSet(f, 0 .. n - 1)
<1>8. total = h[n] + before /\ before \in Nat
  BY <1>5, <1>6, <1>7
<1> HIDE DEF total, before
<1>9. total = before
  BY <1>8
<1> QED
  BY <1>9 DEF total, before

LEMMA ExtendedTotal ==
  ASSUME NEW g, IsGraph(g), NEW id, NEW h, Extended(g, h, id)
  PROVE  RowTotal(h, h.out) = RowTotal(g, g.out) /\ RowTotal(h, h.in) = RowTotal(g, g.in)
<1> DEFINE n == Size(g)
<1>1. /\ n \in Nat /\ Places(g) = 0 .. n - 1 /\ Places(h) = 0 .. n
      /\ \A u \in 0 .. n - 1 : Len(g.out[u]) \in Nat /\ Len(g.in[u]) \in Nat
  <2>1. Size(h) = n + 1
    BY DEF Extended
  <2> QED
    BY <2>1, PlacesFinite DEF Places
<1>2. /\ \A u \in 0 .. n - 1 : h.out[u] = g.out[u] /\ h.in[u] = g.in[u]
      /\ h.out[n] = << >> /\ h.in[n] = << >>
  BY <1>1 DEF Extended
<1> HIDE DEF n
<1>3. RowTotal(h, h.out) = RowTotal(g, g.out)
  <2> DEFINE a == [u \in 0 .. n - 1 |-> Len(g.out[u])]
             b == [u \in 0 .. n |-> Len(h.out[u])]
  <2>1. (\A u \in 0 .. n - 1 : a[u] \in Nat /\ b[u] = a[u]) /\ b[n] = 0
    BY <1>1, <1>2
  <2> HIDE DEF a, b
  <2>2. SumFunctionOnSet(b, 0 .. n) = SumFunctionOnSet(a, 0 .. n - 1)
    BY ONLY <1>1, <2>1, EmptyRowAdded
  <2> QED
    BY <1>1, <2>2 DEF a, b, RowTotal
<1>4. RowTotal(h, h.in) = RowTotal(g, g.in)
  <2> DEFINE a == [u \in 0 .. n - 1 |-> Len(g.in[u])]
             b == [u \in 0 .. n |-> Len(h.in[u])]
  <2>1. (\A u \in 0 .. n - 1 : a[u] \in Nat /\ b[u] = a[u]) /\ b[n] = 0
    BY <1>1, <1>2
  <2> HIDE DEF a, b
  <2>2. SumFunctionOnSet(b, 0 .. n) = SumFunctionOnSet(a, 0 .. n - 1)
    BY ONLY <1>1, <2>1, EmptyRowAdded
  <2> QED
    BY <1>1, <2>2 DEF a, b, RowTotal
<1> QED
  BY <1>3, <1>4

\* A graph whose rows hold the lines of K and whose nodes have the ids of their ends.
Keeps(g, K) == IsGraph(g) /\ Named(g, K) /\ Holds(g, K)

LEMMA AddNodeKeeps ==
  ASSUME NEW g, NEW K, Keeps(g, K), NEW id \in Nat
  PROVE  /\ Keeps(AddNode(g, id), K)
         /\ DOMAIN AddNode(g, id).extern_ids = DOMAIN g.extern_ids \cup {id}
         /\ RowTotal(AddNode(g, id), AddNode(g, id).out) = RowTotal(g, g.out)
         /\ RowTotal(AddNode(g, id), AddNode(g, id).in) = RowTotal(g, g.in)
<1> DEFINE h == AddNode(g, id)
<1>1. CASE id \in DOMAIN g.extern_ids
  <2>1. h = g
    BY <1>1 DEF AddNode
  <2> QED
    BY <1>1, <2>1
<1>2. CASE id \notin DOMAIN g.extern_ids
  <2>1. IsGraph(g) /\ Named(g, K) /\ Holds(g, K)
    BY DEF Keeps
  <2>2. Extended(g, h, id)
    BY <1>2, <2>1, AddNodeExtends
  <2> HIDE DEF h
  <2>3. Named(h, K) /\ Holds(h, K)
    BY <1>2, <2>1, <2>2, ExtendedKeeps
  <2>4. IsGraph(h) /\ DOMAIN h.extern_ids = DOMAIN g.extern_ids \cup {id}
    BY <2>2 DEF Extended
  <2>5. RowTotal(h, h.out) = RowTotal(g, g.out) /\ RowTotal(h, h.in) = RowTotal(g, g.in)
    BY <2>1, <2>2, ExtendedTotal
  <2>6. Keeps(h, K)
    BY <2>3, <2>4 DEF Keeps
  <2> QED
    BY <2>4, <2>5, <2>6 DEF h
<1> QED
  BY <1>1, <1>2
-----------------------------------------------------------------------------
\* Rows of two vectors that are as long as each other.
SameLengths(R, A, D) == \A w \in D : Len(A[w]) = Len(R[w])

LEMMA PushBothCounts ==
  ASSUME NEW D, NEW R, RowsOver(R, D, D), NEW A, RowsOver(A, D, Nat),
         SameLengths(R, A, D),
         NEW s \in D, NEW d \in D, NEW y \in Nat, NEW w \in D, NEW v, NEW Y
  PROVE  Copies(PushBoth(R, s, d, d, s)[w], PushBoth(A, s, y, d, y)[w], v, Y) =
           Copies(R[w], A[w], v, Y) + Entry(w, v, s, d, y, Y)
                                    + Entry(w, v, d, s, y, Y)
<1> DEFINE R1 == Push(R, s, d)
           A1 == Push(A, s, y)
<1>1. /\ RowsOver(R1, D, D) /\ Len(R1[s]) = Len(R[s]) + 1
      /\ \A z \in D : z # s => R1[z] = R[z]
  BY PushFacts
<1>2. /\ RowsOver(A1, D, Nat) /\ Len(A1[s]) = Len(A[s]) + 1
      /\ \A z \in D : z # s => A1[z] = A[z]
  BY ONLY RowsOver(A, D, Nat), s \in D, y \in Nat, PushFacts
<1>3. Len(A1[d]) = Len(R1[d])
  BY <1>1, <1>2 DEF SameLengths
<1>4. Copies(R1[w], A1[w], v, Y) =
        Copies(R[w], A[w], v, Y) + Entry(w, v, s, d, y, Y)
  <2>1. /\ RowsOver(R, D, D) /\ RowsOver(A, D, Nat) /\ Len(A[s]) = Len(R[s])
        /\ s \in D /\ d \in D /\ y \in Nat /\ w \in D
    BY DEF SameLengths
  <2> QED
    BY ONLY <2>1, PushCounts
<1> HIDE DEF R1, A1
<1>5. Copies(Push(R1, d, s)[w], Push(A1, d, y)[w], v, Y) =
        Copies(R1[w], A1[w], v, Y) + Entry(w, v, d, s, y, Y)
  <2>1. /\ RowsOver(R1, D, D) /\ RowsOver(A1, D, Nat) /\ Len(A1[d]) = Len(R1[d])
        /\ s \in D /\ d \in D /\ y \in Nat /\ w \in D
    BY <1>1, <1>2, <1>3
  <2> QED
    BY ONLY <2>1, PushCounts
<1> QED
  BY <1>4, <1>5 DEF PushBoth, R1, A1

LEMMA PushBothMembers ==
  ASSUME NEW D, NEW T, NEW R, RowsOver(R, D, T),
         NEW s \in D, NEW d \in D, NEW x \in T, NEW y \in T, NEW w \in D, NEW v
  PROVE  v \in ToSet(PushBoth(R, s, x, d, y)[w]) <=>
           v \in ToSet(R[w]) \/ (w = s /\ v = x) \/ (w = d /\ v = y)
<1> DEFINE R1 == Push(R, s, x)
<1>1. RowsOver(R1, D, T)
  BY PushFacts
<1>2. v \in ToSet(R1[w]) <=> v \in ToSet(R[w]) \/ (w = s /\ v = x)
  BY PushMembers
<1> HIDE DEF R1
<1>3. v \in ToSet(Push(R1, d, y)[w]) <=> v \in ToSet(R1[w]) \/ (w = d /\ v = y)
  BY <1>1, PushMembers
<1> QED
  BY <1>2, <1>3 DEF PushBoth, R1

LEMMA PushLengths ==
  ASSUME NEW D, NEW T, NEW R, RowsOver(R, D, T), NEW A, RowsOver(A, D, Nat),
         SameLengths(R, A, D), NEW u \in D, NEW x \in T, NEW y \in Nat
  PROVE  SameLengths(Push(R, u, x), Push(A, u, y), D)
<1>1. Len(Push(R, u, x)[u]) = Len(R[u]) + 1 /\ \A w \in D : w # u => Push(R, u, x)[w] = R[w]
  BY PushFacts
<1>2. Len(Push(A, u, y)[u]) = Len(A[u]) + 1 /\ \A w \in D : w # u => Push(A, u, y)[w] = A[w]
  BY ONLY RowsOver(A, D, Nat), u \in D, y \in Nat, PushFacts
<1> QED
  BY <1>1, <1>2 DEF SameLengths

\* The vectors after an edge.
PushedOut(g, u, v) == IF loader.symmetric THEN PushBoth(g.out, u, v, v, u) ELSE Push(g.out, u, v)
PushedIn(g, u, v) == IF loader.symmetric THEN g.in ELSE Push(g.in, v, u)
PushedOutAttr(g, u, v, y) ==
  IF ~loader.attributes THEN g.out_attr
  ELSE IF loader.symmetric THEN PushBoth(g.out_attr, u, y, v, y) ELSE Push(g.out_attr, u, y)
PushedInAttr(g, u, v, y) ==
  IF ~loader.attributes \/ loader.symmetric THEN g.in_attr ELSE Push(g.in_attr, v, y)

LEMMA PushedFields ==
  ASSUME NEW g, IsGraph(g), NEW u, NEW v, NEW y
  PROVE  PushEdge(g, u, v, y) =
           [extern_ids |-> g.extern_ids, id_map |-> g.id_map, node_attr |-> g.node_attr,
            out |-> PushedOut(g, u, v), in |-> PushedIn(g, u, v),
            out_attr |-> PushedOutAttr(g, u, v, y), in_attr |-> PushedInAttr(g, u, v, y)]
<1> DEFINE edge == IF loader.symmetric
                   THEN [g EXCEPT !.out = PushBoth(@, u, v, v, u)]
                   ELSE [g EXCEPT !.out = Push(@, u, v), !.in = Push(@, v, u)]
<1>1. g = [extern_ids |-> g.extern_ids, id_map |-> g.id_map, node_attr |-> g.node_attr,
           out |-> g.out, in |-> g.in, out_attr |-> g.out_attr, in_attr |-> g.in_attr]
  BY DEF IsGraph
<1>2. edge = [extern_ids |-> g.extern_ids, id_map |-> g.id_map, node_attr |-> g.node_attr,
              out |-> PushedOut(g, u, v), in |-> PushedIn(g, u, v),
              out_attr |-> g.out_attr, in_attr |-> g.in_attr]
  <2>1. CASE loader.symmetric
    BY <1>1, <2>1 DEF PushedOut, PushedIn
  <2>2. CASE ~loader.symmetric
    BY <1>1, <2>2 DEF PushedOut, PushedIn
  <2> QED
    BY <2>1, <2>2
<1>3. PushEdge(g, u, v, y) =
        IF ~loader.attributes THEN edge
        ELSE IF loader.symmetric
             THEN [edge EXCEPT !.out_attr = PushBoth(@, u, y, v, y)]
             ELSE [edge EXCEPT !.out_attr = Push(@, u, y), !.in_attr = Push(@, v, y)]
  BY DEF PushEdge
<1> HIDE DEF edge
<1>4. CASE ~loader.attributes
  <2>1. PushEdge(g, u, v, y) = edge
    BY <1>3, <1>4
  <2> QED
    BY <1>2, <1>4, <2>1 DEF PushedOutAttr, PushedInAttr
<1>5. CASE loader.attributes /\ loader.symmetric
  <2>1. PushEdge(g, u, v, y) = [edge EXCEPT !.out_attr = PushBoth(@, u, y, v, y)]
    BY <1>3, <1>5
  <2> QED
    BY <1>2, <1>5, <2>1 DEF PushedOutAttr, PushedInAttr
<1>6. CASE loader.attributes /\ ~loader.symmetric
  <2>1. PushEdge(g, u, v, y) =
          [edge EXCEPT !.out_attr = Push(@, u, y), !.in_attr = Push(@, v, y)]
    BY <1>3, <1>6
  <2> QED
    BY <1>2, <1>6, <2>1 DEF PushedOutAttr, PushedInAttr
<1> QED
  BY <1>4, <1>5, <1>6

\* The rows of a graph, as the lemmas take them.
LEMMA GraphRows ==
  ASSUME NEW g, IsGraph(g)
  PROVE  /\ RowsOver(g.out, Places(g), Places(g)) /\ RowsOver(g.in, Places(g), Places(g))
         /\ RowsOver(g.out_attr, Places(g), Nat) /\ RowsOver(g.in_attr, Places(g), Nat)
         /\ loader.attributes => SameLengths(g.out, g.out_attr, Places(g))
         /\ loader.attributes => SameLengths(g.in, g.in_attr, Places(g))
BY DEF IsGraph, RowsOver, SameLengths

LEMMA PushedRows ==
  ASSUME NEW g, IsGraph(g), NEW s \in Places(g), NEW d \in Places(g), NEW y \in Nat
  PROVE  /\ RowsOver(PushedOut(g, s, d), Places(g), Places(g))
         /\ RowsOver(PushedIn(g, s, d), Places(g), Places(g))
         /\ RowsOver(PushedOutAttr(g, s, d, y), Places(g), Nat)
         /\ RowsOver(PushedInAttr(g, s, d, y), Places(g), Nat)
         /\ loader.attributes => SameLengths(PushedOut(g, s, d), PushedOutAttr(g, s, d, y), Places(g))
         /\ loader.attributes => SameLengths(PushedIn(g, s, d), PushedInAttr(g, s, d, y), Places(g))
<1> DEFINE D == Places(g)
           R1 == Push(g.out, s, d)
           A1 == Push(g.out_attr, s, y)
<1>1. /\ RowsOver(g.out, D, D) /\ RowsOver(g.in, D, D)
      /\ RowsOver(g.out_attr, D, Nat) /\ RowsOver(g.in_attr, D, Nat)
      /\ loader.attributes => SameLengths(g.out, g.out_attr, D)
      /\ loader.attributes => SameLengths(g.in, g.in_attr, D)
      /\ s \in D /\ d \in D
  BY GraphRows
<1> HIDE DEF D
<1>2. RowsOver(R1, D, D) /\ RowsOver(A1, D, Nat)
  <2>1. RowsOver(R1, D, D)
    BY ONLY <1>1, PushFacts
  <2>2. RowsOver(A1, D, Nat)
    BY ONLY <1>1, y \in Nat, PushFacts
  <2> QED
    BY <2>1, <2>2
<1>3. ASSUME loader.attributes PROVE SameLengths(R1, A1, D)
  <2>1. /\ RowsOver(g.out, D, D) /\ RowsOver(g.out_attr, D, Nat) /\ SameLengths(g.out, g.out_attr, D)
        /\ s \in D /\ d \in D /\ y \in Nat
    BY <1>1, <1>3
  <2> QED
    BY ONLY <2>1, PushLengths
<1>4. RowsOver(Push(g.in, d, s), D, D) /\ RowsOver(Push(g.in_attr, d, y), D, Nat)
  <2>1. RowsOver(Push(g.in, d, s), D, D)
    BY ONLY <1>1, PushFacts
  <2>2. RowsOver(Push(g.in_attr, d, y), D, Nat)
    BY ONLY <1>1, y \in Nat, PushFacts
  <2> QED
    BY <2>1, <2>2
<1>5. ASSUME loader.attributes PROVE SameLengths(Push(g.in, d, s), Push(g.in_attr, d, y), D)
  <2>1. /\ RowsOver(g.in, D, D) /\ RowsOver(g.in_attr, D, Nat) /\ SameLengths(g.in, g.in_attr, D)
        /\ s \in D /\ d \in D /\ y \in Nat
    BY <1>1, <1>5
  <2> QED
    BY ONLY <2>1, PushLengths
<1> HIDE DEF R1, A1
<1>6. RowsOver(Push(R1, d, s), D, D) /\ RowsOver(Push(A1, d, y), D, Nat)
  <2>1. RowsOver(Push(R1, d, s), D, D)
    BY ONLY <1>1, <1>2, PushFacts
  <2>2. RowsOver(Push(A1, d, y), D, Nat)
    BY ONLY <1>1, <1>2, y \in Nat, PushFacts
  <2> QED
    BY <2>1, <2>2
<1>7. ASSUME loader.attributes PROVE SameLengths(Push(R1, d, s), Push(A1, d, y), D)
  <2>1. /\ RowsOver(R1, D, D) /\ RowsOver(A1, D, Nat) /\ SameLengths(R1, A1, D)
        /\ s \in D /\ d \in D /\ y \in Nat
    BY <1>1, <1>2, <1>3, <1>7
  <2> QED
    BY ONLY <2>1, PushLengths
<1>8. /\ PushBoth(g.out, s, d, d, s) = Push(R1, d, s)
      /\ PushBoth(g.out_attr, s, y, d, y) = Push(A1, d, y)
  BY DEF PushBoth, R1, A1
<1>9. CASE loader.symmetric
  BY <1>1, <1>6, <1>7, <1>8, <1>9 DEF PushedOut, PushedIn, PushedOutAttr, PushedInAttr, D
<1>10. CASE ~loader.symmetric
  BY <1>1, <1>2, <1>3, <1>4, <1>5, <1>10
     DEF PushedOut, PushedIn, PushedOutAttr, PushedInAttr, D, R1, A1
<1> QED
  BY <1>9, <1>10

LEMMA PushedGraph ==
  ASSUME NEW g, IsGraph(g), NEW s \in Places(g), NEW d \in Places(g), NEW y \in Nat
  PROVE  LET h == PushEdge(g, s, d, y)
         IN  /\ IsGraph(h) /\ Size(h) = Size(g) /\ Places(h) = Places(g)
             /\ h.id_map = g.id_map /\ h.extern_ids = g.extern_ids /\ h.node_attr = g.node_attr
             /\ h.out = PushedOut(g, s, d) /\ h.in = PushedIn(g, s, d)
             /\ h.out_attr = PushedOutAttr(g, s, d, y) /\ h.in_attr = PushedInAttr(g, s, d, y)
<1> DEFINE h == PushEdge(g, s, d, y)
           D == Places(g)
<1>1. h = [extern_ids |-> g.extern_ids, id_map |-> g.id_map, node_attr |-> g.node_attr,
           out |-> PushedOut(g, s, d), in |-> PushedIn(g, s, d),
           out_attr |-> PushedOutAttr(g, s, d, y), in_attr |-> PushedInAttr(g, s, d, y)]
  BY PushedFields
<1> HIDE DEF h
<1>2. /\ h.id_map = g.id_map /\ h.extern_ids = g.extern_ids /\ h.node_attr = g.node_attr
      /\ h.out = PushedOut(g, s, d) /\ h.in = PushedIn(g, s, d)
      /\ h.out_attr = PushedOutAttr(g, s, d, y) /\ h.in_attr = PushedInAttr(g, s, d, y)
  BY <1>1
<1>3. h = [extern_ids |-> h.extern_ids, id_map |-> h.id_map, node_attr |-> h.node_attr,
           out |-> h.out, in |-> h.in, out_attr |-> h.out_attr, in_attr |-> h.in_attr]
  BY <1>1, <1>2
<1>4. Size(h) = Size(g) /\ Places(h) = D
  BY <1>2 DEF Size, Places
<1>5. /\ RowsOver(h.out, D, D) /\ RowsOver(h.in, D, D)
      /\ RowsOver(h.out_attr, D, Nat) /\ RowsOver(h.in_attr, D, Nat)
      /\ loader.attributes => SameLengths(h.out, h.out_attr, D)
      /\ loader.attributes => SameLengths(h.in, h.in_attr, D)
  BY <1>2, PushedRows
<1>6. g.id_map \in Seq(Nat) /\ g.extern_ids \in [DOMAIN g.extern_ids -> D]
  BY DEF IsGraph
<1> HIDE DEF D
<1>7. IsGraph(h)
  BY <1>2, <1>3, <1>4, <1>5, <1>6 DEF IsGraph, RowsOver, SameLengths
<1> QED
  BY <1>2, <1>4, <1>7 DEF h, D

LEMMA EntryTurned ==
  ASSUME NEW w, NEW v, NEW s, NEW d, NEW y, NEW Y
  PROVE  Entry(v, w, s, d, y, Y) = Entry(w, v, d, s, y, Y)
BY DEF Entry

LEMMA PushedCounts ==
  ASSUME NEW g, NEW K, Keeps(g, K), NEW n, NEW s, NEW d, NewLine(g, K, n, s, d),
         loader.attributes,
         NEW u \in Places(g), NEW v \in Places(g), NEW Y \in SUBSET Nat
  PROVE  CopiesAre(PushEdge(g, s, d, file[n][3]), K \cup {n}, u, v, Y)
<1> DEFINE y == file[n][3]
           h == PushEdge(g, s, d, y)
           D == Places(g)
<1>1. /\ IsGraph(g) /\ Named(g, K) /\ Counts(g, K) /\ IsFiniteSet(K) /\ n \notin K
      /\ s \in D /\ d \in D /\ y \in Nat
      /\ file[n][1] = g.id_map[s + 1] /\ file[n][2] = g.id_map[d + 1]
  BY DEF Keeps, Holds, NewLine
<1>2. /\ h.id_map = g.id_map
      /\ h.out = PushedOut(g, s, d) /\ h.in = PushedIn(g, s, d)
      /\ h.out_attr = PushedOutAttr(g, s, d, y) /\ h.in_attr = PushedInAttr(g, s, d, y)
  BY <1>1, PushedGraph
<1>3. /\ RowsOver(g.out, D, D) /\ RowsOver(g.in, D, D)
      /\ RowsOver(g.out_attr, D, Nat) /\ RowsOver(g.in_attr, D, Nat)
      /\ SameLengths(g.out, g.out_attr, D) /\ SameLengths(g.in, g.in_attr, D)
  BY <1>1, GraphRows
<1> HIDE DEF h
<1>4. /\ Uses(h, K \cup {n}, u, v, Y) = Uses(g, K \cup {n}, u, v, Y)
      /\ Uses(h, K \cup {n}, v, u, Y) = Uses(g, K \cup {n}, v, u, Y)
  BY <1>2 DEF Uses, Joins
<1>5. /\ Uses(g, K \cup {n}, u, v, Y) = Uses(g, K, u, v, Y) + Entry(u, v, s, d, y, Y)
      /\ Uses(g, K \cup {n}, v, u, Y) = Uses(g, K, v, u, Y) + Entry(u, v, d, s, y, Y)
  <2>1. Uses(g, K \cup {n}, u, v, Y) = Uses(g, K, u, v, Y) + Entry(u, v, s, d, y, Y)
    BY <1>1, LineAdded
  <2>2. Uses(g, K \cup {n}, v, u, Y) = Uses(g, K, v, u, Y) + Entry(v, u, s, d, y, Y)
    BY <1>1, LineAdded
  <2> QED
    BY <2>1, <2>2, EntryTurned
<1>6. /\ Uses(g, K, u, v, Y) \in Nat /\ Uses(g, K, v, u, Y) \in Nat
      /\ Entry(u, v, s, d, y, Y) \in Nat /\ Entry(u, v, d, s, y, Y) \in Nat
  BY <1>1, JoinsFinite, EntryNat
<1>7. u \in D /\ v \in D
  OBVIOUS
<1> HIDE DEF D, y
<1>8. ASSUME loader.symmetric
      PROVE  Copies(h.out[u], h.out_attr[u], v, Y) =
               Uses(h, K \cup {n}, u, v, Y) + Uses(h, K \cup {n}, v, u, Y)
  <2>1. Copies(PushBoth(g.out, s, d, d, s)[u], PushBoth(g.out_attr, s, y, d, y)[u], v, Y) =
          Copies(g.out[u], g.out_attr[u], v, Y) + Entry(u, v, s, d, y, Y)
                                                + Entry(u, v, d, s, y, Y)
    BY ONLY <1>1, <1>3, <1>7, PushBothCounts
  <2>2. Copies(g.out[u], g.out_attr[u], v, Y) = Uses(g, K, u, v, Y) + Uses(g, K, v, u, Y)
    BY <1>1, <1>8 DEF Counts, CopiesAre
  <2>3. Copies(h.out[u], h.out_attr[u], v, Y) =
          Copies(PushBoth(g.out, s, d, d, s)[u], PushBoth(g.out_attr, s, y, d, y)[u], v, Y)
    BY <1>2, <1>8 DEF PushedOut, PushedOutAttr
  <2> QED
    BY <1>4, <1>5, <1>6, <2>1, <2>2, <2>3
<1>9. ASSUME ~loader.symmetric
      PROVE  Copies(h.out[u], h.out_attr[u], v, Y) = Uses(h, K \cup {n}, u, v, Y)
  <2>1. Copies(Push(g.out, s, d)[u], Push(g.out_attr, s, y)[u], v, Y) =
          Copies(g.out[u], g.out_attr[u], v, Y) + Entry(u, v, s, d, y, Y)
    <3>1. Len(g.out_attr[s]) = Len(g.out[s])
      BY <1>1, <1>3 DEF SameLengths
    <3> QED
      BY ONLY <1>1, <1>3, <1>7, <3>1, PushCounts
  <2>2. Copies(g.out[u], g.out_attr[u], v, Y) = Uses(g, K, u, v, Y)
    BY <1>1, <1>9 DEF Counts, CopiesAre
  <2>3. Copies(h.out[u], h.out_attr[u], v, Y) =
          Copies(Push(g.out, s, d)[u], Push(g.out_attr, s, y)[u], v, Y)
    BY <1>2, <1>9 DEF PushedOut, PushedOutAttr
  <2> QED
    BY <1>4, <1>5, <2>1, <2>2, <2>3
<1>10. ASSUME ~loader.symmetric
       PROVE  Copies(h.in[u], h.in_attr[u], v, Y) = Uses(h, K \cup {n}, v, u, Y)
  <2>1. Copies(Push(g.in, d, s)[u], Push(g.in_attr, d, y)[u], v, Y) =
          Copies(g.in[u], g.in_attr[u], v, Y) + Entry(u, v, d, s, y, Y)
    <3>1. Len(g.in_attr[d]) = Len(g.in[d])
      BY <1>1, <1>3 DEF SameLengths
    <3> QED
      BY ONLY <1>1, <1>3, <1>7, <3>1, PushCounts
  <2>2. Copies(g.in[u], g.in_attr[u], v, Y) = Uses(g, K, v, u, Y)
    BY <1>1, <1>10 DEF Counts, CopiesAre
  <2>3. Copies(h.in[u], h.in_attr[u], v, Y) =
          Copies(Push(g.in, d, s)[u], Push(g.in_attr, d, y)[u], v, Y)
    BY <1>2, <1>10 DEF PushedIn, PushedInAttr
  <2> QED
    BY <1>4, <1>5, <2>1, <2>2, <2>3
<1> QED
  BY <1>8, <1>9, <1>10 DEF h, y, CopiesAre

LEMMA PushedMembers ==
  ASSUME NEW g, NEW K, Keeps(g, K), NEW n, NEW s, NEW d, NewLine(g, K, n, s, d)
  PROVE  Members(PushEdge(g, s, d, file[n][3]), K \cup {n})
<1> DEFINE h == PushEdge(g, s, d, file[n][3])
           D == Places(g)
<1>1. /\ IsGraph(g) /\ Named(g, K) /\ Members(g, K) /\ IsFiniteSet(K) /\ n \notin K
      /\ s \in D /\ d \in D /\ file[n][3] \in Nat
      /\ file[n][1] = g.id_map[s + 1] /\ file[n][2] = g.id_map[d + 1]
  BY DEF Keeps, Holds, NewLine
<1>2. /\ h.id_map = g.id_map /\ Places(h) = D
      /\ h.out = PushedOut(g, s, d) /\ h.in = PushedIn(g, s, d)
  BY <1>1, PushedGraph
<1>3. RowsOver(g.out, D, D) /\ RowsOver(g.in, D, D)
  BY <1>1, GraphRows
<1> HIDE DEF h
<1> SUFFICES ASSUME NEW u \in D, NEW v \in D
             PROVE  /\ v \in ToSet(h.out[u]) <=>
                         \/ Joined(h, K \cup {n}, u, v)
                         \/ loader.symmetric /\ Joined(h, K \cup {n}, v, u)
                    /\ ~loader.symmetric =>
                         (v \in ToSet(h.in[u]) <=> Joined(h, K \cup {n}, v, u))
  BY <1>2 DEF Members, h
<1>4. /\ Joined(h, K \cup {n}, u, v) <=> Joined(g, K, u, v) \/ (u = s /\ v = d)
      /\ Joined(h, K \cup {n}, v, u) <=> Joined(g, K, v, u) \/ (v = s /\ u = d)
  <2>1. /\ Joined(h, K \cup {n}, u, v) <=> Joined(g, K \cup {n}, u, v)
        /\ Joined(h, K \cup {n}, v, u) <=> Joined(g, K \cup {n}, v, u)
    BY <1>2 DEF Joined, Joins
  <2>2. Joined(g, K \cup {n}, u, v) <=>
          Joined(g, K, u, v) \/ (u = s /\ v = d)
    BY <1>1, LineJoins
  <2>3. Joined(g, K \cup {n}, v, u) <=>
          Joined(g, K, v, u) \/ (v = s /\ u = d)
    BY <1>1, LineJoins
  <2> QED
    BY <1>1, <2>1, <2>2, <2>3
<1>5. /\ v \in ToSet(g.out[u]) <=>
           \/ Joined(g, K, u, v)
           \/ loader.symmetric /\ Joined(g, K, v, u)
      /\ ~loader.symmetric => (v \in ToSet(g.in[u]) <=> Joined(g, K, v, u))
  BY <1>1 DEF Members
<1>6. u \in D /\ v \in D
  OBVIOUS
<1> HIDE DEF D
<1>7. CASE loader.symmetric
  <2>1. v \in ToSet(PushBoth(g.out, s, d, d, s)[u]) <=>
          v \in ToSet(g.out[u]) \/ (u = s /\ v = d) \/ (u = d /\ v = s)
    <3>1. RowsOver(g.out, D, D) /\ s \in D /\ d \in D /\ u \in D
      BY <1>1, <1>3, <1>6
    <3> QED
      BY ONLY <3>1, PushBothMembers
  <2>2. h.out = PushBoth(g.out, s, d, d, s)
    BY <1>2, <1>7 DEF PushedOut
  <2> QED
    BY <1>4, <1>5, <1>7, <2>1, <2>2
<1>8. CASE ~loader.symmetric
  <2>1. v \in ToSet(Push(g.out, s, d)[u]) <=> v \in ToSet(g.out[u]) \/ (u = s /\ v = d)
    BY ONLY <1>1, <1>3, <1>6, PushMembers
  <2>2. v \in ToSet(Push(g.in, d, s)[u]) <=> v \in ToSet(g.in[u]) \/ (u = d /\ v = s)
    BY ONLY <1>1, <1>3, <1>6, PushMembers
  <2>3. h.out = Push(g.out, s, d) /\ h.in = Push(g.in, d, s)
    BY <1>2, <1>8 DEF PushedOut, PushedIn
  <2> QED
    BY <1>4, <1>5, <1>8, <2>1, <2>2, <2>3
<1> QED
  BY <1>7, <1>8

LEMMA OneMore ==
  ASSUME NEW D, IsFiniteSet(D), NEW T, NEW R, RowsOver(R, D, T), NEW u \in D, NEW x \in T
  PROVE  /\ SumFunctionOnSet([w \in D |-> Len(R[w])], D) \in Nat
         /\ SumFunctionOnSet([w \in D |-> Len(Push(R, u, x)[w])], D) =
              SumFunctionOnSet([w \in D |-> Len(R[w])], D) + 1
<1> DEFINE f == [w \in D |-> Len(R[w])]
           h == [w \in D |-> Len(Push(R, u, x)[w])]
<1>1. /\ RowsOver(Push(R, u, x), D, T)
      /\ Len(Push(R, u, x)[u]) = Len(R[u]) + 1 /\ \A w \in D : w # u => Push(R, u, x)[w] = R[w]
  BY PushFacts
<1>2. \A w \in D : R[w] \in Seq(T) /\ Push(R, u, x)[w] \in Seq(T)
  BY <1>1 DEF RowsOver
<1>3. \A w \in D : Len(R[w]) \in Nat /\ Len(Push(R, u, x)[w]) \in Nat
  BY <1>2
<1>4. /\ f \in [D -> Nat] /\ h \in [D -> Nat] /\ h[u] = f[u] + 1
      /\ \A w \in D : w # u => h[w] = f[w]
  BY <1>1, <1>3
<1> HIDE DEF f, h
<1>5. D \in SUBSET D /\ 1 \in Nat
  OBVIOUS
<1>6. SumFunctionOnSet(f, D) \in Nat /\ SumFunctionOnSet(h, D) = SumFunctionOnSet(f, D) + 1
  BY <1>4, <1>5, SumAdd
<1> QED
  BY <1>6 DEF f, h

\* An edge leads from g to h: the same nodes, and an entry more in the rows.
EdgeEntered(g, h) ==
  /\ h.extern_ids = g.extern_ids
  /\ ~loader.symmetric => /\ RowTotal(h, h.out) = RowTotal(g, g.out) + 1
                          /\ RowTotal(h, h.in) = RowTotal(g, g.in) + 1

LEMMA PushEdgeKeeps ==
  ASSUME NEW g, NEW K, Keeps(g, K), NEW n, NEW s, NEW d, NewLine(g, K, n, s, d)
  PROVE  /\ Keeps(PushEdge(g, s, d, file[n][3]), K \cup {n})
         /\ EdgeEntered(g, PushEdge(g, s, d, file[n][3]))
<1> DEFINE h == PushEdge(g, s, d, file[n][3])
           D == Places(g)
<1>1. /\ IsGraph(g) /\ Named(g, K) /\ IsFiniteSet(K) /\ n \notin K
      /\ s \in D /\ d \in D /\ file[n][3] \in Nat
      /\ file[n][1] = g.id_map[s + 1] /\ file[n][2] = g.id_map[d + 1]
  BY DEF Keeps, NewLine
<1>2. /\ IsGraph(h) /\ h.id_map = g.id_map /\ h.extern_ids = g.extern_ids /\ Places(h) = D
      /\ h.out = PushedOut(g, s, d) /\ h.in = PushedIn(g, s, d)
  BY <1>1, PushedGraph
<1>3. Members(h, K \cup {n})
  BY PushedMembers
<1>4. ASSUME loader.attributes PROVE Counts(h, K \cup {n})
  <2>1. ASSUME NEW u \in D, NEW v \in D, NEW Y \in SUBSET Nat
        PROVE  CopiesAre(h, K \cup {n}, u, v, Y)
    BY <1>4, PushedCounts
  <2> HIDE DEF h, D
  <2> QED
    BY <1>2, <2>1 DEF Counts
<1>5. Named(h, K \cup {n})
  <2>1. g.id_map[s + 1] \in DOMAIN g.extern_ids /\ g.id_map[d + 1] \in DOMAIN g.extern_ids
    BY <1>1 DEF Named
  <2> HIDE DEF h
  <2> QED
    BY <1>1, <1>2, <2>1 DEF Named
<1>6. ASSUME ~loader.symmetric
      PROVE  RowTotal(h, h.out) = RowTotal(g, g.out) + 1 /\ RowTotal(h, h.in) = RowTotal(g, g.in) + 1
  <2> HIDE DEF h
  <2>1. RowsOver(g.out, D, D) /\ RowsOver(g.in, D, D) /\ IsFiniteSet(D)
    BY <1>1, GraphRows, PlacesFinite
  <2>2. h.out = Push(g.out, s, d) /\ h.in = Push(g.in, d, s)
    BY <1>2, <1>6 DEF PushedOut, PushedIn
  <2> HIDE DEF D
  <2>3. SumFunctionOnSet([w \in D |-> Len(Push(g.out, s, d)[w])], D) =
          SumFunctionOnSet([w \in D |-> Len(g.out[w])], D) + 1
    <3>1. IsFiniteSet(D) /\ RowsOver(g.out, D, D) /\ d \in D /\ s \in D
      BY <1>1, <2>1
    <3> QED
      BY ONLY <3>1, OneMore
  <2>4. SumFunctionOnSet([w \in D |-> Len(Push(g.in, d, s)[w])], D) =
          SumFunctionOnSet([w \in D |-> Len(g.in[w])], D) + 1
    <3>1. IsFiniteSet(D) /\ RowsOver(g.in, D, D) /\ d \in D /\ s \in D
      BY <1>1, <2>1
    <3> QED
      BY ONLY <3>1, OneMore
  <2> QED
    BY <1>2, <2>2, <2>3, <2>4 DEF RowTotal, D
<1>7. Keeps(h, K \cup {n})
  BY <1>2, <1>3, <1>4, <1>5 DEF Keeps, Holds
<1> QED
  BY <1>2, <1>6, <1>7 DEF EdgeEntered
-----------------------------------------------------------------------------
Phases == {"edges", "nodes", "rows", "loaded", "written", "copied"}

InputsInv ==
  /\ loader \in Loaders
  /\ file \in Seq(Nat \X Nat \X Nat) /\ node_file \in Seq(Nat \X Nat)

PhaseInv ==
  /\ phase \in Phases /\ pos \in Nat
  /\ phase = "edges" => pos <= Len(file)
  /\ phase = "nodes" => loader.attributes /\ pos <= Len(node_file)
  /\ phase = "rows" => pos <= Size(graph)

GraphInv == Keeps(graph, Kept) /\ OnlyEnds(graph, Kept)

\* What edge_set tells two lines apart by.
EndIds(k) == {file[k][1] % Words, file[k][2] % Words}

\* The keys entered are those of the lines read.
SeenInv ==
  phase = "edges" /\ loader.symmetric /\ loader.attributes =>
    \A x, y \in Nat : <<x, y>> \in edge_set <=> \E j \in 1 .. pos : {x, y} = EndIds(j)

\* The lines of the node file that have been read and name u.
Given(g, u, n) == {k \in 1 .. n : node_file[k][1] = g.id_map[u + 1]}
LastGiven(g, u, n) ==
  IF Given(g, u, n) = {} THEN 0 ELSE node_file[Max(Given(g, u, n))][2]

NodeLines == IF phase = "nodes" THEN pos ELSE Len(node_file)

NodeAttrInv ==
  loader.attributes /\ phase # "edges" =>
    /\ graph.node_attr \in [Places(graph) -> Nat]
    /\ \A u \in Places(graph) : graph.node_attr[u] = LastGiven(graph, u, NodeLines)

\* How many rows have been sorted and measured.
RowsDone == IF phase \in {"edges", "nodes"} THEN 0
            ELSE IF phase = "rows" THEN pos ELSE Size(graph)

Ordered(row) ==
  \A p, q \in 1 .. Len(row) : p < q =>
    row[p] <= row[q] /\ (~loader.attributes => row[p] < row[q])

Lengths(rows, D) == [u \in D |-> Len(rows[u])]

CountsInv ==
  /\ num_edges \in Nat /\ max_nbrhood_size \in Nat
  /\ \A u \in 0 .. RowsDone - 1 :
       /\ Len(graph.out[u]) <= max_nbrhood_size /\ Len(graph.in[u]) <= max_nbrhood_size
       /\ Ordered(graph.out[u]) /\ Ordered(graph.in[u])
  /\ loader.symmetric =>
       num_edges = SumFunctionOnSet(Lengths(graph.out, Places(graph)), 0 .. RowsDone - 1)
  /\ ~loader.symmetric => /\ RowTotal(graph, graph.out) <= num_edges
                          /\ RowTotal(graph, graph.in) <= num_edges

\* The records of the nodes, and how far the first n of them reach.
Records == [k \in 1 .. Size(graph) |-> NodeRecord(k - 1)]
Reach(n) == SumFunctionOnSet(Lengths(Records, 1 .. Size(graph)), 1 .. n)

CopyInv ==
  /\ Size(copy) \in 0 .. Size(graph)
  /\ copy = [extern_ids |-> copy.extern_ids, id_map |-> copy.id_map,
             node_attr |-> copy.node_attr, out |-> copy.out, in |-> copy.in,
             out_attr |-> copy.out_attr, in_attr |-> copy.in_attr]
  /\ copy.id_map \in Seq(Nat)
  /\ \A k \in 1 .. Size(copy) : copy.id_map[k] = graph.id_map[k]
  /\ copy.out = [u \in 0 .. Size(copy) - 1 |-> graph.out[u]]
  /\ ~loader.symmetric => copy.in = [u \in 0 .. Size(copy) - 1 |-> graph.in[u]]
  /\ copy_num_edges \in Nat /\ copy_max_nbrhood_size \in Nat
  /\ SumFunctionOnSet(Lengths(graph.out, Places(graph)), 0 .. Size(copy) - 1) <= copy_num_edges
  /\ \A u \in 0 .. Size(copy) - 1 :
       /\ Len(graph.out[u]) <= copy_max_nbrhood_size
       /\ ~loader.symmetric => Len(graph.in[u]) <= copy_max_nbrhood_size

NoCopy ==
  /\ copy = EmptyGraph /\ copy_num_edges = 0 /\ copy_max_nbrhood_size = 0
  /\ binary = << >> /\ cursor = 0

BinaryInv ==
  /\ phase \notin {"written", "copied"} => NoCopy
  /\ phase \in {"written", "copied"} => /\ CopyInv
                                        /\ binary = <<Size(graph)>> \o FlattenSeq(Records)
                                        /\ cursor = 1 + Reach(Size(copy))
  /\ phase = "copied" => Size(copy) = Size(graph)

LoadInv ==
  /\ InputsInv /\ PhaseInv /\ GraphInv /\ SeenInv /\ NodeAttrInv /\ CountsInv /\ BinaryInv
-----------------------------------------------------------------------------
\* The lines that count among the first n.
KeptOf(n) ==
  {k \in 1 .. n : loader.symmetric /\ loader.attributes => \A j \in 1 .. k - 1 : EndIds(j) # EndIds(k)}

LinesRead == IF phase = "edges" THEN pos ELSE Len(file)

LEMMA KeptIs == Kept = KeptOf(LinesRead)
BY DEF Kept, KeptOf, LinesRead, EndIds

\* Line n + 1 has the same ends as one before it, and is passed over.
Repeats(n) == loader.symmetric /\ loader.attributes /\ \E j \in 1 .. n : EndIds(j) = EndIds(n + 1)

LEMMA KeptGrows ==
  ASSUME NEW n \in Nat
  PROVE  /\ IsFiniteSet(KeptOf(n)) /\ KeptOf(n) \subseteq 1 .. n /\ n + 1 \notin KeptOf(n)
         /\ KeptOf(n + 1) = IF Repeats(n) THEN KeptOf(n) ELSE KeptOf(n) \cup {n + 1}
<1>1. KeptOf(n) \in SUBSET (1 .. n) /\ IsFiniteSet(1 .. n)
  BY FS_Interval DEF KeptOf
<1>2. IsFiniteSet(KeptOf(n))
  BY <1>1, FS_Subset
<1>3. n + 1 \notin KeptOf(n)
  BY <1>1
<1>4. \A k : k \in KeptOf(n + 1) <=> k \in KeptOf(n) \/ (k = n + 1 /\ ~Repeats(n))
  <2>1. \A k : k \in 1 .. n + 1 <=> k \in 1 .. n \/ k = n + 1
    OBVIOUS
  <2>2. n + 1 \in KeptOf(n + 1) <=> ~Repeats(n)
    <3>1. (n + 1) - 1 = n /\ n + 1 \in 1 .. n + 1
      OBVIOUS
    <3> QED
      BY <3>1 DEF KeptOf, Repeats
  <2>3. \A k \in 1 .. n : k \in KeptOf(n + 1) <=> k \in KeptOf(n)
    BY <2>1 DEF KeptOf
  <2>4. KeptOf(n + 1) \subseteq 1 .. n + 1
    BY DEF KeptOf
  <2> QED
    BY <1>1, <1>3, <2>1, <2>2, <2>3, <2>4
<1> QED
  BY <1>1, <1>2, <1>3, <1>4

\* A line of the file.
LEMMA LineTypes ==
  ASSUME InputsInv, NEW k \in 1 .. Len(file)
  PROVE  /\ file[k][1] \in Nat /\ file[k][2] \in Nat /\ file[k][3] \in Nat
         /\ file[k][1] % Words \in Nat /\ file[k][2] % Words \in Nat
<1>1. file[k] \in Nat \X Nat \X Nat
  BY DEF InputsInv
<1>2. file[k][1] \in Nat /\ file[k][2] \in Nat /\ file[k][3] \in Nat
  BY <1>1
<1>3. \A x \in Nat : x % Words \in Nat
  BY LoadAssumption
<1> QED
  BY <1>2, <1>3

\* The graph of the next state holds the lines of the next state.
LEMMA GraphCarried ==
  ASSUME NEW g, NEW K, Keeps(g, K), OnlyEnds(g, K), UNCHANGED inputVars, graph' = g, Kept' = K
  PROVE  GraphInv'
<1>1. loader' = loader /\ file' = file
  BY DEF inputVars
<1>2. IsGraph(graph)'
  BY <1>1 DEF Keeps, IsGraph, Places, Size
<1>3. Named(graph, Kept)'
  BY <1>1 DEF Keeps, Named, Places, Size
<1>4. Members(graph, Kept)'
  BY <1>1 DEF Keeps, Holds, Members, Joined, Joins, Places, Size
<1>5. loader'.attributes => Counts(graph, Kept)'
  <2> SUFFICES ASSUME loader.attributes PROVE Counts(graph, Kept)'
    BY <1>1
  <2>1. Places(graph)' = Places(g)
    BY DEF Places, Size
  <2>2. ASSUME NEW u \in Places(g), NEW v \in Places(g), NEW Y \in SUBSET Nat
        PROVE  CopiesAre(graph, Kept, u, v, Y)'
    <3>1. CopiesAre(g, K, u, v, Y)
      BY DEF Keeps, Holds, Counts
    <3>2. /\ Uses(graph, Kept, u, v, Y)' = Uses(g, K, u, v, Y)
          /\ Uses(graph, Kept, v, u, Y)' = Uses(g, K, v, u, Y)
      BY <1>1 DEF Uses, Joins
    <3> QED
      BY <1>1, <3>1, <3>2 DEF CopiesAre, Copies, Stands
  <2> QED
    BY <2>1, <2>2 DEF Counts
<1>6. OnlyEnds(graph, Kept)'
  BY <1>1 DEF OnlyEnds
<1> QED
  BY <1>2, <1>3, <1>4, <1>5, <1>6 DEF GraphInv, Keeps, Holds
-----------------------------------------------------------------------------
\* The next line of the edge file.
LEMMA ReadEdgeGraph ==
  ASSUME LoadInv, ReadEdge
  PROVE  /\ GraphInv'
         /\ ~loader.symmetric => /\ RowTotal(graph', graph'.out) <= num_edges + 1
                                 /\ RowTotal(graph', graph'.in) <= num_edges + 1
<1> DEFINE src == file[pos + 1][1]
           dst == file[pos + 1][2]
           K == KeptOf(pos)
           named == AddNode(AddNode(graph, src), dst)
           dedupe == loader.symmetric /\ loader.attributes
           seen == dedupe /\ <<src % Words, dst % Words>> \in edge_set
           s == named.extern_ids[src]
           d == named.extern_ids[dst]
           pushed == PushEdge(named, s, d, file[pos + 1][3])
<1>1. /\ phase = "edges" /\ pos < Len(file) /\ pos' = pos + 1 /\ phase' = phase
      /\ graph' = IF seen THEN graph ELSE pushed
      /\ UNCHANGED inputVars
  BY DEF ReadEdge
<1>2. /\ InputsInv /\ pos \in Nat /\ Len(file) \in Nat /\ pos + 1 \in 1 .. Len(file)
  BY <1>1 DEF LoadInv, PhaseInv, InputsInv
<1>3. src \in Nat /\ dst \in Nat /\ file[pos + 1][3] \in Nat
      /\ src % Words \in Nat /\ dst % Words \in Nat
  BY <1>2, LineTypes
<1>4. Kept = K /\ Kept' = KeptOf(pos + 1)
  <2>1. Kept = K
    BY <1>1, KeptIs DEF LinesRead
  <2>2. Kept' = KeptOf(pos + 1)
    BY <1>1 DEF Kept, KeptOf, EndIds, inputVars
  <2> QED
    BY <2>1, <2>2
<1>5. Keeps(graph, K) /\ OnlyEnds(graph, K)
  BY <1>4 DEF LoadInv, GraphInv
<1>6. /\ IsFiniteSet(K) /\ pos + 1 \notin K
      /\ KeptOf(pos + 1) = IF Repeats(pos) THEN K ELSE K \cup {pos + 1}
  BY <1>2, KeptGrows
<1>7. seen <=> Repeats(pos)
  <2>1. dedupe => (<<src % Words, dst % Words>> \in edge_set <=>
                     \E j \in 1 .. pos : {src % Words, dst % Words} = EndIds(j))
    BY <1>1, <1>3 DEF LoadInv, SeenInv
  <2>2. EndIds(pos + 1) = {src % Words, dst % Words}
    BY DEF EndIds
  <2> QED
    BY <2>1, <2>2 DEF Repeats
<1>8. CASE seen
  <2>1. graph' = graph /\ Kept' = K
    BY <1>1, <1>4, <1>6, <1>7, <1>8
  <2>2. GraphInv'
    BY <1>1, <1>5, <2>1, GraphCarried
  <2>3. loader.symmetric
    BY <1>8
  <2> QED
    BY <2>2, <2>3
<1>9. CASE ~seen
  <2>1. graph' = pushed /\ Kept' = K \cup {pos + 1}
    BY <1>1, <1>4, <1>6, <1>7, <1>9
  <2> DEFINE first == AddNode(graph, src)
  <2>2. /\ Keeps(first, K)
        /\ DOMAIN first.extern_ids = DOMAIN graph.extern_ids \cup {src}
        /\ RowTotal(first, first.out) = RowTotal(graph, graph.out)
        /\ RowTotal(first, first.in) = RowTotal(graph, graph.in)
    BY <1>3, <1>5, AddNodeKeeps
  <2> HIDE DEF first
  <2>3. /\ Keeps(AddNode(first, dst), K)
        /\ DOMAIN AddNode(first, dst).extern_ids = DOMAIN first.extern_ids \cup {dst}
        /\ RowTotal(AddNode(first, dst), AddNode(first, dst).out) = RowTotal(first, first.out)
        /\ RowTotal(AddNode(first, dst), AddNode(first, dst).in) = RowTotal(first, first.in)
    BY <1>3, <2>2, AddNodeKeeps
  <2>4. named = AddNode(first, dst)
    BY DEF first
  <2> HIDE DEF named, src, dst
  <2>5. /\ Keeps(named, K) /\ DOMAIN named.extern_ids = DOMAIN graph.extern_ids \cup {src, dst}
        /\ RowTotal(named, named.out) = RowTotal(graph, graph.out)
        /\ RowTotal(named, named.in) = RowTotal(graph, graph.in)
    BY <2>2, <2>3, <2>4
  <2>6. /\ s \in Places(named) /\ d \in Places(named)
        /\ named.id_map[s + 1] = src /\ named.id_map[d + 1] = dst
    BY <2>5 DEF Keeps, IsGraph, Named
  <2> HIDE DEF s, d
  <2>7. NewLine(named, K, pos + 1, s, d)
    BY <1>3, <1>6, <2>6 DEF NewLine, src, dst
  <2>8. Keeps(pushed, K \cup {pos + 1}) /\ EdgeEntered(named, pushed)
    BY <2>5, <2>7, PushEdgeKeeps
  <2> HIDE DEF pushed
  <2>9. OnlyEnds(pushed, K \cup {pos + 1})
    BY <1>5, <2>5, <2>8 DEF OnlyEnds, src, dst, EdgeEntered
  <2>10. GraphInv'
    BY <1>1, <2>1, <2>8, <2>9, GraphCarried
  <2>11. ASSUME ~loader.symmetric
         PROVE  /\ RowTotal(graph', graph'.out) <= num_edges + 1
                /\ RowTotal(graph', graph'.in) <= num_edges + 1
    <3>1. /\ RowTotal(pushed, pushed.out) = RowTotal(graph, graph.out) + 1
          /\ RowTotal(pushed, pushed.in) = RowTotal(graph, graph.in) + 1
      BY <2>5, <2>8, <2>11 DEF EdgeEntered
    <3>2. /\ RowTotal(graph, graph.out) <= num_edges /\ RowTotal(graph, graph.in) <= num_edges
          /\ num_edges \in Nat
      BY <2>11 DEF LoadInv, CountsInv
    <3>3. RowTotal(graph, graph.out) \in Nat /\ RowTotal(graph, graph.in) \in Nat
      BY <1>5, RowTotalNat DEF Keeps
    <3> QED
      BY <2>1, <3>1, <3>2, <3>3
  <2> QED
    BY <2>10, <2>11
<1> QED
  BY <1>8, <1>9

LEMMA NothingToSum ==
  ASSUME NEW f
  PROVE  SumFunctionOnSet(f, {}) = 0 /\ 0 .. 0 - 1 = {}
<1>1. IsFiniteSet({}) /\ \A x \in {} : f[x] \in Nat
  BY FS_EmptySet
<1> QED
  BY <1>1, SumType

LEMMA ReadEdgeSeen ==
  ASSUME LoadInv, ReadEdge
  PROVE  SeenInv'
<1> DEFINE src == file[pos + 1][1]
           dst == file[pos + 1][2]
           a == src % Words
           b == dst % Words
<1>1. /\ phase = "edges" /\ pos < Len(file) /\ pos' = pos + 1 /\ phase' = phase
      /\ UNCHANGED inputVars
  BY DEF ReadEdge
<1>2. /\ InputsInv /\ pos \in Nat /\ Len(file) \in Nat /\ pos + 1 \in 1 .. Len(file)
  BY <1>1 DEF LoadInv, PhaseInv, InputsInv
<1>3. a \in Nat /\ b \in Nat
  BY <1>2, LineTypes
<1>4. loader' = loader /\ file' = file
  BY <1>1 DEF inputVars
<1> SUFFICES ASSUME loader.symmetric, loader.attributes, NEW x \in Nat, NEW y \in Nat
             PROVE  <<x, y>> \in edge_set' <=> \E j \in 1 .. pos + 1 : {x, y} = EndIds(j)
  BY <1>1, <1>4 DEF SeenInv, EndIds
<1>5. edge_set' = IF <<a, b>> \notin edge_set THEN edge_set \cup Key(src, dst) ELSE edge_set
  BY DEF ReadEdge
<1>6. \A v, w \in Nat : <<v, w>> \in edge_set <=> \E j \in 1 .. pos : {v, w} = EndIds(j)
  BY <1>1 DEF LoadInv, SeenInv
<1>7. EndIds(pos + 1) = {a, b} /\ Key(src, dst) = {<<a, b>>, <<b, a>>}
  BY DEF EndIds, Key
<1> HIDE DEF a, b, src, dst
<1>8. <<x, y>> \in {<<a, b>>, <<b, a>>} <=> {x, y} = {a, b}
  OBVIOUS
<1>9. (\E j \in 1 .. pos + 1 : {x, y} = EndIds(j)) <=>
        (\E j \in 1 .. pos : {x, y} = EndIds(j)) \/ {x, y} = {a, b}
  <2>1. \A j : j \in 1 .. pos + 1 <=> j \in 1 .. pos \/ j = pos + 1
    BY <1>2
  <2> HIDE DEF EndIds
  <2> QED
    BY <1>7, <2>1
<1>10. CASE <<a, b>> \notin edge_set
  BY <1>5, <1>6, <1>7, <1>8, <1>9, <1>10
<1>11. CASE <<a, b>> \in edge_set
  <2>1. \E j \in 1 .. pos : {a, b} = EndIds(j)
    BY <1>3, <1>6, <1>11
  <2> QED
    BY <1>5, <1>6, <1>9, <1>11, <2>1
<1> QED
  BY <1>10, <1>11

\* What does not concern the binary file.
LEMMA Unwritten ==
  ASSUME BinaryInv, UNCHANGED binaryVars,
         phase \notin {"written", "copied"}, phase' \notin {"written", "copied"}
  PROVE  BinaryInv'
BY DEF BinaryInv, NoCopy, binaryVars

LEMMA ReadEdgeInv ==
  ASSUME LoadInv, ReadEdge
  PROVE  LoadInv'
<1>1. /\ phase = "edges" /\ pos < Len(file) /\ pos' = pos + 1 /\ phase' = phase
      /\ num_edges' = IF loader.symmetric THEN num_edges ELSE num_edges + 1
      /\ UNCHANGED <<inputVars, max_nbrhood_size, binaryVars>>
  BY DEF ReadEdge
<1>2. loader' = loader /\ file' = file /\ node_file' = node_file
      /\ max_nbrhood_size' = max_nbrhood_size
  BY <1>1 DEF inputVars
<1>3. InputsInv'
  BY <1>2 DEF LoadInv, InputsInv
<1>4. PhaseInv'
  BY <1>1, <1>2 DEF LoadInv, PhaseInv, InputsInv
<1>5. GraphInv' /\ (~loader.symmetric => /\ RowTotal(graph', graph'.out) <= num_edges + 1
                                         /\ RowTotal(graph', graph'.in) <= num_edges + 1)
  BY ReadEdgeGraph
<1>6. NodeAttrInv'
  BY <1>1 DEF NodeAttrInv
<1>7. CountsInv'
  <2>1. RowsDone = 0 /\ RowsDone' = 0
    BY <1>1 DEF RowsDone
  <2>2. num_edges' \in Nat /\ max_nbrhood_size' \in Nat
    BY <1>1, <1>2 DEF LoadInv, CountsInv
  <2>3. 0 .. 0 - 1 = {}
    BY NothingToSum
  <2>4. ASSUME loader.symmetric
        PROVE  num_edges' = SumFunctionOnSet(Lengths(graph.out, Places(graph))', {})
    <3>1. num_edges = SumFunctionOnSet(Lengths(graph.out, Places(graph)), {})
      BY <2>1, <2>3, <2>4 DEF LoadInv, CountsInv
    <3>2. num_edges = 0
      BY <3>1, NothingToSum
    <3> QED
      BY <1>1, <2>4, <3>2, NothingToSum
  <2>5. ~loader.symmetric => RowTotal(graph', graph'.out) <= num_edges'
                             /\ RowTotal(graph', graph'.in) <= num_edges'
    BY <1>1, <1>5
  <2> QED
    BY <1>2, <2>1, <2>2, <2>3, <2>4, <2>5 DEF CountsInv, RowTotal, Places, Size
<1>8. BinaryInv'
  BY <1>1, Unwritten DEF LoadInv
<1> QED
  BY <1>3, <1>4, <1>5, <1>6, <1>7, <1>8, ReadEdgeSeen DEF LoadInv
-----------------------------------------------------------------------------
\* A graph with the same vectors but for the attributes of the nodes.
SameVectors(g, h) ==
  /\ h.extern_ids = g.extern_ids /\ h.id_map = g.id_map
  /\ h.out = g.out /\ h.in = g.in /\ h.out_attr = g.out_attr /\ h.in_attr = g.in_attr

LEMMA NodeAttrSet ==
  ASSUME NEW g, NEW K, Keeps(g, K), OnlyEnds(g, K), NEW X
  PROVE  /\ SameVectors(g, [g EXCEPT !.node_attr = X])
         /\ [g EXCEPT !.node_attr = X].node_attr = X
         /\ Keeps([g EXCEPT !.node_attr = X], K) /\ OnlyEnds([g EXCEPT !.node_attr = X], K)
<1> DEFINE h == [g EXCEPT !.node_attr = X]
<1>1. g = [extern_ids |-> g.extern_ids, id_map |-> g.id_map, node_attr |-> g.node_attr,
           out |-> g.out, in |-> g.in, out_attr |-> g.out_attr, in_attr |-> g.in_attr]
  BY DEF Keeps, IsGraph
<1>2. h = [extern_ids |-> g.extern_ids, id_map |-> g.id_map, node_attr |-> X,
           out |-> g.out, in |-> g.in, out_attr |-> g.out_attr, in_attr |-> g.in_attr]
  BY <1>1
<1> HIDE DEF h
<1>3. SameVectors(g, h) /\ h.node_attr = X
  BY <1>2 DEF SameVectors
<1>4. Places(h) = Places(g)
  BY <1>3 DEF Places, Size, SameVectors
<1>5. IsGraph(h)
  <2>1. h = [extern_ids |-> h.extern_ids, id_map |-> h.id_map, node_attr |-> h.node_attr,
             out |-> h.out, in |-> h.in, out_attr |-> h.out_attr, in_attr |-> h.in_attr]
    BY <1>2
  <2> QED
    BY <1>3, <1>4, <2>1 DEF Keeps, IsGraph, SameVectors
<1>6. Named(h, K) /\ OnlyEnds(h, K)
  BY <1>3, <1>4 DEF Keeps, Named, OnlyEnds, SameVectors
<1>7. \A u, v, Y : Joins(h, K, u, v, Y) = Joins(g, K, u, v, Y)
  BY <1>3 DEF Joins, SameVectors
<1>8. Members(h, K)
  BY <1>3, <1>4, <1>7 DEF Keeps, Holds, Members, Joined, SameVectors
<1>9. loader.attributes => Counts(h, K)
  BY <1>3, <1>4, <1>7 DEF Keeps, Holds, Counts, CopiesAre, Uses, SameVectors
<1> QED
  BY <1>3, <1>5, <1>6, <1>8, <1>9 DEF Keeps, Holds, h

LEMMA EdgesReadInv ==
  ASSUME LoadInv, EdgesRead
  PROVE  LoadInv'
<1> DEFINE X == IF loader.attributes THEN [u \in 0 .. Size(graph) - 1 |-> 0] ELSE << >>
           h == [graph EXCEPT !.node_attr = X]
<1>1. /\ phase = "edges" /\ pos = Len(file) /\ pos' = 0
      /\ phase' = IF loader.attributes THEN "nodes" ELSE "rows"
      /\ graph' = h
      /\ UNCHANGED <<inputVars, countVars, binaryVars>>
  BY DEF EdgesRead
<1>2. /\ loader' = loader /\ file' = file /\ node_file' = node_file
      /\ num_edges' = num_edges /\ max_nbrhood_size' = max_nbrhood_size
  BY <1>1 DEF inputVars, countVars
<1>3. Kept' = Kept
  BY <1>1, <1>2 DEF Kept
<1>4. Keeps(graph, Kept) /\ OnlyEnds(graph, Kept)
  BY DEF LoadInv, GraphInv
<1>5. SameVectors(graph, h) /\ h.node_attr = X /\ Keeps(h, Kept) /\ OnlyEnds(h, Kept)
  BY <1>4, NodeAttrSet
<1> HIDE DEF h
<1>6. GraphInv'
  BY <1>1, <1>3, <1>5, GraphCarried
<1>7. InputsInv'
  BY <1>2 DEF LoadInv, InputsInv
<1>8. PhaseInv'
  <2>1. Size(graph) \in Nat /\ Size(graph)' = Size(graph) /\ Len(node_file) \in Nat
    BY <1>1, <1>4, <1>5 DEF Keeps, IsGraph, Size, SameVectors, LoadInv, InputsInv
  <2> QED
    BY <1>1, <1>2, <2>1 DEF LoadInv, PhaseInv, Phases
<1>9. SeenInv'
  BY <1>1 DEF SeenInv
<1>10. NodeAttrInv'
  <2> SUFFICES ASSUME loader.attributes PROVE NodeAttrInv'
    BY <1>2 DEF NodeAttrInv
  <2>1. graph'.node_attr = [u \in Places(graph) |-> 0] /\ Places(graph)' = Places(graph)
    BY <1>1, <1>5 DEF Places, Size, SameVectors
  <2>2. NodeLines' = 0
    BY <1>1 DEF NodeLines
  <2>3. ASSUME NEW u \in Places(graph) PROVE LastGiven(graph, u, NodeLines)' = 0
    <3>1. Given(graph, u, NodeLines)' = {}
      BY <2>2 DEF Given
    <3> QED
      BY <3>1 DEF LastGiven
  <2> QED
    BY <2>1, <2>3 DEF NodeAttrInv
<1>11. CountsInv'
  <2>1. RowsDone = 0 /\ RowsDone' = 0
    BY <1>1 DEF RowsDone
  <2>2. graph'.out = graph.out /\ graph'.in = graph.in /\ Places(graph)' = Places(graph)
    BY <1>1, <1>5 DEF Places, Size, SameVectors
  <2>3. 0 .. 0 - 1 = {}
    BY NothingToSum
  <2> QED
    BY <1>2, <2>1, <2>2, <2>3 DEF LoadInv, CountsInv, RowTotal, Lengths
<1>12. BinaryInv'
  BY <1>1, Unwritten DEF LoadInv
<1> QED
  BY <1>6, <1>7, <1>8, <1>9, <1>10, <1>11, <1>12 DEF LoadInv
-----------------------------------------------------------------------------
\* One more line of the node file.
LEMMA GivenMore ==
  ASSUME NEW g, NEW u, NEW n \in Nat
  PROVE  LastGiven(g, u, n + 1) =
           IF node_file[n + 1][1] = g.id_map[u + 1] THEN node_file[n + 1][2] ELSE LastGiven(g, u, n)
<1> DEFINE G == Given(g, u, n)
           G2 == Given(g, u, n + 1)
<1>1. \A k : k \in 1 .. n + 1 <=> k \in 1 .. n \/ k = n + 1
  OBVIOUS
<1>2. CASE node_file[n + 1][1] = g.id_map[u + 1]
  <2>1. n + 1 \in G2 /\ \A k \in G2 : k \in Int /\ k <= n + 1
    BY <1>1, <1>2 DEF Given
  <2> HIDE DEF G2
  <2>2. \E x \in G2 : \A y \in G2 : x >= y
    BY <2>1
  <2>3. Max(G2) \in G2 /\ \A y \in G2 : Max(G2) >= y
    BY <2>2 DEF Max
  <2>4. Max(G2) = n + 1
    <3> DEFINE m == Max(G2)
    <3>1. m \in Int /\ m <= n + 1 /\ m >= n + 1
      BY <2>1, <2>3
    <3> HIDE DEF m
    <3>2. m = n + 1
      BY <3>1
    <3> QED
      BY <3>2 DEF m
  <2>5. G2 # {}
    BY <2>1
  <2> QED
    BY <1>2, <2>4, <2>5 DEF LastGiven, G2
<1>3. CASE node_file[n + 1][1] # g.id_map[u + 1]
  <2>1. G2 = G
    BY <1>1, <1>3 DEF Given
  <2> QED
    BY <1>3, <2>1 DEF LastGiven
<1> QED
  BY <1>2, <1>3

LEMMA ReadNodeAttributeInv ==
  ASSUME LoadInv, ReadNodeAttribute
  PROVE  LoadInv'
<1> DEFINE id == node_file[pos + 1][1]
           year == node_file[pos + 1][2]
           u0 == graph.extern_ids[id]
           X == IF id \in DOMAIN graph.extern_ids
                THEN [graph.node_attr EXCEPT ![u0] = year] ELSE graph.node_attr
           h == [graph EXCEPT !.node_attr = X]
<1>1. /\ phase = "nodes" /\ pos < Len(node_file) /\ pos' = pos + 1 /\ phase' = phase
      /\ graph' = IF id \in DOMAIN graph.extern_ids
                  THEN [graph EXCEPT !.node_attr[u0] = year] ELSE graph
      /\ UNCHANGED <<inputVars, edge_set, countVars, binaryVars>>
  BY DEF ReadNodeAttribute
<1>2. /\ loader' = loader /\ file' = file /\ node_file' = node_file
      /\ num_edges' = num_edges /\ max_nbrhood_size' = max_nbrhood_size
  BY <1>1 DEF inputVars, countVars
<1>3. Kept' = Kept
  BY <1>1, <1>2 DEF Kept
<1>4. Keeps(graph, Kept) /\ OnlyEnds(graph, Kept)
  BY DEF LoadInv, GraphInv
<1>5. loader.attributes /\ pos \in Nat /\ pos + 1 \in 1 .. Len(node_file)
      /\ node_file \in Seq(Nat \X Nat)
  BY <1>1 DEF LoadInv, PhaseInv, InputsInv
<1>6. id \in Nat /\ year \in Nat
  <2>1. node_file[pos + 1] \in Nat \X Nat
    BY <1>5
  <2> QED
    BY <2>1
<1>7. /\ graph.node_attr \in [Places(graph) -> Nat]
      /\ \A u \in Places(graph) : graph.node_attr[u] = LastGiven(graph, u, pos)
  BY <1>1, <1>5 DEF LoadInv, NodeAttrInv, NodeLines
<1>8. graph' = h
  <2>1. graph = [extern_ids |-> graph.extern_ids, id_map |-> graph.id_map,
                 node_attr |-> graph.node_attr, out |-> graph.out, in |-> graph.in,
                 out_attr |-> graph.out_attr, in_attr |-> graph.in_attr]
    BY <1>4 DEF Keeps, IsGraph
  <2>2. [graph EXCEPT !.node_attr = graph.node_attr] = graph
    BY <2>1
  <2> QED
    BY <1>1, <2>1, <2>2
<1>9. SameVectors(graph, h) /\ h.node_attr = X /\ Keeps(h, Kept) /\ OnlyEnds(h, Kept)
  BY <1>4, NodeAttrSet
<1> HIDE DEF h
<1>10. GraphInv'
  BY <1>1, <1>3, <1>8, <1>9, GraphCarried
<1>11. Places(graph)' = Places(graph) /\ graph'.id_map = graph.id_map /\ graph'.node_attr = X
       /\ graph'.out = graph.out /\ graph'.in = graph.in
  BY <1>8, <1>9 DEF Places, Size, SameVectors
<1>12. InputsInv' /\ PhaseInv' /\ SeenInv'
  BY <1>1, <1>2, <1>5 DEF LoadInv, InputsInv, PhaseInv, SeenInv, Phases
<1>13. NodeAttrInv'
  <2>1. X \in [Places(graph) -> Nat]
    BY <1>6, <1>7
  <2>2. ASSUME NEW u \in Places(graph) PROVE X[u] = LastGiven(graph, u, pos + 1)
    <3>1. LastGiven(graph, u, pos + 1) =
            IF id = graph.id_map[u + 1] THEN year ELSE graph.node_attr[u]
      BY <1>5, <1>7, GivenMore
    <3>2. (id = graph.id_map[u + 1]) <=> (id \in DOMAIN graph.extern_ids /\ u = u0)
      BY <1>4 DEF Keeps, Named
    <3> HIDE DEF id, u0, year
    <3> QED
      BY <1>7, <3>1, <3>2
  <2>3. ASSUME NEW u PROVE LastGiven(graph, u, NodeLines)' = LastGiven(graph, u, pos + 1)
    BY <1>1, <1>2, <1>11 DEF LastGiven, Given, NodeLines
  <2> HIDE DEF X
  <2> QED
    BY <1>11, <2>1, <2>2, <2>3 DEF NodeAttrInv
<1>14. CountsInv'
  <2>1. RowsDone = 0 /\ RowsDone' = 0
    BY <1>1 DEF RowsDone
  <2> QED
    BY <1>2, <1>11, <2>1 DEF LoadInv, CountsInv, RowTotal, Lengths
<1>15. BinaryInv'
  BY <1>1, Unwritten DEF LoadInv
<1> QED
  BY <1>10, <1>12, <1>13, <1>14, <1>15 DEF LoadInv

LEMMA NodesReadInv ==
  ASSUME LoadInv, NodesRead
  PROVE  LoadInv'
<1>1. /\ phase = "nodes" /\ pos = Len(node_file) /\ pos' = 0 /\ phase' = "rows"
      /\ graph' = graph
      /\ UNCHANGED <<inputVars, edge_set, countVars, binaryVars>>
  BY DEF NodesRead
<1>2. /\ loader' = loader /\ file' = file /\ node_file' = node_file
      /\ num_edges' = num_edges /\ max_nbrhood_size' = max_nbrhood_size
  BY <1>1 DEF inputVars, countVars
<1>3. Kept' = Kept
  BY <1>1, <1>2 DEF Kept
<1>4. Keeps(graph, Kept) /\ OnlyEnds(graph, Kept)
  BY DEF LoadInv, GraphInv
<1>5. GraphInv'
  BY <1>1, <1>3, <1>4, GraphCarried
<1>6. InputsInv' /\ SeenInv'
  BY <1>1, <1>2 DEF LoadInv, InputsInv, SeenInv
<1>7. PhaseInv'
  BY <1>1, <1>4 DEF Keeps, IsGraph, Size, LoadInv, PhaseInv, Phases
<1>8. NodeAttrInv'
  <2>1. NodeLines' = NodeLines
    BY <1>1, <1>2 DEF NodeLines
  <2> QED
    BY <1>1, <1>2, <2>1 DEF LoadInv, NodeAttrInv, LastGiven, Given, Places, Size
<1>9. CountsInv'
  <2>1. RowsDone = 0 /\ RowsDone' = 0
    BY <1>1 DEF RowsDone
  <2> QED
    BY <1>1, <1>2, <2>1 DEF LoadInv, CountsInv, RowTotal, Lengths, Places, Size, Ordered
<1>10. BinaryInv'
  BY <1>1, Unwritten DEF LoadInv
<1> QED
  BY <1>5, <1>6, <1>7, <1>8, <1>9, <1>10 DEF LoadInv

-----------------------------------------------------------------------------
\* Before the first line there is no graph.
LEMMA NoLines ==
  ASSUME InputsInv, NEW g, g = EmptyGraph
  PROVE  Keeps(g, {}) /\ OnlyEnds(g, {}) /\ Places(g) = {} /\ Size(g) = 0
<1>1. /\ g.extern_ids = << >> /\ g.id_map = << >> /\ g.node_attr = << >>
      /\ g.out = << >> /\ g.in = << >> /\ g.out_attr = << >> /\ g.in_attr = << >>
      /\ g = [extern_ids |-> g.extern_ids, id_map |-> g.id_map, node_attr |-> g.node_attr,
              out |-> g.out, in |-> g.in, out_attr |-> g.out_attr, in_attr |-> g.in_attr]
  BY DEF EmptyGraph
<1>2. Size(g) = 0 /\ Places(g) = {}
  BY <1>1, NothingToSum DEF Size, Places
<1>3. DOMAIN << >> = {} /\ << >> \in Seq(Nat)
  OBVIOUS
<1>4. \A T : << >> \in [{} -> T]
  BY <1>3
<1>5. IsGraph(g)
  BY <1>1, <1>2, <1>3, <1>4 DEF IsGraph
<1>6. Named(g, {}) /\ OnlyEnds(g, {}) /\ Holds(g, {})
  BY <1>1, <1>2, <1>3 DEF Named, OnlyEnds, Holds, Members, Counts
<1> QED
  BY <1>2, <1>5, <1>6 DEF Keeps

LEMMA LoadInitInv ==
  ASSUME LoadInit
  PROVE  LoadInv
<1>1. /\ phase = "edges" /\ pos = 0 /\ edge_set = {} /\ graph = EmptyGraph
      /\ num_edges = 0 /\ max_nbrhood_size = 0 /\ binary = << >> /\ cursor = 0
      /\ copy = EmptyGraph /\ copy_num_edges = 0 /\ copy_max_nbrhood_size = 0
  BY DEF LoadInit
<1>2. InputsInv
  <2>1. file \in Seq(Nat \X Nat \X Nat) /\ loader \in Loaders
    BY LoadAssumption DEF LoadInit
  <2>2. node_file \in Seq(Nat \X Nat)
    <3>1. << >> \in Seq(Nat \X Nat)
      OBVIOUS
    <3>2. node_file \in NodeFiles \/ node_file = << >>
      BY DEF LoadInit
    <3> QED
      BY <3>1, <3>2, LoadAssumption
  <2> QED
    BY <2>1, <2>2 DEF InputsInv
<1>3. PhaseInv
  BY <1>1, <1>2 DEF PhaseInv, Phases, InputsInv
<1>4. Keeps(graph, {}) /\ OnlyEnds(graph, {}) /\ Places(graph) = {}
  BY <1>1, <1>2, NoLines
<1>5. 1 .. 0 = {} /\ 0 .. 0 - 1 = {}
  OBVIOUS
<1>6. Kept = {}
  BY <1>1, <1>5 DEF Kept
<1>7. GraphInv
  BY <1>4, <1>6 DEF GraphInv
<1>8. SeenInv /\ NodeAttrInv /\ BinaryInv
  BY <1>1, <1>5 DEF SeenInv, NodeAttrInv, BinaryInv, NoCopy
<1>9. CountsInv
  <2>1. RowsDone = 0
    BY <1>1 DEF RowsDone
  <2>2. \A f : SumFunctionOnSet(f, {}) = 0
    BY NothingToSum
  <2>3. RowTotal(graph, graph.out) = 0 /\ RowTotal(graph, graph.in) = 0
    BY <1>4, <2>2 DEF RowTotal
  <2> QED
    BY <1>1, <1>5, <2>1, <2>2, <2>3 DEF CountsInv
<1> QED
  BY <1>2, <1>3, <1>7, <1>8, <1>9 DEF LoadInv
-----------------------------------------------------------------------------
\* A row, with its attributes, that holds the same nodes as another, in order.
RowKept(T, row, attr, row2, attr2) ==
  /\ row2 \in Seq(T) /\ attr2 \in Seq(Nat)
  /\ ToSet(row2) = ToSet(row) /\ Len(row2) <= Len(row) /\ Ordered(row2)
  /\ loader.attributes => /\ Len(attr2) = Len(row2)
                          /\ \A v, Y : Copies(row2, attr2, v, Y) = Copies(row, attr, v, Y)

\* A permutation has every place.
LEMMA SortOrderOnto ==
  ASSUME NEW T, NEW row \in Seq(T), NEW p \in SortOrders(row)
  PROVE  /\ p \in [1 .. Len(row) -> 1 .. Len(row)] /\ Len(row) \in Nat
         /\ \A a, b \in 1 .. Len(row) : p[a] = p[b] => a = b
         /\ \A a \in 1 .. Len(row) : \E b \in 1 .. Len(row) : p[b] = a
<1> DEFINE n == Len(row)
<1>1. n \in Nat
  OBVIOUS
<1>2. p \in [1 .. n -> 1 .. n] /\ \A a, b \in 1 .. n : p[a] = p[b] => a = b
  BY DEF SortOrders
<1> HIDE DEF n
<1>3. p \in Injection(1 .. n, 1 .. n)
  BY <1>2 DEF Injection, IsInjective
<1>4. IsFiniteSet(1 .. n) /\ Cardinality(1 .. n) = n
  BY <1>1, FS_Interval
<1>5. p \in Surjection(1 .. n, 1 .. n)
  BY <1>3, <1>4, FS_Injection
<1>6. \A a \in 1 .. n : \E b \in 1 .. n : p[b] = a
  BY <1>5 DEF Surjection
<1> QED
  BY <1>1, <1>2, <1>6 DEF n

\* A row sorted with its attributes.
LEMMA SortedRow ==
  ASSUME NEW T, NEW row \in Seq(T), NEW attr \in Seq(Nat), Len(attr) = Len(row),
         NEW p \in SortOrders(row), loader.attributes
  PROVE  RowKept(T, row, attr, Permuted(row, p), Permuted(attr, p))
<1> DEFINE n == Len(row)
           row2 == Permuted(row, p)
           attr2 == Permuted(attr, p)
<1>1. /\ p \in [1 .. n -> 1 .. n] /\ n \in Nat
      /\ \A a, b \in 1 .. n : p[a] = p[b] => a = b
      /\ \A a \in 1 .. n : \E b \in 1 .. n : p[b] = a
  BY ONLY row \in Seq(T), p \in SortOrders(row), SortOrderOnto
<1>2. \A a \in 1 .. n : row[p[a]] \in T /\ attr[p[a]] \in Nat
  <2>1. \A a \in 1 .. n : row[a] \in T /\ attr[a] \in Nat
    OBVIOUS
  <2> HIDE DEF n
  <2> QED
    BY <1>1, <2>1
<1>3. /\ row2 \in Seq(T) /\ Len(row2) = n /\ attr2 \in Seq(Nat) /\ Len(attr2) = n
      /\ DOMAIN row2 = 1 .. n
      /\ \A a \in 1 .. n : row2[a] = row[p[a]] /\ attr2[a] = attr[p[a]]
  BY <1>1, <1>2 DEF Permuted
<1>4. ToSet(row2) = ToSet(row)
  <2>1. DOMAIN row = 1 .. n
    OBVIOUS
  <2> HIDE DEF n, row2, attr2
  <2>2. \A a \in 1 .. n : row2[a] = row[p[a]] /\ p[a] \in 1 .. n
    BY <1>1, <1>3
  <2>3. ASSUME NEW a \in 1 .. n PROVE \E b \in 1 .. n : row[a] = row2[b]
    <3>1. PICK b \in 1 .. n : p[b] = a
      BY <1>1
    <3>2. row2[b] = row[a]
      BY <2>2, <3>1
    <3> QED
      BY <3>1, <3>2
  <2>4. DOMAIN row2 = 1 .. n
    BY <1>3
  <2>5. ToSet(row2) \subseteq ToSet(row)
    BY <2>1, <2>2, <2>4 DEF ToSet
  <2>6. ToSet(row) \subseteq ToSet(row2)
    BY <2>1, <2>3, <2>4 DEF ToSet
  <2> QED
    BY <2>5, <2>6
<1>5. Ordered(row2)
  <2>1. \A a, b \in 1 .. n : a < b => row[p[a]] <= row[p[b]]
    BY DEF SortOrders
  <2> HIDE DEF n, row2, attr2
  <2>4. Len(row2) = n /\ \A a \in 1 .. n : row2[a] = row[p[a]]
    BY <1>3
  <2>5. \A a, b \in 1 .. n : a < b => row2[a] <= row2[b]
    BY <2>1, <2>4
  <2>2. \A a, b \in 1 .. Len(row2) : a < b => row2[a] <= row2[b]
    BY <2>4, <2>5
  <2>3. ~loader.attributes => FALSE
    OBVIOUS
  <2> QED
    BY ONLY <2>2, <2>3 DEF Ordered
<1>6. ASSUME NEW v, NEW Y PROVE Copies(row2, attr2, v, Y) = Copies(row, attr, v, Y)
  <2> DEFINE S == Stands(row, attr, v, Y)
             S2 == Stands(row2, attr2, v, Y)
             f == [a \in S2 |-> p[a]]
  <2>1. S2 = {a \in 1 .. n : row[p[a]] = v /\ attr[p[a]] \in Y}
    BY <1>3 DEF Stands
  <2>2. S = {a \in 1 .. n : row[a] = v /\ attr[a] \in Y}
    BY DEF Stands
  <2>3. IsFiniteSet(S2)
    BY <1>3, <1>1, StandsFinite
  <2> HIDE DEF S, S2, n, row2, attr2
  <2>4. f \in [S2 -> S]
    BY <1>1, <2>1, <2>2
  <2>5. \A a, b \in S2 : f[a] = f[b] => a = b
    BY <1>1, <2>1
  <2>6. \A t \in S : \E a \in S2 : f[a] = t
    BY <1>1, <2>1, <2>2
  <2> HIDE DEF f
  <2>7. Cardinality(S) = Cardinality(S2)
    BY ONLY <2>3, <2>4, <2>5, <2>6, ImagesCounted
  <2> QED
    BY <2>7 DEF Copies, S, S2
<1> QED
  BY <1>1, <1>3, <1>4, <1>5, <1>6 DEF RowKept

\* A row sorted, its duplicates erased.
LEMMA PlainRow ==
  ASSUME NEW T, T \subseteq Int, NEW row \in Seq(T), NEW attr \in Seq(Nat), ~loader.attributes
  PROVE  RowKept(T, row, attr, Increasing(ToSet(row)), attr)
<1> DEFINE n == Len(row)
           S == ToSet(row)
           s == Increasing(S)
<1>1. n \in Nat /\ DOMAIN row = 1 .. n /\ \A a \in 1 .. n : row[a] \in T
  OBVIOUS
<1> HIDE DEF n
<1>2. IsFiniteSet(1 .. n) /\ Cardinality(1 .. n) = n
  BY <1>1, FS_Interval
<1>3. S = {row[a] : a \in 1 .. n} /\ S \subseteq T
  BY <1>1 DEF ToSet
<1>4. IsFiniteSet(S) /\ Cardinality(S) <= n
  <2>1. row \in Surjection(1 .. n, S)
    <3>1. row = [a \in 1 .. n |-> row[a]]
      BY <1>1 DEF n
    <3>2. \A a \in 1 .. n : row[a] \in S
      BY <1>3
    <3> HIDE DEF S
    <3>3. row \in [1 .. n -> S]
      BY <3>1, <3>2
    <3>4. \A t \in S : \E a \in 1 .. n : row[a] = t
      BY <1>3
    <3> QED
      BY <3>3, <3>4 DEF Surjection
  <2> HIDE DEF S
  <2> QED
    BY <1>2, <2>1, FS_Surjection
<1> HIDE DEF S, s
<1>5. S \subseteq Int
  BY <1>3
<1>6. /\ Cardinality(S) \in Nat /\ s \in Seq(S) /\ Len(s) = Cardinality(S) /\ ToSet(s) = S
      /\ \A p \in 1 .. Cardinality(S) : s[p] \in S /\ RankIn(S, s[p]) = p - 1
  BY ONLY <1>4, <1>5, IncreasingPlaces DEF s
<1>7. s \in Seq(T)
  BY <1>3, <1>6
<1>8. Ordered(s)
  <2>1. s \in [1 .. Cardinality(S) -> S]
    BY <1>6
  <2>2. \A p, q \in 1 .. Cardinality(S) : s[p] < s[q] <=> p < q
    BY ONLY <1>4, <1>5, <1>6, <2>1, PlacedByRank
  <2>3. \A p, q \in 1 .. Len(s) : p < q => s[p] < s[q]
    BY <1>6, <2>2
  <2>4. \A p \in 1 .. Len(s) : s[p] \in Int
    BY <1>5, <1>6
  <2>5. \A p, q \in 1 .. Len(s) : p < q => s[p] <= s[q]
    BY <2>3, <2>4
  <2> QED
    BY <2>3, <2>5 DEF Ordered
<1>9. Len(s) <= Len(row)
  BY <1>4, <1>6 DEF n
<1> QED
  BY <1>6, <1>7, <1>8, <1>9 DEF RowKept, s, S
-----------------------------------------------------------------------------
\* The rows of one node cleaned.
Recleaned(g, h, w) ==
  /\ h = [extern_ids |-> g.extern_ids, id_map |-> g.id_map, node_attr |-> g.node_attr,
          out |-> [g.out EXCEPT ![w] = h.out[w]], in |-> [g.in EXCEPT ![w] = h.in[w]],
          out_attr |-> [g.out_attr EXCEPT ![w] = h.out_attr[w]],
          in_attr |-> [g.in_attr EXCEPT ![w] = h.in_attr[w]]]
  /\ RowKept(Places(g), g.out[w], g.out_attr[w], h.out[w], h.out_attr[w])
  /\ RowKept(Places(g), g.in[w], g.in_attr[w], h.in[w], h.in_attr[w])

LEMMA RowReplaced ==
  ASSUME NEW D, NEW T, NEW R, RowsOver(R, D, T), NEW w, NEW x \in Seq(T)
  PROVE  RowsOver([R EXCEPT ![w] = x], D, T)
BY DEF RowsOver

\* What the rows are.
LEMMA RecleanedRows ==
  ASSUME NEW g, IsGraph(g), NEW w \in Places(g), NEW h, Recleaned(g, h, w)
  PROVE  /\ h.extern_ids = g.extern_ids /\ h.id_map = g.id_map /\ h.node_attr = g.node_attr
         /\ Places(h) = Places(g) /\ Size(h) = Size(g)
         /\ \A u \in Places(g) : u # w =>
              /\ h.out[u] = g.out[u] /\ h.in[u] = g.in[u]
              /\ h.out_attr[u] = g.out_attr[u] /\ h.in_attr[u] = g.in_attr[u]
         /\ IsGraph(h)
<1> DEFINE P == Places(g)
<1>1. /\ g.out \in [P -> Seq(P)] /\ g.in \in [P -> Seq(P)]
      /\ g.out_attr \in [P -> Seq(Nat)] /\ g.in_attr \in [P -> Seq(Nat)]
      /\ g.id_map \in Seq(Nat) /\ g.extern_ids \in [DOMAIN g.extern_ids -> P]
      /\ loader.attributes => \A u \in P : /\ Len(g.out_attr[u]) = Len(g.out[u])
                                           /\ Len(g.in_attr[u]) = Len(g.in[u])
  BY DEF IsGraph
<1>2. /\ h.out[w] \in Seq(P) /\ h.in[w] \in Seq(P)
      /\ h.out_attr[w] \in Seq(Nat) /\ h.in_attr[w] \in Seq(Nat)
      /\ loader.attributes => /\ Len(h.out_attr[w]) = Len(h.out[w])
                              /\ Len(h.in_attr[w]) = Len(h.in[w])
  BY DEF Recleaned, RowKept
<1>3. h = [extern_ids |-> g.extern_ids, id_map |-> g.id_map, node_attr |-> g.node_attr,
           out |-> [g.out EXCEPT ![w] = h.out[w]], in |-> [g.in EXCEPT ![w] = h.in[w]],
           out_attr |-> [g.out_attr EXCEPT ![w] = h.out_attr[w]],
           in_attr |-> [g.in_attr EXCEPT ![w] = h.in_attr[w]]]
  BY DEF Recleaned
<1>4. /\ h.extern_ids = g.extern_ids /\ h.id_map = g.id_map /\ h.node_attr = g.node_attr
      /\ h.out = [g.out EXCEPT ![w] = h.out[w]] /\ h.in = [g.in EXCEPT ![w] = h.in[w]]
      /\ h.out_attr = [g.out_attr EXCEPT ![w] = h.out_attr[w]]
      /\ h.in_attr = [g.in_attr EXCEPT ![w] = h.in_attr[w]]
      /\ h = [extern_ids |-> h.extern_ids, id_map |-> h.id_map, node_attr |-> h.node_attr,
              out |-> h.out, in |-> h.in, out_attr |-> h.out_attr, in_attr |-> h.in_attr]
  BY <1>3
<1>5. Places(h) = P /\ Size(h) = Size(g) /\ w \in P
  BY <1>4 DEF Places, Size
<1> HIDE DEF P
<1>6. \A u \in P : u # w =>
        /\ h.out[u] = g.out[u] /\ h.in[u] = g.in[u]
        /\ h.out_attr[u] = g.out_attr[u] /\ h.in_attr[u] = g.in_attr[u]
  BY <1>1, <1>4
<1>7. h.out \in [P -> Seq(P)]
  <2>1. RowsOver(g.out, P, P) /\ h.out[w] \in Seq(P)
    BY <1>1, <1>2 DEF RowsOver
  <2>2. RowsOver([g.out EXCEPT ![w] = h.out[w]], P, P)
    BY ONLY <2>1, RowReplaced
  <2> QED
    BY ONLY <1>4, <2>2 DEF RowsOver
<1>8. h.in \in [P -> Seq(P)]
  <2>1. RowsOver(g.in, P, P) /\ h.in[w] \in Seq(P)
    BY <1>1, <1>2 DEF RowsOver
  <2>2. RowsOver([g.in EXCEPT ![w] = h.in[w]], P, P)
    BY ONLY <2>1, RowReplaced
  <2> QED
    BY ONLY <1>4, <2>2 DEF RowsOver
<1>9. h.out_attr \in [P -> Seq(Nat)]
  <2>1. RowsOver(g.out_attr, P, Nat) /\ h.out_attr[w] \in Seq(Nat)
    BY <1>1, <1>2 DEF RowsOver
  <2>2. RowsOver([g.out_attr EXCEPT ![w] = h.out_attr[w]], P, Nat)
    BY ONLY <2>1, RowReplaced
  <2> QED
    BY ONLY <1>4, <2>2 DEF RowsOver
<1>10. h.in_attr \in [P -> Seq(Nat)]
  <2>1. RowsOver(g.in_attr, P, Nat) /\ h.in_attr[w] \in Seq(Nat)
    BY <1>1, <1>2 DEF RowsOver
  <2>2. RowsOver([g.in_attr EXCEPT ![w] = h.in_attr[w]], P, Nat)
    BY ONLY <2>1, RowReplaced
  <2> QED
    BY ONLY <1>4, <2>2 DEF RowsOver
<1>11. loader.attributes => \A u \in P : /\ Len(h.out_attr[u]) = Len(h.out[u])
                                         /\ Len(h.in_attr[u]) = Len(h.in[u])
  BY <1>1, <1>2, <1>6
<1>12. IsGraph(h)
  BY <1>1, <1>4, <1>5, <1>7, <1>8, <1>9, <1>10, <1>11 DEF IsGraph
<1> QED
  BY <1>4, <1>5, <1>6, <1>12 DEF P

\* They hold the same lines.
LEMMA RecleanedKeeps ==
  ASSUME NEW g, NEW K, Keeps(g, K), OnlyEnds(g, K), NEW w \in Places(g), NEW h, Recleaned(g, h, w)
  PROVE  Keeps(h, K) /\ OnlyEnds(h, K)
<1>1. IsGraph(g) /\ Named(g, K) /\ Members(g, K) /\ (loader.attributes => Counts(g, K))
  BY DEF Keeps, Holds
<1>2. /\ h.extern_ids = g.extern_ids /\ h.id_map = g.id_map
      /\ Places(h) = Places(g) /\ IsGraph(h)
      /\ \A u \in Places(g) : u # w =>
           /\ h.out[u] = g.out[u] /\ h.in[u] = g.in[u]
           /\ h.out_attr[u] = g.out_attr[u] /\ h.in_attr[u] = g.in_attr[u]
  BY <1>1, RecleanedRows
<1>3. /\ ToSet(h.out[w]) = ToSet(g.out[w]) /\ ToSet(h.in[w]) = ToSet(g.in[w])
      /\ loader.attributes => \A v, Y :
           /\ Copies(h.out[w], h.out_attr[w], v, Y) = Copies(g.out[w], g.out_attr[w], v, Y)
           /\ Copies(h.in[w], h.in_attr[w], v, Y) = Copies(g.in[w], g.in_attr[w], v, Y)
  BY DEF Recleaned, RowKept
<1>4. \A u \in Places(g) : /\ ToSet(h.out[u]) = ToSet(g.out[u])
                           /\ ToSet(h.in[u]) = ToSet(g.in[u])
  BY <1>2, <1>3
<1>5. ASSUME loader.attributes, NEW u \in Places(g), NEW v, NEW Y
      PROVE  /\ Copies(h.out[u], h.out_attr[u], v, Y) = Copies(g.out[u], g.out_attr[u], v, Y)
             /\ Copies(h.in[u], h.in_attr[u], v, Y) = Copies(g.in[u], g.in_attr[u], v, Y)
  <2>1. CASE u = w
    BY <1>3, <1>5, <2>1
  <2>2. CASE u # w
    BY <1>2, <2>2
  <2> QED
    BY <2>1, <2>2
<1>6. \A u, v, Y : Joins(h, K, u, v, Y) = Joins(g, K, u, v, Y)
  BY <1>2 DEF Joins
<1>7. Named(h, K) /\ OnlyEnds(h, K)
  BY <1>1, <1>2 DEF Named, OnlyEnds
<1>8. Members(h, K)
  BY <1>1, <1>2, <1>4, <1>6 DEF Members, Joined
<1>9. ASSUME loader.attributes PROVE Counts(h, K)
  <2> SUFFICES ASSUME NEW u \in Places(g), NEW v \in Places(g), NEW Y \in SUBSET Nat
               PROVE  CopiesAre(h, K, u, v, Y)
    BY <1>2 DEF Counts
  <2>1. CopiesAre(g, K, u, v, Y)
    BY <1>1, <1>9 DEF Counts
  <2> QED
    BY <1>5, <1>6, <1>9, <2>1 DEF CopiesAre, Uses
<1> QED
  BY <1>2, <1>7, <1>8, <1>9 DEF Keeps, Holds

\* A total does not grow when a row shrinks.
LEMMA ShrunkTotal ==
  ASSUME NEW D, IsFiniteSet(D), NEW R, NEW R2, NEW w \in D,
         \A u \in D : Len(R[u]) \in Nat /\ Len(R2[u]) \in Nat,
         \A u \in D : u # w => R2[u] = R[u], Len(R2[w]) <= Len(R[w])
  PROVE  SumFunctionOnSet([u \in D |-> Len(R2[u])], D) <=
           SumFunctionOnSet([u \in D |-> Len(R[u])], D)
<1> DEFINE f == [u \in D |-> Len(R[u])]
           h == [u \in D |-> Len(R2[u])]
<1>1. /\ \A u \in D : f[u] \in Nat /\ h[u] \in Nat
      /\ \A u \in D \ {w} : h[u] = f[u]
      /\ h[w] <= f[w]
  OBVIOUS
<1> HIDE DEF f, h
<1>2. SumFunctionOnSet(h, D) = SumFunctionOnSet(f, D) + h[w] - f[w]
  BY <1>1, SumChange
<1>3. SumFunctionOnSet(f, D) \in Nat /\ h[w] \in Nat /\ f[w] \in Nat
  BY <1>1, SumType
<1> DEFINE a == SumFunctionOnSet(f, D)
           b == SumFunctionOnSet(h, D)
<1>4. b = a + h[w] - f[w] /\ a \in Nat /\ h[w] \in Nat /\ f[w] \in Nat /\ h[w] <= f[w]
  BY <1>1, <1>2, <1>3
<1> HIDE DEF a, b
<1>5. b <= a
  BY <1>4
<1> QED
  BY <1>5 DEF a, b, f, h

LEMMA RecleanedTotals ==
  ASSUME NEW g, IsGraph(g), NEW w \in Places(g), NEW h, Recleaned(g, h, w)
  PROVE  /\ RowTotal(h, h.out) <= RowTotal(g, g.out) /\ RowTotal(h, h.in) <= RowTotal(g, g.in)
         /\ RowTotal(h, h.out) \in Nat /\ RowTotal(h, h.in) \in Nat
         /\ RowTotal(g, g.out) \in Nat /\ RowTotal(g, g.in) \in Nat
<1> DEFINE D == Places(g)
<1>1. /\ Places(h) = D /\ IsGraph(h)
      /\ \A u \in D : u # w => h.out[u] = g.out[u] /\ h.in[u] = g.in[u]
  BY RecleanedRows
<1>2. IsFiniteSet(D) /\ \A u \in D : Len(g.out[u]) \in Nat /\ Len(g.in[u]) \in Nat
  BY PlacesFinite
<1>3. \A u \in D : Len(h.out[u]) \in Nat /\ Len(h.in[u]) \in Nat
  BY <1>1, PlacesFinite
<1>4. Len(h.out[w]) <= Len(g.out[w]) /\ Len(h.in[w]) <= Len(g.in[w])
  BY DEF Recleaned, RowKept
<1>5. w \in D
  OBVIOUS
<1> HIDE DEF D
<1>6. \A u \in D : Len(g.out[u]) \in Nat /\ Len(h.out[u]) \in Nat
  BY <1>2, <1>3
<1>7. \A u \in D : Len(g.in[u]) \in Nat /\ Len(h.in[u]) \in Nat
  BY <1>2, <1>3
<1>8. SumFunctionOnSet([u \in D |-> Len(h.out[u])], D) <=
        SumFunctionOnSet([u \in D |-> Len(g.out[u])], D)
  <2>1. (\A u \in D : u # w => h.out[u] = g.out[u]) /\ IsFiniteSet(D)
    BY <1>1, <1>2
  <2> QED
    BY ONLY <1>4, <1>5, <1>6, <2>1, ShrunkTotal
<1>9. SumFunctionOnSet([u \in D |-> Len(h.in[u])], D) <=
        SumFunctionOnSet([u \in D |-> Len(g.in[u])], D)
  <2>1. (\A u \in D : u # w => h.in[u] = g.in[u]) /\ IsFiniteSet(D)
    BY <1>1, <1>2
  <2> QED
    BY ONLY <1>4, <1>5, <1>7, <2>1, ShrunkTotal
<1>10. /\ RowTotal(h, h.out) <= RowTotal(g, g.out) /\ RowTotal(h, h.in) <= RowTotal(g, g.in)
  BY <1>1, <1>8, <1>9 DEF RowTotal, D
<1>11. RowTotal(h, h.out) \in Nat /\ RowTotal(h, h.in) \in Nat
  BY <1>1, RowTotalNat
<1>12. RowTotal(g, g.out) \in Nat /\ RowTotal(g, g.in) \in Nat
  BY RowTotalNat
<1> QED
  BY <1>10, <1>11, <1>12

\* The loops over the rows do that, with attributes and without.
LEMMA AttributeRowsRecleaned ==
  ASSUME NEW w, IsGraph(graph), w \in Places(graph), loader.attributes, CleanAttributeRows(w)
  PROVE  Recleaned(graph, graph', w)
<1> DEFINE P == Places(graph)
<1>1. PICK p \in SortOrders(graph.out[w]), q \in SortOrders(graph.in[w]) :
        graph' = [graph EXCEPT !.out[w] = Permuted(@, p), !.out_attr[w] = Permuted(@, p),
                               !.in[w] = Permuted(@, q), !.in_attr[w] = Permuted(@, q)]
  BY DEF CleanAttributeRows
<1>2. /\ graph.out[w] \in Seq(P) /\ graph.in[w] \in Seq(P)
      /\ graph.out_attr[w] \in Seq(Nat) /\ graph.in_attr[w] \in Seq(Nat)
      /\ Len(graph.out_attr[w]) = Len(graph.out[w])
      /\ Len(graph.in_attr[w]) = Len(graph.in[w])
  BY DEF IsGraph
<1>3. /\ graph.out \in [P -> Seq(P)] /\ graph.in \in [P -> Seq(P)] /\ w \in P
      /\ graph.out_attr \in [P -> Seq(Nat)] /\ graph.in_attr \in [P -> Seq(Nat)]
      /\ graph = [extern_ids |-> graph.extern_ids, id_map |-> graph.id_map,
                  node_attr |-> graph.node_attr, out |-> graph.out, in |-> graph.in,
                  out_attr |-> graph.out_attr, in_attr |-> graph.in_attr]
  BY DEF IsGraph
<1> HIDE DEF P
<1> DEFINE a == Permuted(graph.out[w], p)
           b == Permuted(graph.in[w], q)
           c == Permuted(graph.out_attr[w], p)
           d == Permuted(graph.in_attr[w], q)
<1>4. RowKept(P, graph.out[w], graph.out_attr[w], a, c)
  <2>1. p \in SortOrders(graph.out[w])
    BY <1>1
  <2> QED
    BY ONLY <1>2, <2>1, loader.attributes, SortedRow
<1>5. RowKept(P, graph.in[w], graph.in_attr[w], b, d)
  <2>1. q \in SortOrders(graph.in[w])
    BY <1>1
  <2> QED
    BY ONLY <1>2, <2>1, loader.attributes, SortedRow
<1> HIDE DEF a, b, c, d
<1>6. graph' = [extern_ids |-> graph.extern_ids, id_map |-> graph.id_map,
                node_attr |-> graph.node_attr,
                out |-> [graph.out EXCEPT ![w] = a], in |-> [graph.in EXCEPT ![w] = b],
                out_attr |-> [graph.out_attr EXCEPT ![w] = c],
                in_attr |-> [graph.in_attr EXCEPT ![w] = d]]
  BY <1>1, <1>3 DEF a, b, c, d
<1>7. /\ graph'.out[w] = a /\ graph'.in[w] = b
      /\ graph'.out_attr[w] = c /\ graph'.in_attr[w] = d
  BY <1>3, <1>6
<1> QED
  BY <1>4, <1>5, <1>6, <1>7 DEF Recleaned, P

LEMMA PlainRowsRecleaned ==
  ASSUME NEW w, IsGraph(graph), w \in Places(graph), ~loader.attributes, CleanPlainRows(w)
  PROVE  Recleaned(graph, graph', w)
<1> DEFINE P == Places(graph)
<1>1. graph' = [graph EXCEPT !.out[w] = Increasing(ToSet(@)), !.in[w] = Increasing(ToSet(@))]
  BY DEF CleanPlainRows
<1>2. /\ graph.out[w] \in Seq(P) /\ graph.in[w] \in Seq(P)
      /\ graph.out_attr[w] \in Seq(Nat) /\ graph.in_attr[w] \in Seq(Nat)
  BY DEF IsGraph
<1>3. /\ graph.out \in [P -> Seq(P)] /\ graph.in \in [P -> Seq(P)] /\ w \in P
      /\ graph.out_attr \in [P -> Seq(Nat)] /\ graph.in_attr \in [P -> Seq(Nat)]
      /\ graph = [extern_ids |-> graph.extern_ids, id_map |-> graph.id_map,
                  node_attr |-> graph.node_attr, out |-> graph.out, in |-> graph.in,
                  out_attr |-> graph.out_attr, in_attr |-> graph.in_attr]
  BY DEF IsGraph
<1>4. P \subseteq Int
  BY DEF Places
<1> HIDE DEF P
<1> DEFINE a == Increasing(ToSet(graph.out[w]))
           b == Increasing(ToSet(graph.in[w]))
           c == graph.out_attr[w]
           d == graph.in_attr[w]
<1>5. RowKept(P, graph.out[w], c, a, c)
  BY <1>2, <1>4, PlainRow
<1>6. RowKept(P, graph.in[w], d, b, d)
  BY <1>2, <1>4, PlainRow
<1>7. [graph.out_attr EXCEPT ![w] = c] = graph.out_attr
      /\ [graph.in_attr EXCEPT ![w] = d] = graph.in_attr
  BY <1>3
<1> HIDE DEF a, b
<1>8. graph' = [extern_ids |-> graph.extern_ids, id_map |-> graph.id_map,
                node_attr |-> graph.node_attr,
                out |-> [graph.out EXCEPT ![w] = a], in |-> [graph.in EXCEPT ![w] = b],
                out_attr |-> graph.out_attr, in_attr |-> graph.in_attr]
  BY <1>1, <1>3 DEF a, b
<1>9. /\ graph'.out[w] = a /\ graph'.in[w] = b
      /\ graph'.out_attr[w] = c /\ graph'.in_attr[w] = d
  BY <1>3, <1>8
<1> QED
  BY <1>5, <1>6, <1>7, <1>8, <1>9 DEF Recleaned, P

LEMMA LargerFacts ==
  ASSUME NEW a \in Nat, NEW b \in Nat
  PROVE  Larger(a, b) \in Nat /\ a <= Larger(a, b) /\ b <= Larger(a, b)
BY DEF Larger

\* One more term of a sum.
LEMMA SumOneMore ==
  ASSUME NEW n \in Nat, NEW f, NEW h, \A u \in 0 .. n - 1 : f[u] \in Nat /\ h[u] = f[u],
         h[n] \in Nat
  PROVE  SumFunctionOnSet(h, 0 .. n) = SumFunctionOnSet(f, 0 .. n - 1) + h[n]
         /\ SumFunctionOnSet(f, 0 .. n - 1) \in Nat
<1>1. IsFiniteSet(0 .. n) /\ IsFiniteSet(0 .. n - 1)
  BY FS_Interval
<1>2. (0 .. n) \ {n} = 0 .. n - 1 /\ n \in 0 .. n
  OBVIOUS
<1>3. \A u \in 0 .. n : h[u] \in Nat
  OBVIOUS
<1>4. SumFunctionOnSet(h, 0 .. n) = h[n] + SumFunctionOnSet(h, (0 .. n) \ {n})
  BY ONLY <1>1, <1>2, <1>3, SumRemove
<1>5. SumFunctionOnSet(h, 0 .. n - 1) = SumFunctionOnSet(f, 0 .. n - 1)
  BY <1>1, SumAgrees
<1>6. SumFunctionOnSet(f, 0 .. n - 1) \in Nat
  BY <1>1, SumType
<1> DEFINE total == SumFunctionOnSet(h, 0 .. n)
           before == SumFunctionOnSet(f, 0 .. n - 1)
<1>7. total = h[n] + before /\ before \in Nat
  BY ONLY <1>2, <1>4, <1>5, <1>6
<1> HIDE DEF total, before
<1>8. total = before + h[n] /\ before \in Nat
  BY <1>7
<1> QED
  BY <1>8 DEF total, before

LEMMA CleanRowInv ==
  ASSUME LoadInv, CleanRow
  PROVE  LoadInv'
<1>1. /\ phase = "rows" /\ phase' = "rows" /\ pos < Size(graph) /\ pos' = pos + 1
      /\ max_nbrhood_size' =
           Larger(max_nbrhood_size, Larger(Len(graph.out[pos]), Len(graph.in[pos])))
      /\ num_edges' = IF loader.symmetric THEN num_edges + Len(graph'.out[pos]) ELSE num_edges
      /\ UNCHANGED <<inputVars, edge_set, binaryVars>>
      /\ IF loader.attributes THEN CleanAttributeRows(pos) ELSE CleanPlainRows(pos)
  BY DEF CleanRow, Measure
<1>2. /\ loader' = loader /\ file' = file /\ node_file' = node_file
  BY <1>1 DEF inputVars
<1>3. Keeps(graph, Kept) /\ OnlyEnds(graph, Kept) /\ IsGraph(graph) /\ pos \in Nat
      /\ num_edges \in Nat /\ max_nbrhood_size \in Nat /\ Size(graph) \in Nat
  <2>1. Keeps(graph, Kept) /\ OnlyEnds(graph, Kept) /\ IsGraph(graph)
    BY DEF LoadInv, GraphInv, Keeps
  <2>2. pos \in Nat /\ num_edges \in Nat /\ max_nbrhood_size \in Nat
    BY DEF LoadInv, PhaseInv, CountsInv
  <2> QED
    BY <2>1, <2>2, PlacesFinite
<1>4. pos \in Places(graph) /\ Places(graph) = 0 .. Size(graph) - 1
  BY <1>1, <1>3 DEF Places
<1>5. Recleaned(graph, graph', pos)
  BY <1>1, <1>3, <1>4, AttributeRowsRecleaned, PlainRowsRecleaned
<1> PICK g : g = graph'
  OBVIOUS
<1>6. Recleaned(graph, g, pos) /\ graph' = g
  BY <1>5
<1>7. /\ g.id_map = graph.id_map /\ g.node_attr = graph.node_attr
      /\ Places(g) = Places(graph) /\ Size(g) = Size(graph) /\ IsGraph(g)
      /\ \A u \in Places(graph) : u # pos => g.out[u] = graph.out[u] /\ g.in[u] = graph.in[u]
  <2>1. /\ g.extern_ids = graph.extern_ids /\ g.id_map = graph.id_map
        /\ g.node_attr = graph.node_attr
        /\ Places(g) = Places(graph) /\ Size(g) = Size(graph)
        /\ \A u \in Places(graph) : u # pos =>
             /\ g.out[u] = graph.out[u] /\ g.in[u] = graph.in[u]
             /\ g.out_attr[u] = graph.out_attr[u] /\ g.in_attr[u] = graph.in_attr[u]
        /\ IsGraph(g)
    <3>1. IsGraph(graph) /\ pos \in Places(graph) /\ Recleaned(graph, g, pos)
      BY ONLY <1>3, <1>4, <1>6
    <3> QED
      BY ONLY <3>1, RecleanedRows
  <2> QED
    BY ONLY <2>1
<1>8. Keeps(g, Kept) /\ OnlyEnds(g, Kept)
  BY ONLY <1>3, <1>4, <1>6, RecleanedKeeps
<1>9. Kept' = Kept
  BY <1>1, <1>2 DEF Kept
<1>10. GraphInv'
  BY <1>1, <1>6, <1>8, <1>9, GraphCarried
<1>11. Places(graph)' = Places(graph) /\ Size(graph)' = Size(graph)
  BY <1>6, <1>7 DEF Places, Size
<1>12. InputsInv' /\ SeenInv'
  BY <1>1, <1>2 DEF LoadInv, InputsInv, SeenInv
<1>13. PhaseInv'
  BY <1>1, <1>3, <1>11 DEF PhaseInv, Phases
<1>14. NodeAttrInv'
  <2>1. NodeLines' = NodeLines
    BY <1>1, <1>2 DEF NodeLines
  <2>2. graph'.node_attr = graph.node_attr /\ graph'.id_map = graph.id_map
    BY <1>6, <1>7
  <2>3. ASSUME NEW u PROVE LastGiven(graph, u, NodeLines)' = LastGiven(graph, u, NodeLines)
    BY <1>2, <2>1, <2>2 DEF LastGiven, Given
  <2> QED
    BY <1>1, <1>2, <1>11, <2>2, <2>3 DEF LoadInv, NodeAttrInv
<1>15. CountsInv'
  <2>1. RowsDone = pos /\ RowsDone' = pos + 1 /\ (pos + 1) - 1 = pos
    BY <1>1, <1>3 DEF RowsDone
  <2>2. /\ \A u \in Places(graph) : Len(graph.out[u]) \in Nat /\ Len(graph.in[u]) \in Nat
        /\ \A u \in Places(graph) : Len(g.out[u]) \in Nat /\ Len(g.in[u]) \in Nat
    BY <1>3, <1>7, PlacesFinite
  <2>3. /\ num_edges' \in Nat /\ max_nbrhood_size' \in Nat
        /\ max_nbrhood_size <= max_nbrhood_size'
        /\ Len(graph.out[pos]) <= max_nbrhood_size' /\ Len(graph.in[pos]) <= max_nbrhood_size'
    <3> DEFINE a == Len(graph.out[pos])
               b == Len(graph.in[pos])
    <3>1. a \in Nat /\ b \in Nat /\ Len(graph'.out[pos]) \in Nat
      BY <1>4, <1>6, <2>2
    <3>2. num_edges' \in Nat
      BY <1>1, <1>3, <3>1
    <3> HIDE DEF a, b
    <3>3. Larger(a, b) \in Nat /\ a <= Larger(a, b) /\ b <= Larger(a, b)
      BY <3>1, LargerFacts
    <3> DEFINE c == Larger(a, b)
               d == Larger(max_nbrhood_size, c)
    <3>4. d \in Nat /\ max_nbrhood_size <= d /\ c <= d
      BY <1>3, <3>3, LargerFacts
    <3>5. max_nbrhood_size' = d
      BY <1>1 DEF a, b
    <3> HIDE DEF c, d
    <3>6. a <= d /\ b <= d
      BY <1>3, <3>1, <3>3, <3>4 DEF c
    <3> QED
      BY <3>2, <3>4, <3>5, <3>6 DEF a, b
  <2>4. ASSUME NEW u \in 0 .. pos
        PROVE  /\ Len(g.out[u]) <= max_nbrhood_size' /\ Len(g.in[u]) <= max_nbrhood_size'
               /\ Ordered(g.out[u]) /\ Ordered(g.in[u])
    <3>1. CASE u = pos
      <4>1. /\ Len(g.out[u]) <= Len(graph.out[u]) /\ Len(g.in[u]) <= Len(graph.in[u])
            /\ Ordered(g.out[u]) /\ Ordered(g.in[u])
        BY <1>6, <3>1 DEF Recleaned, RowKept
      <4>2. /\ Len(g.out[u]) \in Nat /\ Len(graph.out[u]) \in Nat
            /\ Len(g.in[u]) \in Nat /\ Len(graph.in[u]) \in Nat
        BY <1>4, <2>2, <3>1
      <4> QED
        BY <2>3, <3>1, <4>1, <4>2
    <3>2. CASE u # pos
      <4>1. u \in Places(graph) /\ u \in 0 .. RowsDone - 1
        BY <1>1, <1>3, <1>4, <2>1, <3>2
      <4>2. g.out[u] = graph.out[u] /\ g.in[u] = graph.in[u]
        BY <1>7, <3>2, <4>1
      <4>3. /\ Len(graph.out[u]) <= max_nbrhood_size /\ Len(graph.in[u]) <= max_nbrhood_size
            /\ Ordered(graph.out[u]) /\ Ordered(graph.in[u])
        BY <4>1 DEF LoadInv, CountsInv
      <4>4. Len(graph.out[u]) \in Nat /\ Len(graph.in[u]) \in Nat
        BY <2>2, <4>1
      <4> QED
        BY <1>3, <2>3, <4>2, <4>3, <4>4
    <3> QED
      BY <3>1, <3>2
  <2>5. ASSUME loader.symmetric
        PROVE  num_edges' = SumFunctionOnSet(Lengths(g.out, Places(g)), 0 .. pos)
    <3> DEFINE f == Lengths(graph.out, Places(graph))
               k == Lengths(g.out, Places(g))
    <3>1. \A u \in 0 .. pos - 1 : u \in Places(graph) /\ u # pos
      BY <1>1, <1>3, <1>4
    <3>2. \A u \in 0 .. pos - 1 : f[u] \in Nat /\ k[u] = f[u]
      BY <1>7, <2>2, <3>1 DEF Lengths
    <3>3. k[pos] = Len(g.out[pos]) /\ k[pos] \in Nat
      BY <1>4, <1>7, <2>2 DEF Lengths
    <3>4. num_edges = SumFunctionOnSet(f, 0 .. pos - 1)
      BY <2>1, <2>5 DEF LoadInv, CountsInv
    <3>5. num_edges' = num_edges + k[pos]
      BY <1>1, <1>6, <2>5, <3>3
    <3> HIDE DEF f, k
    <3>6. SumFunctionOnSet(k, 0 .. pos) = SumFunctionOnSet(f, 0 .. pos - 1) + k[pos]
      BY <1>3, <3>2, <3>3, SumOneMore
    <3> QED
      BY <3>4, <3>5, <3>6 DEF k
  <2>6. ASSUME ~loader.symmetric
        PROVE  RowTotal(g, g.out) <= num_edges' /\ RowTotal(g, g.in) <= num_edges'
    <3>1. /\ RowTotal(g, g.out) <= RowTotal(graph, graph.out)
          /\ RowTotal(g, g.in) <= RowTotal(graph, graph.in)
          /\ RowTotal(g, g.out) \in Nat /\ RowTotal(g, g.in) \in Nat
          /\ RowTotal(graph, graph.out) \in Nat /\ RowTotal(graph, graph.in) \in Nat
      BY ONLY <1>3, <1>4, <1>6, RecleanedTotals
    <3>2. /\ RowTotal(graph, graph.out) <= num_edges /\ RowTotal(graph, graph.in) <= num_edges
          /\ num_edges' = num_edges
      BY <1>1, <2>6 DEF LoadInv, CountsInv
    <3> QED
      BY <1>3, <3>1, <3>2
  <2>7. RowTotal(graph, graph.out)' = RowTotal(g, g.out)
        /\ RowTotal(graph, graph.in)' = RowTotal(g, g.in)
        /\ Places(graph)' = Places(g)
    BY <1>6 DEF RowTotal, Places, Size
  <2>8. \A u \in 0 .. pos : Ordered(graph.out[u])' /\ Ordered(graph.in[u])'
    BY <1>2, <1>6, <2>4 DEF Ordered
  <2> QED
    BY <1>2, <1>6, <2>1, <2>3, <2>4, <2>5, <2>6, <2>7, <2>8 DEF CountsInv, Lengths
<1>16. BinaryInv'
  BY <1>1, Unwritten DEF LoadInv
<1> QED
  BY <1>10, <1>12, <1>13, <1>14, <1>15, <1>16 DEF LoadInv
-----------------------------------------------------------------------------
\* A step that leaves the graph and its counts alone, after the lines.
LEMMA GraphLeft ==
  ASSUME LoadInv, phase \notin {"edges", "nodes"}, phase' \notin {"edges", "nodes"},
         UNCHANGED <<inputVars, pos, edge_set, graph, countVars>>,
         phase' \in Phases, phase' = "rows" => phase = "rows", RowsDone' = RowsDone
  PROVE  InputsInv' /\ PhaseInv' /\ GraphInv' /\ SeenInv' /\ NodeAttrInv' /\ CountsInv'
<1>1. /\ loader' = loader /\ file' = file /\ node_file' = node_file /\ pos' = pos
      /\ graph' = graph /\ num_edges' = num_edges /\ max_nbrhood_size' = max_nbrhood_size
  BY DEF inputVars, countVars
<1>2. Kept' = Kept
  BY <1>1 DEF Kept
<1>3. GraphInv'
  <2>1. Keeps(graph, Kept) /\ OnlyEnds(graph, Kept)
    BY DEF LoadInv, GraphInv
  <2> QED
    BY <1>1, <1>2, <2>1, GraphCarried
<1>4. InputsInv' /\ SeenInv'
  BY <1>1 DEF LoadInv, InputsInv, SeenInv
<1>5. Size(graph)' = Size(graph) /\ Places(graph)' = Places(graph)
  BY <1>1 DEF Size, Places
<1>6. PhaseInv'
  BY <1>1, <1>5 DEF LoadInv, PhaseInv, Phases
<1>7. NodeAttrInv'
  <2>1. NodeLines' = NodeLines
    BY <1>1 DEF NodeLines
  <2>2. ASSUME NEW u PROVE LastGiven(graph, u, NodeLines)' = LastGiven(graph, u, NodeLines)
    BY <1>1, <2>1 DEF LastGiven, Given
  <2> QED
    BY <1>1, <1>5, <2>2 DEF LoadInv, NodeAttrInv
<1>8. CountsInv'
  <2>1. \A u : /\ Ordered(graph.out[u])' <=> Ordered(graph.out[u])
               /\ Ordered(graph.in[u])' <=> Ordered(graph.in[u])
    BY <1>1 DEF Ordered
  <2> QED
    BY <1>1, <1>5, <2>1 DEF LoadInv, CountsInv, RowTotal, Lengths
<1> QED
  BY <1>3, <1>4, <1>6, <1>7, <1>8

LEMMA LoadedInv ==
  ASSUME LoadInv, Loaded
  PROVE  LoadInv'
<1>1. /\ phase = "rows" /\ phase' = "loaded" /\ pos = Size(graph)
      /\ UNCHANGED <<inputVars, pos, edge_set, graph, countVars>> /\ UNCHANGED binaryVars
  BY DEF Loaded
<1>2. RowsDone' = RowsDone
  BY <1>1 DEF RowsDone, Size
<1>3. InputsInv' /\ PhaseInv' /\ GraphInv' /\ SeenInv' /\ NodeAttrInv' /\ CountsInv'
  BY <1>1, <1>2, GraphLeft DEF Phases
<1>4. BinaryInv'
  BY <1>1, Unwritten DEF LoadInv
<1> QED
  BY <1>3, <1>4 DEF LoadInv

\* So does the file with what has been read of it.
LEMMA CopyLeft ==
  ASSUME CopyInv, UNCHANGED <<inputVars, graph, copy, copy_num_edges, copy_max_nbrhood_size>>
  PROVE  CopyInv'
<1>1. loader' = loader /\ graph' = graph /\ copy' = copy /\ copy_num_edges' = copy_num_edges
      /\ copy_max_nbrhood_size' = copy_max_nbrhood_size
  BY DEF inputVars
<1> QED
  BY <1>1 DEF CopyInv, Lengths, Places, Size

LEMMA RecordsLeft ==
  ASSUME UNCHANGED <<inputVars, graph>>
  PROVE  Records' = Records /\ \A n : Reach(n)' = Reach(n)
<1>1. loader' = loader /\ graph' = graph
  BY DEF inputVars
<1>2. Records' = Records
  BY <1>1 DEF Records, NodeRecord, Counted, Size
<1> QED
  BY <1>1, <1>2 DEF Reach, Lengths, Size

-----------------------------------------------------------------------------
\* Where the first k of the sequences rs end when they are laid end to end.
EndOf(rs, k) == SumFunctionOnSet(Lengths(rs, 1 .. Len(rs)), 1 .. k)

LEMMA EndOfFacts ==
  ASSUME NEW rs \in Seq(Seq(Nat))
  PROVE  /\ EndOf(rs, 0) = 0 /\ Len(rs) \in Nat
         /\ \A k \in 0 .. Len(rs) : EndOf(rs, k) \in Nat
         /\ \A k \in 1 .. Len(rs) : /\ Len(rs[k]) \in Nat /\ rs[k] \in Seq(Nat)
                                    /\ EndOf(rs, k) = EndOf(rs, k - 1) + Len(rs[k])
<1> DEFINE n == Len(rs)
           f == Lengths(rs, 1 .. n)
<1>1. n \in Nat /\ \A k \in 1 .. n : rs[k] \in Seq(Nat)
  OBVIOUS
<1>2. \A k \in 1 .. n : Len(rs[k]) \in Nat
  BY <1>1
<1>3. \A k \in 1 .. n : f[k] = Len(rs[k])
  BY DEF Lengths
<1> HIDE DEF n, f
<1>4. 1 .. 0 = {}
  OBVIOUS
<1>5. EndOf(rs, 0) = 0
  BY <1>4, NothingToSum DEF EndOf
<1>6. ASSUME NEW k \in 0 .. n PROVE SumFunctionOnSet(f, 1 .. k) \in Nat
  <2>1. IsFiniteSet(1 .. k) /\ \A m \in 1 .. k : f[m] \in Nat
    <3>1. k \in Int
      BY <1>1
    <3>2. \A m \in 1 .. k : m \in 1 .. n
      BY <1>1
    <3>3. IsFiniteSet(1 .. k)
      BY <3>1, FS_Interval
    <3> QED
      BY <1>2, <1>3, <3>2, <3>3
  <2> QED
    BY <2>1, SumType
<1>7. ASSUME NEW k \in 1 .. n
      PROVE  SumFunctionOnSet(f, 1 .. k) = SumFunctionOnSet(f, 1 .. k - 1) + Len(rs[k])
  <2>1. /\ k \in Nat /\ k - 1 \in 0 .. n /\ (1 .. k) \ {k} = 1 .. k - 1 /\ k \in 1 .. k
        /\ \A m \in 1 .. k : m \in 1 .. n
    BY <1>1
  <2>6. IsFiniteSet(1 .. k)
    BY <2>1, FS_Interval
  <2>2. IsFiniteSet(1 .. k) /\ \A m \in 1 .. k : f[m] \in Nat
    BY <1>2, <1>3, <2>1, <2>6
  <2>3. SumFunctionOnSet(f, 1 .. k) = f[k] + SumFunctionOnSet(f, (1 .. k) \ {k})
    BY <2>1, <2>2, SumRemove
  <2> DEFINE a == SumFunctionOnSet(f, 1 .. k)
             b == SumFunctionOnSet(f, 1 .. k - 1)
  <2>4. a = Len(rs[k]) + b /\ b \in Nat /\ Len(rs[k]) \in Nat
    BY <1>2, <1>3, <1>6, <2>1, <2>3
  <2> HIDE DEF a, b
  <2>5. a = b + Len(rs[k])
    BY <2>4
  <2> QED
    BY <2>5 DEF a, b
<1> QED
  BY <1>1, <1>2, <1>5, <1>6, <1>7 DEF EndOf, n, f

\* The sequence s is the first k of them, end to end.
Built(rs, s, k) ==
  /\ s \in Seq(Nat) /\ Len(s) = EndOf(rs, k)
  /\ \A m \in 1 .. k : /\ EndOf(rs, m) <= EndOf(rs, k)
                       /\ \A j \in 1 .. Len(rs[m]) : s[EndOf(rs, m - 1) + j] = rs[m][j]

LEMMA BuiltMore ==
  ASSUME NEW rs \in Seq(Seq(Nat)), NEW k \in 0 .. Len(rs) - 1, NEW s, Built(rs, s, k)
  PROVE  Built(rs, s \o rs[k + 1], k + 1)
<1> DEFINE t == rs[k + 1]
           e == EndOf(rs, k)
<1>1. /\ k + 1 \in 1 .. Len(rs) /\ k \in Nat /\ (k + 1) - 1 = k /\ k \in 0 .. Len(rs)
      /\ \A m \in 1 .. k : m \in 1 .. Len(rs) /\ m - 1 \in 0 .. Len(rs) /\ m \in 0 .. Len(rs)
  BY EndOfFacts
<1>2. e \in Nat /\ Len(t) \in Nat /\ t \in Seq(Nat) /\ EndOf(rs, k + 1) = e + Len(t)
  BY <1>1, EndOfFacts
<1>3. \A m \in 1 .. k : /\ EndOf(rs, m) \in Nat /\ EndOf(rs, m - 1) \in Nat
                        /\ Len(rs[m]) \in Nat
                        /\ EndOf(rs, m) = EndOf(rs, m - 1) + Len(rs[m])
  BY <1>1, EndOfFacts
<1>4. s \in Seq(Nat) /\ Len(s) = e
  BY DEF Built
<1> HIDE DEF t, e
<1>5. /\ s \o t \in Seq(Nat) /\ Len(s \o t) = e + Len(t)
      /\ \A p \in 1 .. e : (s \o t)[p] = s[p]
      /\ \A j \in 1 .. Len(t) : (s \o t)[e + j] = t[j]
  BY <1>2, <1>4, JoinedSequences
<1>6. ASSUME NEW m \in 1 .. k + 1
      PROVE  /\ EndOf(rs, m) <= e + Len(t)
             /\ \A j \in 1 .. Len(rs[m]) : (s \o t)[EndOf(rs, m - 1) + j] = rs[m][j]
  <2>1. CASE m = k + 1
    <3>1. EndOf(rs, m) = e + Len(t) /\ EndOf(rs, m - 1) = e /\ rs[m] = t
      BY <1>1, <1>2, <2>1 DEF t, e
    <3>2. e + Len(t) <= e + Len(t)
      BY <1>2
    <3> QED
      BY ONLY <1>5, <3>1, <3>2
  <2>2. CASE m # k + 1
    <3>1. m \in 1 .. k
      BY <1>1, <2>2
    <3>2. /\ EndOf(rs, m) <= e
          /\ \A j \in 1 .. Len(rs[m]) : s[EndOf(rs, m - 1) + j] = rs[m][j]
      BY <3>1 DEF Built, e
    <3>3. EndOf(rs, m) <= e + Len(t)
      <4>1. EndOf(rs, m) \in Nat /\ EndOf(rs, m) <= e /\ e \in Nat /\ Len(t) \in Nat
        BY <1>2, <1>3, <3>1, <3>2
      <4> QED
        BY ONLY <4>1
    <3>4. ASSUME NEW j \in 1 .. Len(rs[m]) PROVE EndOf(rs, m - 1) + j \in 1 .. e
      <4> DEFINE a == EndOf(rs, m - 1)
                 b == EndOf(rs, m)
                 l == Len(rs[m])
      <4>1. a \in Nat /\ b \in Nat /\ l \in Nat /\ b = a + l /\ b <= e /\ j \in 1 .. l
        BY <1>3, <3>1, <3>2
      <4> HIDE DEF a, b, l
      <4>2. a + j \in 1 .. e
        BY <1>2, <4>1
      <4> QED
        BY <4>2 DEF a
    <3> QED
      BY <1>5, <3>2, <3>3, <3>4
  <2> QED
    BY <2>1, <2>2
<1> QED
  BY <1>2, <1>5, <1>6 DEF Built, t

\* FlattenSeq lays them end to end.
LEMMA FlattenPlaces ==
  ASSUME NEW rs \in Seq(Seq(Nat))
  PROVE  Built(rs, FlattenSeq(rs), Len(rs))
<1> DEFINE n == Len(rs)
<1>0. n \in Nat
  OBVIOUS
<1>1. Built(rs, << >>, 0)
  BY EndOfFacts DEF Built
<1>2. CASE n = 0
  <2>1. rs = << >>
    BY <1>2
  <2>2. FlattenSeq(rs) = rs
    BY <1>2 DEF FlattenSeq
  <2> QED
    BY <1>1, <1>2, <2>1, <2>2
<1>3. CASE n # 0
  <2> DEFINE f == CHOOSE g : Flattens(rs, n, g)
  <2>1. Flattens(rs, n, f)
    BY <1>0, FlattenExists
  <2>2. FlattenSeq(rs) = f[n]
    BY <1>3 DEF FlattenSeq, Flattens, FlattenStep
  <2> HIDE DEF f
  <2> DEFINE OK == {k \in Nat : k + 1 \in 1 .. n => Built(rs, f[k + 1], k + 1)}
  <2>3. 0 \in OK
    <3>1. f[1] = rs[1] /\ 0 \in 0 .. n - 1
      BY <1>0, <1>3, <2>1 DEF Flattens, FlattenStep
    <3>2. Built(rs, << >> \o rs[0 + 1], 0 + 1)
      BY <1>1, <3>1, BuiltMore
    <3>3. << >> \o rs[1] = rs[1]
      <4>1. rs[1] \in Seq(Nat)
        BY <1>0, <1>3
      <4> QED
        BY <4>1
    <3> QED
      BY <3>1, <3>2, <3>3
  <2>4. ASSUME NEW k \in Nat, k \in OK PROVE k + 1 \in OK
    <3> SUFFICES ASSUME (k + 1) + 1 \in 1 .. n PROVE Built(rs, f[(k + 1) + 1], (k + 1) + 1)
      OBVIOUS
    <3>1. /\ k + 1 \in 1 .. n /\ k + 1 \in 0 .. n - 1
          /\ (k + 1) + 1 # 1 /\ ((k + 1) + 1) - 1 = k + 1
      BY <1>0
    <3>2. Built(rs, f[k + 1], k + 1)
      BY <2>4, <3>1
    <3>3. f[(k + 1) + 1] = f[k + 1] \o rs[(k + 1) + 1]
      BY <2>1, <3>1 DEF Flattens, FlattenStep
    <3>4. Built(rs, f[k + 1] \o rs[(k + 1) + 1], (k + 1) + 1)
      BY ONLY rs \in Seq(Seq(Nat)), <3>1, <3>2, BuiltMore
    <3> QED
      BY <3>3, <3>4
  <2>5. Nat \subseteq OK
    <3> HIDE DEF OK
    <3> QED
      BY <2>3, <2>4, NatSetInduction
  <2>6. n - 1 \in Nat /\ (n - 1) + 1 = n /\ n \in 1 .. n
    BY <1>0, <1>3
  <2>8. n - 1 \in OK
    <3> HIDE DEF OK
    <3> QED
      BY <2>5, <2>6
  <2>7. Built(rs, f[n], n)
    <3>1. (n - 1) + 1 \in 1 .. n => Built(rs, f[(n - 1) + 1], (n - 1) + 1)
      BY <2>8
    <3> HIDE DEF n
    <3> QED
      BY <2>6, <3>1
  <2> QED
    BY <2>2, <2>7
<1> QED
  BY <1>2, <1>3
-----------------------------------------------------------------------------
LEMMA SubSeqIs ==
  ASSUME NEW s \in Seq(Nat), NEW t \in Seq(Nat), NEW a \in Nat,
         \A j \in 1 .. Len(t) : s[a + j] = t[j]
  PROVE  SubSeq(s, a + 1, a + Len(t)) = t
<1> DEFINE n == Len(t)
           r == SubSeq(s, a + 1, a + n)
<1>1. n \in Nat /\ t = [j \in 1 .. n |-> t[j]]
  OBVIOUS
<1>0. \A j \in 1 .. n : s[a + j] = t[j] /\ t[j] \in Nat
  OBVIOUS
<1> HIDE DEF n
<1>2. \A p \in a + 1 .. a + n : s[p] \in Nat
  <2> SUFFICES ASSUME NEW p \in a + 1 .. a + n PROVE s[p] \in Nat
    OBVIOUS
  <2>1. p - a \in 1 .. n /\ a + (p - a) = p
    BY <1>1
  <2>2. s[a + (p - a)] = t[p - a] /\ t[p - a] \in Nat
    BY <1>0, <2>1
  <2> QED
    BY <2>1, <2>2
<1>3. /\ r \in Seq(Nat) /\ Len(r) = IF a + 1 <= a + n THEN (a + n) - (a + 1) + 1 ELSE 0
      /\ \A p \in 1 .. (a + n) - (a + 1) + 1 : r[p] = s[(a + 1) + p - 1]
  <2>1. a + 1 \in Int /\ a + n \in Int
    BY <1>1
  <2> QED
    BY ONLY <1>2, <2>1, SubSeqProperties
<1> HIDE DEF r
<1>4. Len(r) = n
  BY <1>1, <1>3
<1>5. ASSUME NEW p \in 1 .. n PROVE r[p] = t[p]
  <2>1. p \in 1 .. (a + n) - (a + 1) + 1 /\ (a + 1) + p - 1 = a + p
    BY <1>1
  <2> QED
    BY <1>0, <1>3, <2>1
<1>6. r = [p \in 1 .. n |-> r[p]]
  BY <1>3, <1>4
<1> QED
  BY <1>1, <1>5, <1>6 DEF r, n

\* The elements of the record of a node.
LEMMA RecordElements ==
  ASSUME NEW u \in Places(graph), IsGraph(graph)
  PROVE  /\ NodeRecord(u) \in Seq(Nat)
         /\ Len(NodeRecord(u)) = 2 + Len(graph.out[u])
                                   + (IF loader.symmetric THEN 0 ELSE 1 + Len(graph.in[u]))
         /\ NodeRecord(u)[1] = graph.id_map[u + 1] /\ NodeRecord(u)[2] = Len(graph.out[u])
         /\ \A j \in 1 .. Len(graph.out[u]) : NodeRecord(u)[2 + j] = graph.out[u][j]
         /\ ~loader.symmetric =>
              /\ NodeRecord(u)[3 + Len(graph.out[u])] = Len(graph.in[u])
              /\ \A j \in 1 .. Len(graph.in[u]) :
                   NodeRecord(u)[3 + Len(graph.out[u]) + j] = graph.in[u][j]
<1> DEFINE id == graph.id_map[u + 1]
           row == graph.out[u]
           col == graph.in[u]
           a == <<id>>
           b == a \o Counted(row)
           c == IF loader.symmetric THEN << >> ELSE Counted(col)
<1>1. id \in Nat
  BY DEF IsGraph, Places, Size
<1>2. /\ row \in Seq(Nat) /\ Len(row) \in Nat /\ col \in Seq(Nat) /\ Len(col) \in Nat
  <2>1. Places(graph) \subseteq Nat
    BY PlacesFinite DEF Places
  <2>2. row \in Seq(Places(graph)) /\ col \in Seq(Places(graph))
    BY PlacesFinite
  <2> HIDE DEF row, col
  <2> QED
    BY <2>1, <2>2
<1>3. NodeRecord(u) = b \o c
  BY DEF NodeRecord
<1> HIDE DEF row, col, id
<1>4. \A r \in Seq(Nat) : /\ Counted(r) \in Seq(Nat) /\ Len(Counted(r)) = 1 + Len(r)
                          /\ Counted(r)[1] = Len(r)
                          /\ \A j \in 1 .. Len(r) : Counted(r)[1 + j] = r[j]
  <2> SUFFICES ASSUME NEW r \in Seq(Nat)
               PROVE  /\ Counted(r) \in Seq(Nat) /\ Len(Counted(r)) = 1 + Len(r)
                      /\ Counted(r)[1] = Len(r)
                      /\ \A j \in 1 .. Len(r) : Counted(r)[1 + j] = r[j]
    OBVIOUS
  <2>1. <<Len(r)>> \in Seq(Nat) /\ Len(<<Len(r)>>) = 1 /\ 1 \in 1 .. 1
        /\ <<Len(r)>>[1] = Len(r)
    OBVIOUS
  <2> QED
    BY <2>1, JoinedSequences DEF Counted
<1>5. a \in Seq(Nat) /\ Len(a) = 1 /\ 1 \in 1 .. 1 /\ a[1] = id
  BY <1>1
<1> HIDE DEF a
<1>6. /\ b \in Seq(Nat) /\ Len(b) = 1 + (1 + Len(row)) /\ b[1] = id
      /\ \A j \in 1 .. 1 + Len(row) : b[1 + j] = Counted(row)[j]
  <2>1. Counted(row) \in Seq(Nat) /\ Len(Counted(row)) = 1 + Len(row)
    BY <1>2, <1>4
  <2> DEFINE t == Counted(row)
  <2> HIDE DEF t
  <2>2. t \in Seq(Nat) /\ Len(t) = 1 + Len(row)
    BY <2>1 DEF t
  <2>3. /\ a \o t \in Seq(Nat) /\ Len(a \o t) = Len(a) + Len(t)
        /\ \A p \in 1 .. Len(a) : (a \o t)[p] = a[p]
        /\ \A j \in 1 .. Len(t) : (a \o t)[Len(a) + j] = t[j]
    BY <1>5, <2>2, JoinedSequences
  <2>4. b = a \o t
    BY DEF t
  <2> HIDE DEF b
  <2> QED
    BY <1>5, <2>2, <2>3, <2>4 DEF t
<1> HIDE DEF b
<1>7. b[2] = Len(row) /\ \A j \in 1 .. Len(row) : b[2 + j] = row[j]
  <2>1. b[1 + 1] = Counted(row)[1]
    BY <1>2, <1>6
  <2>2. ASSUME NEW j \in 1 .. Len(row) PROVE b[2 + j] = row[j]
    <3>1. 1 + j \in 1 .. 1 + Len(row) /\ 1 + (1 + j) = 2 + j
      BY <1>2
    <3>2. b[1 + (1 + j)] = Counted(row)[1 + j]
      BY <1>6, <3>1
    <3> QED
      BY <1>2, <1>4, <3>1, <3>2
  <2>3. Counted(row)[1] = Len(row) /\ 1 + 1 = 2
    BY <1>2, <1>4
  <2> QED
    BY <2>1, <2>2, <2>3
<1>8. /\ c \in Seq(Nat) /\ Len(c) = IF loader.symmetric THEN 0 ELSE 1 + Len(col)
      /\ ~loader.symmetric => c[1] = Len(col) /\ \A j \in 1 .. Len(col) : c[1 + j] = col[j]
  <2>1. /\ Counted(col) \in Seq(Nat) /\ Len(Counted(col)) = 1 + Len(col)
        /\ Counted(col)[1] = Len(col)
        /\ \A j \in 1 .. Len(col) : Counted(col)[1 + j] = col[j]
    BY <1>2, <1>4
  <2>2. << >> \in Seq(Nat) /\ Len(<< >>) = 0
    OBVIOUS
  <2>3. CASE loader.symmetric
    BY <2>2, <2>3
  <2>4. CASE ~loader.symmetric
    BY <2>1, <2>4
  <2> QED
    BY <2>3, <2>4
<1> HIDE DEF c
<1> DEFINE s == b \o c
           n == Len(row)
<1>9. /\ s \in Seq(Nat) /\ Len(s) = Len(b) + Len(c)
      /\ \A p \in 1 .. Len(b) : s[p] = b[p]
      /\ \A j \in 1 .. Len(c) : s[Len(b) + j] = c[j]
  BY <1>6, <1>8, JoinedSequences
<1>10. Len(b) = 2 + n /\ n \in Nat
  BY <1>2, <1>6
<1> HIDE DEF s, n
<1>11. /\ s[1] = id /\ s[2] = n /\ \A j \in 1 .. n : s[2 + j] = row[j]
  <2>1. 1 \in 1 .. Len(b) /\ 2 \in 1 .. Len(b) /\ \A j \in 1 .. n : 2 + j \in 1 .. Len(b)
    BY <1>10
  <2> QED
    BY <1>6, <1>7, <1>9, <2>1 DEF n
<1>12. ASSUME ~loader.symmetric
       PROVE  s[3 + n] = Len(col) /\ \A j \in 1 .. Len(col) : s[3 + n + j] = col[j]
  <2>1. Len(c) = 1 + Len(col) /\ c[1] = Len(col) /\ \A j \in 1 .. Len(col) : c[1 + j] = col[j]
    BY <1>8, <1>12
  <2>2. 1 \in 1 .. Len(c) /\ Len(b) + 1 = 3 + n
    BY <1>2, <1>10, <2>1
  <2>3. ASSUME NEW j \in 1 .. Len(col) PROVE s[3 + n + j] = col[j]
    <3>1. 1 + j \in 1 .. Len(c) /\ Len(b) + (1 + j) = 3 + n + j
      BY <1>2, <1>10, <2>1
    <3> QED
      BY <1>9, <2>1, <3>1
  <2> QED
    BY <1>9, <2>1, <2>2, <2>3
<1>13. Len(s) = 2 + n + (IF loader.symmetric THEN 0 ELSE 1 + Len(col))
  BY <1>8, <1>9, <1>10
<1> QED
  BY <1>3, <1>9, <1>11, <1>12, <1>13 DEF s, n, row, col, id
LEMMA RecordsFacts ==
  ASSUME IsGraph(graph)
  PROVE  /\ Records \in Seq(Seq(Nat)) /\ Len(Records) = Size(graph)
         /\ \A u \in Places(graph) : Records[u + 1] = NodeRecord(u)
         /\ \A n : Reach(n) = EndOf(Records, n)
<1>1. Size(graph) \in Nat
  BY PlacesFinite
<1>2. \A k \in 1 .. Size(graph) : k - 1 \in Places(graph)
  BY <1>1 DEF Places
<1>3. \A k \in 1 .. Size(graph) : NodeRecord(k - 1) \in Seq(Nat)
  BY <1>2, RecordElements
<1>4. Records \in Seq(Seq(Nat)) /\ Len(Records) = Size(graph)
  BY <1>1, <1>3 DEF Records
<1>5. ASSUME NEW u \in Places(graph) PROVE Records[u + 1] = NodeRecord(u)
  <2>1. u + 1 \in 1 .. Size(graph) /\ (u + 1) - 1 = u
    BY <1>1 DEF Places
  <2> QED
    BY <2>1 DEF Records
<1>6. \A n : Reach(n) = EndOf(Records, n)
  BY <1>4 DEF Reach, EndOf
<1> QED
  BY <1>4, <1>5, <1>6

\* The file holds the records of the nodes, one after the other.
InBinary ==
  /\ binary \in Seq(Nat) /\ binary[1] = Size(graph) /\ Len(binary) = 1 + Reach(Size(graph))
  /\ \A u \in Places(graph), j \in Nat :
       j \in 1 .. Len(NodeRecord(u)) => binary[1 + Reach(u) + j] = NodeRecord(u)[j]

LEMMA ReachFacts ==
  ASSUME IsGraph(graph)
  PROVE  /\ Reach(0) = 0 /\ \A n \in 0 .. Size(graph) : Reach(n) \in Nat
         /\ \A n \in 0 .. Size(graph) : Reach(n) <= Reach(Size(graph))
         /\ \A u \in Places(graph) : Reach(u + 1) = Reach(u) + Len(NodeRecord(u))
<1> DEFINE N == Size(graph)
<1>1. /\ N \in Nat /\ Records \in Seq(Seq(Nat)) /\ Len(Records) = N
      /\ \A n : Reach(n) = EndOf(Records, n)
  BY PlacesFinite, RecordsFacts
<1>2. Reach(0) = 0 /\ \A n \in 0 .. N : Reach(n) \in Nat
  BY <1>1, EndOfFacts
<1>3. \A n \in 0 .. N : Reach(n) <= Reach(N)
  <2>1. Built(Records, FlattenSeq(Records), N)
    BY <1>1, FlattenPlaces
  <2>2. \A n \in 1 .. N : Reach(n) <= Reach(N)
    BY <1>1, <2>1 DEF Built
  <2>3. 0 <= Reach(N)
    BY <1>1, <1>2
  <2>4. \A n \in 0 .. N : n = 0 \/ n \in 1 .. N
    BY <1>1
  <2> QED
    BY <1>2, <2>2, <2>3, <2>4
<1>4. ASSUME NEW u \in Places(graph) PROVE Reach(u + 1) = Reach(u) + Len(NodeRecord(u))
  <2>1. u + 1 \in 1 .. N /\ (u + 1) - 1 = u
    BY <1>1 DEF Places
  <2>2. EndOf(Records, u + 1) = EndOf(Records, (u + 1) - 1) + Len(Records[u + 1])
    BY <1>1, <2>1, EndOfFacts
  <2>3. Records[u + 1] = NodeRecord(u)
    BY RecordsFacts
  <2> QED
    BY <1>1, <2>1, <2>2, <2>3
<1> QED
  BY <1>2, <1>3, <1>4

LEMMA BinaryHolds ==
  ASSUME IsGraph(graph), binary = <<Size(graph)>> \o FlattenSeq(Records)
  PROVE  InBinary
<1> DEFINE N == Size(graph)
           s == FlattenSeq(Records)
           a == <<N>>
<1>1. /\ N \in Nat /\ Records \in Seq(Seq(Nat)) /\ Len(Records) = N
      /\ \A n : Reach(n) = EndOf(Records, n)
      /\ \A u \in Places(graph) : Records[u + 1] = NodeRecord(u)
  BY PlacesFinite, RecordsFacts
<1>2. Built(Records, s, N)
  BY <1>1, FlattenPlaces
<1>3. a \in Seq(Nat) /\ Len(a) = 1 /\ a[1] = N /\ 1 \in 1 .. 1
  BY <1>1
<1>4. s \in Seq(Nat) /\ Len(s) = Reach(N) /\ Reach(N) \in Nat
  <2>1. Reach(N) \in Nat /\ Reach(N) = EndOf(Records, N)
    BY <1>1, ReachFacts
  <2> QED
    BY <1>2, <2>1 DEF Built
<1>5. binary = a \o s
  OBVIOUS
<1> HIDE DEF s, a, N
<1>6. /\ binary \in Seq(Nat) /\ Len(binary) = 1 + Reach(N) /\ binary[1] = N
      /\ \A p \in 1 .. Len(s) : binary[1 + p] = s[p]
  <2>1. /\ a \o s \in Seq(Nat) /\ Len(a \o s) = Len(a) + Len(s)
        /\ \A p \in 1 .. Len(a) : (a \o s)[p] = a[p]
        /\ \A j \in 1 .. Len(s) : (a \o s)[Len(a) + j] = s[j]
    BY <1>3, <1>4, JoinedSequences
  <2>2. binary[1] = a[1] /\ Len(binary) = Len(a) + Len(s)
    BY <1>3, <1>5, <2>1
  <2>3. \A p \in 1 .. Len(s) : binary[1 + p] = s[p]
    BY ONLY <1>3, <1>5, <2>1
  <2>4. Len(binary) = 1 + Reach(N)
    BY ONLY <1>3, <1>4, <2>2
  <2> QED
    BY ONLY <1>3, <1>5, <2>1, <2>2, <2>3, <2>4
<1>7. ASSUME NEW u \in Places(graph), NEW j \in 1 .. Len(NodeRecord(u))
      PROVE  binary[1 + Reach(u) + j] = NodeRecord(u)[j]
  <2>1. u + 1 \in 1 .. N /\ (u + 1) - 1 = u /\ u \in 0 .. N /\ u + 1 \in 0 .. N
    BY <1>1 DEF Places, N
  <2>2. s[EndOf(Records, (u + 1) - 1) + j] = Records[u + 1][j]
    BY <1>1, <1>2, <2>1 DEF Built
  <2>3. s[Reach(u) + j] = NodeRecord(u)[j]
    BY <1>1, <2>1, <2>2
  <2>4. /\ Reach(u) \in Nat /\ Reach(u + 1) \in Nat /\ Reach(u + 1) <= Reach(N)
        /\ Reach(u + 1) = Reach(u) + Len(NodeRecord(u)) /\ Len(NodeRecord(u)) \in Nat
    BY <2>1, ReachFacts, RecordElements DEF N
  <2> DEFINE r == Reach(u)
             l == Len(NodeRecord(u))
             e == Reach(N)
  <2>5. r \in Nat /\ l \in Nat /\ e \in Nat /\ r + l <= e /\ j \in 1 .. l
    BY <1>4, <2>4
  <2> HIDE DEF r, l, e
  <2>6. r + j \in 1 .. e /\ 1 + r + j = 1 + (r + j)
    BY <2>5
  <2> QED
    BY <1>4, <1>6, <2>3, <2>6 DEF r, e
<1> QED
  BY <1>6, <1>7 DEF InBinary, N
-----------------------------------------------------------------------------
LEMMA BinaryReadInv ==
  ASSUME LoadInv, BinaryRead
  PROVE  LoadInv'
<1>1. /\ phase = "written" /\ phase' = "copied" /\ Size(copy) = binary[1]
      /\ UNCHANGED <<inputVars, pos, edge_set, graph, countVars>>
      /\ UNCHANGED <<inputVars, graph, copy, copy_num_edges, copy_max_nbrhood_size>>
      /\ UNCHANGED <<binary, cursor>>
  BY DEF BinaryRead, binaryVars
<1>2. RowsDone' = RowsDone
  BY <1>1 DEF RowsDone, Size
<1>3. InputsInv' /\ PhaseInv' /\ GraphInv' /\ SeenInv' /\ NodeAttrInv' /\ CountsInv'
  BY <1>1, <1>2, GraphLeft DEF Phases
<1>4. CopyInv /\ binary = <<Size(graph)>> \o FlattenSeq(Records) /\ cursor = 1 + Reach(Size(copy))
  BY <1>1 DEF LoadInv, BinaryInv
<1>5. CopyInv' /\ Records' = Records /\ Reach(Size(copy))' = Reach(Size(copy))
  <2>1. Size(copy)' = Size(copy)
    BY <1>1 DEF Size
  <2> QED
    BY <1>1, <1>4, <2>1, CopyLeft, RecordsLeft
<1>6. binary[1] = Size(graph)
  <2>1. IsGraph(graph)
    BY DEF LoadInv, GraphInv, Keeps
  <2> QED
    BY <1>4, <2>1, BinaryHolds DEF InBinary
<1>7. BinaryInv'
  BY <1>1, <1>4, <1>5, <1>6 DEF BinaryInv, Size
<1> QED
  BY <1>3, <1>7 DEF LoadInv

LEMMA WriteBinaryInv ==
  ASSUME LoadInv, WriteBinary
  PROVE  LoadInv'
<1>1. /\ phase = "loaded" /\ phase' = "written" /\ cursor' = 1
      /\ binary' = <<Size(graph)>> \o FlattenSeq(Records)
      /\ UNCHANGED <<inputVars, pos, edge_set, graph, countVars>>
      /\ UNCHANGED <<inputVars, graph>>
      /\ UNCHANGED <<copy, copy_num_edges, copy_max_nbrhood_size>>
  BY DEF WriteBinary, Records
<1>2. RowsDone' = RowsDone
  BY <1>1 DEF RowsDone, Size
<1>3. InputsInv' /\ PhaseInv' /\ GraphInv' /\ SeenInv' /\ NodeAttrInv' /\ CountsInv'
  BY <1>1, <1>2, GraphLeft DEF Phases
<1>4. IsGraph(graph)
  BY DEF LoadInv, GraphInv, Keeps
<1>5. Records' = Records /\ Reach(0)' = Reach(0) /\ Size(graph)' = Size(graph)
  BY <1>1, RecordsLeft DEF Size
<1>6. Reach(0) = 0 /\ Size(graph) \in Nat
  BY <1>4, ReachFacts, PlacesFinite
<1>7. copy' = EmptyGraph /\ copy_num_edges' = 0 /\ copy_max_nbrhood_size' = 0
  BY <1>1 DEF LoadInv, BinaryInv, NoCopy
<1>8. /\ copy'.id_map = << >> /\ copy'.out = << >> /\ copy'.in = << >> /\ Size(copy)' = 0
      /\ copy' = [extern_ids |-> copy'.extern_ids, id_map |-> copy'.id_map,
                  node_attr |-> copy'.node_attr, out |-> copy'.out, in |-> copy'.in,
                  out_attr |-> copy'.out_attr, in_attr |-> copy'.in_attr]
  BY <1>7 DEF EmptyGraph, Size
<1>9. CopyInv'
  <2>1. 0 .. 0 - 1 = {} /\ 1 .. 0 = {} /\ << >> \in Seq(Nat) /\ DOMAIN << >> = {}
    OBVIOUS
  <2>2. \A f : SumFunctionOnSet(f, {}) = 0
    BY NothingToSum
  <2>3. << >> = [u \in {} |-> graph'.out[u]] /\ << >> = [u \in {} |-> graph'.in[u]]
    BY <2>1
  <2>4. 0 \in 0 .. Size(graph)'
    BY <1>5, <1>6
  <2> QED
    BY <1>7, <1>8, <2>1, <2>2, <2>3, <2>4 DEF CopyInv
<1>10. BinaryInv'
  BY <1>1, <1>5, <1>6, <1>8, <1>9 DEF BinaryInv
<1> QED
  BY <1>3, <1>10 DEF LoadInv
-----------------------------------------------------------------------------
\* At the start of a record, the next node and its rows are read.
LEMMA RowsRead ==
  ASSUME IsGraph(graph), InBinary, NEW u \in Places(graph), cursor = 1 + Reach(u)
  PROVE  /\ binary[cursor + 1] = graph.id_map[u + 1]
         /\ RowAt(cursor + 1) = graph.out[u]
         /\ ~loader.symmetric => RowAt(cursor + 2 + Len(graph.out[u])) = graph.in[u]
<1> DEFINE rec == NodeRecord(u)
           row == graph.out[u]
           col == graph.in[u]
           l == Len(row)
           m == Len(col)
<1>1. /\ rec \in Seq(Nat)
      /\ Len(rec) = 2 + l + (IF loader.symmetric THEN 0 ELSE 1 + m)
      /\ rec[1] = graph.id_map[u + 1] /\ rec[2] = l
      /\ \A j \in 1 .. l : rec[2 + j] = row[j]
      /\ ~loader.symmetric => rec[3 + l] = m /\ \A j \in 1 .. m : rec[3 + l + j] = col[j]
  BY RecordElements
<1>2. /\ binary \in Seq(Nat)
      /\ \A j \in Nat : j \in 1 .. Len(rec) => binary[1 + Reach(u) + j] = rec[j]
  BY DEF InBinary
<1>3. cursor \in Nat
  <2>1. u \in 0 .. Size(graph)
    BY PlacesFinite DEF Places
  <2>2. Reach(u) \in Nat
    BY <2>1, ReachFacts
  <2> QED
    BY <2>2
<1>4. row \in Seq(Nat) /\ l \in Nat /\ col \in Seq(Nat) /\ m \in Nat
  <2>1. Places(graph) \subseteq Nat
    BY PlacesFinite DEF Places
  <2>2. row \in Seq(Places(graph)) /\ col \in Seq(Places(graph))
    BY PlacesFinite
  <2> HIDE DEF row, col
  <2> QED
    BY <2>1, <2>2
<1> HIDE DEF rec, l, m, row, col
<1>5. \A j \in Nat : j \in 1 .. Len(rec) => binary[cursor + j] = rec[j]
  BY <1>2
<1>6. Len(rec) \in Nat /\ 2 + l <= Len(rec) /\ (~loader.symmetric => Len(rec) = 3 + l + m)
  BY <1>1, <1>4
<1>7. binary[cursor + 1] = graph.id_map[u + 1] /\ binary[cursor + 2] = l
  BY <1>1, <1>4, <1>5, <1>6
<1>8. RowAt(cursor + 1) = row
  <2>1. ASSUME NEW j \in 1 .. l PROVE binary[(cursor + 2) + j] = row[j]
    <3>1. 2 + j \in 1 .. Len(rec) /\ 2 + j \in Nat /\ cursor + (2 + j) = (cursor + 2) + j
      BY <1>3, <1>4, <1>6
    <3>2. binary[cursor + (2 + j)] = rec[2 + j]
      BY <1>5, <3>1
    <3> QED
      BY <1>1, <3>1, <3>2
  <2>2. cursor + 2 \in Nat
    BY <1>3
  <2>3. SubSeq(binary, (cursor + 2) + 1, (cursor + 2) + Len(row)) = row
    BY <1>2, <1>4, <2>1, <2>2, SubSeqIs DEF l
  <2>4. /\ (cursor + 1) + 1 = cursor + 2 /\ (cursor + 1) + 2 = (cursor + 2) + 1
        /\ (cursor + 1) + 1 + l = (cursor + 2) + l
    BY <1>3, <1>4
  <2> QED
    BY <1>7, <2>3, <2>4 DEF RowAt, l
<1>9. ASSUME ~loader.symmetric PROVE RowAt(cursor + 2 + l) = col
  <2>1. Len(rec) = 3 + l + m /\ rec[3 + l] = m /\ \A j \in 1 .. m : rec[3 + l + j] = col[j]
    BY <1>1, <1>6, <1>9
  <2>2. ASSUME NEW j \in 1 .. m PROVE binary[(cursor + 3 + l) + j] = col[j]
    <3>1. /\ 3 + l + j \in 1 .. Len(rec) /\ 3 + l + j \in Nat
          /\ cursor + (3 + l + j) = (cursor + 3 + l) + j
      BY <1>3, <1>4, <2>1
    <3>2. binary[cursor + (3 + l + j)] = rec[3 + l + j]
      BY <1>5, <3>1
    <3> QED
      BY <2>1, <3>1, <3>2
  <2>3. cursor + 3 + l \in Nat
    BY <1>3, <1>4
  <2>4. SubSeq(binary, (cursor + 3 + l) + 1, (cursor + 3 + l) + Len(col)) = col
    BY <1>2, <1>4, <2>2, <2>3, SubSeqIs DEF m
  <2>5. binary[cursor + (3 + l)] = m
    <3>1. 3 + l \in 1 .. Len(rec) /\ 3 + l \in Nat
      BY <1>4, <2>1
    <3> QED
      BY <1>5, <2>1, <3>1
  <2>6. /\ (cursor + 2 + l) + 1 = cursor + (3 + l)
        /\ (cursor + 2 + l) + 2 = (cursor + 3 + l) + 1
        /\ (cursor + 2 + l) + 1 + m = (cursor + 3 + l) + m
    BY <1>3, <1>4
  <2> QED
    BY <2>4, <2>5, <2>6 DEF RowAt, m
<1> QED
  BY <1>7, <1>8, <1>9 DEF row, col, l

\* The copy with the rows r and c of one node more.
Grown(h, id, r, c) ==
  [h EXCEPT !.id_map = Append(@, id), !.out = Entered(@, Size(h), r),
            !.in = Entered(@, Size(h), c)]

LEMMA GrownFields ==
  ASSUME NEW h, NEW id, NEW r, NEW c,
         h = [extern_ids |-> h.extern_ids, id_map |-> h.id_map, node_attr |-> h.node_attr,
              out |-> h.out, in |-> h.in, out_attr |-> h.out_attr, in_attr |-> h.in_attr]
  PROVE  /\ Grown(h, id, r, c).id_map = Append(h.id_map, id)
         /\ Grown(h, id, r, c).out = Entered(h.out, Size(h), r)
         /\ Grown(h, id, r, c).in = Entered(h.in, Size(h), c)
         /\ Grown(h, id, r, c) =
              [extern_ids |-> Grown(h, id, r, c).extern_ids, id_map |-> Grown(h, id, r, c).id_map,
               node_attr |-> Grown(h, id, r, c).node_attr,
               out |-> Grown(h, id, r, c).out, in |-> Grown(h, id, r, c).in,
               out_attr |-> Grown(h, id, r, c).out_attr, in_attr |-> Grown(h, id, r, c).in_attr]
<1>1. Grown(h, id, r, c) =
        [extern_ids |-> h.extern_ids, id_map |-> Append(h.id_map, id), node_attr |-> h.node_attr,
         out |-> Entered(h.out, Size(h), r), in |-> Entered(h.in, Size(h), c),
         out_attr |-> h.out_attr, in_attr |-> h.in_attr]
  <2> DEFINE x == Append(h.id_map, id)
             y == Entered(h.out, Size(h), r)
             z == Entered(h.in, Size(h), c)
  <2>1. Grown(h, id, r, c) = [h EXCEPT !.id_map = x, !.out = y, !.in = z]
    BY DEF Grown
  <2> HIDE DEF x, y, z
  <2> DEFINE k == [h EXCEPT !.id_map = x]
  <2>3. k = [extern_ids |-> h.extern_ids, id_map |-> x, node_attr |-> h.node_attr,
             out |-> h.out, in |-> h.in, out_attr |-> h.out_attr, in_attr |-> h.in_attr]
    OBVIOUS
  <2>4. [h EXCEPT !.id_map = x, !.out = y, !.in = z] = [k EXCEPT !.out = y, !.in = z]
    OBVIOUS
  <2> HIDE DEF k
  <2> DEFINE m == [k EXCEPT !.out = y]
  <2>6. m = [extern_ids |-> h.extern_ids, id_map |-> x, node_attr |-> h.node_attr,
             out |-> y, in |-> h.in, out_attr |-> h.out_attr, in_attr |-> h.in_attr]
    BY ONLY <2>3
  <2>7. [k EXCEPT !.out = y, !.in = z] = [m EXCEPT !.in = z]
    BY ONLY <2>3
  <2> HIDE DEF m
  <2>5. [k EXCEPT !.out = y, !.in = z] =
          [extern_ids |-> h.extern_ids, id_map |-> x, node_attr |-> h.node_attr,
           out |-> y, in |-> z, out_attr |-> h.out_attr, in_attr |-> h.in_attr]
    BY ONLY <2>6, <2>7
  <2>2. [h EXCEPT !.id_map = x, !.out = y, !.in = z] =
          [extern_ids |-> h.extern_ids, id_map |-> x, node_attr |-> h.node_attr,
           out |-> y, in |-> z, out_attr |-> h.out_attr, in_attr |-> h.in_attr]
    BY ONLY <2>4, <2>5
  <2> QED
    BY <2>1, <2>2 DEF x, y, z
<1> QED
  BY <1>1

\* A table of the first n rows of R with the next one is that of the first n + 1.
LEMMA EnteredNext ==
  ASSUME NEW n \in Nat, NEW R, NEW f, f = [u \in 0 .. n - 1 |-> R[u]]
  PROVE  Entered(f, n, R[n]) = [u \in 0 .. n |-> R[u]]
<1>1. DOMAIN f = 0 .. n - 1 /\ (0 .. n - 1) \cup {n} = 0 .. n
  OBVIOUS
<1>2. \A u \in 0 .. n : u # n => u \in 0 .. n - 1
  OBVIOUS
<1> QED
  BY <1>1, <1>2 DEF Entered

LEMMA ReadNodeInv ==
  ASSUME LoadInv, ReadNode
  PROVE  LoadInv'
<1> DEFINE u == Size(copy)
           r == RowAt(cursor + 1)
           c == IF loader.symmetric THEN << >> ELSE RowAt(cursor + 2 + Len(r))
           id == binary[cursor + 1]
<1>1. /\ phase = "written" /\ phase' = "written" /\ u < binary[1]
      /\ copy' = Grown(copy, id, r, c)
      /\ cursor' = cursor + 2 + Len(r) + (IF loader.symmetric THEN 0 ELSE 1 + Len(c))
      /\ copy_num_edges' = copy_num_edges + Len(r) + Len(c)
      /\ copy_max_nbrhood_size' = Larger(copy_max_nbrhood_size, Larger(Len(r), Len(c)))
      /\ UNCHANGED <<inputVars, pos, edge_set, graph, countVars>>
      /\ UNCHANGED <<inputVars, graph>> /\ binary' = binary
  BY DEF ReadNode, Grown
<1>2. loader' = loader /\ graph' = graph
  BY <1>1 DEF inputVars
<1>3. RowsDone' = RowsDone
  BY <1>1 DEF RowsDone, Size
<1>4. InputsInv' /\ PhaseInv' /\ GraphInv' /\ SeenInv' /\ NodeAttrInv' /\ CountsInv'
  BY <1>1, <1>3, GraphLeft DEF Phases
<1>5. IsGraph(graph)
  BY DEF LoadInv, GraphInv, Keeps
<1>6. CopyInv /\ binary = <<Size(graph)>> \o FlattenSeq(Records) /\ cursor = 1 + Reach(u)
  BY <1>1 DEF LoadInv, BinaryInv
<1>7. InBinary
  BY <1>5, <1>6, BinaryHolds
<1>8. u \in Places(graph) /\ Size(graph) \in Nat /\ u \in Nat /\ u + 1 \in 0 .. Size(graph)
      /\ u \in 0 .. Size(graph)
  <2>1. Size(graph) \in Nat /\ u \in 0 .. Size(graph) /\ u < Size(graph)
    BY <1>1, <1>5, <1>6, <1>7, PlacesFinite DEF CopyInv, InBinary
  <2> HIDE DEF u
  <2> QED
    BY <2>1 DEF Places
<1>9. /\ id = graph.id_map[u + 1] /\ r = graph.out[u]
      /\ ~loader.symmetric => c = graph.in[u]
      /\ loader.symmetric => c = << >>
  BY ONLY <1>5, <1>6, <1>7, <1>8, RowsRead
<1>10. Len(r) \in Nat /\ Len(c) \in Nat /\ id \in Nat
  <2>1. Len(graph.out[u]) \in Nat /\ Len(graph.in[u]) \in Nat
    BY <1>5, <1>8, PlacesFinite
  <2>2. Len(<< >>) \in Nat
    OBVIOUS
  <2>3. graph.id_map[u + 1] \in Nat
    BY <1>5, <1>8 DEF IsGraph, Size
  <2> HIDE DEF c, r, id
  <2> QED
    BY <1>9, <2>1, <2>2, <2>3
<1> HIDE DEF u, r, c, id
<1>11. /\ copy = [extern_ids |-> copy.extern_ids, id_map |-> copy.id_map,
                  node_attr |-> copy.node_attr, out |-> copy.out, in |-> copy.in,
                  out_attr |-> copy.out_attr, in_attr |-> copy.in_attr]
       /\ copy.id_map \in Seq(Nat) /\ u = Len(copy.id_map)
       /\ \A k \in 1 .. u : copy.id_map[k] = graph.id_map[k]
       /\ copy.out = [w \in 0 .. u - 1 |-> graph.out[w]]
       /\ ~loader.symmetric => copy.in = [w \in 0 .. u - 1 |-> graph.in[w]]
       /\ copy_num_edges \in Nat /\ copy_max_nbrhood_size \in Nat
       /\ SumFunctionOnSet(Lengths(graph.out, Places(graph)), 0 .. u - 1) <= copy_num_edges
       /\ \A w \in 0 .. u - 1 :
            /\ Len(graph.out[w]) <= copy_max_nbrhood_size
            /\ ~loader.symmetric => Len(graph.in[w]) <= copy_max_nbrhood_size
  BY <1>6 DEF CopyInv, u, Size
<1>12. /\ copy'.id_map = Append(copy.id_map, id)
       /\ copy'.out = Entered(copy.out, u, r) /\ copy'.in = Entered(copy.in, u, c)
       /\ copy' = [extern_ids |-> copy'.extern_ids, id_map |-> copy'.id_map,
                   node_attr |-> copy'.node_attr, out |-> copy'.out, in |-> copy'.in,
                   out_attr |-> copy'.out_attr, in_attr |-> copy'.in_attr]
  <2> DEFINE h == Grown(copy, id, r, c)
  <2>1. /\ h.id_map = Append(copy.id_map, id)
        /\ h.out = Entered(copy.out, u, r) /\ h.in = Entered(copy.in, u, c)
        /\ h = [extern_ids |-> h.extern_ids, id_map |-> h.id_map, node_attr |-> h.node_attr,
                out |-> h.out, in |-> h.in, out_attr |-> h.out_attr, in_attr |-> h.in_attr]
    <3>1. /\ copy = [extern_ids |-> copy.extern_ids, id_map |-> copy.id_map,
                     node_attr |-> copy.node_attr, out |-> copy.out, in |-> copy.in,
                     out_attr |-> copy.out_attr, in_attr |-> copy.in_attr]
      BY <1>11
    <3> QED
      BY ONLY <3>1, GrownFields DEF u
  <2>2. copy' = h
    BY <1>1
  <2> HIDE DEF h
  <2> QED
    BY <2>1, <2>2
<1>13. /\ copy'.id_map \in Seq(Nat) /\ Size(copy)' = u + 1
       /\ \A k \in 1 .. u + 1 : copy'.id_map[k] = graph.id_map[k]
  <2>1. /\ Append(copy.id_map, id) \in Seq(Nat) /\ Len(Append(copy.id_map, id)) = u + 1
        /\ Append(copy.id_map, id)[u + 1] = id
        /\ \A k \in 1 .. u : Append(copy.id_map, id)[k] = copy.id_map[k]
    BY <1>10, <1>11
  <2>2. Size(copy)' = Len(copy'.id_map)
    BY DEF Size
  <2>3. \A k \in 1 .. u + 1 : k = u + 1 \/ k \in 1 .. u
    BY <1>8
  <2> QED
    BY <1>9, <1>11, <1>12, <2>1, <2>2, <2>3
<1>14. (u + 1) - 1 = u
  BY <1>8
<1>15. copy'.out = [w \in 0 .. u |-> graph.out[w]]
  <2> DEFINE R == graph.out
             f == copy.out
  <2>1. u \in Nat /\ f = [w \in 0 .. u - 1 |-> R[w]]
    BY <1>8, <1>11
  <2> HIDE DEF R, f
  <2>2. Entered(f, u, R[u]) = [w \in 0 .. u |-> R[w]]
    BY ONLY <2>1, EnteredNext
  <2> QED
    BY ONLY <1>9, <1>12, <2>2 DEF R, f
<1>16. ASSUME ~loader.symmetric PROVE copy'.in = [w \in 0 .. u |-> graph.in[w]]
  <2> DEFINE R == graph.in
             f == copy.in
  <2>1. u \in Nat /\ f = [w \in 0 .. u - 1 |-> R[w]]
    BY <1>8, <1>11, <1>16
  <2> HIDE DEF R, f
  <2>2. Entered(f, u, R[u]) = [w \in 0 .. u |-> R[w]]
    BY ONLY <2>1, EnteredNext
  <2> QED
    BY ONLY <1>9, <1>12, <1>16, <2>2 DEF R, f
<1>17. /\ copy_num_edges' \in Nat
       /\ SumFunctionOnSet(Lengths(graph.out, Places(graph)), 0 .. u) <= copy_num_edges'
  <2> DEFINE f == Lengths(graph.out, Places(graph))
             a == SumFunctionOnSet(f, 0 .. u)
             b == SumFunctionOnSet(f, 0 .. u - 1)
  <2>1. \A w \in Places(graph) : f[w] = Len(graph.out[w]) /\ f[w] \in Nat
    BY <1>5, PlacesFinite DEF Lengths
  <2>2. \A w \in 0 .. u - 1 : w \in Places(graph)
    BY <1>8 DEF Places
  <2>3. (\A w \in 0 .. u - 1 : f[w] \in Nat /\ f[w] = f[w]) /\ f[u] \in Nat /\ f[u] = Len(r)
    BY <1>8, <1>9, <2>1, <2>2
  <2>4. b <= copy_num_edges /\ copy_num_edges \in Nat
    BY <1>11
  <2> HIDE DEF f
  <2>5. a = b + f[u] /\ b \in Nat
    BY ONLY <1>8, <2>3, SumOneMore
  <2> HIDE DEF a, b
  <2>6. a <= copy_num_edges' /\ copy_num_edges' \in Nat
    BY <1>1, <1>10, <2>3, <2>4, <2>5
  <2> QED
    BY <2>6 DEF a, f
<1>18. /\ copy_max_nbrhood_size' \in Nat
       /\ \A w \in 0 .. u :
            /\ Len(graph.out[w]) <= copy_max_nbrhood_size'
            /\ ~loader.symmetric => Len(graph.in[w]) <= copy_max_nbrhood_size'
  <2> DEFINE l == Len(r)
             m == Len(c)
             d == Larger(l, m)
             e == Larger(copy_max_nbrhood_size, d)
  <2>1. l \in Nat /\ m \in Nat /\ copy_max_nbrhood_size \in Nat
    BY <1>10, <1>11
  <2> HIDE DEF l, m
  <2>2. d \in Nat /\ l <= d /\ m <= d
    BY <2>1, LargerFacts
  <2> HIDE DEF d
  <2>3. e \in Nat /\ copy_max_nbrhood_size <= e /\ d <= e
    BY <2>1, <2>2, LargerFacts
  <2>4. copy_max_nbrhood_size' = e
    BY <1>1 DEF l, m, d
  <2> HIDE DEF e
  <2>5. l <= e /\ m <= e
    BY <2>1, <2>2, <2>3
  <2>6. ASSUME NEW w \in 0 .. u
        PROVE  /\ Len(graph.out[w]) <= e
               /\ ~loader.symmetric => Len(graph.in[w]) <= e
    <3>1. CASE w = u
      BY <1>9, <2>5, <3>1 DEF l, m
    <3>2. CASE w # u
      <4>1. w \in 0 .. u - 1 /\ w \in Places(graph)
        BY <1>8, <3>2 DEF Places
      <4>2. Len(graph.out[w]) \in Nat /\ Len(graph.in[w]) \in Nat
        BY <1>5, <4>1, PlacesFinite
      <4> QED
        BY <1>11, <2>1, <2>3, <4>1, <4>2
    <3> QED
      BY <3>1, <3>2
  <2> QED
    BY <2>3, <2>4, <2>6
<1>19. Size(graph)' = Size(graph) /\ Places(graph)' = Places(graph)
  BY <1>2 DEF Size, Places
<1>20. CopyInv'
  BY <1>2, <1>8, <1>12, <1>13, <1>14, <1>15, <1>16, <1>17, <1>18, <1>19 DEF CopyInv, Lengths
<1>21. cursor' = 1 + Reach(u + 1)
  <2>1. /\ Len(NodeRecord(u)) = 2 + Len(graph.out[u])
                                  + (IF loader.symmetric THEN 0 ELSE 1 + Len(graph.in[u]))
    BY <1>5, <1>8, RecordElements
  <2>2. Reach(u + 1) = Reach(u) + Len(NodeRecord(u)) /\ Reach(u) \in Nat
    BY <1>5, <1>8, ReachFacts
  <2> DEFINE l == Len(r)
             m == Len(c)
             n == Len(NodeRecord(u))
             a == Reach(u)
             b == Reach(u + 1)
  <2>3. n = 2 + l + (IF loader.symmetric THEN 0 ELSE 1 + m)
    BY <1>9, <2>1
  <2>4. /\ cursor' = cursor + 2 + l + (IF loader.symmetric THEN 0 ELSE 1 + m)
        /\ cursor = 1 + a /\ l \in Nat /\ m \in Nat /\ b = a + n /\ a \in Nat
    BY <1>1, <1>6, <1>10, <2>2
  <2> HIDE DEF l, m, n, a, b
  <2>5. cursor' = 1 + b
    BY <2>3, <2>4
  <2> QED
    BY <2>5 DEF b
<1>22. Records' = Records /\ Reach(Size(copy))' = Reach(u + 1)
  BY <1>1, <1>13, RecordsLeft
<1>23. BinaryInv'
  BY <1>1, <1>6, <1>19, <1>20, <1>21, <1>22 DEF BinaryInv
<1> QED
  BY <1>4, <1>23 DEF LoadInv
-----------------------------------------------------------------------------
LEMMA LoadStutterInv ==
  ASSUME LoadInv, UNCHANGED loadVars
  PROVE  LoadInv'
<1>1. /\ loader' = loader /\ file' = file /\ node_file' = node_file /\ pos' = pos
      /\ phase' = phase /\ edge_set' = edge_set
      /\ graph' = graph /\ num_edges' = num_edges /\ max_nbrhood_size' = max_nbrhood_size
      /\ binary' = binary /\ cursor' = cursor
      /\ UNCHANGED inputVars /\ UNCHANGED <<inputVars, graph>> /\ Size(copy)' = Size(copy)
      /\ UNCHANGED binaryVars
      /\ UNCHANGED <<inputVars, graph, copy, copy_num_edges, copy_max_nbrhood_size>>
  BY DEF loadVars, inputVars, countVars, binaryVars, Size
<1>2. Kept' = Kept
  BY <1>1 DEF Kept
<1>3. GraphInv'
  <2>1. Keeps(graph, Kept) /\ OnlyEnds(graph, Kept)
    BY DEF LoadInv, GraphInv
  <2> QED
    BY <1>1, <1>2, <2>1, GraphCarried
<1>4. InputsInv' /\ SeenInv'
  BY <1>1 DEF LoadInv, InputsInv, SeenInv, EndIds
<1>5. Size(graph)' = Size(graph) /\ Places(graph)' = Places(graph) /\ RowsDone' = RowsDone
  BY <1>1 DEF Size, Places, RowsDone
<1>6. PhaseInv'
  BY <1>1, <1>5 DEF LoadInv, PhaseInv, Phases
<1>7. NodeAttrInv'
  <2>1. NodeLines' = NodeLines
    BY <1>1 DEF NodeLines
  <2>2. ASSUME NEW u PROVE LastGiven(graph, u, NodeLines)' = LastGiven(graph, u, NodeLines)
    BY <1>1, <2>1 DEF LastGiven, Given
  <2> QED
    BY <1>1, <1>5, <2>2 DEF LoadInv, NodeAttrInv
<1>8. CountsInv'
  <2>1. \A u : /\ Ordered(graph.out[u])' <=> Ordered(graph.out[u])
               /\ Ordered(graph.in[u])' <=> Ordered(graph.in[u])
    BY <1>1 DEF Ordered
  <2> QED
    BY <1>1, <1>5, <2>1 DEF LoadInv, CountsInv, RowTotal, Lengths
<1>9. BinaryInv'
  <2>1. CASE phase \in {"written", "copied"}
    <3>1. CopyInv /\ binary = <<Size(graph)>> \o FlattenSeq(Records)
          /\ cursor = 1 + Reach(Size(copy)) /\ (phase = "copied" => Size(copy) = Size(graph))
      BY <2>1 DEF LoadInv, BinaryInv
    <3>2. CopyInv' /\ Records' = Records /\ Reach(Size(copy))' = Reach(Size(copy))
      BY <1>1, <3>1, CopyLeft, RecordsLeft
    <3> QED
      BY <1>1, <1>5, <2>1, <3>1, <3>2 DEF BinaryInv
  <2>2. CASE phase \notin {"written", "copied"}
    BY <1>1, <2>2, Unwritten DEF LoadInv
  <2> QED
    BY <2>1, <2>2
<1> QED
  BY <1>3, <1>4, <1>6, <1>7, <1>8, <1>9 DEF LoadInv

LEMMA LoadNextInv ==
  ASSUME LoadInv, [LoadNext]_loadVars
  PROVE  LoadInv'
<1>1. ASSUME ReadEdge PROVE LoadInv'
  BY <1>1, ReadEdgeInv
<1>2. ASSUME EdgesRead PROVE LoadInv'
  BY <1>2, EdgesReadInv
<1>3. ASSUME ReadNodeAttribute PROVE LoadInv'
  BY <1>3, ReadNodeAttributeInv
<1>4. ASSUME NodesRead PROVE LoadInv'
  BY <1>4, NodesReadInv
<1>5. ASSUME CleanRow PROVE LoadInv'
  BY <1>5, CleanRowInv
<1>6. ASSUME Loaded PROVE LoadInv'
  BY <1>6, LoadedInv
<1>7. ASSUME WriteBinary PROVE LoadInv'
  BY <1>7, WriteBinaryInv
<1>8. ASSUME ReadNode PROVE LoadInv'
  BY <1>8, ReadNodeInv
<1>9. ASSUME BinaryRead PROVE LoadInv'
  BY <1>9, BinaryReadInv
<1>10. ASSUME UNCHANGED loadVars PROVE LoadInv'
  BY <1>10, LoadStutterInv
<1> QED
  BY <1>1, <1>2, <1>3, <1>4, <1>5, <1>6, <1>7, <1>8, <1>9, <1>10 DEF LoadNext, Terminated

\* What is known of the graph, its counts and the binary file at every moment: the
\* rows hold the lines read, each as often as it is given and counts.
THEOREM LoadInvariance == LoadSpec => []LoadInv
<1>1. LoadInit => LoadInv
  BY LoadInitInv
<1>2. LoadInv /\ [LoadNext]_loadVars => LoadInv'
  BY LoadNextInv
<1> QED
  BY <1>1, <1>2, PTL DEF LoadSpec
-----------------------------------------------------------------------------
\* The names of the properties for the nodes and the lines that count.
LEMMA LoadNames ==
  ASSUME LoadInv
  PROVE  /\ Nodes = Places(graph) /\ IsGraph(graph) /\ Named(graph, Kept)
         /\ OnlyEnds(graph, Kept) /\ Members(graph, Kept)
         /\ loader.attributes => Counts(graph, Kept)
         /\ Size(graph) \in Nat /\ IsFiniteSet(Kept)
         /\ \A k \in Kept : k \in 1 .. Len(file) /\ file[k][3] \in Nat
<1>1. Nodes = Places(graph)
  BY DEF Nodes, Places
<1>2. IsGraph(graph) /\ Named(graph, Kept) /\ OnlyEnds(graph, Kept) /\ Members(graph, Kept)
      /\ (loader.attributes => Counts(graph, Kept))
  BY DEF LoadInv, GraphInv, Keeps, Holds
<1>3. Size(graph) \in Nat
  BY <1>2, PlacesFinite
<1>4. file \in Seq(Nat \X Nat \X Nat) /\ Len(file) \in Nat
  BY DEF LoadInv, InputsInv
<1>5. \A k \in Kept : k \in 1 .. Len(file)
  <2>1. Kept = KeptOf(LinesRead) /\ LinesRead \in 0 .. Len(file)
    BY <1>4, KeptIs DEF LinesRead, LoadInv, PhaseInv
  <2> QED
    BY <1>4, <2>1 DEF KeptOf
<1>6. Kept \in SUBSET (1 .. Len(file)) /\ IsFiniteSet(1 .. Len(file))
  BY <1>4, <1>5, FS_Interval
<1>7. IsFiniteSet(Kept)
  BY <1>6, FS_Subset
<1>8. \A k \in Kept : file[k][3] \in Nat
  <2> SUFFICES ASSUME NEW k \in Kept PROVE file[k][3] \in Nat
    OBVIOUS
  <2>1. k \in 1 .. Len(file)
    BY <1>5
  <2>2. InputsInv
    BY DEF LoadInv
  <2> QED
    BY <2>1, <2>2, LineTypes
<1> QED
  BY <1>1, <1>2, <1>3, <1>5, <1>7, <1>8

LEMMA IdsInverseKept == LoadInv => IdsInverse
<1> SUFFICES ASSUME LoadInv PROVE IdsInverse
  OBVIOUS
<1> DEFINE n == Size(graph)
           ids == graph.extern_ids
<1>1. /\ Nodes = Places(graph) /\ IsGraph(graph) /\ Named(graph, Kept) /\ OnlyEnds(graph, Kept)
      /\ n \in Nat /\ Places(graph) = 0 .. n - 1
  BY LoadNames DEF Places
<1>2. LoadTypeOK
  <2>1. loader \in Loaders /\ phase \in Phases /\ pos \in Nat
        /\ num_edges \in Nat /\ max_nbrhood_size \in Nat
    BY DEF LoadInv, InputsInv, PhaseInv, CountsInv
  <2>2. \A rows \in {graph.out, graph.in, graph.out_attr, graph.in_attr} : DOMAIN rows = Nodes
    BY <1>1 DEF IsGraph
  <2>3. ASSUME NEW u \in Nodes PROVE ToSet(graph.out[u]) \cup ToSet(graph.in[u]) \subseteq Nodes
    <3> DEFINE P == Places(graph)
    <3>1. graph.out[u] \in Seq(P) /\ graph.in[u] \in Seq(P)
      BY <1>1, PlacesFinite
    <3> HIDE DEF P
    <3>2. \A v : v \notin P => v \notin ToSet(graph.out[u]) /\ v \notin ToSet(graph.in[u])
      BY <3>1, NotInRow
    <3> QED
      BY <1>1, <3>2 DEF P
  <2>4. loader.attributes =>
          \A u \in Nodes : /\ Len(graph.out_attr[u]) = Len(graph.out[u])
                           /\ Len(graph.in_attr[u]) = Len(graph.in[u])
    BY <1>1 DEF IsGraph
  <2>5. cursor \in 0 .. Len(binary)
    <3>1. CASE phase \in {"written", "copied"}
      <4>1. cursor = 1 + Reach(Size(copy)) /\ Size(copy) \in 0 .. Size(graph)
            /\ binary = <<Size(graph)>> \o FlattenSeq(Records)
        BY <3>1 DEF LoadInv, BinaryInv, CopyInv
      <4>2. Len(binary) = 1 + Reach(Size(graph))
        BY <1>1, <4>1, BinaryHolds DEF InBinary
      <4> DEFINE a == Reach(Size(copy))
                 b == Reach(Size(graph))
      <4>3. a \in Nat /\ b \in Nat /\ a <= b
        BY <1>1, <4>1, ReachFacts
      <4> HIDE DEF a, b
      <4>4. 1 + a \in 0 .. 1 + b
        BY <4>3
      <4> QED
        BY <4>1, <4>2, <4>4 DEF a, b
    <3>2. CASE phase \notin {"written", "copied"}
      <4>1. cursor = 0 /\ binary = << >>
        BY <3>2 DEF LoadInv, BinaryInv, NoCopy
      <4> QED
        BY <4>1
    <3> QED
      BY <3>1, <3>2
  <2> QED
    BY <2>1, <2>2, <2>3, <2>4, <2>5 DEF LoadTypeOK, Phases
<1>3. DOMAIN ids = UNION {{file[k][1], file[k][2]} : k \in Kept}
  <2>1. \A k \in Kept : file[k][1] \in DOMAIN ids /\ file[k][2] \in DOMAIN ids
    BY <1>1 DEF Named
  <2>2. \A x \in DOMAIN ids : \E k \in Kept : x \in {file[k][1], file[k][2]}
    BY <1>1 DEF OnlyEnds
  <2> DEFINE E == {{file[k][1], file[k][2]} : k \in Kept}
  <2>3. \A k \in Kept : {file[k][1], file[k][2]} \in E
    OBVIOUS
  <2>4. \A e \in E : \E k \in Kept : e = {file[k][1], file[k][2]}
    OBVIOUS
  <2> HIDE DEF ids, E
  <2>5. DOMAIN ids \subseteq UNION E
    BY <2>2, <2>3
  <2>6. UNION E \subseteq DOMAIN ids
    BY <2>1, <2>4
  <2> QED
    BY <2>5, <2>6 DEF E
<1>4. \A x \in DOMAIN ids : graph.id_map[ids[x] + 1] = x
  BY <1>1 DEF Named
<1>5. Cardinality(DOMAIN ids) = n
  <2> DEFINE s == graph.id_map
             T == DOMAIN ids
  <2>1. \A x \in T : ids[x] \in 0 .. n - 1
    BY <1>1 DEF IsGraph
  <2>2. \A u \in 0 .. n - 1 : s[u + 1] \in T /\ ids[s[u + 1]] = u
    BY <1>1 DEF Named
  <2>3. s = [p \in 1 .. n |-> s[p]]
    BY <1>1 DEF IsGraph, Size
  <2>4. \A x \in T : s[ids[x] + 1] = x
    BY <1>4
  <2> HIDE DEF s, T, ids, n
  <2>5. \A p \in 1 .. n : p - 1 \in 0 .. n - 1 /\ (p - 1) + 1 = p
    BY <1>1 DEF n
  <2>6. n \in Nat
    BY <1>1 DEF n
  <2>7. \A p \in 1 .. n : s[p] \in T /\ ids[s[p]] = p - 1
    BY <2>2, <2>5
  <2>8. s \in [1 .. n -> T]
    BY <2>3, <2>7
  <2>9. ASSUME NEW p \in 1 .. n, NEW q \in 1 .. n, s[p] = s[q] PROVE p = q
    BY <2>6, <2>7, <2>9
  <2>10. ASSUME NEW x \in T PROVE \E p \in 1 .. n : s[p] = x
    <3>1. ids[x] + 1 \in 1 .. n
      BY <2>1, <2>6
    <3> QED
      BY <2>4, <3>1
  <2>11. Cardinality(T) = n
    BY ONLY <2>6, <2>8, <2>9, <2>10, WithoutRepetition
  <2> QED
    BY <2>11 DEF T
<1> QED
  BY <1>2, <1>3, <1>4, <1>5 DEF IdsInverse

\* At every moment of loading every vector has a row for each node, the table of
\* external ids and id_map are inverses of each other, and the nodes are the ends of
\* the lines that count, numbered without a gap.
THEOREM IdsInverseHolds == LoadSpec => []IdsInverse
<1>1. LoadInv => IdsInverse
  BY IdsInverseKept
<1> QED
  BY <1>1, LoadInvariance, PTL
-----------------------------------------------------------------------------
LEMMA FromIs ==
  ASSUME LoadInv, NEW u, NEW v
  PROVE  /\ From(u, v) = Joins(graph, Kept, u, v, Nat)
         /\ From(u, v) # {} <=> Joined(graph, Kept, u, v)
<1>1. \A k \in Kept : file[k][3] \in Nat
  BY LoadNames
<1>2. From(u, v) = Joins(graph, Kept, u, v, Nat)
  BY <1>1 DEF From, Joins
<1> QED
  BY <1>2 DEF Joined

LEMMA EdgesKeptKept == LoadInv => EdgesKept
<1> SUFFICES ASSUME LoadInv, NEW u \in Nodes, NEW v \in Nodes
             PROVE  v \in ToSet(graph.out[u]) <=>
                      From(u, v) # {} \/ (loader.symmetric /\ From(v, u) # {})
  BY DEF EdgesKept
<1>1. Members(graph, Kept) /\ u \in Places(graph) /\ v \in Places(graph)
  BY LoadNames
<1>2. (From(u, v) # {} <=> Joined(graph, Kept, u, v))
      /\ (From(v, u) # {} <=> Joined(graph, Kept, v, u))
  BY FromIs
<1> QED
  BY <1>1, <1>2 DEF Members

\* By external ids the out rows hold the edges of the lines that count, and those
\* reversed when the graph is undirected, through reading, sorting and the erasing of
\* duplicates.
THEOREM EdgesKeptHolds == LoadSpec => []EdgesKept
<1>1. LoadInv => EdgesKept
  BY EdgesKeptKept
<1> QED
  BY <1>1, LoadInvariance, PTL
-----------------------------------------------------------------------------
LEMMA OccurrencesAre ==
  ASSUME NEW row, NEW attr, NEW v, NEW year
  PROVE  Occurrences(row, attr, v, year) = Copies(row, attr, v, {year})
<1>1. \A j \in 1 .. Len(row) : attr[j] \in {year} <=> attr[j] = year
  OBVIOUS
<1> QED
  BY <1>1 DEF Occurrences, Copies, Stands

LEMMA YearsNat ==
  ASSUME LoadInv, NEW year \in Years
  PROVE  {year} \in SUBSET Nat
<1>1. PICK k \in 1 .. Len(file) : year = file[k][3]
  BY DEF Years
<1>2. InputsInv
  BY DEF LoadInv
<1>3. file[k][3] \in Nat
  BY <1>1, <1>2, LineTypes
<1> QED
  BY <1>1, <1>3

LEMMA TransposedKept == LoadInv => Transposed
<1> SUFFICES ASSUME LoadInv, NEW u \in Nodes, NEW v \in Nodes
             PROVE  /\ v \in ToSet(graph.out[u]) <=> u \in ToSet(In[v])
                    /\ loader.attributes =>
                         \A year \in Years :
                           Occurrences(graph.out[u], graph.out_attr[u], v, year)
                             = Occurrences(In[v], InAttr[v], u, year)
  BY DEF Transposed
<1>1. /\ Members(graph, Kept) /\ (loader.attributes => Counts(graph, Kept))
      /\ u \in Places(graph) /\ v \in Places(graph) /\ IsFiniteSet(Kept)
  BY LoadNames
<1>2. v \in ToSet(graph.out[u]) <=> u \in ToSet(In[v])
  <2>1. CASE loader.symmetric
    BY <1>1, <2>1 DEF Members, In
  <2>2. CASE ~loader.symmetric
    BY <1>1, <2>2 DEF Members, In
  <2> QED
    BY <2>1, <2>2
<1>3. ASSUME loader.attributes, NEW year \in Years
      PROVE  Occurrences(graph.out[u], graph.out_attr[u], v, year)
               = Occurrences(In[v], InAttr[v], u, year)
  <2>1. {year} \in SUBSET Nat
    BY YearsNat
  <2>2. CopiesAre(graph, Kept, u, v, {year}) /\ CopiesAre(graph, Kept, v, u, {year})
    BY <1>1, <1>3, <2>1 DEF Counts
  <2>3. Uses(graph, Kept, u, v, {year}) \in Nat /\ Uses(graph, Kept, v, u, {year}) \in Nat
    BY <1>1, JoinsFinite
  <2>4. Copies(graph.out[u], graph.out_attr[u], v, {year}) = Copies(In[v], InAttr[v], u, {year})
    <3>1. CASE loader.symmetric
      <4>1. In = graph.out /\ InAttr = graph.out_attr
        BY <3>1 DEF In, InAttr
      <4>2. Copies(graph.out[u], graph.out_attr[u], v, {year}) =
              Uses(graph, Kept, u, v, {year}) + Uses(graph, Kept, v, u, {year})
        BY <2>2, <3>1 DEF CopiesAre
      <4>3. Copies(graph.out[v], graph.out_attr[v], u, {year}) =
              Uses(graph, Kept, v, u, {year}) + Uses(graph, Kept, u, v, {year})
        BY <2>2, <3>1 DEF CopiesAre
      <4> QED
        BY <2>3, <4>1, <4>2, <4>3
    <3>2. CASE ~loader.symmetric
      <4>1. In = graph.in /\ InAttr = graph.in_attr
        BY <3>2 DEF In, InAttr
      <4> QED
        BY <2>2, <3>2, <4>1 DEF CopiesAre
    <3> QED
      BY <3>1, <3>2
  <2> QED
    BY <2>4, OccurrencesAre
<1> QED
  BY <1>2, <1>3

\* The in rows are the out rows transposed, edge for edge and year for year when there
\* are attributes; in an undirected graph every edge is in the rows of both its ends.
THEOREM TransposedHolds == LoadSpec => []Transposed
<1>1. LoadInv => Transposed
  BY TransposedKept
<1> QED
  BY <1>1, LoadInvariance, PTL
-----------------------------------------------------------------------------
LEMMA AttributesFollowKept == LoadInv => AttributesFollow
<1> SUFFICES ASSUME LoadInv, loader.attributes PROVE AttributesFollow
  BY DEF AttributesFollow
<1>1. /\ Nodes = Places(graph) /\ Counts(graph, Kept)
  BY LoadNames
<1>2. ASSUME NEW u \in Nodes, NEW v \in Nodes, NEW year \in Years
      PROVE  Occurrences(graph.out[u], graph.out_attr[u], v, year) =
               Cardinality({k \in From(u, v) : file[k][3] = year})
                 + (IF loader.symmetric
                    THEN Cardinality({k \in From(v, u) : file[k][3] = year}) ELSE 0)
  <2>1. {year} \in SUBSET Nat
    BY YearsNat
  <2>2. CopiesAre(graph, Kept, u, v, {year})
    BY <1>1, <2>1 DEF Counts
  <2>3. ASSUME NEW a, NEW b
        PROVE  Uses(graph, Kept, a, b, {year}) = Cardinality({k \in From(a, b) : file[k][3] = year})
    <3>1. From(a, b) = Joins(graph, Kept, a, b, Nat)
      BY FromIs
    <3>2. Joins(graph, Kept, a, b, {year}) = {k \in From(a, b) : file[k][3] = year}
      BY <2>1, <3>1 DEF Joins
    <3> QED
      BY <3>2 DEF Uses
  <2>4. Uses(graph, Kept, u, v, {year}) \in Nat
    BY LoadNames, JoinsFinite
  <2>5. Copies(graph.out[u], graph.out_attr[u], v, {year}) =
          Uses(graph, Kept, u, v, {year})
            + (IF loader.symmetric THEN Uses(graph, Kept, v, u, {year}) ELSE 0)
    <3>1. CASE loader.symmetric
      BY <2>2, <3>1 DEF CopiesAre
    <3>2. CASE ~loader.symmetric
      BY <2>2, <2>4, <3>2 DEF CopiesAre
    <3> QED
      BY <3>1, <3>2
  <2> QED
    BY <2>3, <2>5, OccurrencesAre
<1>3. ASSUME Complete, NEW u \in Nodes
      PROVE  graph.node_attr[u] =
               IF {k \in 1 .. Len(node_file) : node_file[k][1] = graph.id_map[u + 1]} = {} THEN 0
               ELSE node_file[Max({k \in 1 .. Len(node_file) :
                                     node_file[k][1] = graph.id_map[u + 1]})][2]
  <2>1. phase # "edges" /\ NodeLines = Len(node_file)
    BY <1>3 DEF Complete, NodeLines
  <2>2. graph.node_attr[u] = LastGiven(graph, u, Len(node_file))
    BY <1>1, <2>1 DEF LoadInv, NodeAttrInv
  <2> QED
    BY <2>2 DEF LastGiven, Given
<1> QED
  BY <1>2, <1>3 DEF AttributesFollow

\* An edge keeps the year of its line through the sorting of its row, and a node has
\* the last attribute given for it, 0 if there is none.
THEOREM AttributesFollowHolds == LoadSpec => []AttributesFollow
<1>1. LoadInv => AttributesFollow
  BY AttributesFollowKept
<1> QED
  BY <1>1, LoadInvariance, PTL
-----------------------------------------------------------------------------
LEMMA RoundTripKept == LoadInv => RoundTrip
<1> SUFFICES ASSUME LoadInv, phase = "copied" PROVE RoundTrip
  BY DEF RoundTrip
<1> DEFINE n == Size(graph)
<1>1. /\ Nodes = Places(graph) /\ IsGraph(graph) /\ n \in Nat
      /\ Places(graph) = 0 .. n - 1
  BY LoadNames DEF Places
<1>2. /\ CopyInv /\ binary = <<n>> \o FlattenSeq(Records)
      /\ cursor = 1 + Reach(Size(copy)) /\ Size(copy) = n
  BY DEF LoadInv, BinaryInv
<1>3. cursor = Len(binary)
  BY <1>1, <1>2, BinaryHolds DEF InBinary
<1>4. copy.id_map = graph.id_map
  <2>1. copy.id_map \in Seq(Nat) /\ Len(copy.id_map) = n
        /\ \A k \in 1 .. n : copy.id_map[k] = graph.id_map[k]
    BY <1>2 DEF CopyInv, Size
  <2>2. graph.id_map \in Seq(Nat) /\ Len(graph.id_map) = n
    BY <1>1 DEF IsGraph, Size
  <2> HIDE DEF n
  <2> QED
    BY <2>1, <2>2
<1>5. /\ copy.out = [u \in 0 .. n - 1 |-> graph.out[u]]
      /\ ~loader.symmetric => copy.in = [u \in 0 .. n - 1 |-> graph.in[u]]
  BY <1>2 DEF CopyInv
<1>6. graph.out = [u \in 0 .. n - 1 |-> graph.out[u]]
      /\ graph.in = [u \in 0 .. n - 1 |-> graph.in[u]]
  BY <1>1 DEF IsGraph
<1>7. copy.out = graph.out /\ (loader.symmetric \/ copy.in = graph.in)
  BY <1>5, <1>6
<1>8. copy_num_edges >= Total(graph.out)
  <2>1. Total(graph.out) = SumFunctionOnSet(Lengths(graph.out, Places(graph)), 0 .. n - 1)
    BY <1>1 DEF Total, Lengths
  <2>2. Total(graph.out) <= copy_num_edges /\ copy_num_edges \in Nat
    BY <1>2, <2>1 DEF CopyInv
  <2>3. Total(graph.out) \in Nat
    BY <1>1, RowTotalNat DEF Total, RowTotal
  <2> QED
    BY <2>2, <2>3
<1>9. ASSUME NEW u \in Nodes
      PROVE  Len(graph.out[u]) <= copy_max_nbrhood_size /\ Len(In[u]) <= copy_max_nbrhood_size
  <2>1. /\ Len(graph.out[u]) <= copy_max_nbrhood_size
        /\ ~loader.symmetric => Len(graph.in[u]) <= copy_max_nbrhood_size
    BY <1>1, <1>2 DEF CopyInv
  <2> QED
    BY <2>1 DEF In
<1> QED
  BY <1>3, <1>4, <1>7, <1>8, <1>9 DEF RoundTrip

\* What is written to a binary file and read from it again has the same ids and rows,
\* and the counts that are taken while reading suffice.
THEOREM RoundTripHolds == LoadSpec => []RoundTrip
<1>1. LoadInv => RoundTrip
  BY RoundTripKept
<1> QED
  BY <1>1, LoadInvariance, PTL
-----------------------------------------------------------------------------
\* A finite set has at most one element if and only if any two are the same.
LEMMA AtMostOne ==
  ASSUME NEW S, IsFiniteSet(S), \A a, b \in S : a = b
  PROVE  Cardinality(S) <= 1
<1>1. CASE S = {}
  BY <1>1, FS_EmptySet
<1>2. CASE S # {}
  <2>1. PICK a \in S : TRUE
    BY <1>2
  <2>2. S = {a}
    BY <2>1
  <2>3. Cardinality(S) = 1
    BY <2>2, FS_Singleton
  <2> QED
    BY <2>3
<1> QED
  BY <1>1, <1>2

LEMMA OnlyOne ==
  ASSUME NEW S, IsFiniteSet(S), Cardinality(S) <= 1, NEW a \in S, NEW b \in S
  PROVE  a = b
<1>1. /\ IsFiniteSet(S \ {a}) /\ Cardinality(S) \in Nat
      /\ Cardinality(S \ {a}) = Cardinality(S) - 1 /\ Cardinality(S \ {a}) \in Nat
  BY FS_RemoveElement, FS_CardinalityType
<1>2. Cardinality(S \ {a}) = 0
  BY <1>1
<1>3. S \ {a} = {}
  BY <1>1, <1>2, FS_EmptySet
<1> QED
  BY <1>3

\* A row in order in which nothing stands twice increases.
LEMMA StrictRow ==
  ASSUME NEW T, T \subseteq Int, NEW row \in Seq(T), NEW attr \in Seq(Nat),
         Len(attr) = Len(row), Ordered(row), \A v \in T : Copies(row, attr, v, Nat) <= 1
  PROVE  Strict(row)
<1> SUFFICES ASSUME NEW p \in 1 .. Len(row), NEW q \in 1 .. Len(row), p < q
             PROVE  row[p] < row[q]
  BY DEF Strict
<1>1. row[p] \in T /\ row[q] \in T /\ attr[p] \in Nat /\ attr[q] \in Nat /\ Len(row) \in Nat
  OBVIOUS
<1>2. row[p] <= row[q]
  BY DEF Ordered
<1>3. row[p] # row[q]
  <2> SUFFICES ASSUME row[p] = row[q] PROVE FALSE
    OBVIOUS
  <2> DEFINE S == Stands(row, attr, row[p], Nat)
  <2>1. p \in S /\ q \in S
    BY <1>1 DEF Stands
  <2>2. IsFiniteSet(S) /\ Cardinality(S) <= 1
    BY <1>1, StandsFinite DEF Copies
  <2> HIDE DEF S
  <2>3. p = q
    BY <2>1, <2>2, OnlyOne
  <2> QED
    BY <2>3
<1>4. row[p] \in Int /\ row[q] \in Int
  BY <1>1
<1> QED
  BY <1>2, <1>3, <1>4

\* Without self-loops, an undirected graph with attributes has one edge between two
\* nodes; so has a directed one without repeated lines, in each direction.
LEMMA UndirectedOnce ==
  ASSUME LoadInv, loader.symmetric, loader.attributes,
         \A k \in 1 .. Len(file) : file[k][1] # file[k][2],
         NEW u \in Places(graph), NEW v \in Places(graph)
  PROVE  Uses(graph, Kept, u, v, Nat) + Uses(graph, Kept, v, u, Nat) <= 1
<1> DEFINE A == Joins(graph, Kept, u, v, Nat)
           B == Joins(graph, Kept, v, u, Nat)
<1>1. IsFiniteSet(Kept) /\ \A k \in Kept : k \in 1 .. Len(file)
  BY LoadNames
<1>2. \A j, k \in Kept : j # k => EndIds(j) # EndIds(k)
  <2> SUFFICES ASSUME NEW j \in Kept, NEW k \in Kept, j < k PROVE EndIds(j) # EndIds(k)
    <3>1. \A j \in Kept : j \in Int
      BY <1>1
    <3>2. \A j, k \in Kept : j # k => j < k \/ k < j
      BY <3>1
    <3> QED
      BY <3>2
  <2>1. Kept = KeptOf(LinesRead)
    BY KeptIs
  <2>2. j \in Int /\ k \in Int /\ j \in 1 .. Len(file)
    BY <1>1
  <2>3. j \in 1 .. k - 1
    BY <2>2
  <2>4. \A m \in 1 .. k - 1 : EndIds(m) # EndIds(k)
    BY <2>1 DEF KeptOf
  <2> QED
    BY <2>3, <2>4
<1>3. \A j, k \in A \cup B : j = k
  <2> SUFFICES ASSUME NEW j \in A \cup B, NEW k \in A \cup B PROVE EndIds(j) = EndIds(k)
    BY <1>2 DEF Joins
  <2> QED
    BY DEF Joins, EndIds
<1>4. A \cap B = {}
  <2> SUFFICES ASSUME NEW k \in A, k \in B PROVE FALSE
    OBVIOUS
  <2>1. file[k][1] = graph.id_map[u + 1] /\ file[k][2] = graph.id_map[v + 1]
        /\ file[k][1] = graph.id_map[v + 1] /\ k \in 1 .. Len(file)
    BY <1>1 DEF Joins
  <2> QED
    BY <2>1
<1>5. IsFiniteSet(A) /\ IsFiniteSet(B)
  BY <1>1, JoinsFinite
<1> HIDE DEF A, B
<1>6. IsFiniteSet(A \cup B) /\ Cardinality(A \cup B) = Cardinality(A) + Cardinality(B)
  BY <1>4, <1>5, DisjointUnion
<1>7. Cardinality(A \cup B) <= 1
  BY <1>3, <1>6, AtMostOne
<1> QED
  BY <1>6, <1>7 DEF Uses, A, B

LEMMA DirectedOnce ==
  ASSUME LoadInv,
         \A j, k \in 1 .. Len(file) :
           j # k => ~(file[j][1] = file[k][1] /\ file[j][2] = file[k][2]),
         NEW u \in Places(graph), NEW v \in Places(graph)
  PROVE  Uses(graph, Kept, u, v, Nat) <= 1
<1> DEFINE A == Joins(graph, Kept, u, v, Nat)
<1>1. IsFiniteSet(Kept) /\ \A k \in Kept : k \in 1 .. Len(file)
  BY LoadNames
<1>2. \A j, k \in A : j = k
  BY <1>1 DEF Joins
<1>3. IsFiniteSet(A)
  BY <1>1, JoinsFinite
<1>4. Cardinality(A) <= 1
  BY <1>2, <1>3, AtMostOne
<1> QED
  BY <1>4 DEF Uses

LEMMA ReadyToBuildKept == LoadInv => ReadyToBuild
<1> SUFFICES ASSUME LoadInv, Complete PROVE ReadyToBuild
  BY DEF ReadyToBuild, RowsAreSets, CountsSuffice
<1> DEFINE P == Places(graph)
<1>1. /\ Nodes = P /\ IsGraph(graph) /\ Size(graph) \in Nat /\ P \subseteq Int
      /\ P = 0 .. Size(graph) - 1
  BY LoadNames DEF Places
<1>2. RowsDone = Size(graph)
  BY DEF Complete, RowsDone
<1>3. /\ num_edges \in Nat
      /\ \A u \in P : /\ Len(graph.out[u]) <= max_nbrhood_size
                      /\ Len(graph.in[u]) <= max_nbrhood_size
                      /\ Ordered(graph.out[u]) /\ Ordered(graph.in[u])
      /\ loader.symmetric => num_edges = SumFunctionOnSet(Lengths(graph.out, P), P)
      /\ ~loader.symmetric => /\ RowTotal(graph, graph.out) <= num_edges
                              /\ RowTotal(graph, graph.in) <= num_edges
  BY <1>1, <1>2 DEF LoadInv, CountsInv
<1>4. RowsAreSets
  <2> SUFFICES ASSUME loader.attributes =>
                        IF loader.symmetric
                        THEN ~\E k \in 1 .. Len(file) : file[k][1] = file[k][2]
                        ELSE ~\E j, k \in 1 .. Len(file) :
                                j # k /\ file[j][1] = file[k][1] /\ file[j][2] = file[k][2],
                      NEW u \in P
               PROVE  Strict(graph.out[u]) /\ Strict(In[u])
    BY <1>1 DEF RowsAreSets
  <2>1. CASE ~loader.attributes
    <3>1. Strict(graph.out[u]) /\ Strict(graph.in[u])
      BY <1>3, <2>1 DEF Ordered, Strict
    <3> QED
      BY <3>1 DEF In
  <2>2. CASE loader.attributes
    <3>1. /\ graph.out[u] \in Seq(P) /\ graph.in[u] \in Seq(P)
          /\ graph.out_attr[u] \in Seq(Nat) /\ graph.in_attr[u] \in Seq(Nat)
      BY <1>1, PlacesFinite
    <3>2. /\ Len(graph.out_attr[u]) = Len(graph.out[u])
          /\ Len(graph.in_attr[u]) = Len(graph.in[u])
      BY <1>1, <2>2 DEF IsGraph
    <3>3. Ordered(graph.out[u]) /\ Ordered(graph.in[u])
      BY <1>3
    <3>4. \A v \in P : CopiesAre(graph, Kept, u, v, Nat)
      BY <2>2, LoadNames DEF Counts
    <3> HIDE DEF P
    <3>5. CASE loader.symmetric
      <4>1. \A k \in 1 .. Len(file) : file[k][1] # file[k][2]
        BY <2>2, <3>5
      <4>2. \A v \in P : Copies(graph.out[u], graph.out_attr[u], v, Nat) <= 1
        BY <2>2, <3>4, <3>5, <4>1, UndirectedOnce DEF CopiesAre, P
      <4>3. Strict(graph.out[u])
        BY <1>1, <3>1, <3>2, <3>3, <4>2, StrictRow
      <4> QED
        BY <3>5, <4>3 DEF In
    <3>6. CASE ~loader.symmetric
      <4>1. \A j, k \in 1 .. Len(file) :
              j # k => ~(file[j][1] = file[k][1] /\ file[j][2] = file[k][2])
        BY <2>2, <3>6
      <4>2. \A v \in P : Uses(graph, Kept, u, v, Nat) <= 1 /\ Uses(graph, Kept, v, u, Nat) <= 1
        BY <4>1, DirectedOnce DEF P
      <4>3. \A v \in P : /\ Copies(graph.out[u], graph.out_attr[u], v, Nat) <= 1
                         /\ Copies(graph.in[u], graph.in_attr[u], v, Nat) <= 1
        BY <3>4, <3>6, <4>2 DEF CopiesAre
      <4>4. Strict(graph.out[u])
        BY <1>1, <3>1, <3>2, <3>3, <4>3, StrictRow
      <4>5. Strict(graph.in[u])
        BY <1>1, <3>1, <3>2, <3>3, <4>3, StrictRow
      <4> QED
        BY <3>6, <4>4, <4>5 DEF In
    <3> QED
      BY <3>5, <3>6
  <2> QED
    BY <2>1, <2>2
<1>5. CountsSuffice
  <2>1. \A u \in P : Len(graph.out[u]) <= max_nbrhood_size /\ Len(In[u]) <= max_nbrhood_size
    BY <1>3 DEF In
  <2>2. /\ Total(graph.out) = RowTotal(graph, graph.out)
        /\ Total(graph.in) = RowTotal(graph, graph.in)
    BY <1>1 DEF Total, RowTotal
  <2>3. Total(graph.out) <= num_edges /\ Total(In) <= num_edges
    <3>1. CASE loader.symmetric
      <4>1. Total(graph.out) = num_edges
        BY <1>1, <1>3, <3>1 DEF Total, Lengths
      <4>2. Total(graph.out) <= num_edges
        BY <1>3, <4>1
      <4> QED
        BY <3>1, <4>2 DEF In
    <3>2. CASE ~loader.symmetric
      BY <1>3, <2>2, <3>2 DEF In
    <3> QED
      BY <3>1, <3>2
  <2> QED
    BY <1>1, <2>1, <2>3 DEF CountsSuffice
<1> QED
  BY <1>4, <1>5 DEF ReadyToBuild

\* A loaded graph is fit for the construction of a matrix: its rows increase, except
\* where a loader with attributes keeps duplicates, no row is longer than
\* max_nbrhood_size, and num_edges is as large as the rows are together.
THEOREM ReadyToBuildHolds == LoadSpec => []ReadyToBuild
<1>1. LoadInv => ReadyToBuild
  BY ReadyToBuildKept
<1> QED
  BY <1>1, LoadInvariance, PTL
=============================================================================
