------------------------------- MODULE Reorder -------------------------------
(***************************************************************************)
(* The reorderings of an undirected MutableGraph: each computes new2old_ids,*)
(* a sequence of nodes, and reassign_ids renumbers the graph with it.      *)
(* reorder_bfs and reorder_strong_run build the sequence in loops, which   *)
(* are modelled; the others sort or shuffle 0 .. num_nodes - 1.            *)
(*                                                                         *)
(* A neighbourhood is a sorted array without duplicates, so it is modelled *)
(* by the set of its elements, taken in increasing order.                  *)
(***************************************************************************)
EXTENDS SortedSets

CONSTANTS Graphs,           \* out_neighborhoods of the graphs considered
          MaxReorderings    \* how many reorderings are applied

\* What the loaders produce from an edge list: an undirected graph whose nodes
\* are the ends of its edges.
Loadable(g) ==
  /\ DOMAIN g # {} /\ IsFiniteSet(DOMAIN g)
  /\ DOMAIN g = 0 .. Cardinality(DOMAIN g) - 1
  /\ \A u \in DOMAIN g : g[u] # {} /\ g[u] \subseteq DOMAIN g
  /\ \A u \in DOMAIN g : \A v \in g[u] : u \in g[v]

ASSUME ReorderAssumption ==
  /\ \A g \in Graphs : Loadable(g)
  /\ MaxReorderings \in Nat

VARIABLES
  hood, id_map,             \* the graph
  loaded,                   \* its edges when it was loaded, by external ids
  stage,                    \* the loop running, or "idle"
  then_degree,              \* reorder_by_the_game: order by degree afterwards
  tmp_new2old,              \* the order in which the loop takes nodes to start from
  new2old,                  \* new2old_ids so far
  visited,
  cur_level, next_level,    \* of reorder_bfs
  i,                        \* position in cur_level, or in tmp_new2old
  bfs_i,                    \* the next start to try
  reorderings               \* how many have been applied

graphVars == <<hood, id_map, loaded>>
levelVars == <<cur_level, next_level, bfs_i>>
vars == <<hood, id_map, loaded, stage, then_degree, tmp_new2old, new2old, visited,
          cur_level, next_level, i, bfs_i, reorderings>>

Node == DOMAIN hood
num_nodes == Cardinality(Node)

\* The edges by external ids: what must survive a renumbering.
Edges ==
  {<<id_map[e[1]], id_map[e[2]]>> :
     e \in {x \in Node \X Node : x[2] \in hood[x[1]]}}

\* common::range and a shuffle of it.
Orders == {o \in [1 .. num_nodes -> Node] : ToSet(o) = Node}

\* The orders std::sort may produce with a given comparison: it is not stable.
Sorted(Less(_, _)) ==
  {o \in Orders : \A p, q \in 1 .. num_nodes : p < q => ~Less(o[q], o[p])}

OrderNeighborhoodByDegree(u, v) ==
  LET du == Cardinality(hood[u])  dv == Cardinality(hood[v])
  IN  IF du = dv THEN u < v ELSE du > dv

OrderNeighborhoodByRevDegree(u, v) == Cardinality(hood[u]) < Cardinality(hood[v])

Init ==
  /\ hood \in Graphs
  /\ id_map = [u \in Node |-> u]
  /\ loaded = Edges
  /\ stage = "idle"
  /\ then_degree = FALSE
  /\ tmp_new2old = << >>
  /\ new2old = << >>
  /\ visited = {}
  /\ cur_level = << >>
  /\ next_level = << >>
  /\ i = 0
  /\ bfs_i = 0
  /\ reorderings = 0

-----------------------------------------------------------------------------
\* The vector of zeroes in which new2old_ids is inverted.
OldToNew(order) ==
  [u \in Node |-> LET at == {p \in Node : order[p + 1] = u}
                  IN  IF at = {} THEN 0 ELSE Max(at)]

\* Fault of Renumber: the ids stay behind.
Renumber_KeepsIds(order) ==
  /\ hood' = [u \in Node |-> {OldToNew(order)[v] : v \in hood[order[u + 1]]}]
  /\ UNCHANGED id_map

\* The rows, their elements and the external ids move to their new places.
Renumber(order) ==
  /\ hood' = [u \in Node |-> {OldToNew(order)[v] : v \in hood[order[u + 1]]}]
  /\ id_map' = [u \in Node |-> id_map[order[u + 1]]]

\* reassign_ids reads num_nodes elements of its argument with at(), which throws
\* when there are fewer.
ReassignIds(order) ==
  /\ IF Len(order) < num_nodes
     THEN stage' = "aborted" /\ UNCHANGED <<hood, id_map, then_degree>>
     ELSE /\ Renumber(order)
          /\ stage' = IF then_degree THEN "degree" ELSE "idle"
          /\ then_degree' = FALSE
  /\ tmp_new2old' = << >> /\ new2old' = << >> /\ visited' = {}
  /\ cur_level' = << >> /\ next_level' = << >> /\ i' = 0 /\ bfs_i' = 0
  /\ reorderings' = reorderings + 1
  /\ UNCHANGED loaded

MayReorder == stage = "idle" /\ reorderings < MaxReorderings

reorder_random == MayReorder /\ \E order \in Orders : ReassignIds(order)

reorder_by_degree ==
  /\ MayReorder \/ stage = "degree"
  /\ \E order \in Sorted(OrderNeighborhoodByDegree) : ReassignIds(order)

reorder_by_rev_degree ==
  /\ MayReorder
  /\ \E order \in Sorted(OrderNeighborhoodByRevDegree) : ReassignIds(order)

\* Of each node the first neighbour in a random order, for every random order.
Shingles ==
  {[u \in Node |-> CHOOSE v \in hood[u] :
                     \A w \in hood[u] : ordering[v + 1] <= ordering[w + 1]] :
     ordering \in Orders}

\* Sort by the shingles under two random orders.
reorder_by_shingles ==
  /\ MayReorder
  /\ \E s1, s2 \in Shingles :
       LET Less(u, v) == s1[u] < s1[v] \/ (s1[u] = s1[v] /\ s2[u] < s2[v])
       IN  \E order \in Sorted(Less) : ReassignIds(order)

-----------------------------------------------------------------------------
\* Fault of Found: neighbours are numbered again.
Found_Again(u) == Increasing(hood[u])
\* The inner loop of reorder_bfs and reorder_strong_run: the neighbours of u that
\* have not been numbered, in order; both number and mark them.
Found(u) == Increasing(hood[u] \ visited)

NumberFound(u) ==
  /\ new2old' = new2old \o Found(u)
  /\ visited' = visited \cup ToSet(Found(u))
  /\ i' = i + 1

\* reorder_bfs up to its loop, alone or as the first half of reorder_by_the_game.
StartBfs(game) ==
  /\ MayReorder
  /\ \E order \in Orders :
       /\ tmp_new2old' = order
       /\ cur_level' = <<order[1]>>
       /\ new2old' = <<order[1]>>
       /\ visited' = {order[1]}
  /\ next_level' = << >>
  /\ i' = 0
  /\ bfs_i' = 1
  /\ then_degree' = game
  /\ stage' = "bfs"
  /\ UNCHANGED <<graphVars, reorderings>>

\* The loop's condition is read between two levels only.
InBfs == stage = "bfs" /\ (i > 0 \/ Len(new2old) # num_nodes)

\* One iteration of the loop over cur_level.
BfsExpand ==
  /\ InBfs
  /\ i < Len(cur_level)
  /\ NumberFound(cur_level[i + 1])
  /\ next_level' = next_level \o Found(cur_level[i + 1])
  /\ UNCHANGED <<graphVars, stage, then_degree, tmp_new2old, cur_level, bfs_i,
                 reorderings>>

\* The least position, from bfs_i on, whose node has not been visited.
NextStart ==
  Min({num_nodes} \cup
      {p \in bfs_i .. num_nodes - 1 : tmp_new2old[p + 1] \notin visited})

\* Fault of EnterLevel: a level is taken backwards.
EnterLevel_Reversed(level) ==
  cur_level' = Reverse(level) /\ next_level' = << >> /\ i' = 0

EnterLevel(level) == cur_level' = level /\ next_level' = << >> /\ i' = 0

\* Fault of BfsNextLevel: there is no restart in the next component.
BfsNextLevel_NoRestart ==
  /\ InBfs
  /\ i >= Len(cur_level)
  /\ EnterLevel(next_level)
  /\ UNCHANGED <<graphVars, stage, then_degree, tmp_new2old, new2old, visited, bfs_i,
                 reorderings>>

\* The end of the loop's body.  No next level: the component is exhausted, and the
\* next unvisited node of the shuffled order starts another.
BfsNextLevel ==
  /\ InBfs
  /\ i >= Len(cur_level)
  /\ IF Len(next_level) = 0 /\ Len(new2old) < num_nodes
     THEN LET start == tmp_new2old[NextStart + 1]
          IN  /\ EnterLevel(<<start>>)
              /\ new2old' = Append(new2old, start)
              /\ visited' = visited \cup {start}
              /\ bfs_i' = NextStart + 1
     ELSE EnterLevel(next_level) /\ UNCHANGED <<new2old, visited, bfs_i>>
  /\ UNCHANGED <<graphVars, stage, then_degree, tmp_new2old, reorderings>>

BfsDone ==
  /\ stage = "bfs"
  /\ i = 0
  /\ Len(new2old) = num_nodes
  /\ ReassignIds(new2old)

-----------------------------------------------------------------------------
\* reorder_strong_run up to its loop.
StartStrongRun ==
  /\ MayReorder
  /\ \E order \in Sorted(OrderNeighborhoodByDegree) : tmp_new2old' = order
  /\ new2old' = << >>
  /\ visited' = {}
  /\ i' = 0
  /\ stage' = "strong"
  /\ UNCHANGED <<graphVars, then_degree, levelVars, reorderings>>

\* One iteration of its loop.
StrongRunStep ==
  /\ stage = "strong"
  /\ i < num_nodes
  /\ NumberFound(tmp_new2old[i + 1])
  /\ UNCHANGED <<graphVars, stage, then_degree, tmp_new2old, levelVars, reorderings>>

StrongRunDone == stage = "strong" /\ i = num_nodes /\ ReassignIds(new2old)

-----------------------------------------------------------------------------
Loops ==
  \/ BfsExpand \/ BfsNextLevel \/ BfsDone \/ StrongRunStep \/ StrongRunDone
  \/ stage = "degree" /\ reorder_by_degree

Calls ==
  \/ reorder_random \/ reorder_by_degree \/ reorder_by_rev_degree
  \/ reorder_by_shingles \/ StartStrongRun
  \/ \E game \in BOOLEAN : StartBfs(game)

Finished ==
  /\ stage = "aborted" \/ (stage = "idle" /\ reorderings >= MaxReorderings)
  /\ UNCHANGED vars

Next == Calls \/ Loops \/ Finished

SafeSpec == Init /\ [][Next]_vars

\* A reordering that has started runs on.
Spec == SafeSpec /\ WF_vars(Loops)
-----------------------------------------------------------------------------
TypeOK ==
  /\ Loadable(hood)
  /\ id_map \in [Node -> Nat]
  /\ stage \in {"idle", "bfs", "strong", "degree", "aborted"}
  /\ then_degree \in BOOLEAN
  /\ tmp_new2old \in Orders \cup {<< >>}
  /\ new2old \in Seq(Node)
  /\ visited \subseteq Node
  /\ cur_level \in Seq(Node) /\ next_level \in Seq(Node)
  /\ i \in 0 .. num_nodes
  /\ bfs_i \in 0 .. num_nodes
  /\ reorderings \in Nat

\* Every reordering renames the nodes and nothing else: by external ids the edges
\* are the ones that were loaded, and no two nodes have the same external id.
SameGraph ==
  /\ Edges = loaded
  /\ \A u, v \in Node : id_map[u] = id_map[v] => u = v

\* The variables have their types, visited is what has been numbered and no node is
\* numbered twice.  While reorder_bfs looks for the next start there is one, so that
\* the index does not run off the end.
NumberedOnce ==
  /\ TypeOK
  /\ ToSet(new2old) = visited
  /\ \A p, q \in 1 .. Len(new2old) : new2old[p] = new2old[q] => p = q
  /\ stage = "bfs" /\ i >= Len(cur_level) /\ Len(next_level) = 0
       /\ Len(new2old) < num_nodes => NextStart < num_nodes

\* The position of the first neighbour of u that has been numbered.
FirstNeighbor(u) ==
  Min({Len(new2old) + 1} \cup {p \in 1 .. Len(new2old) : new2old[p] \in hood[u]})

\* Breadth-first order: of two nodes that were each found from a node numbered
\* before them, the one whose finder comes first is numbered first.
BreadthFirstOrder ==
  LET found == {p \in 1 .. Len(new2old) : FirstNeighbor(new2old[p]) < p}
  IN  stage = "bfs" =>
        \A p, q \in found :
          FirstNeighbor(new2old[p]) < FirstNeighbor(new2old[q]) => p < q

\* reorder_strong_run gives consecutive ids to the largest neighbourhood, the next
\* ones to what is new in the second largest, and so on.
LargestHoodsFirst ==
  LET upTo(p) == UNION {hood[tmp_new2old[q]] : q \in 1 .. p}
  IN  stage = "strong" =>
        \A p \in 1 .. i :
          ToSet(SubSeq(new2old, 1, Cardinality(upTo(p)))) = upTo(p)

\* The loops number the nodes in the orders that give them their names.
NumberingOrder == BreadthFirstOrder /\ LargestHoodsFirst

\* A reordering that has started ends, with every node numbered: reorder_bfs starts
\* again in every component, reorder_strong_run proceeds, as its comment says, until
\* the whole graph has been labeled.  Were a node left out, reassign_ids would throw.
ReorderingEnds == stage \in {"bfs", "strong", "degree"} ~> stage = "idle"
==============================================================================
