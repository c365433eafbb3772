------------------------------- MODULE Counting -------------------------------
(***************************************************************************)
(* The applications that count in one parallel loop over the nodes:        *)
(* undirected_triangle_counting, undirected_lollipop_counting,             *)
(* similar_nodes and symbiosity.  A body counts into a local variable and  *)
(* adds it to its thread's element of t_count; the teardown callbacks add  *)
(* these to the number that is printed.                                    *)
(*                                                                         *)
(* The first two iterate a row inside the body, the second also iterates   *)
(* a result in the thread's buffer, and reads rows that may be decoded     *)
(* into two other buffers.  The last two intersect once per node.  An      *)
(* intersection is what SortedIntersect shows it to be, the loop is        *)
(* ParallelFor, and the rows are those that SparseMatrixBuild packs.       *)
(***************************************************************************)
EXTENDS NodeLoop

CONSTANTS Inputs,      \* records: the application, whether the graph is symmetric,
                       \* its edges <<u, v>>, its number of nodes, and whether rows
                       \* are compressed (COMPRESSION of common.hpp)
          N            \* the threshold of similar_nodes, 10 in the code

ASSUME CountingAssumption ==
  /\ N \in Nat
  /\ \A g \in Inputs :
       /\ g.app \in {"triangles", "lollipops", "similar", "symbiotic"}
       /\ g.nodes \in 0 .. MaxNodes
       /\ g.edges \subseteq (0 .. g.nodes - 1) \X (0 .. g.nodes - 1)
       /\ g.symmetric => \A e \in g.edges : <<e[2], e[1]>> \in g.edges
       /\ g.compressed \in BOOLEAN

VARIABLES
  input,
  buffers,                    \* per thread, the contents of its three buffers
  visit,                      \* per thread, how many elements of the row and of the
                              \* result it has visited; result is -1 between results
  local_count,                \* t_num_triangles and the like
  t_count, count

vars == <<loopVars, input, buffers, visit, local_count, t_count, count>>

Garbage == 99       \* the elements of t_count before they are set

OutEdges(u) == {v \in Node : <<u, v>> \in input.edges}

\* The matrix holds the selected edges; triangles are counted on those that lead to
\* a smaller node.  The columns of a symmetric graph are its rows.
get_row(u) ==
  IF input.app = "triangles" THEN {v \in OutEdges(u) : v < u} ELSE OutEdges(u)

get_column(u) ==
  IF input.symmetric THEN get_row(u) ELSE {v \in Node : <<v, u>> \in input.edges}

\* The first of the nodes with the longest row.
get_max_row_id ==
  CHOOSE u \in Node : \A v \in Node :
    \/ Cardinality(get_row(v)) < Cardinality(get_row(u))
    \/ Cardinality(get_row(v)) = Cardinality(get_row(u)) /\ u <= v

Init ==
  /\ Loop!Init
  /\ input \in Inputs
  /\ from = 0 /\ to = input.nodes
  /\ workers = Min({numThreads, to + 1})     \* blocks of one index; 20 or 100 in the code
  /\ buffers = [k \in Tid |-> [y |-> << >>, z |-> << >>, r |-> << >>]]
  /\ visit = [k \in Tid |-> [row |-> 0, result |-> -1]]
  /\ local_count = [k \in Tid |-> 0]
  /\ t_count = [k \in Tid |-> Garbage]
  /\ count = 0
-----------------------------------------------------------------------------
SetUp ==
  /\ Loop!SetUp
  /\ t_count' = [t_count EXCEPT ![prepared] = 0]
  /\ UNCHANGED <<input, buffers, visit, local_count, count>>

Take(k, u) ==
  /\ Loop!Take(k, u)
  /\ UNCHANGED <<input, buffers, visit, local_count, t_count, count>>

Iterating == input.app \in {"triangles", "lollipops"}

\* A buffer after row u has been asked for: a compressed row is decoded into it.
Decoded(u, buffer) == IF input.compressed THEN Increasing(get_row(u)) ELSE buffer

\* The elements of the row of u, which lie in the buffer if they were decoded.
RowOf(u, buffer) == IF input.compressed THEN buffer ELSE Increasing(get_row(u))

\* The body for node u begins: its counter is zero and its row is fetched.
Begin(k, u) ==
  /\ Loop!Begin(k, u)
  /\ local_count' = [local_count EXCEPT ![k] = 0]
  /\ visit' = [visit EXCEPT ![k] = [row |-> 0, result |-> -1]]
  /\ buffers' = [buffers EXCEPT ![k].y = Decoded(u, @)]
  /\ UNCHANGED <<input, t_count, count>>

CurrentRow(k, u) == RowOf(u, buffers[k].y)
AtElement(k, u) == visit[k].row < Len(CurrentRow(k, u))

\* An element j of the row of i: the triangles that it closes are counted by one
\* intersection.
CountTriangles(k, i) ==
  LET j == CurrentRow(k, i)[visit[k].row + 1]
  IN  /\ input.app = "triangles"
      /\ <<k, i>> \in running /\ AtElement(k, i)
      /\ local_count' = [local_count EXCEPT ![k] =
           @ + Cardinality(get_row(i) \cap get_row(j))]
      /\ visit' = [visit EXCEPT ![k].row = @ + 1]
      /\ UNCHANGED <<loopVars, input, buffers, t_count, count>>

\* Faults of IntersectRow: the second row is decoded into the buffer of the first,
\* or the threads share the buffer of the results.
IntersectRow_SameBuffer(k, x) ==
  LET y == CurrentRow(k, x)[visit[k].row + 1]
      ys == Decoded(y, buffers[k].y)
      result == ToSet(RowOf(x, ys)) \cap ToSet(RowOf(y, ys))
  IN  buffers' = [buffers EXCEPT ![k].y = ys, ![k].r = Increasing(result)]

IntersectRow_SharedResult(k, x) ==
  LET y == CurrentRow(k, x)[visit[k].row + 1]
  IN  buffers' = [j \in Tid |->
        [buffers[j] EXCEPT !.r = Increasing(get_row(x) \cap get_row(y))]]

\* For the element y reached in the row of x, the neighbours of both are written to
\* the thread's buffer.
IntersectRow(k, x) ==
  LET ys == CurrentRow(k, x)
      y == ys[visit[k].row + 1]
      zs == Decoded(y, buffers[k].z)
      result == ToSet(ys) \cap ToSet(RowOf(y, zs))
  IN  buffers' = [buffers EXCEPT ![k].z = zs, ![k].r = Increasing(result)]

\* The next y of the row of x: rs is computed, and will be iterated.
StartResult(k, x) ==
  /\ input.app = "lollipops"
  /\ <<k, x>> \in running /\ AtElement(k, x)
  /\ visit[k].result = -1
  /\ IntersectRow(k, x)
  /\ visit' = [visit EXCEPT ![k].result = 0]
  /\ UNCHANGED <<loopVars, input, local_count, t_count, count>>

\* An element z of rs: with y it makes as many lollipops as x has neighbours.
VisitResult(k, x) ==
  LET ys == CurrentRow(k, x)
      y == ys[visit[k].row + 1]
      z == buffers[k].r[visit[k].result + 1]
  IN  /\ <<k, x>> \in running
      /\ visit[k].result \in 0 .. Len(buffers[k].r) - 1
      /\ local_count' = [local_count EXCEPT ![k] = IF z < y THEN @ + Len(ys) ELSE @]
      /\ visit' = [visit EXCEPT ![k].result = @ + 1]
      /\ UNCHANGED <<loopVars, input, buffers, t_count, count>>

EndResult(k, x) ==
  /\ <<k, x>> \in running
  /\ visit[k].result = Len(buffers[k].r)
  /\ visit' = [visit EXCEPT ![k] = [row |-> @.row + 1, result |-> -1]]
  /\ UNCHANGED <<loopVars, input, buffers, local_count, t_count, count>>

\* A node is similar to the one with the longest row if they have more than N
\* neighbours in common.
IsSimilar(u) == Cardinality(get_row(get_max_row_id) \cap get_row(u)) > N

\* A node is symbiotic if more than half of its neighbours, in either direction, are
\* neighbours in both.  Without neighbours the ratio is not a number, nor larger.
IsSymbiotic(u) ==
  LET A == get_row(u)
      B == get_column(u)
      num_in_out == Cardinality(A \cap B)
  IN  2 * num_in_out > Cardinality(A) + Cardinality(B) - num_in_out

Counted(u) ==
  IF (input.app = "similar" /\ IsSimilar(u)) \/ (input.app = "symbiotic" /\ IsSymbiotic(u))
  THEN 1 ELSE 0

\* The body ends: what it has counted is added to its thread's count.
End(k, u) ==
  /\ Loop!End(k, u)
  /\ Iterating => ~AtElement(k, u)
  /\ t_count' = [t_count EXCEPT ![k] = @ + local_count[k] + Counted(u)]
  /\ UNCHANGED <<input, buffers, visit, local_count, count>>

TearDown ==
  /\ Loop!TearDown
  /\ count' = count + t_count[released]
  /\ UNCHANGED <<input, buffers, visit, local_count, t_count>>

Terminated == released = numThreads /\ UNCHANGED vars

Next ==
  \/ SetUp
  \/ \E k \in Tid, u \in AllNodes :
       \/ Take(k, u) \/ Begin(k, u) \/ CountTriangles(k, u)
       \/ StartResult(k, u) \/ VisitResult(k, u) \/ EndResult(k, u) \/ End(k, u)
  \/ TearDown
  \/ Terminated

Spec == Init /\ [][Next]_vars
-----------------------------------------------------------------------------
\* What is counted, as tuples of nodes: triangles from the largest node to the
\* smallest; triangles x, y, z with a path from x to any neighbour w; nodes.
Adjacent(u, v) == <<u, v>> \in input.edges

Mutual(u) == {v \in Node : Adjacent(u, v) /\ Adjacent(v, u)}
Either(u) == {v \in Node : Adjacent(u, v) \/ Adjacent(v, u)}

Hub ==
  LET Degree(u) == Cardinality(OutEdges(u))
  IN  Min({u \in Node : \A v \in Node : Degree(v) <= Degree(u)})

Figures ==
  CASE input.app = "triangles" ->
         {t \in Node \X Node \X Node :
            /\ t[1] > t[2] /\ t[2] > t[3]
            /\ Adjacent(t[1], t[2]) /\ Adjacent(t[2], t[3]) /\ Adjacent(t[1], t[3])}
    [] input.app = "lollipops" ->
         {t \in Node \X Node \X Node \X Node :
            /\ t[2] > t[3] /\ Adjacent(t[1], t[4])
            /\ Adjacent(t[1], t[2]) /\ Adjacent(t[2], t[3]) /\ Adjacent(t[1], t[3])}
    [] input.app = "similar" ->
         {<<u>> : u \in {v \in Node : Cardinality(OutEdges(Hub) \cap OutEdges(v)) > N}}
    [] input.app = "symbiotic" ->
         {<<u>> : u \in {v \in Node : 2 * Cardinality(Mutual(v)) > Cardinality(Either(v))}}

\* How many elements of a set of nodes lie before v.
Rank(v, S) == Cardinality({u \in S : u < v})

\* A figure has been counted when its first node's body has returned, or has passed
\* its second node, or its third in the result for the second.
Passed(t) ==
  \/ t[1] \in completed
  \/ \E k \in Tid :
       /\ Iterating
       /\ <<k, t[1]>> \in running
       /\ LET before == Rank(t[2], get_row(t[1]))
          IN  \/ before < visit[k].row
              \/ /\ before = visit[k].row
                 /\ Rank(t[3], get_row(t[1]) \cap get_row(t[2])) < visit[k].result

TypeOK ==
  /\ \A k \in Tid :
       /\ visit[k].row \in 0 .. to /\ visit[k].result \in -1 .. to
       /\ \A b \in {"y", "z", "r"} : buffers[k][b] \in Seq(Node)
  /\ local_count \in [Tid -> Nat] /\ t_count \in [Tid -> Nat] /\ count \in Nat

\* At every moment the counts of the bodies, the threads and the total add up to the
\* figures passed so far: none is lost or counted twice, whichever thread finds it
\* and whenever it is added.  After the last teardown the number printed is that of
\* the figures in the graph.
CountedSoFar ==
  LET live == released .. prepared - 1
      busy == {r[1] : r \in running}
  IN  count + SumFunctionOnSet(t_count, live) + SumFunctionOnSet(local_count, busy)
        = Cardinality({t \in Figures : Passed(t)})

\* The variables have their types; a row and a result stay what they are while they
\* are iterated, whatever is decoded or intersected meanwhile by this thread or another.
RowsIntact ==
  /\ TypeOK
  /\ \A k \in Tid, x \in Node :
       Iterating /\ <<k, x>> \in running =>
         /\ CurrentRow(k, x) = Increasing(get_row(x))
         /\ visit[k].result >= 0 =>
              buffers[k].r =
                Increasing(get_row(x) \cap get_row(CurrentRow(k, x)[visit[k].row + 1]))

==============================================================================
