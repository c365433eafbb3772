-------------------------------- MODULE NPath --------------------------------
(***************************************************************************)
(* n_path::run, the parallel breadth-first search of apps/n_path.cpp.      *)
(* In each round the nodes of the frontier are dealt out to the workers of *)
(* a parallel loop; worker k adds the row of each of its nodes to its own  *)
(* bitset vis_bufs[k].  The calling thread then merges the bitsets of the  *)
(* workers pairwise into vis_bufs[0], adds that to visited, and takes the  *)
(* nodes that are new as the next frontier.  The bitsets of the workers    *)
(* are never cleared.                                                      *)
(*                                                                         *)
(* Sets are modelled by their elements; the loop keeps the promises of     *)
(* ParallelFor: a node is visited once, by one of the workers.             *)
(***************************************************************************)
EXTENDS Threads, FiniteSets

CONSTANTS Node,        \* internal ids
          Graphs,      \* graphs considered, sets of edges <<n, m>>
          MaxDepth     \* largest query_depth considered

ASSUME NPathAssumption ==
  /\ IsFiniteSet(Node)
  /\ \A g \in Graphs : g \subseteq Node \X Node
  /\ MaxThreads \in Nat \ {0}
  /\ MaxDepth \in Nat

VARIABLES
  graph, internal_start, num_threads, query_depth,  \* inputs
  stage,                            \* where the calling thread is
  visited, old_visited, frontier, vis_bufs, path_length,
  expanded,                         \* nodes of the frontier the loop has dealt with
  workers_used,                     \* real_num_threads of the code
  left_to_merge, merge_i            \* merge_i is i of the merge loops

inputs == <<graph, internal_start, num_threads, query_depth>>
pathVars == <<graph, internal_start, num_threads, query_depth, stage, visited,
          old_visited, frontier, vis_bufs, path_length, expanded,
          workers_used, left_to_merge, merge_i>>

\* Fault of get_row: the column of n is read instead.
get_row_Column(n) == {m \in Node : <<m, n>> \in graph}

get_row(n) == {m \in Node : <<n, m>> \in graph}

\* The number of workers par_foreach uses, and returns, for a frontier of
\* size nodes: its blocks hold size / num_threads + 1 of them.
Workers(size) ==
  Minimum((size \div ((size \div num_threads) + 1)) + 1, num_threads)

PathInit ==
  /\ graph \in Graphs
  /\ num_threads \in 1 .. MaxThreads
  /\ query_depth \in 0 .. MaxDepth
  /\ stage = "copy"
  /\ internal_start \in Node
  /\ visited = {internal_start}
  /\ frontier = {internal_start}
  /\ old_visited = {}
  /\ vis_bufs = [k \in Tid |-> {}]
  /\ path_length = 0
  /\ expanded = {}
  /\ workers_used = 1
  /\ left_to_merge = 1
  /\ merge_i = 0

-----------------------------------------------------------------------------
\* Fault of CopyVisited: old_visited keeps what it held at the start.
CopyVisited_Once ==
  /\ stage = "copy"
  /\ old_visited' = IF path_length = 0 THEN visited ELSE old_visited
  /\ workers_used' = Workers(Cardinality(frontier))
  /\ stage' = "expand"
  /\ UNCHANGED <<inputs, visited, frontier, vis_bufs, path_length, expanded,
                 left_to_merge, merge_i>>

\* old_visited.copy_from(visited), and entry into frontier.par_foreach.
CopyVisited ==
  /\ stage = "copy"
  /\ old_visited' = visited
  /\ workers_used' = Workers(Cardinality(frontier))
  /\ stage' = "expand"
  /\ UNCHANGED <<inputs, visited, frontier, vis_bufs, path_length, expanded,
                 left_to_merge, merge_i>>

\* Worker k runs the body of the loop for node n.
Visit(k, n) ==
  /\ stage = "expand"
  /\ k < workers_used
  /\ n \in frontier \ expanded
  /\ vis_bufs' = [vis_bufs EXCEPT ![k] = @ \cup get_row(n)]
  /\ expanded' = expanded \cup {n}
  /\ UNCHANGED <<inputs, stage, visited, old_visited, frontier, path_length,
                 workers_used, left_to_merge, merge_i>>

\* par_foreach returns when every node has been dealt with.
LoopDone ==
  /\ stage = "expand"
  /\ expanded = frontier
  /\ expanded' = {}
  /\ left_to_merge' = workers_used
  /\ merge_i' = 0
  /\ stage' = "merge"
  /\ UNCHANGED <<inputs, visited, old_visited, frontier, vis_bufs, path_length,
                 workers_used>>

\* One iteration of the inner merge loop: the i-th bitset absorbs the i-th last.
MergePair ==
  /\ stage = "merge"
  /\ left_to_merge > 1
  /\ merge_i < left_to_merge \div 2
  /\ vis_bufs' = [vis_bufs EXCEPT ![merge_i] = @ \cup vis_bufs[left_to_merge - merge_i - 1]]
  /\ merge_i' = merge_i + 1
  /\ UNCHANGED <<inputs, stage, visited, old_visited, frontier, path_length,
                 expanded, workers_used, left_to_merge>>

\* Fault of MergeRound: the middle bitset of an odd number is forgotten.
MergeRound_DropsOdd ==
  /\ stage = "merge"
  /\ left_to_merge > 1
  /\ merge_i >= left_to_merge \div 2
  /\ left_to_merge' = left_to_merge \div 2
  /\ merge_i' = 0
  /\ UNCHANGED <<inputs, stage, visited, old_visited, frontier, vis_bufs,
                 path_length, expanded, workers_used>>

\* The end of the inner loop.
MergeRound ==
  /\ stage = "merge"
  /\ left_to_merge > 1
  /\ merge_i >= left_to_merge \div 2
  /\ left_to_merge' = (left_to_merge \div 2) + (left_to_merge % 2)
  /\ merge_i' = 0
  /\ UNCHANGED <<inputs, stage, visited, old_visited, frontier, vis_bufs,
                 path_length, expanded, workers_used>>

\* set_union(&visited, vis_bufs[0])
MergeVisited ==
  /\ stage = "merge"
  /\ left_to_merge <= 1
  /\ visited' = visited \cup vis_bufs[0]
  /\ stage' = "difference"
  /\ UNCHANGED <<inputs, old_visited, frontier, vis_bufs, path_length, expanded,
                 workers_used, left_to_merge, merge_i>>

\* Faults of NextFrontier: nodes seen in earlier rounds are kept, or the depth is
\* tested after one more level.
NextFrontier_Revisits ==
  LET next == vis_bufs[0]
      stop == next = {} \/ path_length >= query_depth
  IN  /\ stage = "difference"
      /\ frontier' = next
      /\ stage' = IF stop THEN "stop" ELSE "copy"
      /\ path_length' = IF stop THEN path_length ELSE path_length + 1
      /\ UNCHANGED <<inputs, visited, old_visited, vis_bufs, expanded,
                     workers_used, left_to_merge, merge_i>>

NextFrontier_TooDeep ==
  LET next == visited \ old_visited
      stop == next = {} \/ path_length > query_depth
  IN  /\ stage = "difference"
      /\ frontier' = next
      /\ stage' = IF stop THEN "stop" ELSE "copy"
      /\ path_length' = IF stop THEN path_length ELSE path_length + 1
      /\ UNCHANGED <<inputs, visited, old_visited, vis_bufs, expanded,
                     workers_used, left_to_merge, merge_i>>

\* frontier = visited \ old_visited, and the test that ends the search.
NextFrontier ==
  LET next == visited \ old_visited
      stop == next = {} \/ path_length >= query_depth
  IN  /\ stage = "difference"
      /\ frontier' = next
      /\ stage' = IF stop THEN "stop" ELSE "copy"
      /\ path_length' = IF stop THEN path_length ELSE path_length + 1
      /\ UNCHANGED <<inputs, visited, old_visited, vis_bufs, expanded,
                     workers_used, left_to_merge, merge_i>>

PathTerminated == stage = "stop" /\ UNCHANGED pathVars

Main ==
  \/ CopyVisited \/ LoopDone \/ MergePair \/ MergeRound
  \/ MergeVisited \/ NextFrontier

PathNext == Main \/ (\E k \in Tid, n \in Node : Visit(k, n)) \/ PathTerminated

SafePathSpec == PathInit /\ [][PathNext]_pathVars

\* The caller runs on, and the loop finishes its nodes (ParForRange).
PathFairness == WF_pathVars(Main) /\ WF_pathVars(\E k \in Tid, n \in Node : Visit(k, n))

PathSpec == SafePathSpec /\ PathFairness
-----------------------------------------------------------------------------
PathTypeOK ==
  /\ graph \in Graphs
  /\ internal_start \in Node
  /\ num_threads \in 1 .. MaxThreads
  /\ query_depth \in 0 .. MaxDepth
  /\ stage \in {"copy", "expand", "merge", "difference", "stop"}
  /\ visited \subseteq Node
  /\ old_visited \subseteq Node
  /\ frontier \subseteq Node
  /\ vis_bufs \in [Tid -> SUBSET Node]
  /\ path_length \in 0 .. query_depth
  /\ expanded \subseteq frontier
  /\ workers_used \in 1 .. num_threads
  /\ left_to_merge \in 1 .. num_threads
  /\ merge_i \in 0 .. num_threads

Neighbors(S) == {m \in Node : \E n \in S : <<n, m>> \in graph}

\* Nothing a worker found is lost on the way to vis_bufs[0], for every number of
\* workers: before the merge every node found is in the bitset of some worker,
\* during it in one of the bitsets that are still to be merged, after it in
\* visited.
NothingLost ==
  /\ stage = "expand" =>
       \A m \in Neighbors(expanded) :
         \E k \in 0 .. workers_used - 1 : m \in vis_bufs[k]
  /\ stage = "merge" =>
       \A m \in Neighbors(frontier) :
         \E k \in 0 .. left_to_merge - merge_i - 1 : m \in vis_bufs[k]
  /\ stage = "difference" => Neighbors(frontier) \subseteq visited

\* The bitsets are not cleared between rounds; what is left in them, also in
\* those of workers the current round does not use, is harmless because it has
\* been visited or will be in this round.
OnlyNeighborsFound ==
  \A k \in Tid :
    vis_bufs[k] \subseteq
      visited \cup (IF stage = "expand" THEN Neighbors(expanded)
                    ELSE IF stage = "merge" THEN Neighbors(frontier) ELSE {})

\* The nodes within d edges of internal_start, the reference for the two
\* properties below.
Ball ==
  LET ball[d \in Nat] ==
        IF d = 0 THEN {internal_start} ELSE ball[d - 1] \cup Neighbors(ball[d - 1])
  IN  ball

\* At the start of each round the frontier is a level of the graph: the nodes at
\* distance path_length from the start, no nearer and no farther, and visited
\* holds everything up to that distance.
FrontierIsLevel ==
  stage = "copy" =>
    /\ visited = Ball[path_length]
    /\ frontier = Ball[path_length] \
         (IF path_length = 0 THEN {} ELSE Ball[path_length - 1])

\* path_length, the answer of the program, is the distance of the farthest
\* node that can be reached, cut off at query_depth.
PathLengthIsDistance ==
  LET grows(d) == Ball[d + 1] # Ball[d]
  IN  stage = "stop" =>
        /\ \A d \in 0 .. path_length - 1 : grows(d)
        /\ path_length = query_depth \/ ~grows(path_length)

\* The parallel search does what the sequential one does, round for round, and
\* ends if that one does.  In a round visited grows before the frontier changes.
Sequential == INSTANCE BreadthFirst WITH
  visited <- IF stage = "difference" THEN old_visited ELSE visited,
  finished <- stage = "stop"

ImplementsBreadthFirst == Sequential!Spec
==============================================================================
