-------------------------- MODULE Applications_proofs --------------------------
(***************************************************************************)
(* Theorems about the applications that count, for any number of threads   *)
(* and any graphs, rows, thresholds and sizes of cliques.                  *)
(***************************************************************************)
EXTENDS Counting, NClique, FiniteFacts

LoopFacts == INSTANCE ParallelFor_proofs WITH MaxIndex <- MaxNodes

\* The types, with the functions' domains.
Shapes ==
  /\ input \in Inputs /\ from = 0 /\ to = input.nodes
  /\ visit \in [Tid -> [row : 0 .. to, result : -1 .. to]]
  /\ buffers \in [Tid -> [y : Seq(Node), z : Seq(Node), r : Seq(Node)]]
  /\ local_count \in [Tid -> Nat] /\ t_count \in [Tid -> Nat] /\ count \in Nat

\* The element of the row of x that thread k has reached, and the nodes that are
\* neighbours of both.
Reached(k, x) == Increasing(get_row(x))[visit[k].row + 1]
CommonRow(k, x) == get_row(x) \cap get_row(Reached(k, x))

\* A thread is within the row of its node, and within the result for the element that
\* it has reached.
Within(k, x) ==
  /\ Iterating => visit[k].row <= Cardinality(get_row(x))
  /\ visit[k].result >= 0 =>
       /\ input.app = "lollipops"
       /\ visit[k].row < Cardinality(get_row(x))
       /\ visit[k].result <= Cardinality(CommonRow(k, x))

\* The row and the result that it iterates are those of the graph.
Intact(k, x) ==
  Iterating =>
    /\ CurrentRow(k, x) = Increasing(get_row(x))
    /\ visit[k].result >= 0 => buffers[k].r = Increasing(CommonRow(k, x))

Bodies == \A k \in Tid, x \in Node : <<k, x>> \in running => Within(k, x) /\ Intact(k, x)

PassedFigures == {t \in Figures : Passed(t)}
Live == released .. prepared - 1
Busy == {r[1] : r \in running}

Counts ==
  /\ IsFiniteSet(PassedFigures)
  /\ count + SumFunctionOnSet(t_count, Live) + SumFunctionOnSet(local_count, Busy)
       = Cardinality(PassedFigures)

IInv == LoopFacts!LoopInv /\ Shapes /\ Bodies /\ Counts
-----------------------------------------------------------------------------
LEMMA LoopBounds == LoopFacts!Bounds
BY LoopAssumption DEF LoopFacts!Bounds

\* What the invariant of the loop says of the bodies.
LEMMA LoopPlaces ==
  ASSUME LoopFacts!LoopInv, from = 0
  PROVE  /\ to \in Nat /\ to <= MaxNodes /\ numThreads \in 1 .. MaxThreads
         /\ prepared \in 0 .. numThreads /\ released \in 0 .. numThreads
         /\ \A k \in Tid : pending[k] \subseteq Node
         /\ running \subseteq Tid \X Node /\ completed \subseteq Node
         /\ \A r \in running : r[1] < numThreads /\ r[2] \notin completed
         /\ \A r, q \in running : r[1] = q[1] \/ r[2] = q[2] => r = q
         /\ prepared < numThreads \/ running # {} => released = 0
         /\ running # {} => prepared = numThreads
<1> USE DEF LoopFacts!LoopInv
<1>1. /\ to \in Nat /\ to <= MaxNodes /\ numThreads \in 1 .. MaxThreads
      /\ prepared \in 0 .. numThreads /\ released \in 0 .. numThreads
      /\ workers \in 1 .. numThreads /\ unclaimed \in 0 .. to
  BY LoopBounds DEF LoopFacts!LoopTypes, LoopFacts!Bounds
<1>2. LoopFacts!Claimed \subseteq Node
  BY <1>1 DEF LoopFacts!Claimed, Node
<1>3. /\ \A k \in Tid : pending[k] \subseteq Node
      /\ running \subseteq Tid \X Node /\ completed \subseteq Node
  BY <1>2 DEF LoopFacts!LoopTypes, LoopFacts!Tid, Tid
<1>4. \A r \in running : r[1] < numThreads /\ r[2] \notin completed
  BY <1>1, <1>3, LoopAssumption DEF LoopFacts!Brackets, LoopFacts!OnePlace, Tid
<1>5. \A r, q \in running : r[1] = q[1] \/ r[2] = q[2] => r = q
  BY DEF LoopFacts!OnePlace
<1>6. running # {} => prepared = numThreads /\ released = 0
  <2> SUFFICES ASSUME running # {} PROVE prepared = numThreads /\ released = 0
    OBVIOUS
  <2>1. PICK r \in running : r[2] \in LoopFacts!Claimed
    BY DEF LoopFacts!LoopTypes
  <2>2. unclaimed # from
    BY <1>1, <2>1 DEF LoopFacts!Claimed
  <2>3. completed # from .. to - 1
    BY <1>3, <1>4, <2>1 DEF Node
  <2> QED
    BY <1>1, <2>2, <2>3 DEF LoopFacts!Brackets
<1>7. prepared < numThreads => released = 0
  BY <1>1 DEF LoopFacts!Brackets
<1> QED
  BY <1>1, <1>3, <1>4, <1>5, <1>6, <1>7

LEMMA SetsOfNodes ==
  ASSUME to \in Nat
  PROVE  /\ IsFiniteSet(Node) /\ Node \subseteq Nat
         /\ \A S \in SUBSET Node : IsFiniteSet(S) /\ Cardinality(S) \in 0 .. to
<1>1. IsFiniteSet(Node) /\ Cardinality(Node) = to
  BY FS_Interval DEF Node
<1>2. ASSUME NEW S \in SUBSET Node PROVE IsFiniteSet(S) /\ Cardinality(S) \in 0 .. to
  BY <1>1, FS_Subset, FS_CardinalityType
<1> QED
  BY <1>1, <1>2 DEF Node

LEMMA LoopState ==
  ASSUME LoopFacts!LoopInv, Shapes
  PROVE  /\ to \in Nat /\ to <= MaxNodes /\ numThreads \in 1 .. MaxThreads
         /\ prepared \in 0 .. numThreads /\ released \in 0 .. numThreads
         /\ \A k \in Tid : pending[k] \subseteq Node
         /\ running \subseteq Tid \X Node /\ completed \subseteq Node
         /\ \A r \in running : r[1] < numThreads /\ r[2] \notin completed
         /\ \A r, q \in running : r[1] = q[1] \/ r[2] = q[2] => r = q
         /\ prepared < numThreads \/ running # {} => released = 0
         /\ running # {} => prepared = numThreads
<1>1. from = 0
  BY DEF Shapes
<1> QED
  BY ONLY <1>1, LoopFacts!LoopInv, LoopPlaces

LEMMA NodesFinite ==
  ASSUME Shapes
  PROVE  /\ to \in Nat /\ Node \subseteq Nat
         /\ \A S \in SUBSET Node : IsFiniteSet(S) /\ Cardinality(S) \in 0 .. to
<1>1. to \in Nat
  BY CountingAssumption DEF Shapes
<1> QED
  BY <1>1, SetsOfNodes

LEMMA RowOfNode == \A u : get_row(u) \subseteq Node
BY DEF get_row, OutEdges

\* The nodes of a set in order, and where each of them is.
LEMMA InOrder ==
  ASSUME Shapes, NEW S \in SUBSET Node
  PROVE  /\ Increasing(S) \in Seq(Node) /\ Len(Increasing(S)) = Cardinality(S)
         /\ Cardinality(S) \in 0 .. to
         /\ ToSet(Increasing(S)) = S
         /\ \A p \in 0 .. Cardinality(S) - 1 : Increasing(S)[p + 1] \in S
         /\ \A p \in 0 .. Cardinality(S) - 1, v \in S :
              Rank(v, S) = p <=> Increasing(S)[p + 1] = v
         /\ \A v \in S : Rank(v, S) \in 0 .. Cardinality(S) - 1
         /\ \A v : Rank(v, S) \in Nat
<1>1. IsFiniteSet(S) /\ S \subseteq Int /\ Cardinality(S) \in 0 .. to /\ to \in Nat
  BY NodesFinite
<1> DEFINE n == Cardinality(S)
           s == Increasing(S)
<1>2. n \in Nat
  BY <1>1
<1>3. \A v : Rank(v, S) = RankIn(S, v)
  BY DEF Rank, RankIn
<1>4. /\ s \in Seq(S) /\ Len(s) = n /\ ToSet(s) = S
      /\ \A p \in 1 .. n : s[p] \in S /\ RankIn(S, s[p]) = p - 1
      /\ \A v \in S : RankIn(S, v) + 1 \in 1 .. n /\ s[RankIn(S, v) + 1] = v
  BY <1>1, IncreasingPlaces
<1>5. \A v : Rank(v, S) \in Nat
  <2> TAKE v
  <2>1. {u \in S : u < v} \in SUBSET S
    OBVIOUS
  <2> QED
    BY <1>1, <2>1, NodesFinite DEF Rank
<1> HIDE DEF s, n
<1>6. s \in Seq(Node)
  BY <1>4
<1>7. ASSUME NEW v \in S PROVE Rank(v, S) \in 0 .. n - 1
  <2>1. Rank(v, S) \in Nat /\ Rank(v, S) + 1 \in 1 .. n
    BY <1>3, <1>4, <1>5
  <2> QED
    BY <1>2, <2>1
<1>8. ASSUME NEW p \in 0 .. n - 1 PROVE s[p + 1] \in S /\ Rank(s[p + 1], S) = p
  <2>1. p + 1 \in 1 .. n /\ (p + 1) - 1 = p
    BY <1>2
  <2> QED
    BY <1>3, <1>4, <2>1
<1>9. ASSUME NEW p \in 0 .. n - 1, NEW v \in S PROVE Rank(v, S) = p <=> s[p + 1] = v
  BY <1>3, <1>4, <1>8
<1> QED
  BY <1>1, <1>4, <1>5, <1>6, <1>7, <1>8, <1>9 DEF s, n

LEMMA RanksAreNumbers ==
  ASSUME Shapes
  PROVE  \A u, v, w, z : /\ Rank(v, get_row(u)) \in Nat
                         /\ Rank(z, get_row(u) \cap get_row(w)) \in Nat
<1>1. \A u, w : get_row(u) \in SUBSET Node /\ get_row(u) \cap get_row(w) \in SUBSET Node
  BY RowOfNode
<1>2. \A S \in SUBSET Node : \A v : Rank(v, S) \in Nat
  BY InOrder
<1> QED
  BY ONLY <1>1, <1>2
-----------------------------------------------------------------------------
\* What depends on the input only.
LEMMA InputKept ==
  ASSUME UNCHANGED <<input, to>>
  PROVE  /\ Node' = Node /\ Iterating' = Iterating /\ Figures' = Figures
         /\ \A u : get_row(u)' = get_row(u)
<1>1. Node' = Node /\ Iterating' = Iterating
  BY DEF Node, Iterating
<1>2. \A u : OutEdges(u)' = OutEdges(u)
  BY <1>1 DEF OutEdges
<1>3. \A u : get_row(u)' = get_row(u)
  BY <1>2 DEF get_row
<1>4. \A u : Mutual(u)' = Mutual(u) /\ Either(u)' = Either(u)
  BY <1>1 DEF Mutual, Either, Adjacent
<1>5. Hub' = Hub
  BY <1>1, <1>2 DEF Hub
<1>6. Figures' = Figures
  BY <1>1, <1>2, <1>4, <1>5 DEF Figures, Adjacent
<1> QED
  BY <1>1, <1>3, <1>6

LEMMA LoopKept == IInv /\ [Next]_vars => LoopFacts!LoopInv'
<1> SUFFICES ASSUME IInv, [Next]_vars PROVE LoopFacts!LoopInv'
  OBVIOUS
<1>1. [LoopFacts!Next]_(LoopFacts!vars)
  <2> USE DEF LoopFacts!Next, LoopFacts!SetUp, LoopFacts!Take, LoopFacts!Begin, LoopFacts!End,
              LoopFacts!TearDown, LoopFacts!Tid, LoopFacts!Index, LoopFacts!Idle, LoopFacts!args,
              LoopFacts!vars, Loop!args, loopVars, Tid, AllNodes
  <2>1. ASSUME SetUp PROVE LoopFacts!SetUp
    BY <2>1 DEF SetUp, Loop!SetUp
  <2>2. ASSUME NEW k \in Tid, NEW u \in AllNodes, Take(k, u) PROVE LoopFacts!Take(k, u)
    BY <2>2 DEF Take, Loop!Take, Loop!Idle
  <2>3. ASSUME NEW k \in Tid, NEW u \in AllNodes, Begin(k, u) PROVE LoopFacts!Begin(k, u)
    BY <2>3 DEF Begin, Loop!Begin
  <2>4. ASSUME NEW k \in Tid, NEW u \in AllNodes, End(k, u) PROVE LoopFacts!End(k, u)
    BY <2>4 DEF End, Loop!End
  <2>5. ASSUME TearDown PROVE LoopFacts!TearDown
    BY <2>5 DEF TearDown, Loop!TearDown
  <2>6. ASSUME NEW k \in Tid, NEW u \in AllNodes,
               CountTriangles(k, u) \/ StartResult(k, u) \/ VisitResult(k, u) \/ EndResult(k, u)
        PROVE  UNCHANGED LoopFacts!vars
    BY <2>6 DEF CountTriangles, StartResult, VisitResult, EndResult
  <2>7. CASE UNCHANGED vars
    BY <2>7 DEF vars
  <2>8. CASE Terminated
    BY <2>8 DEF Terminated, vars
  <2> QED
    BY <2>1, <2>2, <2>3, <2>4, <2>5, <2>6, <2>7, <2>8 DEF Next
<1> QED
  BY <1>1, LoopBounds, LoopFacts!LoopStep DEF IInv

\* A step of one body leaves the other threads' rows and results intact.
LEMMA BodiesKept ==
  ASSUME Bodies, UNCHANGED <<input, to>>, NEW k \in Tid, NEW x \in Node,
         \A h \in Tid : h # k => visit'[h] = visit[h] /\ buffers'[h] = buffers[h],
         running' \subseteq running \cup {<<k, x>>},
         \A u : <<k, u>> \in running' => u = x,
         <<k, x>> \in running' => Within(k, x)' /\ Intact(k, x)'
  PROVE  Bodies'
<1>1. /\ Node' = Node /\ Iterating' = Iterating
      /\ \A u : get_row(u)' = get_row(u)
  BY InputKept
<1>2. ASSUME NEW h \in Tid, NEW u \in Node, <<h, u>> \in running', h # k
      PROVE  Within(h, u)' /\ Intact(h, u)'
  <2>1. Within(h, u) /\ Intact(h, u)
    BY <1>2 DEF Bodies
  <2>2. visit'[h] = visit[h] /\ buffers'[h] = buffers[h]
    BY <1>2
  <2>3. Reached(h, u)' = Reached(h, u)
    BY <1>1, <2>2 DEF Reached
  <2>4. CommonRow(h, u)' = CommonRow(h, u)
    BY <1>1, <2>3 DEF CommonRow
  <2>5. CurrentRow(h, u)' = CurrentRow(h, u)
    BY <1>1, <2>2 DEF CurrentRow, RowOf
  <2>6. Within(h, u)'
    BY <1>1, <2>1, <2>2, <2>4 DEF Within
  <2>7. Intact(h, u)'
    BY <1>1, <2>1, <2>2, <2>4, <2>5 DEF Intact
  <2> QED
    BY <2>6, <2>7
<1> QED
  BY <1>1, <1>2 DEF Bodies, Tid
-----------------------------------------------------------------------------
\* A thread that has visited as much as v says is behind figure t.
Beyond(v, t) ==
  LET before == Rank(t[2], get_row(t[1]))
  IN  \/ before < v.row
      \/ /\ before = v.row
         /\ Rank(t[3], get_row(t[1]) \cap get_row(t[2])) < v.result

LEMMA PassedBy ==
  ASSUME NEW t
  PROVE  Passed(t) <=>
           \/ t[1] \in completed
           \/ Iterating /\ \E k \in Tid : <<k, t[1]>> \in running /\ Beyond(visit[k], t)
BY DEF Passed, Beyond

LEMMA PassedByNext ==
  ASSUME UNCHANGED <<input, to>>, NEW t
  PROVE  Passed(t)' <=>
           \/ t[1] \in completed'
           \/ Iterating /\ \E k \in Tid : <<k, t[1]>> \in running' /\ Beyond(visit'[k], t)
<1>1. Iterating' = Iterating /\ \A u : get_row(u)' = get_row(u)
  BY InputKept
<1>2. \A v, S : Rank(v, S)' = Rank(v, S)
  BY DEF Rank
<1> QED
  BY <1>1, <1>2 DEF Passed, Beyond, Rank, Tid

LEMMA FiguresPassedNext ==
  ASSUME UNCHANGED <<input, to>>
  PROVE  \A t : t \in PassedFigures' <=> t \in Figures /\ Passed(t)'
<1>1. Figures' = Figures
  BY InputKept
<1> QED
  BY <1>1 DEF PassedFigures

\* The threads that run, and those that have been set up and not torn down.
LEMMA Threads ==
  ASSUME LoopFacts!LoopInv, Shapes
  PROVE  /\ IsFiniteSet(Live) /\ IsFiniteSet(Busy)
         /\ Live \subseteq Tid /\ Busy \subseteq Tid /\ Busy \subseteq Live
<1>1. /\ numThreads \in 1 .. MaxThreads /\ MaxThreads \in Nat
      /\ prepared \in 0 .. numThreads /\ released \in 0 .. numThreads
      /\ running \subseteq Tid \X Node
      /\ \A r \in running : r[1] < numThreads
      /\ running # {} => prepared = numThreads /\ released = 0
  BY LoopState, LoopAssumption
<1>2. IsFiniteSet(Tid)
  BY <1>1, FS_Interval DEF Tid
<1>3. Live \subseteq Tid /\ Busy \subseteq Tid
  BY <1>1 DEF Live, Busy, Tid
<1>4. Busy \subseteq Live
  BY <1>1 DEF Live, Busy, Tid
<1> QED
  BY <1>2, <1>3, <1>4, FS_Subset

\* In a step of the body of node x, the figures that begin with x count as passed when
\* the thread that runs it gets beyond them; for the others nothing changes.
LEMMA OneBodyPasses ==
  ASSUME LoopFacts!LoopInv, Shapes, UNCHANGED <<input, to, running, completed>>, Iterating,
         NEW k \in Tid, NEW x \in Node, <<k, x>> \in running,
         \A h \in Tid : h # k => visit'[h] = visit[h],
         NEW t
  PROVE  /\ t[1] # x => (Passed(t)' <=> Passed(t))
         /\ t[1] = x => /\ Passed(t) <=> Beyond(visit[k], t)
                        /\ Passed(t)' <=> Beyond(visit'[k], t)
<1>1. /\ x \notin completed
      /\ \A h \in Tid : \A u : <<h, u>> \in running => (h = k <=> u = x)
  <2>1. <<k, x>>[2] \notin completed
    BY LoopState
  <2>2. ASSUME NEW h \in Tid, NEW u, <<h, u>> \in running PROVE h = k <=> u = x
    <3>1. <<h, u>>[1] = <<k, x>>[1] \/ <<h, u>>[2] = <<k, x>>[2] => <<h, u>> = <<k, x>>
      BY <2>2, LoopState
    <3> QED
      BY <3>1
  <2> QED
    BY <2>1, <2>2
<1>2. Passed(t) <=>
        \/ t[1] \in completed
        \/ Iterating /\ \E h \in Tid : <<h, t[1]>> \in running /\ Beyond(visit[h], t)
  BY PassedBy
<1>3. Passed(t)' <=>
        \/ t[1] \in completed
        \/ Iterating /\ \E h \in Tid : <<h, t[1]>> \in running /\ Beyond(visit'[h], t)
  BY PassedByNext
<1>4. ASSUME t[1] # x PROVE Passed(t)' <=> Passed(t)
  <2>1. \A h \in Tid : <<h, t[1]>> \in running => visit'[h] = visit[h]
    BY <1>1, <1>4
  <2> QED
    BY <1>2, <1>3, <2>1
<1>5. ASSUME t[1] = x
      PROVE  (Passed(t) <=> Beyond(visit[k], t)) /\ (Passed(t)' <=> Beyond(visit'[k], t))
  BY <1>1, <1>2, <1>3, <1>5
<1> QED
  BY <1>4, <1>5

\* Such a step keeps the counts if the thread counts the figures it passes.
LEMMA OneBodyCounts ==
  ASSUME LoopFacts!LoopInv, Shapes, Counts, Iterating,
         UNCHANGED <<input, to, running, completed, prepared, released, t_count, count>>,
         NEW k \in Tid, NEW x \in Node, <<k, x>> \in running,
         \A h \in Tid : h # k => visit'[h] = visit[h],
         NEW New, IsFiniteSet(New), New \subseteq Figures,
         \A t \in Figures :
           /\ t \in New => t[1] = x /\ ~Beyond(visit[k], t)
           /\ t[1] = x => (Beyond(visit'[k], t) <=> Beyond(visit[k], t) \/ t \in New),
         local_count' = [local_count EXCEPT ![k] = @ + Cardinality(New)]
  PROVE  Counts'
<1>1. \A t : t \in PassedFigures' <=> t \in PassedFigures \cup New
  <2> TAKE t
  <2>1. /\ t[1] # x => (Passed(t)' <=> Passed(t))
        /\ t[1] = x => (Passed(t) <=> Beyond(visit[k], t)) /\ (Passed(t)' <=> Beyond(visit'[k], t))
    BY OneBodyPasses
  <2>2. t \in PassedFigures' <=> t \in Figures /\ Passed(t)'
    BY FiguresPassedNext
  <2>3. t \in PassedFigures <=> t \in Figures /\ Passed(t)
    BY DEF PassedFigures
  <2> QED
    BY <2>1, <2>2, <2>3
<1>2. PassedFigures' = PassedFigures \cup New
  BY <1>1
<1>3. PassedFigures \cap New = {}
  <2> SUFFICES ASSUME NEW t \in New, Passed(t) PROVE FALSE
    BY DEF PassedFigures
  <2>1. t[1] = x => (Passed(t) <=> Beyond(visit[k], t))
    BY OneBodyPasses
  <2> QED
    BY <2>1
<1>4. /\ IsFiniteSet(PassedFigures')
      /\ Cardinality(PassedFigures') = Cardinality(PassedFigures) + Cardinality(New)
  <2>1. IsFiniteSet(PassedFigures)
    BY DEF Counts
  <2> QED
    BY <1>2, <1>3, <2>1, DisjointUnion
<1>5. Cardinality(New) \in Nat /\ Cardinality(PassedFigures) \in Nat
  BY FS_CardinalityType DEF Counts
<1>6. /\ Live' = Live /\ Busy' = Busy /\ count' = count
      /\ SumFunctionOnSet(t_count', Live') = SumFunctionOnSet(t_count, Live)
  BY DEF Live, Busy
<1>7. SumFunctionOnSet(local_count', Busy) = SumFunctionOnSet(local_count, Busy) + Cardinality(New)
  <2>1. IsFiniteSet(Busy) /\ Busy \in SUBSET Tid
    BY Threads
  <2>2. k \in Busy
    <3>1. <<k, x>>[1] = k
      OBVIOUS
    <3> QED
      BY <3>1 DEF Busy
  <2>3. local_count \in [Tid -> Nat]
    BY DEF Shapes
  <2>4. /\ local_count' \in [Tid -> Nat] /\ local_count'[k] = local_count[k] + Cardinality(New)
        /\ \A h \in Tid : h # k => local_count'[h] = local_count[h]
    BY <1>5, <2>3
  <2> QED
    BY ONLY <1>5, <2>1, <2>2, <2>3, <2>4, SumAdd
<1>8. /\ SumFunctionOnSet(local_count, Busy) \in Nat
      /\ SumFunctionOnSet(t_count, Live) \in Nat
      /\ count \in Nat
  <2>1. /\ IsFiniteSet(Live) /\ IsFiniteSet(Busy)
        /\ \A h \in Live : t_count[h] \in Nat
        /\ \A h \in Busy : local_count[h] \in Nat
    BY Threads DEF Shapes
  <2> QED
    BY <2>1, SumType DEF Shapes
<1>9. count + SumFunctionOnSet(t_count, Live) + SumFunctionOnSet(local_count, Busy)
        = Cardinality(PassedFigures)
  BY DEF Counts
<1>10. count' + SumFunctionOnSet(t_count', Live') + SumFunctionOnSet(local_count', Busy')
         = Cardinality(PassedFigures')
  BY <1>4, <1>5, <1>6, <1>7, <1>8, <1>9
<1> QED
  BY <1>4, <1>10 DEF Counts
-----------------------------------------------------------------------------
\* A step that passes no figure.
LEMMA NothingPassed ==
  ASSUME UNCHANGED <<input, to>>, \A t \in Figures : Passed(t)' <=> Passed(t)
  PROVE  PassedFigures' = PassedFigures
BY FiguresPassedNext DEF PassedFigures

LEMMA SumsAreNumbers ==
  ASSUME LoopFacts!LoopInv, Shapes
  PROVE  /\ SumFunctionOnSet(t_count, Live) \in Nat
         /\ SumFunctionOnSet(local_count, Busy) \in Nat
<1>1. /\ IsFiniteSet(Live) /\ \A h \in Live : t_count[h] \in Nat
      /\ IsFiniteSet(Busy) /\ \A h \in Busy : local_count[h] \in Nat
  BY Threads DEF Shapes
<1> QED
  BY ONLY <1>1, SumType

\* The counts of a thread are zero when it has been set up.
LEMMA SetUpInv ==
  ASSUME IInv, SetUp
  PROVE  Shapes' /\ Bodies' /\ Counts'
<1>1. /\ LoopFacts!LoopInv /\ Shapes /\ Bodies /\ Counts
      /\ prepared < numThreads /\ prepared' = prepared + 1
      /\ UNCHANGED <<numThreads, from, to, running, completed, released>>
      /\ t_count' = [t_count EXCEPT ![prepared] = 0]
      /\ UNCHANGED <<input, buffers, visit, local_count, count>>
  BY DEF IInv, SetUp, Loop!SetUp, Loop!args
<1>2. /\ numThreads \in 1 .. MaxThreads /\ MaxThreads \in Nat
      /\ prepared \in 0 .. numThreads /\ released = 0
  BY <1>1, LoopState, LoopAssumption
<1>3. prepared \in Tid /\ prepared \notin Live /\ Live' = Live \cup {prepared}
  BY <1>1, <1>2 DEF Tid, Live
<1>4. Node' = Node
  BY <1>1, InputKept
<1>5. Shapes'
  BY <1>1, <1>3, <1>4 DEF Shapes, Tid
<1>6. Bodies'
  <2>1. \A u : get_row(u)' = get_row(u)
    BY <1>1, InputKept
  <2> QED
    BY <1>1, <1>4, <2>1 DEF Bodies, Within, Intact, Reached, CommonRow, CurrentRow, RowOf, Iterating,
                            Tid
<1>7. PassedFigures' = PassedFigures
  <2>1. \A t \in Figures : Passed(t)' <=> Passed(t)
    BY <1>1, PassedBy, PassedByNext
  <2> QED
    BY <1>1, <2>1, NothingPassed
<1>8. SumFunctionOnSet(t_count', Live') = SumFunctionOnSet(t_count, Live)
  <2>1. /\ IsFiniteSet(Live') /\ prepared \in Live' /\ Live' \ {prepared} = Live
        /\ \A h \in Live' : t_count'[h] \in Nat
        /\ t_count'[prepared] = 0
    <3>1. IsFiniteSet(Live) /\ Live \subseteq Tid
      BY <1>1, Threads
    <3>2. IsFiniteSet(Live')
      BY <1>3, <3>1, FS_AddElement
    <3> QED
      BY <1>1, <1>3, <3>1, <3>2 DEF Shapes
  <2>2. SumFunctionOnSet(t_count', Live')
          = t_count'[prepared] + SumFunctionOnSet(t_count', Live' \ {prepared})
    BY ONLY <2>1, SumRemove
  <2>3. \A h \in Live : t_count[h] \in Nat /\ t_count'[h] = t_count[h]
    BY <1>1, <1>3, Threads DEF Shapes
  <2>4. IsFiniteSet(Live)
    BY <1>1, Threads
  <2>5. SumFunctionOnSet(t_count', Live) = SumFunctionOnSet(t_count, Live)
    BY ONLY <2>3, <2>4, SumAgrees
  <2>6. SumFunctionOnSet(t_count, Live) \in Nat
    BY <1>1, SumsAreNumbers
  <2> QED
    BY <2>1, <2>2, <2>5, <2>6
<1>9. Counts'
  BY <1>1, <1>7, <1>8 DEF Counts, Busy
<1> QED
  BY <1>5, <1>6, <1>9

\* Handing out indices changes the state of the loop only.
LEMMA LoopOnlyInv ==
  ASSUME IInv, UNCHANGED <<from, to, running, completed, prepared, released, input, buffers,
                           visit, local_count, t_count, count>>
  PROVE  Shapes' /\ Bodies' /\ Counts'
<1>1. LoopFacts!LoopInv /\ Shapes /\ Bodies /\ Counts
  BY DEF IInv
<1>2. Node' = Node /\ Iterating' = Iterating /\ \A u : get_row(u)' = get_row(u)
  BY InputKept
<1>3. Shapes'
  BY <1>1, <1>2 DEF Shapes, Tid
<1>4. Bodies'
  BY <1>1, <1>2 DEF Bodies, Within, Intact, Reached, CommonRow, CurrentRow, RowOf, Tid
<1>5. PassedFigures' = PassedFigures
  <2>1. \A t \in Figures : Passed(t)' <=> Passed(t)
    BY PassedBy, PassedByNext
  <2> QED
    BY <2>1, NothingPassed
<1>6. Counts'
  BY <1>1, <1>5 DEF Counts, Live, Busy
<1> QED
  BY <1>3, <1>4, <1>6

\* A body has visited nothing when it begins, and its row has been decoded if need be.
LEMMA BeginInv ==
  ASSUME IInv, NEW k \in Tid, NEW x \in AllNodes, Begin(k, x)
  PROVE  Shapes' /\ Bodies' /\ Counts'
<1>1. /\ LoopFacts!LoopInv /\ Shapes /\ Bodies /\ Counts
      /\ x \in pending[k] /\ running' = running \cup {<<k, x>>}
      /\ \A r \in running : r[1] # k
      /\ UNCHANGED <<numThreads, from, to, prepared, completed, released>>
      /\ local_count' = [local_count EXCEPT ![k] = 0]
      /\ visit' = [visit EXCEPT ![k] = [row |-> 0, result |-> -1]]
      /\ buffers' = [buffers EXCEPT ![k].y = Decoded(x, buffers[k].y)]
      /\ UNCHANGED <<input, t_count, count>>
  BY DEF IInv, Begin, Loop!Begin, Loop!args
<1>2. x \in Node /\ to \in Nat /\ x \notin completed
  BY <1>1, LoopState, NodesFinite DEF LoopFacts!LoopInv, LoopFacts!OnePlace, LoopFacts!Tid, Tid
<1>3. Node' = Node /\ Iterating' = Iterating /\ \A u : get_row(u)' = get_row(u)
  BY <1>1, InputKept
<1>4. /\ visit'[k] = [row |-> 0, result |-> -1]
      /\ \A h \in Tid : h # k => visit'[h] = visit[h] /\ buffers'[h] = buffers[h]
      /\ buffers'[k].y = Decoded(x, buffers[k].y)
      /\ buffers' \in [Tid -> [y : Seq(Node), z : Seq(Node), r : Seq(Node)]]
  <2>1. Decoded(x, buffers[k].y) \in Seq(Node)
    <3>1. Increasing(get_row(x)) \in Seq(Node)
      BY <1>1, RowOfNode, InOrder
    <3> QED
      BY <1>1, <3>1 DEF Decoded, Shapes
  <2> QED
    BY <1>1, <2>1 DEF Shapes
<1>5. Shapes'
  <2>1. visit' \in [Tid -> [row : 0 .. to, result : -1 .. to]]
    BY <1>1, <1>2 DEF Shapes
  <2> QED
    BY <1>1, <1>3, <1>4, <2>1 DEF Shapes, Tid
<1>6. Bodies'
  <2>1. CurrentRow(k, x)' = Increasing(get_row(x))
    BY <1>1, <1>3, <1>4 DEF CurrentRow, RowOf, Decoded
  <2>2. Cardinality(get_row(x)) \in 0 .. to
    BY <1>1, RowOfNode, NodesFinite
  <2>3. Within(k, x)'
    BY <1>2, <1>3, <1>4, <2>2 DEF Within
  <2>4. Intact(k, x)'
    BY <1>3, <1>4, <2>1 DEF Intact
  <2>5. \A u : <<k, u>> \in running' => u = x
    <3>1. \A u : <<k, u>>[1] = k
      OBVIOUS
    <3> QED
      BY <1>1, <3>1
  <2> QED
    BY <1>1, <1>2, <1>4, <2>3, <2>4, <2>5, BodiesKept
<1>7. PassedFigures' = PassedFigures
  <2>1. ASSUME NEW t \in Figures PROVE Passed(t)' <=> Passed(t)
    <3>1. ~Beyond(visit'[k], t)
      <4>1. /\ Rank(t[2], get_row(t[1])) \in Nat
            /\ Rank(t[3], get_row(t[1]) \cap get_row(t[2])) \in Nat
        BY <1>1, RanksAreNumbers
      <4> QED
        BY <1>4, <4>1 DEF Beyond
    <3>2. \A h \in Tid : <<h, t[1]>> \in running => h # k
      <4>1. \A h \in Tid : <<h, t[1]>>[1] = h
        OBVIOUS
      <4> QED
        BY <1>1, <4>1
    <3>3. \A h \in Tid : <<h, t[1]>> \in running' /\ h # k => <<h, t[1]>> \in running
      BY <1>1
    <3> QED
      BY <1>1, <1>4, <3>1, <3>2, <3>3, PassedBy, PassedByNext
  <2> QED
    BY <1>1, <2>1, NothingPassed
<1>8. SumFunctionOnSet(local_count', Busy') = SumFunctionOnSet(local_count, Busy)
  <2>1. IsFiniteSet(Busy) /\ Busy \subseteq Tid /\ SumFunctionOnSet(local_count, Busy) \in Nat
    BY <1>1, Threads, SumsAreNumbers
  <2>2. k \notin Busy /\ Busy' = Busy \cup {k}
    <3>1. k \notin Busy
      BY <1>1 DEF Busy
    <3>2. <<k, x>>[1] = k
      OBVIOUS
    <3>3. Busy' = {r[1] : r \in running \cup {<<k, x>>}}
      BY <1>1 DEF Busy
    <3> QED
      BY <3>1, <3>2, <3>3 DEF Busy
  <2>3. /\ IsFiniteSet(Busy') /\ k \in Busy' /\ Busy' \ {k} = Busy
        /\ \A h \in Busy' : local_count'[h] \in Nat
        /\ local_count'[k] = 0
    <3>1. IsFiniteSet(Busy')
      BY <2>1, <2>2, FS_AddElement
    <3> QED
      BY <1>1, <2>1, <2>2, <3>1 DEF Shapes
  <2>4. SumFunctionOnSet(local_count', Busy')
          = local_count'[k] + SumFunctionOnSet(local_count', Busy' \ {k})
    BY ONLY <2>3, SumRemove
  <2>5. \A h \in Busy : local_count[h] \in Nat /\ local_count'[h] = local_count[h]
    BY <1>1, <2>1, <2>2 DEF Shapes
  <2>6. SumFunctionOnSet(local_count', Busy) = SumFunctionOnSet(local_count, Busy)
    BY ONLY <2>1, <2>5, SumAgrees
  <2> QED
    BY <2>1, <2>3, <2>4, <2>6
<1>9. Counts'
  BY <1>1, <1>7, <1>8 DEF Counts, Live
<1> QED
  BY <1>5, <1>6, <1>9

\* A thread's count is added to the total when it is torn down.
LEMMA TearDownInv ==
  ASSUME IInv, TearDown
  PROVE  Shapes' /\ Bodies' /\ Counts'
<1>1. /\ LoopFacts!LoopInv /\ Shapes /\ Bodies /\ Counts
      /\ prepared = numThreads /\ released < numThreads /\ released' = released + 1
      /\ UNCHANGED <<numThreads, from, to, prepared, running, completed>>
      /\ count' = count + t_count[released]
      /\ UNCHANGED <<input, buffers, visit, local_count, t_count>>
  BY DEF IInv, TearDown, Loop!TearDown, Loop!args
<1>2. /\ numThreads \in 1 .. MaxThreads /\ MaxThreads \in Nat /\ released \in 0 .. numThreads
  BY <1>1, LoopState, LoopAssumption
<1>3. released \in Tid /\ released \in Live /\ Live' = Live \ {released}
  BY <1>1, <1>2 DEF Tid, Live
<1>4. Node' = Node /\ Iterating' = Iterating /\ \A u : get_row(u)' = get_row(u)
  BY <1>1, InputKept
<1>5. t_count[released] \in Nat /\ count \in Nat
  BY <1>1, <1>3 DEF Shapes
<1>6. Shapes'
  BY <1>1, <1>4, <1>5, SMTT(30) DEF Shapes, Tid
<1>7. Bodies'
  BY <1>1, <1>4 DEF Bodies, Within, Intact, Reached, CommonRow, CurrentRow, RowOf, Tid
<1>8. PassedFigures' = PassedFigures
  <2>1. \A t \in Figures : Passed(t)' <=> Passed(t)
    BY <1>1, PassedBy, PassedByNext
  <2> QED
    BY <1>1, <2>1, NothingPassed
<1>9. /\ SumFunctionOnSet(t_count, Live)
           = t_count[released] + SumFunctionOnSet(t_count, Live \ {released})
      /\ SumFunctionOnSet(t_count, Live \ {released}) \in Nat
  <2>1. IsFiniteSet(Live) /\ \A h \in Live : t_count[h] \in Nat
    BY <1>1, Threads DEF Shapes
  <2>2. IsFiniteSet(Live \ {released}) /\ \A h \in Live \ {released} : t_count[h] \in Nat
    BY <2>1, FS_RemoveElement
  <2>3. SumFunctionOnSet(t_count, Live)
          = t_count[released] + SumFunctionOnSet(t_count, Live \ {released})
    BY ONLY <1>3, <2>1, SumRemove
  <2>4. SumFunctionOnSet(t_count, Live \ {released}) \in Nat
    BY ONLY <2>2, SumType
  <2> QED
    BY <2>3, <2>4
<1>10. SumFunctionOnSet(local_count, Busy) \in Nat
  BY <1>1, SumsAreNumbers
<1>11. /\ SumFunctionOnSet(t_count', Live') = SumFunctionOnSet(t_count, Live \ {released})
       /\ SumFunctionOnSet(local_count', Busy') = SumFunctionOnSet(local_count, Busy)
  BY <1>1, <1>3 DEF Busy
<1>12. Counts'
  BY <1>1, <1>5, <1>8, <1>9, <1>10, <1>11 DEF Counts
<1> QED
  BY <1>6, <1>7, <1>12
-----------------------------------------------------------------------------
\* The figures that are made from a row, and from a row and a result.
LEMMA FiguresOfRow ==
  ASSUME Shapes, Iterating, NEW t \in Figures
  PROVE  /\ t[1] \in Node /\ t[2] \in get_row(t[1])
         /\ t[3] \in get_row(t[1]) \cap get_row(t[2])
<1>1. Node \subseteq Int
  BY NodesFinite
<1>2. CASE input.app = "triangles"
  <2>1. /\ t \in Node \X Node \X Node
        /\ t[1] > t[2] /\ t[2] > t[3]
        /\ Adjacent(t[1], t[2]) /\ Adjacent(t[2], t[3]) /\ Adjacent(t[1], t[3])
    BY <1>2 DEF Figures
  <2>2. t[1] \in Node /\ t[2] \in Node /\ t[3] \in Node
    BY <2>1
  <2>3. t[2] < t[1] /\ t[3] < t[2] /\ t[3] < t[1]
    <3>1. t[1] \in Int /\ t[2] \in Int /\ t[3] \in Int
      BY <1>1, <2>2
    <3>2. t[1] > t[2] /\ t[2] > t[3]
      BY <2>1
    <3> QED
      BY ONLY <3>1, <3>2
  <2>4. \A u \in Node : get_row(u) = {v \in Node : Adjacent(u, v) /\ v < u}
    BY <1>2 DEF get_row, OutEdges, Adjacent
  <2> QED
    BY <2>1, <2>2, <2>3, <2>4
<1>3. CASE input.app = "lollipops"
  <2>1. /\ t \in Node \X Node \X Node \X Node
        /\ Adjacent(t[1], t[2]) /\ Adjacent(t[2], t[3]) /\ Adjacent(t[1], t[3])
    BY <1>3 DEF Figures
  <2> QED
    BY <1>3, <2>1 DEF get_row, OutEdges, Adjacent
<1> QED
  BY <1>2, <1>3 DEF Iterating

\* A body in the state it left.
LEMMA BodyState ==
  ASSUME IInv, NEW k \in Tid, NEW x, <<k, x>> \in running
  PROVE  /\ x \in Node /\ Within(k, x) /\ Intact(k, x)
         /\ visit[k] \in [row : 0 .. to, result : -1 .. to]
         /\ Cardinality(get_row(x)) \in 0 .. to /\ to \in Nat
<1>1. LoopFacts!LoopInv /\ Shapes /\ Bodies
  BY DEF IInv
<1>2. x \in Node
  <2>1. running \subseteq Tid \X Node
    BY <1>1, LoopState
  <2> QED
    BY <2>1
<1>3. Within(k, x) /\ Intact(k, x)
  BY <1>1, <1>2 DEF Bodies
<1>4. Cardinality(get_row(x)) \in 0 .. to /\ to \in Nat
  BY <1>1, RowOfNode, NodesFinite
<1> QED
  BY <1>1, <1>2, <1>3, <1>4 DEF Shapes

\* The element that it has reached.
LEMMA ElementReached ==
  ASSUME IInv, NEW k \in Tid, NEW x, <<k, x>> \in running, Iterating,
         visit[k].row < Cardinality(get_row(x))
  PROVE  /\ CurrentRow(k, x) = Increasing(get_row(x))
         /\ Len(CurrentRow(k, x)) = Cardinality(get_row(x))
         /\ CurrentRow(k, x)[visit[k].row + 1] = Reached(k, x)
         /\ Reached(k, x) \in get_row(x)
         /\ \A v \in get_row(x) : Rank(v, get_row(x)) = visit[k].row <=> v = Reached(k, x)
         /\ \A v \in get_row(x) : Rank(v, get_row(x)) \in 0 .. Cardinality(get_row(x)) - 1
<1>1. Shapes /\ CurrentRow(k, x) = Increasing(get_row(x))
  BY BodyState DEF IInv, Intact
<1>2. visit[k].row \in 0 .. Cardinality(get_row(x)) - 1
  BY BodyState
<1>3. get_row(x) \in SUBSET Node
  BY RowOfNode
<1>4. /\ Len(Increasing(get_row(x))) = Cardinality(get_row(x))
      /\ \A p \in 0 .. Cardinality(get_row(x)) - 1 : Increasing(get_row(x))[p + 1] \in get_row(x)
      /\ \A p \in 0 .. Cardinality(get_row(x)) - 1, v \in get_row(x) :
           Rank(v, get_row(x)) = p <=> Increasing(get_row(x))[p + 1] = v
      /\ \A v \in get_row(x) : Rank(v, get_row(x)) \in 0 .. Cardinality(get_row(x)) - 1
  BY ONLY <1>1, <1>3, InOrder
<1> QED
  BY <1>1, <1>2, <1>4 DEF Reached

\* The intersection of the rows of i and j counts the triangles that begin with both.
LEMMA CountTrianglesInv ==
  ASSUME IInv, NEW k \in Tid, NEW i \in AllNodes, CountTriangles(k, i)
  PROVE  Shapes' /\ Bodies' /\ Counts'
<1> DEFINE j == Reached(k, i)
           S == get_row(i) \cap get_row(j)
           New == {t \in Figures : t[1] = i /\ t[2] = j}
<1>1. /\ LoopFacts!LoopInv /\ Shapes /\ Bodies /\ Counts
      /\ input.app = "triangles" /\ Iterating
      /\ <<k, i>> \in running /\ AtElement(k, i)
      /\ local_count' = [local_count EXCEPT ![k] =
           @ + Cardinality(get_row(i) \cap get_row(CurrentRow(k, i)[visit[k].row + 1]))]
      /\ visit' = [visit EXCEPT ![k].row = @ + 1]
      /\ UNCHANGED <<from, to, running, completed, prepared, released>>
      /\ UNCHANGED <<input, buffers, t_count, count>>
  BY DEF IInv, CountTriangles, loopVars, Iterating
<1>2. /\ i \in Node /\ Within(k, i) /\ Intact(k, i)
      /\ visit[k] \in [row : 0 .. to, result : -1 .. to]
      /\ Cardinality(get_row(i)) \in 0 .. to /\ to \in Nat
  BY <1>1, BodyState
<1>3. visit[k].row < Cardinality(get_row(i))
  BY <1>1, <1>2, RowOfNode, InOrder DEF AtElement, Intact
<1>4. /\ CurrentRow(k, i)[visit[k].row + 1] = j /\ j \in get_row(i)
      /\ \A v \in get_row(i) : Rank(v, get_row(i)) = visit[k].row <=> v = j
  BY <1>1, <1>3, ElementReached
<1>5. visit[k].result = -1
  BY <1>1, <1>2 DEF Within
<1>6. /\ visit'[k].row = visit[k].row + 1 /\ visit'[k].result = -1
      /\ \A h \in Tid : h # k => visit'[h] = visit[h] /\ buffers'[h] = buffers[h]
      /\ visit' \in [Tid -> [row : 0 .. to, result : -1 .. to]]
  <2>1. visit[k].row + 1 \in 0 .. to
    BY <1>2, <1>3
  <2>2. \A h \in Tid : h # k => visit'[h] = visit[h] /\ buffers'[h] = buffers[h]
    BY <1>1 DEF Shapes
  <2>3. visit \in [Tid -> [row : 0 .. to, result : -1 .. to]]
    BY <1>1 DEF Shapes
  <2>4. /\ visit'[k].row = visit[k].row + 1 /\ visit'[k].result = -1
        /\ visit' \in [Tid -> [row : 0 .. to, result : -1 .. to]]
    BY ONLY <1>1, <1>5, <2>1, <2>3
  <2> QED
    BY <2>2, <2>4
<1>7. Node' = Node /\ Iterating' = Iterating /\ \A u : get_row(u)' = get_row(u)
  BY <1>1, InputKept
<1>8. IsFiniteSet(S) /\ Cardinality(S) \in Nat
  BY <1>1, RowOfNode, NodesFinite
<1>9. Shapes'
  <2>1. local_count' \in [Tid -> Nat]
    BY <1>1, <1>4, <1>8 DEF Shapes
  <2> QED
    BY <1>1, <1>6, <1>7, <2>1 DEF Shapes, Tid
<1>10. Bodies'
  <2>1. Within(k, i)'
    BY <1>2, <1>3, <1>6, <1>7 DEF Within
  <2>2. CurrentRow(k, i)' = CurrentRow(k, i)
    BY <1>1, <1>7 DEF CurrentRow, RowOf
  <2>3. Intact(k, i)'
    BY <1>1, <1>2, <1>6, <1>7, <2>2 DEF Intact
  <2>4. \A u : <<k, u>> \in running' => u = i
    <3>1. \A u : <<k, u>> \in running => <<k, u>> = <<k, i>>
      <4>1. \A u : <<k, u>>[1] = <<k, i>>[1]
        OBVIOUS
      <4> QED
        BY <1>1, <4>1, LoopState
    <3> QED
      BY <1>1, <3>1
  <2> QED
    BY <1>1, <1>2, <1>6, <2>1, <2>3, <2>4, BodiesKept
<1>11. IsFiniteSet(New) /\ Cardinality(New) = Cardinality(S)
  <2>1. \A z \in S : <<i, j, z>> \in New
    <3> SUFFICES ASSUME NEW z \in S PROVE <<i, j, z>> \in New
      OBVIOUS
    <3>1. /\ z \in Node /\ j \in Node /\ z < j /\ j < i
          /\ Adjacent(i, j) /\ Adjacent(j, z) /\ Adjacent(i, z)
      BY <1>1, <1>4 DEF get_row, OutEdges, Adjacent
    <3>2. i > j /\ j > z
      <4>1. Node \subseteq Int
        BY <1>1, NodesFinite
      <4> QED
        BY <1>2, <3>1, <4>1
    <3> QED
      BY <1>1, <1>2, <3>1, <3>2 DEF Figures
  <2>2. \A t \in New : t[3] \in S /\ t = <<i, j, t[3]>>
    <3> SUFFICES ASSUME NEW t \in New PROVE t[3] \in S /\ t = <<i, j, t[3]>>
      OBVIOUS
    <3>1. t \in Node \X Node \X Node
      BY <1>1 DEF Figures
    <3>2. t[3] \in get_row(t[1]) \cap get_row(t[2])
      BY <1>1, FiguresOfRow
    <3> QED
      BY <3>1, <3>2
  <2> DEFINE f == [z \in S |-> <<i, j, z>>]
  <2>3. /\ f \in [S -> New]
        /\ \A a, b \in S : f[a] = f[b] => a = b
        /\ \A t \in New : \E a \in S : f[a] = t
    <3>1. \A a, b \in S : f[a] = f[b] => a = b
      <4>1. \A z \in S : f[z][3] = z
        OBVIOUS
      <4> QED
        BY <4>1
    <3> HIDE DEF New, S, j
    <3> QED
      BY <2>1, <2>2, <3>1
  <2> HIDE DEF f, New, S
  <2> QED
    BY ONLY <1>8, <2>3, ImagesCounted
<1>12. Counts'
  <2>1. \A t \in Figures :
          /\ t \in New => t[1] = i /\ ~Beyond(visit[k], t)
          /\ t[1] = i => (Beyond(visit'[k], t) <=> Beyond(visit[k], t) \/ t \in New)
    <3> SUFFICES ASSUME NEW t \in Figures, t[1] = i
                 PROVE  /\ t \in New => ~Beyond(visit[k], t)
                        /\ Beyond(visit'[k], t) <=> Beyond(visit[k], t) \/ t \in New
      OBVIOUS
    <3>1. t[2] \in get_row(i)
      BY <1>1, FiguresOfRow
    <3>2. /\ Rank(t[2], get_row(t[1])) \in Nat
          /\ Rank(t[3], get_row(t[1]) \cap get_row(t[2])) \in Nat
      BY <1>1, RanksAreNumbers
    <3>3. t \in New <=> Rank(t[2], get_row(t[1])) = visit[k].row
      BY <1>4, <3>1
    <3> HIDE DEF New
    <3>4. Beyond(visit[k], t) <=> Rank(t[2], get_row(t[1])) < visit[k].row
      BY <1>5, <3>2 DEF Beyond
    <3>5. Beyond(visit'[k], t) <=> Rank(t[2], get_row(t[1])) < visit[k].row + 1
      BY <1>6, <3>2 DEF Beyond
    <3> QED
      BY <1>2, <3>2, <3>3, <3>4, <3>5
  <2>2. local_count' = [local_count EXCEPT ![k] = @ + Cardinality(New)]
    BY <1>1, <1>4, <1>11
  <2>3. New \subseteq Figures
    OBVIOUS
  <2>4. \A h \in Tid : h # k => visit'[h] = visit[h]
    BY <1>6
  <2> HIDE DEF New
  <2> QED
    BY ONLY <1>1, <1>2, <1>11, <2>1, <2>2, <2>3, <2>4, OneBodyCounts
<1> QED
  BY <1>9, <1>10, <1>12

LEMMA OneBody ==
  ASSUME IInv, NEW k \in Tid, NEW x, <<k, x>> \in running
  PROVE  \A u : <<k, u>> \in running => u = x
<1>1. \A u : <<k, u>>[1] = <<k, x>>[1] /\ (<<k, u>> = <<k, x>> => u = x)
  OBVIOUS
<1>2. \A r, q \in running : r[1] = q[1] \/ r[2] = q[2] => r = q
  BY LoopState DEF IInv
<1> QED
  BY <1>1, <1>2

\* The common neighbours of a node and the element reached are written to the buffer.
LEMMA StartResultInv ==
  ASSUME IInv, NEW k \in Tid, NEW x \in AllNodes, StartResult(k, x)
  PROVE  Shapes' /\ Bodies' /\ Counts'
<1> DEFINE y == Reached(k, x)
           zs == Decoded(y, buffers[k].z)
<1>1. /\ LoopFacts!LoopInv /\ Shapes /\ Bodies /\ Counts
      /\ input.app = "lollipops" /\ Iterating
      /\ <<k, x>> \in running /\ AtElement(k, x) /\ visit[k].result = -1
      /\ IntersectRow(k, x)
      /\ visit' = [visit EXCEPT ![k].result = 0]
      /\ UNCHANGED <<from, to, running, completed, prepared, released>>
      /\ UNCHANGED <<input, local_count, t_count, count>>
  BY DEF IInv, StartResult, loopVars, Iterating
<1>2. /\ x \in Node /\ Within(k, x) /\ Intact(k, x)
      /\ visit[k] \in [row : 0 .. to, result : -1 .. to]
      /\ Cardinality(get_row(x)) \in 0 .. to /\ to \in Nat
  BY <1>1, BodyState
<1>3. visit[k].row < Cardinality(get_row(x))
  BY <1>1, <1>2, RowOfNode, InOrder DEF AtElement, Intact
<1>4. /\ CurrentRow(k, x)[visit[k].row + 1] = y
      /\ CurrentRow(k, x) = Increasing(get_row(x))
  BY <1>1, <1>3, ElementReached
<1>5. \A S \in SUBSET Node : ToSet(Increasing(S)) = S /\ Increasing(S) \in Seq(Node)
  BY <1>1, InOrder
<1>6. /\ CommonRow(k, x) \in SUBSET Node /\ Cardinality(CommonRow(k, x)) \in Nat
      /\ get_row(x) \in SUBSET Node /\ get_row(y) \in SUBSET Node
  <2>1. CommonRow(k, x) \in SUBSET Node /\ get_row(x) \in SUBSET Node /\ get_row(y) \in SUBSET Node
    BY RowOfNode DEF CommonRow
  <2>2. Cardinality(CommonRow(k, x)) \in 0 .. to
    BY <1>1, <2>1, NodesFinite
  <2> QED
    BY <1>2, <2>1, <2>2
<1>7. ToSet(CurrentRow(k, x)) \cap ToSet(RowOf(y, zs)) = CommonRow(k, x)
  <2>1. ToSet(CurrentRow(k, x)) = get_row(x)
    BY <1>4, <1>5, <1>6
  <2>2. RowOf(y, zs) = Increasing(get_row(y))
    BY DEF RowOf, Decoded
  <2>3. ToSet(RowOf(y, zs)) = get_row(y)
    BY <1>5, <1>6, <2>2
  <2> QED
    BY <2>1, <2>3 DEF CommonRow
<1>8. buffers' = [buffers EXCEPT ![k].z = zs, ![k].r = Increasing(CommonRow(k, x))]
  BY <1>1, <1>4, <1>7 DEF IntersectRow
<1>9. zs \in Seq(Node) /\ Increasing(CommonRow(k, x)) \in Seq(Node)
  BY <1>1, <1>5, <1>6 DEF Decoded, Shapes
<1>10. /\ visit'[k].row = visit[k].row /\ visit'[k].result = 0
       /\ visit' \in [Tid -> [row : 0 .. to, result : -1 .. to]]
       /\ \A h \in Tid : h # k => visit'[h] = visit[h]
  <2>1. visit \in [Tid -> [row : 0 .. to, result : -1 .. to]] /\ 0 \in -1 .. to
    BY <1>1, <1>2 DEF Shapes
  <2> QED
    BY ONLY <1>1, <2>1
<1>11. /\ buffers'[k].y = buffers[k].y /\ buffers'[k].r = Increasing(CommonRow(k, x))
       /\ buffers' \in [Tid -> [y : Seq(Node), z : Seq(Node), r : Seq(Node)]]
       /\ \A h \in Tid : h # k => buffers'[h] = buffers[h]
  <2>1. buffers \in [Tid -> [y : Seq(Node), z : Seq(Node), r : Seq(Node)]]
    BY <1>1 DEF Shapes
  <2> HIDE DEF zs
  <2> QED
    BY ONLY <1>8, <1>9, <2>1
<1>12. Node' = Node /\ Iterating' = Iterating /\ \A u : get_row(u)' = get_row(u)
  BY <1>1, InputKept
<1>13. Shapes'
  BY <1>1, <1>10, <1>11, <1>12 DEF Shapes, Tid
<1>14. Bodies'
  <2>1. CommonRow(k, x)' = CommonRow(k, x)
    BY <1>10, <1>12 DEF CommonRow, Reached
  <2>2. CurrentRow(k, x)' = CurrentRow(k, x)
    BY <1>1, <1>11, <1>12 DEF CurrentRow, RowOf
  <2>3. Within(k, x)'
    BY <1>1, <1>2, <1>3, <1>6, <1>10, <1>12, <2>1 DEF Within
  <2>4. Intact(k, x)'
    BY <1>2, <1>11, <1>12, <2>1, <2>2 DEF Intact
  <2>5. \A u : <<k, u>> \in running' => u = x
    BY <1>1, OneBody
  <2> QED
    BY <1>1, <1>2, <1>10, <1>11, <2>3, <2>4, <2>5, BodiesKept
<1>15. PassedFigures' = PassedFigures
  <2>1. ASSUME NEW t \in Figures PROVE Passed(t)' <=> Passed(t)
    <3>1. /\ Rank(t[2], get_row(t[1])) \in Nat
          /\ Rank(t[3], get_row(t[1]) \cap get_row(t[2])) \in Nat
      BY <1>1, RanksAreNumbers
    <3>2. Beyond(visit'[k], t) <=> Beyond(visit[k], t)
      BY <1>1, <1>10, <3>1 DEF Beyond
    <3> QED
      BY <1>1, <1>2, <1>10, <3>2, OneBodyPasses
  <2> QED
    BY <1>1, <2>1, NothingPassed
<1>16. Counts'
  BY <1>1, <1>15 DEF Counts, Live, Busy
<1> QED
  BY <1>13, <1>14, <1>16

\* What the result for the element reached holds, and the place of each node in it.
LEMMA ResultIterated ==
  ASSUME IInv, NEW k \in Tid, NEW x, <<k, x>> \in running, visit[k].result \in Nat
  PROVE  /\ input.app = "lollipops" /\ Iterating
         /\ visit[k].row < Cardinality(get_row(x))
         /\ Len(buffers[k].r) = Cardinality(CommonRow(k, x))
         /\ Cardinality(CommonRow(k, x)) \in 0 .. to
         /\ visit[k].result <= Cardinality(CommonRow(k, x))
         /\ \A v \in CommonRow(k, x) : Rank(v, CommonRow(k, x)) \in 0 .. Cardinality(CommonRow(k, x)) - 1
         /\ visit[k].result < Len(buffers[k].r) =>
              /\ buffers[k].r[visit[k].result + 1] \in CommonRow(k, x)
              /\ \A v \in CommonRow(k, x) : Rank(v, CommonRow(k, x)) = visit[k].result
                                           <=> v = buffers[k].r[visit[k].result + 1]
<1>1. /\ input.app = "lollipops" /\ Iterating
      /\ visit[k].row < Cardinality(get_row(x))
      /\ visit[k].result <= Cardinality(CommonRow(k, x))
      /\ buffers[k].r = Increasing(CommonRow(k, x))
  <2>1. Within(k, x) /\ Intact(k, x)
    BY BodyState
  <2>2. visit[k].result >= 0
    OBVIOUS
  <2> QED
    BY <2>1, <2>2 DEF Within, Intact, Iterating
<1>2. CommonRow(k, x) \in SUBSET Node /\ Shapes
  BY RowOfNode DEF CommonRow, IInv
<1> DEFINE S == CommonRow(k, x)
<1>3. /\ Len(Increasing(S)) = Cardinality(S) /\ Cardinality(S) \in 0 .. to
      /\ \A p \in 0 .. Cardinality(S) - 1 : Increasing(S)[p + 1] \in S
      /\ \A p \in 0 .. Cardinality(S) - 1, v \in S : Rank(v, S) = p <=> Increasing(S)[p + 1] = v
      /\ \A v \in S : Rank(v, S) \in 0 .. Cardinality(S) - 1
  BY ONLY <1>2, InOrder
<1>4. to \in Nat
  BY <1>2, NodesFinite
<1> HIDE DEF S
<1>5. visit[k].result < Cardinality(S) => visit[k].result \in 0 .. Cardinality(S) - 1
  BY <1>3, <1>4
<1> QED
  BY <1>1, <1>3, <1>5 DEF S

\* For an element z of the result, the figures begin with x, y and z, and end with any
\* neighbour of x: there are some if z is less than y.
LEMMA VisitResultInv ==
  ASSUME IInv, NEW k \in Tid, NEW x \in AllNodes, VisitResult(k, x)
  PROVE  Shapes' /\ Bodies' /\ Counts'
<1> DEFINE y == Reached(k, x)
           z == buffers[k].r[visit[k].result + 1]
           S == get_row(x)
           New == {t \in Figures : t[1] = x /\ t[2] = y /\ t[3] = z}
<1>1. /\ LoopFacts!LoopInv /\ Shapes /\ Bodies /\ Counts
      /\ <<k, x>> \in running
      /\ visit[k].result \in 0 .. Len(buffers[k].r) - 1
      /\ local_count' = [local_count EXCEPT ![k] =
           IF z < CurrentRow(k, x)[visit[k].row + 1] THEN @ + Len(CurrentRow(k, x)) ELSE @]
      /\ visit' = [visit EXCEPT ![k].result = @ + 1]
      /\ UNCHANGED <<from, to, running, completed, prepared, released>>
      /\ UNCHANGED <<input, buffers, t_count, count>>
  BY DEF IInv, VisitResult, loopVars
<1>2. /\ x \in Node /\ Within(k, x) /\ Intact(k, x)
      /\ visit[k] \in [row : 0 .. to, result : -1 .. to]
      /\ Cardinality(S) \in 0 .. to /\ to \in Nat
  BY <1>1, BodyState
<1>3. /\ input.app = "lollipops" /\ Iterating
      /\ visit[k].row < Cardinality(S)
      /\ Cardinality(CommonRow(k, x)) \in 0 .. to
      /\ visit[k].result \in 0 .. Cardinality(CommonRow(k, x)) - 1
      /\ z \in CommonRow(k, x)
      /\ \A v \in CommonRow(k, x) : Rank(v, CommonRow(k, x)) = visit[k].result <=> v = z
  <2>1. visit[k].result \in Nat /\ visit[k].result < Len(buffers[k].r)
    <3>1. visit[k].result \in Int /\ Len(buffers[k].r) \in Nat
      BY <1>1, <1>2 DEF Shapes
    <3> QED
      BY <1>1, <3>1
  <2>2. Len(buffers[k].r) = Cardinality(CommonRow(k, x))
    BY <1>1, <2>1, ResultIterated
  <2> QED
    BY <1>1, <2>1, <2>2, ResultIterated
<1>4. /\ CurrentRow(k, x)[visit[k].row + 1] = y /\ Len(CurrentRow(k, x)) = Cardinality(S)
      /\ y \in S /\ \A v \in S : Rank(v, S) = visit[k].row <=> v = y
  BY <1>1, <1>3, ElementReached
<1>5. S \subseteq Node /\ S \subseteq Int /\ z \in Node /\ z \in S /\ z \in get_row(y) /\ IsFiniteSet(S)
  <2>1. S \in SUBSET Node /\ z \in get_row(x) \cap get_row(y)
    BY <1>3, RowOfNode DEF CommonRow
  <2>2. Node \subseteq Int /\ IsFiniteSet(S)
    BY <1>1, <2>1, NodesFinite
  <2> QED
    BY <2>1, <2>2
<1>6. Figures = {t \in Node \X Node \X Node \X Node :
                   /\ t[2] > t[3] /\ Adjacent(t[1], t[4])
                   /\ Adjacent(t[1], t[2]) /\ Adjacent(t[2], t[3]) /\ Adjacent(t[1], t[3])}
  BY <1>3 DEF Figures
<1>7. \A u : get_row(u) = {v \in Node : Adjacent(u, v)}
  BY <1>3 DEF get_row, OutEdges, Adjacent
<1>8. z < y => IsFiniteSet(New) /\ Cardinality(New) = Cardinality(S)
  <2> SUFFICES ASSUME z < y PROVE IsFiniteSet(New) /\ Cardinality(New) = Cardinality(S)
    OBVIOUS
  <2>1. \A w \in S : <<x, y, z, w>> \in New
    <3>1. y > z
      BY <1>4, <1>5
    <3> HIDE DEF y, z
    <3> QED
      BY <1>2, <1>4, <1>5, <1>6, <1>7, <3>1
  <2>2. \A t \in New : t[4] \in S /\ t = <<x, y, z, t[4]>>
    <3> HIDE DEF y, z
    <3> QED
      BY <1>6, <1>7
  <2> DEFINE f == [w \in S |-> <<x, y, z, w>>]
  <2>3. /\ f \in [S -> New]
        /\ \A a, b \in S : f[a] = f[b] => a = b
        /\ \A t \in New : \E a \in S : f[a] = t
    <3>1. \A a, b \in S : f[a] = f[b] => a = b
      <4> HIDE DEF S, y, z
      <4>1. \A w \in S : f[w][4] = w
        OBVIOUS
      <4> QED
        BY <4>1
    <3> HIDE DEF New, S, y, z
    <3> QED
      BY <2>1, <2>2, <3>1
  <2> HIDE DEF f, New, S
  <2> QED
    BY ONLY <1>5, <2>3, ImagesCounted
<1>9. ~(z < y) => IsFiniteSet(New) /\ Cardinality(New) = 0
  <2> SUFFICES ASSUME ~(z < y) PROVE IsFiniteSet(New) /\ Cardinality(New) = 0
    OBVIOUS
  <2>1. ~(y > z)
    BY <1>4, <1>5
  <2>2. New = {}
    <3> HIDE DEF y, z
    <3> QED
      BY <1>6, <2>1
  <2> QED
    BY <2>2, FS_EmptySet
<1>10. /\ IsFiniteSet(New) /\ Cardinality(New) \in Nat
       /\ local_count' = [local_count EXCEPT ![k] = @ + Cardinality(New)]
  <2>1. local_count \in [Tid -> Nat]
    BY <1>1 DEF Shapes
  <2>2. Cardinality(S) \in Nat
    BY <1>2
  <2> HIDE DEF New, S, y, z
  <2>3. CASE z < y
    BY <1>1, <1>4, <1>8, <2>2, <2>3
  <2>4. CASE ~(z < y)
    <3>1. local_count' = [local_count EXCEPT ![k] = @]
      BY <1>1, <1>4, <2>4
    <3>2. IsFiniteSet(New) /\ Cardinality(New) = 0
      BY <1>9, <2>4
    <3>3. local_count[k] + Cardinality(New) = local_count[k]
      BY ONLY <2>1, <3>2
    <3>4. local_count' = [local_count EXCEPT ![k] = @ + Cardinality(New)]
      BY ONLY <3>1, <3>3, Zenon
    <3> QED
      BY ONLY <3>2, <3>4
  <2> QED
    BY <2>3, <2>4
<1>11. /\ visit'[k].row = visit[k].row /\ visit'[k].result = visit[k].result + 1
       /\ visit' \in [Tid -> [row : 0 .. to, result : -1 .. to]]
       /\ \A h \in Tid : h # k => visit'[h] = visit[h]
  <2>1. visit \in [Tid -> [row : 0 .. to, result : -1 .. to]]
    BY <1>1 DEF Shapes
  <2>2. visit[k].result + 1 \in -1 .. to
    BY ONLY <1>2, <1>3
  <2> QED
    BY ONLY <1>1, <2>1, <2>2
<1>12. Node' = Node /\ Iterating' = Iterating /\ \A u : get_row(u)' = get_row(u)
  BY <1>1, InputKept
<1>13. Shapes'
  <2>1. local_count' \in [Tid -> Nat]
    <3> HIDE DEF New
    <3> QED
      BY <1>1, <1>10, SMTT(30) DEF Shapes
  <2> QED
    BY <1>1, <1>11, <1>12, <2>1 DEF Shapes, Tid
<1>14. Bodies'
  <2>1. CommonRow(k, x)' = CommonRow(k, x)
    BY <1>11, <1>12 DEF CommonRow, Reached
  <2>2. CurrentRow(k, x)' = CurrentRow(k, x)
    BY <1>1, <1>12 DEF CurrentRow, RowOf
  <2>3. Within(k, x)'
    <3>1. visit[k].result + 1 <= Cardinality(CommonRow(k, x))
      BY <1>2, <1>3
    <3> QED
      BY <1>1, <1>2, <1>3, <1>11, <1>12, <2>1, <3>1 DEF Within
  <2>4. Intact(k, x)'
    BY <1>1, <1>2, <1>3, <1>11, <1>12, <2>1, <2>2 DEF Intact
  <2>5. \A u : <<k, u>> \in running' => u = x
    BY <1>1, OneBody
  <2> QED
    BY <1>1, <1>2, <1>11, <2>3, <2>4, <2>5, BodiesKept
<1>15. Counts'
  <2>1. \A t \in Figures :
          /\ t \in New => t[1] = x /\ ~Beyond(visit[k], t)
          /\ t[1] = x => (Beyond(visit'[k], t) <=> Beyond(visit[k], t) \/ t \in New)
    <3> SUFFICES ASSUME NEW t \in Figures, t[1] = x
                 PROVE  /\ t \in New => ~Beyond(visit[k], t)
                        /\ Beyond(visit'[k], t) <=> Beyond(visit[k], t) \/ t \in New
      OBVIOUS
    <3> DEFINE second == Rank(t[2], get_row(t[1]))
               third == Rank(t[3], get_row(t[1]) \cap get_row(t[2]))
    <3>1. t[2] \in S /\ t[3] \in get_row(x) \cap get_row(t[2])
      BY <1>1, <1>3, FiguresOfRow
    <3>2. second \in Nat /\ third \in Nat
      BY <1>1, RanksAreNumbers
    <3>3. second = visit[k].row <=> t[2] = y
      BY <1>4, <3>1
    <3>4. t[2] = y => (third = visit[k].result <=> t[3] = z)
      <4>1. t[2] = y => t[3] \in CommonRow(k, x) /\ third = Rank(t[3], CommonRow(k, x))
        BY <3>1 DEF CommonRow
      <4> HIDE DEF third, y, z
      <4> QED
        BY <1>3, <4>1
    <3>5. t \in New <=> t[2] = y /\ t[3] = z
      OBVIOUS
    <3>6. Beyond(visit[k], t)
            <=> second < visit[k].row \/ (second = visit[k].row /\ third < visit[k].result)
      BY DEF Beyond
    <3>7. Beyond(visit'[k], t)
            <=> second < visit[k].row \/ (second = visit[k].row /\ third < visit[k].result + 1)
      BY <1>11 DEF Beyond
    <3>8. visit[k].row \in Int /\ visit[k].result \in Int
      BY <1>2
    <3> HIDE DEF New, second, third, y, z
    <3> QED
      BY ONLY <3>2, <3>3, <3>4, <3>5, <3>6, <3>7, <3>8
  <2>2. New \subseteq Figures
    OBVIOUS
  <2> HIDE DEF New
  <2> QED
    BY ONLY <1>1, <1>2, <1>3, <1>10, <1>11, <2>1, <2>2, OneBodyCounts
<1> QED
  BY <1>13, <1>14, <1>15

\* The figures of an element have been passed when its result has been iterated.
LEMMA EndResultInv ==
  ASSUME IInv, NEW k \in Tid, NEW x \in AllNodes, EndResult(k, x)
  PROVE  Shapes' /\ Bodies' /\ Counts'
<1> DEFINE y == Reached(k, x)
           S == get_row(x)
<1>1. /\ LoopFacts!LoopInv /\ Shapes /\ Bodies /\ Counts
      /\ <<k, x>> \in running
      /\ visit[k].result = Len(buffers[k].r)
      /\ visit' = [visit EXCEPT ![k] = [row |-> @.row + 1, result |-> -1]]
      /\ UNCHANGED <<from, to, running, completed, prepared, released>>
      /\ UNCHANGED <<input, buffers, local_count, t_count, count>>
  BY DEF IInv, EndResult, loopVars
<1>2. /\ x \in Node /\ Within(k, x) /\ Intact(k, x)
      /\ visit[k] \in [row : 0 .. to, result : -1 .. to]
      /\ Cardinality(S) \in 0 .. to /\ to \in Nat
  BY <1>1, BodyState
<1>3. /\ Iterating /\ visit[k].row < Cardinality(S)
      /\ Cardinality(CommonRow(k, x)) \in 0 .. to
      /\ visit[k].result = Cardinality(CommonRow(k, x))
      /\ \A v \in CommonRow(k, x) : Rank(v, CommonRow(k, x)) \in 0 .. Cardinality(CommonRow(k, x)) - 1
  <2>1. visit[k].result \in Nat
    BY <1>1 DEF Shapes
  <2> QED
    BY <1>1, <2>1, ResultIterated
<1>4. /\ y \in S /\ \A v \in S : Rank(v, S) = visit[k].row <=> v = y
  BY <1>1, <1>3, ElementReached
<1>5. /\ visit'[k].row = visit[k].row + 1 /\ visit'[k].result = -1
      /\ visit' \in [Tid -> [row : 0 .. to, result : -1 .. to]]
      /\ \A h \in Tid : h # k => visit'[h] = visit[h]
  <2>1. visit \in [Tid -> [row : 0 .. to, result : -1 .. to]] /\ visit[k].row + 1 \in 0 .. to
    BY <1>1, <1>2, <1>3, SMTT(30) DEF Shapes
  <2>2. -1 \in -1 .. to
    BY <1>2
  <2> QED
    BY ONLY <1>1, <2>1, <2>2
<1>6. Node' = Node /\ Iterating' = Iterating /\ \A u : get_row(u)' = get_row(u)
  BY <1>1, InputKept
<1>7. Shapes'
  BY <1>1, <1>5, <1>6 DEF Shapes, Tid
<1>8. Bodies'
  <2>1. CurrentRow(k, x)' = CurrentRow(k, x)
    BY <1>1, <1>6 DEF CurrentRow, RowOf
  <2>2. Within(k, x)'
    BY <1>2, <1>3, <1>5, <1>6 DEF Within
  <2>3. Intact(k, x)'
    BY <1>1, <1>2, <1>5, <1>6, <2>1 DEF Intact
  <2>4. \A u : <<k, u>> \in running' => u = x
    BY <1>1, OneBody
  <2> QED
    BY <1>1, <1>2, <1>5, <2>2, <2>3, <2>4, BodiesKept
<1>9. PassedFigures' = PassedFigures
  <2>1. ASSUME NEW t \in Figures, t[1] = x PROVE Beyond(visit'[k], t) <=> Beyond(visit[k], t)
    <3> DEFINE second == Rank(t[2], get_row(t[1]))
               third == Rank(t[3], get_row(t[1]) \cap get_row(t[2]))
    <3>1. t[2] \in S /\ t[3] \in get_row(x) \cap get_row(t[2])
      BY <1>1, <1>3, <2>1, FiguresOfRow
    <3>2. second \in Nat /\ third \in Nat
      BY <1>1, RanksAreNumbers
    <3>3. second = visit[k].row => third < visit[k].result
      <4>1. second = visit[k].row => t[3] \in CommonRow(k, x) /\ third = Rank(t[3], CommonRow(k, x))
        BY <1>4, <2>1, <3>1 DEF CommonRow
      <4> HIDE DEF third, second
      <4> QED
        BY <1>2, <1>3, <4>1
    <3>4. Beyond(visit[k], t)
            <=> second < visit[k].row \/ (second = visit[k].row /\ third < visit[k].result)
      BY DEF Beyond
    <3>5. Beyond(visit'[k], t) <=> second < visit[k].row + 1
      BY <1>5, <3>2 DEF Beyond
    <3>6. visit[k].row \in Int
      BY <1>2
    <3> HIDE DEF second, third
    <3> QED
      BY ONLY <3>2, <3>3, <3>4, <3>5, <3>6
  <2>2. \A t \in Figures : Passed(t)' <=> Passed(t)
    BY <1>1, <1>2, <1>3, <1>5, <2>1, OneBodyPasses
  <2> QED
    BY <1>1, <2>2, NothingPassed
<1>10. Counts'
  BY <1>1, <1>9 DEF Counts, Live, Busy
<1> QED
  BY <1>7, <1>8, <1>10
-----------------------------------------------------------------------------
\* The row chosen is that of the first of the nodes with the most neighbours.
LEMMA HubIsMaxRow ==
  ASSUME Shapes, input.app = "similar", Node # {}
  PROVE  Hub = get_max_row_id
<1> DEFINE d(u) == Cardinality(OutEdges(u))
           M == {u \in Node : \A v \in Node : d(v) <= d(u)}
           Least(x) == x \in M /\ \A y \in M : x <= y
<1>1. to \in Nat /\ Node \subseteq Nat /\ \A u \in Node : d(u) \in 0 .. to
  BY NodesFinite DEF OutEdges
<1>2. PICK m \in Node : \A v \in Node : d(v) <= d(m)
  <2> DEFINE D == {to - d(u) : u \in Node}
  <2>1. D \in SUBSET Nat /\ D # {}
    <3> HIDE DEF d
    <3>1. \A u \in Node : to - d(u) \in Nat
      BY ONLY <1>1
    <3> QED
      BY <3>1
  <2>2. PICK e \in D : \A f \in D : e <= f
    BY ONLY <2>1, LeastNumber
  <2>3. PICK m \in Node : e = to - d(m)
    BY <2>2
  <2>4. \A v \in Node : to - d(m) <= to - d(v)
    BY <2>2, <2>3
  <2> HIDE DEF d
  <2> QED
    BY <1>1, <2>4
<1> HIDE DEF d
<1>3. M \in SUBSET Nat /\ m \in M
  BY <1>1, <1>2
<1>4. PICK w \in M : \A y \in M : w <= y
  <2> HIDE DEF M
  <2>1. M # {}
    BY <1>3
  <2> QED
    BY ONLY <1>3, <2>1, LeastNumber
<1>5. ASSUME NEW x, Least(x) PROVE x = w
  <2>1. x \in Nat /\ w \in Nat /\ x <= w /\ w <= x
    BY <1>3, <1>4, <1>5
  <2> QED
    BY ONLY <2>1
<1>6. Hub = w
  <2>1. Hub = Min(M)
    BY DEF Hub, d
  <2>2. Min(M) = CHOOSE x \in M : \A y \in M : x <= y
    BY DEF Min
  <2> HIDE DEF M
  <2> QED
    BY <1>4, <1>5, <2>1, <2>2
<1>7. get_max_row_id = w
  <2>1. \A u : get_row(u) = OutEdges(u)
    BY DEF get_row
  <2>2. ASSUME NEW u \in Node
        PROVE  (\A v \in Node : d(v) < d(u) \/ (d(v) = d(u) /\ u <= v)) <=> Least(u)
    <3>1. d(u) \in Int /\ u \in Int /\ \A v \in Node : d(v) \in Int /\ v \in Int
      BY <1>1
    <3>2. ASSUME \A v \in Node : d(v) < d(u) \/ (d(v) = d(u) /\ u <= v) PROVE Least(u)
      <4>1. u \in M
        BY <3>1, <3>2
      <4>2. ASSUME NEW y \in M PROVE u <= y
        <5>1. y \in Node /\ d(u) <= d(y)
          OBVIOUS
        <5> QED
          BY <3>1, <3>2, <5>1
      <4> QED
        BY <4>1, <4>2
    <3>3. ASSUME Least(u), NEW v \in Node PROVE d(v) < d(u) \/ (d(v) = d(u) /\ u <= v)
      <4>1. d(v) <= d(u)
        BY <3>3
      <4>2. ASSUME d(v) = d(u) PROVE u <= v
        <5>1. v \in M
          BY <3>3, <4>2
        <5> QED
          BY <3>3, <5>1
      <4> QED
        BY <3>1, <4>1, <4>2
    <3> QED
      BY <3>2, <3>3
  <2>3. get_max_row_id = CHOOSE u \in Node : \A v \in Node : d(v) < d(u) \/ (d(v) = d(u) /\ u <= v)
    BY <2>1 DEF get_max_row_id, d
  <2>4. w \in Node /\ Least(w)
    BY <1>4
  <2> HIDE DEF Least
  <2> QED
    BY <1>5, <2>2, <2>3, <2>4
<1> QED
  BY <1>6, <1>7

\* A node is counted if it is one of the figures.
LEMMA CountedNode ==
  ASSUME Shapes, ~Iterating, NEW u \in Node
  PROVE  /\ Counted(u) \in {0, 1}
         /\ {t \in Figures : t[1] = u} = IF Counted(u) = 1 THEN {<<u>>} ELSE {}
<1>1. input \in Inputs /\ input.app \in {"similar", "symbiotic"}
  BY CountingAssumption DEF Shapes, Iterating
<1>2. Counted(u) \in {0, 1}
  BY DEF Counted
<1>3. ASSUME NEW T, \A t : t \in Figures <=> \E v \in T : t = <<v>>, Counted(u) = 1 <=> u \in T
      PROVE  {t \in Figures : t[1] = u} = IF Counted(u) = 1 THEN {<<u>>} ELSE {}
  <2>1. \A v \in T : <<v>>[1] = v
    OBVIOUS
  <2> QED
    BY <1>3, <2>1
<1>4. CASE input.app = "similar"
  <2> DEFINE T == {v \in Node : Cardinality(OutEdges(Hub) \cap OutEdges(v)) > N}
  <2>1. \A t : t \in Figures <=> \E v \in T : t = <<v>>
    BY <1>4 DEF Figures
  <2>2. Hub = get_max_row_id /\ \A v : get_row(v) = OutEdges(v)
    BY <1>4, HubIsMaxRow DEF get_row
  <2>3. Counted(u) = 1 <=> u \in T
    BY <1>4, <2>2 DEF Counted, IsSimilar
  <2> HIDE DEF T
  <2> QED
    BY ONLY <1>2, <1>3, <2>1, <2>3
<1>5. CASE input.app = "symbiotic"
  <2> DEFINE T == {v \in Node : 2 * Cardinality(Mutual(v)) > Cardinality(Either(v))}
             A == get_row(u)
             B == get_column(u)
  <2>1. \A t : t \in Figures <=> \E v \in T : t = <<v>>
    BY <1>5 DEF Figures
  <2>2. A = {v \in Node : Adjacent(u, v)} /\ B = {v \in Node : Adjacent(v, u)}
    <3>1. A = {v \in Node : Adjacent(u, v)}
      BY <1>5 DEF get_row, OutEdges, Adjacent
    <3>2. ASSUME input.symmetric, NEW v \in Node PROVE Adjacent(u, v) <=> Adjacent(v, u)
      <4>1. \A e \in input.edges : <<e[2], e[1]>> \in input.edges
        BY <1>1, <3>2, CountingAssumption
      <4>2. \A x, y : <<x, y>> \in input.edges => <<y, x>> \in input.edges
        <5>1. \A x, y : <<x, y>>[1] = x /\ <<x, y>>[2] = y
          OBVIOUS
        <5> QED
          BY <4>1, <5>1
      <4> QED
        BY <4>2 DEF Adjacent
    <3> QED
      BY <3>1, <3>2 DEF get_column, Adjacent
  <2>3. A \cap B = Mutual(u) /\ A \cup B = Either(u)
    BY <2>2 DEF Mutual, Either
  <2>4. /\ Cardinality(Either(u)) = Cardinality(A) + Cardinality(B) - Cardinality(Mutual(u))
        /\ Cardinality(A) \in Nat /\ Cardinality(B) \in Nat /\ Cardinality(Mutual(u)) \in Nat
    <3>1. A \in SUBSET Node /\ B \in SUBSET Node /\ Mutual(u) \in SUBSET Node
      BY <2>2 DEF Mutual
    <3>2. /\ IsFiniteSet(A) /\ IsFiniteSet(B)
          /\ Cardinality(A) \in 0 .. to /\ Cardinality(B) \in 0 .. to
          /\ Cardinality(Mutual(u)) \in 0 .. to /\ to \in Nat
      BY <3>1, NodesFinite
    <3> HIDE DEF A, B
    <3>3. Cardinality(A \cup B) = Cardinality(A) + Cardinality(B) - Cardinality(A \cap B)
      BY ONLY <3>2, FS_Union
    <3>4. Cardinality(Either(u)) = Cardinality(A) + Cardinality(B) - Cardinality(Mutual(u))
      BY ONLY <2>3, <3>3
    <3> QED
      BY ONLY <3>2, <3>4
  <2>5. IsSymbiotic(u)
          <=> 2 * Cardinality(A \cap B) > Cardinality(A) + Cardinality(B) - Cardinality(A \cap B)
    BY DEF IsSymbiotic
  <2>6. Counted(u) = 1 <=> u \in T
    <3> HIDE DEF A, B
    <3>1. Counted(u) = 1 <=> IsSymbiotic(u)
      BY <1>5 DEF Counted
    <3> QED
      BY <2>3, <2>4, <2>5, <3>1
  <2> HIDE DEF T
  <2> QED
    BY ONLY <1>2, <1>3, <2>1, <2>6
<1> QED
  BY <1>1, <1>2, <1>4, <1>5

\* When a body ends, every figure that begins with its node has been passed, and counted
\* by then or now.
LEMMA EndInv ==
  ASSUME IInv, NEW k \in Tid, NEW u \in AllNodes, End(k, u)
  PROVE  Shapes' /\ Bodies' /\ Counts'
<1> DEFINE New == IF Iterating THEN {} ELSE {t \in Figures : t[1] = u}
           n == local_count[k] + Counted(u)
<1>1. /\ LoopFacts!LoopInv /\ Shapes /\ Bodies /\ Counts
      /\ <<k, u>> \in running /\ running' = running \ {<<k, u>>}
      /\ completed' = completed \cup {u}
      /\ Iterating => ~AtElement(k, u)
      /\ t_count' = [t_count EXCEPT ![k] = @ + local_count[k] + Counted(u)]
      /\ UNCHANGED <<from, to, prepared, released>>
      /\ UNCHANGED <<input, buffers, visit, local_count, count>>
  BY DEF IInv, End, Loop!End, Loop!args
<1>2. /\ u \in Node /\ Within(k, u) /\ Intact(k, u) /\ to \in Nat
      /\ visit[k] \in [row : 0 .. to, result : -1 .. to]
      /\ Cardinality(get_row(u)) \in 0 .. to
  BY <1>1, BodyState
<1>3. Node' = Node /\ Iterating' = Iterating
  BY <1>1, InputKept
<1>4. Counted(u) \in {0, 1} /\ IsFiniteSet(New) /\ Cardinality(New) = Counted(u)
  <2>1. CASE Iterating
    <3>1. Counted(u) = 0
      BY <2>1 DEF Iterating, Counted
    <3> QED
      BY <2>1, <3>1, FS_EmptySet
  <2>2. CASE ~Iterating
    <3>1. /\ Counted(u) \in {0, 1}
          /\ {t \in Figures : t[1] = u} = IF Counted(u) = 1 THEN {<<u>>} ELSE {}
      BY <1>1, <1>2, <2>2, CountedNode
    <3>2. New = IF Counted(u) = 1 THEN {<<u>>} ELSE {}
      BY <2>2, <3>1
    <3>3. CASE Counted(u) = 1
      BY <3>2, <3>3, FS_Singleton
    <3>4. CASE Counted(u) = 0
      BY <3>2, <3>4, FS_EmptySet
    <3> QED
      BY <3>1, <3>3, <3>4
  <2> QED
    BY <2>1, <2>2
<1>5. /\ local_count[k] \in Nat /\ n \in Nat
      /\ t_count \in [Tid -> Nat] /\ t_count' \in [Tid -> Nat]
      /\ t_count'[k] = t_count[k] + n
      /\ \A h \in Tid : h # k => t_count'[h] = t_count[h]
  <2>1. t_count \in [Tid -> Nat] /\ local_count[k] \in Nat /\ Counted(u) \in Nat
    BY <1>1, <1>4 DEF Shapes
  <2>2. t_count' = [t_count EXCEPT ![k] = t_count[k] + local_count[k] + Counted(u)]
    BY <1>1
  <2> QED
    BY ONLY <2>1, <2>2
<1>6. Shapes'
  BY <1>1, <1>3, <1>5 DEF Shapes, Tid
<1>7. Bodies'
  <2>1. <<k, u>> \notin running' /\ running' \subseteq running \cup {<<k, u>>}
    BY <1>1
  <2>2. \A x : <<k, x>> \in running' => x = u
    BY <1>1, OneBody
  <2> QED
    BY <1>1, <1>2, <2>1, <2>2, BodiesKept
<1>8. Busy \subseteq Tid /\ Busy \subseteq Live /\ IsFiniteSet(Busy) /\ IsFiniteSet(Live)
  BY <1>1, Threads
<1>9. k \in Busy /\ k \in Live /\ Live' = Live /\ Busy' = Busy \ {k}
  <2>1. <<k, u>>[1] = k
    OBVIOUS
  <2>2. \A r, q \in running : r[1] = q[1] \/ r[2] = q[2] => r = q
    BY <1>1, LoopState
  <2> QED
    BY <1>1, <1>8, <2>1, <2>2 DEF Busy, Live
<1>10. /\ SumFunctionOnSet(t_count', Live') = SumFunctionOnSet(t_count, Live) + n
       /\ SumFunctionOnSet(t_count, Live) \in Nat
  <2>1. Live \in SUBSET Tid
    BY <1>1, Threads
  <2> HIDE DEF n
  <2>2. /\ SumFunctionOnSet(t_count', Live) = SumFunctionOnSet(t_count, Live) + n
        /\ SumFunctionOnSet(t_count, Live) \in Nat
    BY ONLY <1>5, <1>8, <1>9, <2>1, SumAdd
  <2> QED
    BY <1>9, <2>2
<1>11. /\ SumFunctionOnSet(local_count, Busy)
            = local_count[k] + SumFunctionOnSet(local_count', Busy')
       /\ SumFunctionOnSet(local_count', Busy') \in Nat
  <2>1. \A h \in Busy : local_count[h] \in Nat
    BY <1>1, <1>8 DEF Shapes
  <2>2. IsFiniteSet(Busy \ {k}) /\ \A h \in Busy \ {k} : local_count[h] \in Nat
    BY <1>8, <2>1, FS_RemoveElement
  <2>3. SumFunctionOnSet(local_count, Busy)
          = local_count[k] + SumFunctionOnSet(local_count, Busy \ {k})
    BY ONLY <1>8, <1>9, <2>1, SumRemove
  <2>4. SumFunctionOnSet(local_count, Busy \ {k}) \in Nat
    BY ONLY <2>2, SumType
  <2> QED
    BY <1>1, <1>9, <2>3, <2>4
<1>12. PassedFigures' = PassedFigures \cup New /\ PassedFigures \cap New = {}
  <2>1. u \notin completed /\ \A h \in Tid : \A x : <<h, x>> \in running => (h = k <=> x = u)
    <3>1. /\ \A r \in running : r[2] \notin completed
          /\ \A r, q \in running : r[1] = q[1] \/ r[2] = q[2] => r = q
      BY <1>1, LoopState
    <3>2. \A h, x : <<h, x>>[1] = h /\ <<h, x>>[2] = x
      OBVIOUS
    <3> QED
      BY <1>1, <3>1, <3>2
  <2>2. ASSUME NEW t \in Figures
        PROVE  /\ Passed(t)' <=> Passed(t) \/ t \in New
               /\ ~(Passed(t) /\ t \in New)
    <3>1. Passed(t) <=>
            \/ t[1] \in completed
            \/ Iterating /\ \E h \in Tid : <<h, t[1]>> \in running /\ Beyond(visit[h], t)
      BY PassedBy
    <3>2. Passed(t)' <=>
            \/ t[1] \in completed \cup {u}
            \/ Iterating /\ \E h \in Tid : <<h, t[1]>> \in running' /\ Beyond(visit[h], t)
      BY <1>1, PassedByNext
    <3>3. CASE t[1] # u
      <4>1. \A h \in Tid : <<h, t[1]>> \in running' <=> <<h, t[1]>> \in running
        BY <1>1, <3>3
      <4> QED
        BY <3>1, <3>2, <3>3, <4>1
    <3>4. CASE t[1] = u /\ Iterating
      <4>1. t[2] \in get_row(u)
        BY <1>1, <3>4, FiguresOfRow
      <4>2. /\ Len(CurrentRow(k, u)) = Cardinality(get_row(u))
            /\ \A v \in get_row(u) : Rank(v, get_row(u)) \in 0 .. Cardinality(get_row(u)) - 1
        <5>1. get_row(u) \in SUBSET Node /\ CurrentRow(k, u) = Increasing(get_row(u))
          BY <1>2, <3>4, RowOfNode DEF Intact
        <5> QED
          BY <1>1, <5>1, InOrder
      <4>3. Rank(t[2], get_row(t[1])) < visit[k].row
        <5>1. ~(visit[k].row < Cardinality(get_row(u)))
          BY <1>1, <3>4, <4>2 DEF AtElement
        <5>2. Rank(t[2], get_row(u)) \in 0 .. Cardinality(get_row(u)) - 1
          BY <4>1, <4>2
        <5>3. Rank(t[2], get_row(u)) < visit[k].row
          BY ONLY <1>2, <5>1, <5>2
        <5> QED
          BY <3>4, <5>3
      <4>4. Beyond(visit[k], t)
        BY <4>3 DEF Beyond
      <4> QED
        BY <1>1, <3>1, <3>2, <3>4, <4>4
    <3>5. CASE t[1] = u /\ ~Iterating
      BY <2>1, <3>1, <3>2, <3>5
    <3> QED
      BY <3>3, <3>4, <3>5
  <2>3. New \subseteq Figures
    OBVIOUS
  <2>4. \A t : t \in PassedFigures' <=> t \in Figures /\ Passed(t)'
    BY <1>1, FiguresPassedNext
  <2>5. \A t : t \in PassedFigures <=> t \in Figures /\ Passed(t)
    BY DEF PassedFigures
  <2> HIDE DEF New
  <2>6. \A t : t \in PassedFigures' <=> t \in PassedFigures \cup New
    BY ONLY <2>2, <2>3, <2>4, <2>5
  <2> QED
    BY ONLY <2>2, <2>3, <2>5, <2>6
<1>13. /\ IsFiniteSet(PassedFigures')
       /\ Cardinality(PassedFigures') = Cardinality(PassedFigures) + Counted(u)
  <2>1. IsFiniteSet(PassedFigures)
    BY <1>1 DEF Counts
  <2> HIDE DEF New
  <2>2. /\ IsFiniteSet(PassedFigures \cup New)
        /\ Cardinality(PassedFigures \cup New) = Cardinality(PassedFigures) + Cardinality(New)
    BY ONLY <1>4, <1>12, <2>1, DisjointUnion
  <2> QED
    BY <1>4, <1>12, <2>2
<1>14. Counts'
  <2>1. /\ count + SumFunctionOnSet(t_count, Live) + SumFunctionOnSet(local_count, Busy)
             = Cardinality(PassedFigures)
        /\ count \in Nat /\ count' = count /\ Counted(u) \in Nat
    BY <1>1, <1>4 DEF Counts, Shapes
  <2>2. count' + SumFunctionOnSet(t_count', Live') + SumFunctionOnSet(local_count', Busy')
          = Cardinality(PassedFigures')
    BY ONLY <1>5, <1>10, <1>11, <1>13, <2>1
  <2> QED
    BY <1>13, <2>2 DEF Counts
<1> QED
  BY <1>6, <1>7, <1>14
-----------------------------------------------------------------------------
LEMMA InitInv == Init => IInv
<1> SUFFICES ASSUME Init PROVE IInv
  OBVIOUS
<1>1. /\ numThreads \in 1 .. MaxThreads /\ from = 0 /\ input \in Inputs /\ to = input.nodes
      /\ to \in 0 .. MaxNodes /\ to \in Nat /\ workers \in 1 .. numThreads
      /\ prepared = 0 /\ unclaimed = 0 /\ pending = [k \in Tid |-> {}] /\ running = {}
      /\ completed = {} /\ released = 0
  <2>1. /\ numThreads \in 1 .. MaxThreads /\ from = 0 /\ input \in Inputs /\ to = input.nodes
        /\ to \in 0 .. MaxNodes /\ to \in Nat /\ workers \in 1 .. numThreads
    BY CountingAssumption, LoopAssumption DEF Init, Loop!Init
  <2> QED
    BY <2>1 DEF Init, Loop!Init, Loop!Tid, Tid
<1>2. LoopFacts!LoopInv
  <2>1. MaxNodes \in Nat /\ from \in 0 .. MaxNodes /\ to \in from .. MaxNodes
    BY <1>1, CountingAssumption, LoopAssumption
  <2>2. pending = [k \in LoopFacts!Tid |-> {}]
    BY <1>1 DEF LoopFacts!Tid, Tid
  <2>3. LoopFacts!Init
    BY <1>1, <2>1, <2>2 DEF LoopFacts!Init
  <2> QED
    BY <2>3, LoopBounds, LoopFacts!LoopInit
<1>3. Shapes
  <2>1. << >> \in Seq(Node) /\ 0 \in 0 .. to /\ -1 \in -1 .. to
    BY <1>1
  <2>2. visit \in [Tid -> [row : 0 .. to, result : -1 .. to]]
    BY <2>1 DEF Init
  <2>3. buffers \in [Tid -> [y : Seq(Node), z : Seq(Node), r : Seq(Node)]]
    BY <2>1 DEF Init
  <2>4. local_count \in [Tid -> Nat] /\ t_count \in [Tid -> Nat] /\ count \in Nat
    BY DEF Init, Garbage
  <2> QED
    BY <1>1, <2>2, <2>3, <2>4 DEF Shapes
<1>4. Bodies
  BY <1>1 DEF Bodies
<1>5. Counts
  <2>1. PassedFigures = {}
    BY <1>1 DEF PassedFigures, Passed
  <2>2. Live = {} /\ Busy = {}
    BY <1>1 DEF Live, Busy
  <2>3. SumFunctionOnSet(t_count, {}) = 0 /\ SumFunctionOnSet(local_count, {}) = 0
    <3>1. IsFiniteSet({}) /\ \A f : \A x \in {} : f[x] \in Nat
      BY FS_EmptySet
    <3> QED
      BY <3>1, SumType
  <2>4. count = 0
    BY DEF Init
  <2> QED
    BY <2>1, <2>2, <2>3, <2>4, FS_EmptySet DEF Counts
<1> QED
  BY <1>2, <1>3, <1>4, <1>5 DEF IInv

LEMMA NextInv == IInv /\ [Next]_vars => IInv'
<1> SUFFICES ASSUME IInv, [Next]_vars PROVE IInv'
  OBVIOUS
<1>1. LoopFacts!LoopInv'
  BY LoopKept
<1>2. ASSUME NEW k \in Tid, NEW u \in AllNodes,
             \/ Take(k, u) \/ Begin(k, u) \/ CountTriangles(k, u)
             \/ StartResult(k, u) \/ VisitResult(k, u) \/ EndResult(k, u) \/ End(k, u)
      PROVE  Shapes' /\ Bodies' /\ Counts'
  <2>1. ASSUME Take(k, u) PROVE Shapes' /\ Bodies' /\ Counts'
    <3>1. UNCHANGED <<from, to, running, completed, prepared, released, input, buffers,
                      visit, local_count, t_count, count>>
      BY <2>1 DEF Take, Loop!Take, Loop!args
    <3> QED
      BY <3>1, LoopOnlyInv
  <2> QED
    BY <1>2, <2>1, BeginInv, CountTrianglesInv, StartResultInv, VisitResultInv, EndResultInv,
       EndInv
<1>3. ASSUME UNCHANGED vars PROVE Shapes' /\ Bodies' /\ Counts'
  <2>1. UNCHANGED <<from, to, running, completed, prepared, released, input, buffers,
                    visit, local_count, t_count, count>>
    BY <1>3 DEF vars, loopVars
  <2> QED
    BY <2>1, LoopOnlyInv
<1>4. Shapes' /\ Bodies' /\ Counts'
  BY <1>2, <1>3, SetUpInv, TearDownInv DEF Next, Terminated
<1> QED
  BY <1>1, <1>4 DEF IInv

THEOREM CountingInvariance == Spec => []IInv
<1>1. Init => IInv
  BY InitInv
<1>2. IInv /\ [Next]_vars => IInv'
  BY NextInv
<1> QED
  BY <1>1, <1>2, PTL DEF Spec
-----------------------------------------------------------------------------
\* What the bodies, the threads and the total have counted is at every moment the number
\* of the figures that have been passed.
THEOREM CountedSoFarHolds == Spec => []CountedSoFar
<1>1. IInv => CountedSoFar
  BY DEF IInv, Counts, CountedSoFar, PassedFigures, Live, Busy
<1> QED
  BY <1>1, CountingInvariance, PTL

\* The rows and results that are iterated stay those of the graph, whatever is decoded
\* into the buffers meanwhile; the variables keep their types.
THEOREM RowsIntactHolds == Spec => []RowsIntact
<1>1. ASSUME IInv PROVE RowsIntact
  <2>1. Shapes /\ Bodies
    BY <1>1 DEF IInv
  <2>2. TypeOK
    <3>1. ASSUME NEW k \in Tid
          PROVE  /\ visit[k].row \in 0 .. to /\ visit[k].result \in -1 .. to
                 /\ \A b \in {"y", "z", "r"} : buffers[k][b] \in Seq(Node)
      BY <2>1 DEF Shapes
    <3> QED
      BY <2>1, <3>1 DEF TypeOK, Shapes
  <2>3. ASSUME NEW k \in Tid, NEW x \in Node, Iterating, <<k, x>> \in running
        PROVE  /\ CurrentRow(k, x) = Increasing(get_row(x))
               /\ visit[k].result >= 0 =>
                    buffers[k].r =
                      Increasing(get_row(x) \cap get_row(CurrentRow(k, x)[visit[k].row + 1]))
    BY <2>1, <2>3 DEF Bodies, Intact, CommonRow, Reached
  <2> QED
    BY <2>2, <2>3 DEF RowsIntact
<1>2. IInv => RowsIntact
  BY <1>1
<1> QED
  BY <1>2, CountingInvariance, PTL

\* The number printed, after the last teardown, is that of the figures in the graph.
THEOREM CountIsNumberOfFigures ==
  Spec => [](released = numThreads => count = Cardinality(Figures))
<1>1. ASSUME IInv, released = numThreads PROVE count = Cardinality(Figures)
  <2>1. LoopFacts!LoopInv /\ Shapes /\ Counts
    BY <1>1 DEF IInv
  <2>2. /\ numThreads \in 1 .. MaxThreads /\ MaxThreads \in Nat /\ count \in Nat
        /\ prepared \in 0 .. numThreads
    BY <2>1, LoopState, LoopAssumption DEF Shapes
  <2>3. released > 0
    BY <1>1, <2>2
  <2>4. running = {} /\ completed = from .. to - 1
    BY <2>1, <2>3, LoopBounds, LoopFacts!NothingAfterTearDown
    DEF LoopFacts!LoopInv, LoopFacts!Brackets
  <2>5. Live = {} /\ Busy = {}
    BY <1>1, <2>2, <2>4 DEF Live, Busy
  <2>6. completed = Node
    BY <2>1, <2>4 DEF Shapes, Node
  <2>7. ASSUME NEW t \in Figures PROVE t[1] \in Node
    <3>1. input.app \in {"triangles", "lollipops", "similar", "symbiotic"}
      BY <2>1, CountingAssumption DEF Shapes
    <3>2. CASE input.app = "triangles"
      BY <2>7, <3>2 DEF Figures
    <3>3. CASE input.app = "lollipops"
      BY <2>7, <3>3 DEF Figures
    <3>4. CASE input.app = "similar"
      <4>1. \E v \in Node : t = <<v>>
        BY <2>7, <3>4 DEF Figures
      <4> QED
        BY <4>1
    <3>5. CASE input.app = "symbiotic"
      <4>1. \E v \in Node : t = <<v>>
        BY <2>7, <3>5 DEF Figures
      <4> QED
        BY <4>1
    <3> QED
      BY <3>1, <3>2, <3>3, <3>4, <3>5
  <2>8. PassedFigures = Figures
    BY <2>6, <2>7 DEF PassedFigures, Passed
  <2>9. SumFunctionOnSet(t_count, {}) = 0 /\ SumFunctionOnSet(local_count, {}) = 0
    <3>1. IsFiniteSet({}) /\ \A f : \A x \in {} : f[x] \in Nat
      BY FS_EmptySet
    <3> QED
      BY <3>1, SumType
  <2> QED
    BY <2>1, <2>2, <2>5, <2>8, <2>9 DEF Counts
<1>2. IInv => (released = numThreads => count = Cardinality(Figures))
  BY <1>1
<1> QED
  BY <1>2, CountingInvariance, PTL
-----------------------------------------------------------------------------
Contents == [Byte -> (Node \cup {NoElement}) \X (0 .. SizeOf - 1)]
Calls == [node : Node, cardinality : Nat, pos : Nat]

\* The types, with the functions' domains.
CliqueShapes ==
  /\ \E g \in Graphs : to = g[1] /\ edges = g[2]
  /\ from = 0 /\ query_depth \in QueryDepths
  /\ common_buffer \in Contents /\ stack \in [Tid -> Seq(Calls)]
  /\ found \in [Tid -> Nat] /\ num_cliques \in Nat

\* The nodes chosen by a stack of calls down to a depth, and the set iterated there.
Chosen(s, d) == {s[c].node : c \in 1 .. d}
Iterated(s, d) == Common(Chosen(s, d))

\* The stack s of thread k belongs to the node that the thread runs.
Stacked(k, s, run) ==
  /\ Len(s) <= query_depth - 2
  /\ \A d \in 1 .. Len(s) : s[d].pos <= s[d].cardinality
  /\ \A u \in Node : <<k, u>> \in run <=> Len(s) > 0 /\ s[1].node = u
  /\ Len(s) > 0 => s[1].cardinality = Cardinality(Row(s[1].node))

\* Each set is that of the neighbours common to the nodes chosen, in order, and each
\* node was chosen from the set before it, at the place that was passed last.
Nested(k, s, buffer) ==
  /\ \A d \in 1 .. Len(s) : s[d].cardinality = Cardinality(Iterated(s, d))
  /\ \A d \in 1 .. Len(s) - 1 :
       s[d].pos > 0 /\ s[d + 1].node = Increasing(Iterated(s, d))[s[d].pos]
  /\ \A d \in 2 .. Len(s) : \A p \in 0 .. s[d].cardinality - 1 :
       WordAt(buffer, Slot(k, d) + SizeOf * p) = Increasing(Iterated(s, d))[p + 1]

InSlots(buffer) ==
  \A b \in Byte :
    buffer[b] # Unwritten =>
      \E k \in 0 .. numThreads - 1, d \in 2 .. query_depth - 1 :
        Slot(k, d) <= b /\ b < Slot(k, d + 1) + SizeOf * VEC

\* The cliques whose largest nodes are those of C.
Extending(C) == {S \in Cliques : C \subseteq S /\ \A x \in S \ C, c \in C : x < c}

\* How many elements of the set at a depth have been searched to the end.
Done(s, d) == IF d < Len(s) THEN s[d].pos - 1 ELSE s[d].pos

\* The search with stack s has passed clique S.
Searched(s, S) ==
  \E d \in 1 .. Len(s) : \E x \in Iterated(s, d) :
    /\ RankIn(Iterated(s, d), x) < Done(s, d)
    /\ S \in Extending(Chosen(s, d) \cup {x})

PassedCliques(nodes, stacks) ==
  {S \in Cliques : \/ \E u \in nodes : S \in Extending({u})
                   \/ \E k \in Tid : Searched(stacks[k], S)}

AddUp(total, counts, live, S) ==
  IsFiniteSet(S) /\ total + SumFunctionOnSet(counts, live) = Cardinality(S)


AllStacked == \A k \in Tid : Stacked(k, stack[k], running)

AllNested ==
  Room => /\ \A k \in Tid : Nested(k, stack[k], common_buffer)
          /\ InSlots(common_buffer)

CliquesAdded == Room => AddUp(num_cliques, found, Live, PassedCliques(completed, stack))

CliqueInv == LoopFacts!LoopInv /\ CliqueShapes /\ AllStacked /\ AllNested /\ CliquesAdded
-----------------------------------------------------------------------------
LEMMA CliqueGraph ==
  ASSUME CliqueShapes
  PROVE  /\ to \in Nat \ {0} /\ to <= MaxNodes
         /\ query_depth \in Nat /\ query_depth >= 3
         /\ SizeOf \in Nat \ {0} /\ VEC \in Nat \ {0} /\ SizeOf * VEC \in Nat
<1>1. SizeOf \in Nat \ {0} /\ VEC \in Nat \ {0}
  BY CliqueAssumption
<1>2. SizeOf * VEC \in Nat
  BY <1>1
<1>3. to \in Nat \ {0} /\ to <= MaxNodes /\ query_depth \in Nat /\ query_depth >= 3
  BY CliqueAssumption, LoopAssumption DEF CliqueShapes
<1> QED
  BY <1>1, <1>2, <1>3

LEMMA CommonIsSet ==
  ASSUME to \in Nat
  PROVE  \A S : /\ Common(S) \subseteq Node /\ IsFiniteSet(Common(S)) /\ Common(S) \subseteq Int
                /\ Cardinality(Common(S)) \in 0 .. to
<1>1. \A S : Common(S) \in SUBSET Node
  BY DEF Common
<1>2. Node \subseteq Int
  BY DEF Node
<1> QED
  BY <1>1, <1>2, SetsOfNodes

\* The row of a node is what is common to that node alone.
LEMMA RowIsCommon ==
  ASSUME to \in Nat, NEW u \in Node
  PROVE  Row(u) = Common({u})
<1>1. \A v \in Row(u) : v \in Node
  BY DEF Row, Node
<1> QED
  BY <1>1 DEF Common
-----------------------------------------------------------------------------
\* Numbers of bytes and of elements of z bytes each.
LEMMA Quotients ==
  ASSUME NEW x \in Nat, NEW n \in Nat, NEW z \in Nat \ {0}, x < z * n
  PROVE  (x \div z) \in 0 .. n - 1 /\ (x % z) \in 0 .. z - 1
<1>1. /\ (x \div z) \in Nat /\ (x % z) \in 0 .. z - 1
      /\ x = z * (x \div z) + (x % z)
  OBVIOUS
<1> DEFINE y == x \div z
<1>2. y \in Nat /\ z * y <= x
  <2>1. z * (x \div z) \in Nat
    BY <1>1
  <2> QED
    BY <1>1, <2>1
<1> HIDE DEF y
<1>3. y >= n => z * y >= z * n
  BY ONLY <1>2, n \in Nat, z \in Nat \ {0}
<1>4. z * y \in Nat /\ z * n \in Nat
  BY ONLY <1>2, n \in Nat, z \in Nat \ {0}
<1>5. y < n
  BY ONLY <1>2, <1>3, <1>4, x \in Nat, n \in Nat, x < z * n
<1> QED
  BY ONLY <1>1, <1>2, <1>5, n \in Nat DEF y

LEMMA Parts ==
  ASSUME NEW p \in Nat, NEW z \in Nat \ {0}, NEW j \in 0 .. z - 1
  PROVE  (z * p + j) \div z = p /\ (z * p + j) % z = j
<1> DEFINE x == z * p + j
<1>1. x \in Nat /\ z * p \in Nat
  OBVIOUS
<1>2. /\ (x \div z) \in Nat /\ (x % z) \in 0 .. z - 1
      /\ x = z * (x \div z) + (x % z)
  BY ONLY <1>1, z \in Nat \ {0}
<1> DEFINE y == x \div z
           r == x % z
<1>3. z * p + j = z * y + r
  BY <1>2
<1>4. y \in Nat /\ r \in 0 .. z - 1
  BY <1>2
<1> HIDE DEF x, y, r
<1>5. y < p => FALSE
  <2> SUFFICES ASSUME y < p PROVE FALSE
    OBVIOUS
  <2>1. z * (y + 1) <= z * p
    BY ONLY y < p, <1>4, z \in Nat \ {0}, p \in Nat
  <2>2. z * (y + 1) = z * y + z
    BY ONLY <1>4, z \in Nat \ {0}
  <2>3. z * y \in Nat /\ z * p \in Nat
    BY ONLY <1>4, z \in Nat \ {0}, p \in Nat
  <2> QED
    BY ONLY <1>3, <1>4, <2>1, <2>2, <2>3, z \in Nat \ {0}, j \in 0 .. z - 1
<1>6. p < y => FALSE
  <2> SUFFICES ASSUME p < y PROVE FALSE
    OBVIOUS
  <2>1. z * (p + 1) <= z * y
    BY ONLY p < y, <1>4, z \in Nat \ {0}, p \in Nat
  <2>2. z * (p + 1) = z * p + z
    BY ONLY p \in Nat, z \in Nat \ {0}
  <2>3. z * y \in Nat /\ z * p \in Nat
    BY ONLY <1>4, z \in Nat \ {0}, p \in Nat
  <2> QED
    BY ONLY <1>3, <1>4, <2>1, <2>2, <2>3, z \in Nat \ {0}, j \in 0 .. z - 1
<1>7. y = p
  BY ONLY <1>4, <1>5, <1>6, p \in Nat
<1>8. z * p \in Nat
  BY <1>1
<1>9. r = j
  BY ONLY <1>3, <1>4, <1>7, <1>8, z \in Nat \ {0}, j \in 0 .. z - 1
<1> QED
  BY <1>7, <1>9 DEF x, y, r

\* The bytes of one of n elements.
LEMMA BytesOf ==
  ASSUME NEW p \in Nat, NEW n \in Nat, p < n, NEW z \in Nat \ {0}
  PROVE  z * p \in Nat /\ z * n \in Nat /\ z * p + z <= z * n
<1>1. z * (p + 1) <= z * n
  OBVIOUS
<1>2. z * (p + 1) = z * p + z
  OBVIOUS
<1>3. z * p \in Nat /\ z * n \in Nat
  OBVIOUS
<1> QED
  BY <1>1, <1>2, <1>3

LEMMA StoreIsBuffer ==
  ASSUME SizeOf \in Nat \ {0}, to \in Nat, BufferEnd \in Nat, VEC \in Nat,
         NEW b \in Contents, NEW a \in Nat,
         NEW n \in Nat, NEW s \in [1 .. n -> Node \cup {NoElement}]
  PROVE  Store(b, a, s) \in Contents
<1>1. Len(s) = n
  <2>1. DOMAIN s = 1 .. n
    OBVIOUS
  <2> QED
    BY <2>1
<1> SUFFICES ASSUME NEW w \in Byte, a <= w, w < a + SizeOf * n
             PROVE  <<s[((w - a) \div SizeOf) + 1], (w - a) % SizeOf>>
                      \in (Node \cup {NoElement}) \X (0 .. SizeOf - 1)
  BY <1>1 DEF Store, Contents
<1>2. w \in Int
  BY DEF Byte
<1> DEFINE x == w - a
<1>3. x \in Nat /\ x < SizeOf * n
  <2>1. SizeOf * n \in Nat
    OBVIOUS
  <2> QED
    BY <1>2, <2>1
<1> HIDE DEF x
<1>4. (x \div SizeOf) \in 0 .. n - 1 /\ (x % SizeOf) \in 0 .. SizeOf - 1
  BY <1>3, Quotients
<1>5. (x \div SizeOf) + 1 \in 1 .. n
  BY <1>4
<1> QED
  BY <1>4, <1>5 DEF x

\* Where the q-th of the elements stored from a byte on begins, and that n of them
\* are in the buffer.
PlaceOf(a, q) == a + SizeOf * (q - 1)
Inside(a, n) == a .. a + SizeOf * n - 1 \subseteq Byte

LEMMA StoreReads ==
  ASSUME SizeOf \in Nat \ {0}, NEW b, NEW a \in Nat,
         NEW n \in Nat, NEW s, Len(s) = n, NEW q \in 1 .. n, s[q] \in Node,
         Inside(a, n)
  PROVE  WordAt(Store(b, a, s), PlaceOf(a, q)) = s[q]
<1> DEFINE c == Store(b, a, s)
           e == a + SizeOf * (q - 1)
<1>0. a .. a + SizeOf * n - 1 \subseteq Byte /\ PlaceOf(a, q) = e
  BY DEF Inside, PlaceOf
<1>1. q - 1 \in Nat /\ SizeOf * (q - 1) \in Nat /\ SizeOf * (q - 1) + SizeOf <= SizeOf * n
      /\ SizeOf * n \in Nat
  <2>1. q - 1 \in Nat /\ q - 1 < n
    OBVIOUS
  <2> QED
    BY ONLY <2>1, BytesOf, n \in Nat, SizeOf \in Nat \ {0}
<1>2. ASSUME NEW j \in 0 .. SizeOf - 1 PROVE c[e + j] = <<s[q], j>>
  <2> DEFINE m == SizeOf * (q - 1)
             w == e + j
             t == SizeOf * n
  <2>1. m \in Nat /\ t \in Nat /\ m + SizeOf <= t /\ w = a + m + j
    BY <1>1
  <2> HIDE DEF m, t
  <2>2. w \in a .. a + t - 1 /\ w - a = m + j /\ a <= w /\ w < a + t
    BY <2>1
  <2>3. w \in Byte
    BY <1>0, <2>2 DEF t
  <2>4. ((w - a) \div SizeOf) = q - 1 /\ (w - a) % SizeOf = j
    <3>1. ((SizeOf * (q - 1) + j) \div SizeOf) = q - 1 /\ (SizeOf * (q - 1) + j) % SizeOf = j
      BY ONLY <1>1, Parts, SizeOf \in Nat \ {0}, j \in 0 .. SizeOf - 1
    <3>2. w - a = SizeOf * (q - 1) + j
      BY <2>2 DEF m
    <3> HIDE DEF w
    <3> QED
      BY ONLY <3>1, <3>2
  <2>5. ((w - a) \div SizeOf) + 1 = q
    BY <2>4
  <2> HIDE DEF w
  <2>6. c[w] = <<s[((w - a) \div SizeOf) + 1], (w - a) % SizeOf>>
    BY <2>2, <2>3 DEF Store, t
  <2>7. c[w] = <<s[q], j>>
    BY <2>4, <2>5, <2>6
  <2> QED
    BY <2>7 DEF w
<1>3. e + 0 = e /\ 0 \in 0 .. SizeOf - 1
  BY <1>1
<1>4. c[e] = <<s[q], 0>>
  BY <1>2, <1>3
<1> HIDE DEF c, e
<1>5. WordAt(c, e) = s[q]
  BY <1>2, <1>4 DEF WordAt
<1> QED
  BY <1>0, <1>5 DEF c, e

LEMMA WordKept ==
  ASSUME SizeOf \in Nat \ {0}, NEW b, NEW c, NEW w \in Int,
         \A j \in 0 .. SizeOf - 1 : c[w + j] = b[w + j]
  PROVE  WordAt(c, w) = WordAt(b, w)
<1>1. w + 0 = w /\ 0 \in 0 .. SizeOf - 1
  OBVIOUS
<1>2. c[w] = b[w]
  BY <1>1
<1> QED
  BY <1>2 DEF WordAt

LEMMA WordIsNode ==
  \A b, w : WordAt(b, w) \in Node \cup {NoElement}
BY DEF WordAt
-----------------------------------------------------------------------------
\* A register that holds increasing elements, the elements of some of its lanes, and a
\* register of n elements that has those of E in front, in their order.
Rising(a) == a \in [1 .. VEC -> Int] /\ \A q, r \in 1 .. VEC : a[q] < a[r] <=> q < r
InLanes(a, lanes) == {a[q] : q \in lanes}
InFront(E, e, n) == \A x \in E : RankIn(E, x) + 1 \in 1 .. n /\ e[RankIn(E, x) + 1] = x

\* When it has been shuffled, the elements of the lanes are in front, in their order.
LEMMA ShuffledInOrder ==
  ASSUME VEC \in Nat, NEW a, Rising(a), NEW lanes \in SUBSET (1 .. VEC),
         NEW E, E = InLanes(a, lanes)
  PROVE  /\ IsFiniteSet(E) /\ E \subseteq Int /\ Cardinality(E) = Cardinality(lanes)
         /\ Cardinality(lanes) \in 0 .. VEC
         /\ InFront(E, Shuffle(a, lanes), VEC)
<1>0. /\ a \in [1 .. VEC -> Int] /\ \A q, r \in 1 .. VEC : a[q] < a[r] <=> q < r
      /\ E = {a[q] : q \in lanes}
  BY DEF Rising, InLanes
<1>1. /\ IsFiniteSet(1 .. VEC) /\ Cardinality(1 .. VEC) = VEC
      /\ lanes \subseteq Int
  BY FS_Interval
<1>2. IsFiniteSet(lanes) /\ Cardinality(lanes) \in Nat /\ Cardinality(lanes) <= VEC
  <2>1. lanes \in SUBSET (1 .. VEC)
    OBVIOUS
  <2>2. IsFiniteSet(lanes) /\ Cardinality(lanes) <= Cardinality(1 .. VEC)
    BY ONLY <1>1, <2>1, FS_Subset
  <2>3. Cardinality(lanes) \in Nat
    BY ONLY <2>2, FS_CardinalityType
  <2> QED
    BY ONLY <1>1, <2>2, <2>3
<1>3. \A q, r \in 1 .. VEC : a[q] = a[r] => q = r
  <2> SUFFICES ASSUME NEW q \in 1 .. VEC, NEW r \in 1 .. VEC, a[q] = a[r] PROVE q = r
    OBVIOUS
  <2>1. ~(q < r) /\ ~(r < q)
    <3>1. a[q] \in Int /\ a[r] \in Int
      BY <1>0
    <3>2. ~(a[q] < a[r]) /\ ~(a[r] < a[q])
      BY <3>1
    <3> QED
      BY <1>0, <3>2
  <2> QED
    BY <2>1
<1>4. ASSUME NEW L \in SUBSET lanes, NEW M, M = {a[q] : q \in L}
      PROVE  IsFiniteSet(M) /\ Cardinality(M) = Cardinality(L)
  <2> DEFINE f == [q \in L |-> a[q]]
  <2>1. IsFiniteSet(L)
    BY <1>2, FS_Subset
  <2>2. f \in [L -> M]
    BY <1>4
  <2>3. \A q, r \in L : f[q] = f[r] => q = r
    BY <1>3
  <2>4. \A x \in M : \E q \in L : f[q] = x
    BY <1>4
  <2> HIDE DEF f
  <2> QED
    BY ONLY <2>1, <2>2, <2>3, <2>4, ImagesCounted
<1>5. IsFiniteSet(E) /\ Cardinality(E) = Cardinality(lanes)
  <2>1. lanes \in SUBSET lanes
    OBVIOUS
  <2> QED
    BY <1>0, <1>4, <2>1
<1>6. E \subseteq Int
  BY <1>0
<1>7. ASSUME NEW x \in E
      PROVE  /\ RankIn(E, x) + 1 \in 1 .. VEC
             /\ Shuffle(a, lanes)[RankIn(E, x) + 1] = x
  <2>1. PICK q \in lanes : x = a[q]
    BY <1>0
  <2>2. q \in 1 .. VEC
    OBVIOUS
  <2> DEFINE L == {r \in lanes : r < q}
             M == {y \in E : y < x}
  <2>3. M = {a[r] : r \in L}
    <3>1. \A r \in lanes : a[r] < x <=> r < q
      BY <1>0, <2>1, <2>2
    <3> QED
      BY <1>0, <3>1
  <2>4. L \in SUBSET lanes
    OBVIOUS
  <2>5. Cardinality(M) = Cardinality(L)
    <3> HIDE DEF L, M
    <3> QED
      BY <1>4, <2>3, <2>4
  <2>6. RankIn(E, x) = RankIn(lanes, q)
    BY <2>5 DEF RankIn
  <2>7. /\ RankIn(lanes, q) + 1 \in 1 .. Cardinality(lanes)
        /\ Increasing(lanes)[RankIn(lanes, q) + 1] = q
    BY ONLY <1>1, <1>2, q \in lanes, IncreasingPlaces
  <2> HIDE DEF L, M
  <2> DEFINE p == RankIn(lanes, q) + 1
  <2>8. p \in 1 .. VEC /\ p <= Cardinality(lanes) /\ Increasing(lanes)[p] = q
    BY <1>2, <2>7
  <2> HIDE DEF p
  <2>9. Shuffle(a, lanes)[p] = a[q]
    BY <2>8 DEF Shuffle
  <2> QED
    BY <2>1, <2>6, <2>8, <2>9 DEF p
<1>8. Cardinality(lanes) \in 0 .. VEC
  BY <1>2
<1> QED
  BY <1>5, <1>6, <1>7, <1>8 DEF InFront

\* The last of p elements of a sequence, less than all when there is none.
LastOf(s, p) == IF p = 0 THEN -1 ELSE s[p]
Greater(x, y) == IF x > y THEN x ELSE y

\* The elements s[1], ..., s[n] of a set, in their order.
Listing(S, s, n) ==
  /\ n \in Nat
  /\ \A p \in 1 .. n : s[p] \in S /\ s[p] \in Nat
  /\ \A x \in S : \E p \in 1 .. n : s[p] = x
  /\ \A p, q \in 1 .. n : s[p] < s[q] <=> p < q
  /\ \A p \in 0 .. n : LastOf(s, p) \in Int
  /\ \A p \in 0 .. n : \A q \in 1 .. n : s[q] > LastOf(s, p) <=> q > p

LEMMA Ordered ==
  ASSUME NEW S, IsFiniteSet(S), S \subseteq Nat, NEW s, s = Increasing(S),
         NEW n, n = Cardinality(S)
  PROVE  Listing(S, s, n)
<1>1. S \subseteq Int
  OBVIOUS
<1>2. /\ n \in Nat
      /\ \A p \in 1 .. n : s[p] \in S /\ RankIn(S, s[p]) = p - 1
      /\ \A x \in S : RankIn(S, x) + 1 \in 1 .. n /\ s[RankIn(S, x) + 1] = x
  BY <1>1, IncreasingPlaces
<1>3. \A x, y \in S : x < y <=> RankIn(S, x) < RankIn(S, y)
  BY <1>1, Ranks
<1>4. \A p \in 1 .. n : s[p] \in S /\ s[p] \in Nat
  BY <1>2
<1>5. \A x \in S : \E p \in 1 .. n : s[p] = x
  BY <1>2
<1>6. ASSUME NEW p \in 1 .. n, NEW q \in 1 .. n PROVE s[p] < s[q] <=> p < q
  <2>1. /\ s[p] \in S /\ RankIn(S, s[p]) = p - 1
        /\ s[q] \in S /\ RankIn(S, s[q]) = q - 1
    BY ONLY <1>2, p \in 1 .. n, q \in 1 .. n
  <2>3. s[p] < s[q] <=> RankIn(S, s[p]) < RankIn(S, s[q])
    BY ONLY <1>3, <2>1
  <2>4. s[p] < s[q] <=> p - 1 < q - 1
    BY ONLY <2>1, <2>3
  <2> QED
    BY <1>2, <2>4
<1>7. ASSUME NEW p \in 0 .. n PROVE LastOf(s, p) \in Int
  <2>1. p # 0 => p \in 1 .. n
    BY <1>2
  <2> QED
    BY <1>4, <2>1 DEF LastOf
<1>8. ASSUME NEW p \in 0 .. n, NEW q \in 1 .. n PROVE s[q] > LastOf(s, p) <=> q > p
  <2>1. CASE p = 0
    BY <1>2, <1>4, <2>1 DEF LastOf
  <2>2. CASE p # 0
    <3>1. p \in 1 .. n
      BY <1>2, <2>2
    <3>2. s[p] < s[q] <=> p < q
      BY <1>6, <3>1
    <3>3. s[p] \in Nat /\ s[q] \in Nat /\ LastOf(s, p) = s[p]
      BY <1>4, <2>2, <3>1 DEF LastOf
    <3> QED
      BY <1>2, <3>1, <3>2, <3>3
  <2> QED
    BY <2>1, <2>2
<1> QED
  BY <1>2, <1>4, <1>5, <1>6, <1>7, <1>8 DEF Listing

\* The elements that both sets have from h to g are those that are in both blocks.
Met(S, T, s, t, i, j, V, h, g) ==
  /\ h \in Int /\ g \in Int /\ h <= g
  /\ \A x : x \in S \cap T /\ h < x /\ x <= g
             <=> (\E q \in 1 .. V : x = s[i + q]) /\ (\E q \in 1 .. V : x = t[j + q])

\* Two blocks of V elements are compared and one of them, or both, is passed: the
\* elements that both sets have beyond what was passed before and up to what has been
\* passed now are those that are in both blocks.
LEMMA BlocksMeet ==
  ASSUME NEW S, IsFiniteSet(S), S \subseteq Nat, NEW s, s = Increasing(S),
         NEW T, IsFiniteSet(T), T \subseteq Nat, NEW t, t = Increasing(T),
         NEW V \in Nat \ {0}, NEW i \in Nat, i + V <= Cardinality(S),
         NEW j \in Nat, j + V <= Cardinality(T),
         NEW i1, i1 = IF s[i + V] <= t[j + V] THEN i + V ELSE i,
         NEW j1, j1 = IF s[i + V] >= t[j + V] THEN j + V ELSE j,
         NEW h, h = Greater(LastOf(s, i), LastOf(t, j)),
         NEW g, g = Greater(LastOf(s, i1), LastOf(t, j1))
  PROVE  Met(S, T, s, t, i, j, V, h, g)
<1> DEFINE n == Cardinality(S)
           m == Cardinality(T)
<1>1. Listing(S, s, n)
  BY ONLY Ordered, IsFiniteSet(S), S \subseteq Nat, s = Increasing(S)
<1>2. Listing(T, t, m)
  BY ONLY Ordered, IsFiniteSet(T), T \subseteq Nat, t = Increasing(T)
<1>3. i + V <= n /\ j + V <= m
  OBVIOUS
<1> HIDE DEF n, m
<1>4. PICK I, J : I = i + V /\ J = j + V
  OBVIOUS
<1>5. /\ i \in 0 .. n /\ I \in 1 .. n /\ I \in 0 .. n /\ I > i /\ I # 0
      /\ j \in 0 .. m /\ J \in 1 .. m /\ J \in 0 .. m /\ J > j /\ J # 0
  BY <1>1, <1>2, <1>3, <1>4 DEF Listing
<1> DEFINE a == s[I]
           b == t[J]
           hs == LastOf(s, i)
           ht == LastOf(t, j)
<1>6. a \in Nat /\ b \in Nat /\ hs \in Int /\ ht \in Int /\ a > hs /\ b > ht
  BY <1>1, <1>2, <1>5 DEF Listing
<1>7. LastOf(s, I) = a /\ LastOf(t, J) = b
  BY <1>5 DEF LastOf
<1>8. i1 = (IF a <= b THEN I ELSE i) /\ j1 = (IF a >= b THEN J ELSE j)
  BY <1>4
<1>9. /\ a < b => g = Greater(a, ht)
      /\ a = b => g = a
      /\ a > b => g = Greater(hs, b)
  BY <1>6, <1>7, <1>8 DEF Greater
<1>10. h = Greater(hs, ht)
  OBVIOUS
<1> HIDE DEF a, b, hs, ht
<1>11. h \in Int /\ g \in Int /\ h <= g /\ h >= hs /\ h >= ht
  BY ONLY <1>6, <1>9, <1>10 DEF Greater
<1>12. ASSUME NEW x, x \in S \cap T, h < x, x <= g
       PROVE  (\E q \in 1 .. V : x = s[i + q]) /\ (\E q \in 1 .. V : x = t[j + q])
  <2>1. PICK p \in 1 .. n : s[p] = x
    BY <1>1, <1>12 DEF Listing
  <2>2. PICK r \in 1 .. m : t[r] = x
    BY <1>2, <1>12 DEF Listing
  <2>3. x \in Int
    BY <1>1, <2>1 DEF Listing
  <2>4. x > hs /\ x > ht /\ x <= a /\ x <= b
    BY ONLY <1>6, <1>9, <1>11, <1>12, <2>3 DEF Greater
  <2>5. p > i /\ ~(I < p)
    <3>1. s[p] > hs <=> p > i
      BY <1>1, <1>5 DEF hs, Listing
    <3>2. a < s[p] <=> I < p
      BY <1>1, <1>5 DEF a, Listing
    <3> QED
      BY ONLY <1>6, <2>1, <2>3, <2>4, <3>1, <3>2
  <2>6. r > j /\ ~(J < r)
    <3>1. t[r] > ht <=> r > j
      BY <1>2, <1>5 DEF ht, Listing
    <3>2. b < t[r] <=> J < r
      BY <1>2, <1>5 DEF b, Listing
    <3> QED
      BY ONLY <1>6, <2>2, <2>3, <2>4, <3>1, <3>2
  <2>7. p - i \in 1 .. V /\ i + (p - i) = p /\ r - j \in 1 .. V /\ j + (r - j) = r
    BY <1>1, <1>2, <1>4, <2>5, <2>6 DEF Listing
  <2> QED
    BY <2>1, <2>2, <2>7
<1>13. ASSUME NEW x, NEW q \in 1 .. V, x = s[i + q], NEW r \in 1 .. V, x = t[j + r]
       PROVE  x \in S \cap T /\ h < x /\ x <= g
  <2>1. PICK P, Q : P = i + q /\ Q = j + r
    OBVIOUS
  <2>2. /\ P \in 1 .. n /\ P > i /\ ~(I < P)
        /\ Q \in 1 .. m /\ Q > j /\ ~(J < Q)
    <3>1. n \in Nat /\ m \in Nat
      BY <1>1, <1>2 DEF Listing
    <3> QED
      BY ONLY <3>1, <1>3, <1>4, <2>1, i \in Nat, j \in Nat, q \in 1 .. V, r \in 1 .. V,
              V \in Nat \ {0}
  <2>22. x = s[P] /\ x = t[Q]
    BY <1>13, <2>1
  <2>3. x \in S /\ x \in T /\ x \in Nat
    <3>1. s[P] \in S /\ s[P] \in Nat
      BY ONLY <1>1, <2>2 DEF Listing
    <3>2. t[Q] \in T
      BY ONLY <1>2, <2>2 DEF Listing
    <3> QED
      BY ONLY <2>22, <3>1, <3>2
  <2>4. s[P] > hs /\ ~(a < s[P])
    BY <1>1, <1>5, <2>2 DEF hs, a, Listing
  <2>5. t[Q] > ht /\ ~(b < t[Q])
    BY <1>2, <1>5, <2>2 DEF ht, b, Listing
  <2>6. h < x /\ x <= g
    BY ONLY <1>6, <1>9, <1>10, <2>22, <2>3, <2>4, <2>5 DEF Greater
  <2> QED
    BY <2>3, <2>6
<1> QED
  BY <1>11, <1>12, <1>13 DEF Met

\* The element x of S that follows p others is in what is left of T beyond j elements
\* just when T has it and it was not passed there.
FoundLeft(S, T, s, t, p, j, h, g, x) ==
  /\ h \in Int /\ g \in Int /\ x \in S /\ x \in Nat /\ LastOf(s, p + 1) = x
  /\ LastOf(s, p) \in Int /\ x > LastOf(s, p) /\ LastOf(s, p) <= h
  /\ (\E q \in j + 1 .. Cardinality(T) : x = t[q]) <=> x \in T /\ x > h
  /\ x > h => g = x
  /\ x <= h => g = h
  /\ \A y \in S : y <= x /\ y # x => y <= LastOf(s, p)

LEMMA LeftOver ==
  ASSUME NEW S, IsFiniteSet(S), S \subseteq Nat, NEW s, s = Increasing(S),
         NEW T, IsFiniteSet(T), T \subseteq Nat, NEW t, t = Increasing(T),
         NEW p \in 0 .. Cardinality(S) - 1, NEW j \in 0 .. Cardinality(T),
         NEW h, h = Greater(LastOf(s, p), LastOf(t, j)),
         NEW g, g = Greater(LastOf(s, p + 1), LastOf(t, j)),
         NEW x, x = s[p + 1]
  PROVE  FoundLeft(S, T, s, t, p, j, h, g, x)
<1>0. PICK n, m : n = Cardinality(S) /\ m = Cardinality(T)
  OBVIOUS
<1>1. Listing(S, s, n)
  BY ONLY Ordered, IsFiniteSet(S), S \subseteq Nat, s = Increasing(S), <1>0
<1>2. Listing(T, t, m)
  BY ONLY Ordered, IsFiniteSet(T), T \subseteq Nat, t = Increasing(T), <1>0
<1>3. p \in 0 .. n - 1 /\ j \in 0 .. m
  BY <1>0
<1>4. p \in 0 .. n /\ p + 1 \in 1 .. n /\ p + 1 \in 0 .. n /\ p + 1 > p /\ p + 1 # 0
  BY <1>1, <1>3 DEF Listing
<1> DEFINE hs == LastOf(s, p)
           ht == LastOf(t, j)
<1>5. /\ hs \in Int /\ ht \in Int /\ x \in S /\ x \in Nat /\ x > hs
      /\ LastOf(s, p + 1) = x
  BY <1>1, <1>2, <1>3, <1>4 DEF LastOf, Listing
<1>6. h = Greater(hs, ht) /\ g = Greater(x, ht)
  BY <1>5
<1>7. (\E q \in j + 1 .. m : x = t[q]) <=> x \in T /\ x > ht
  <2>1. ASSUME NEW q \in j + 1 .. m, x = t[q] PROVE x \in T /\ x > ht
    <3>1. q \in 1 .. m /\ q > j
      BY <1>2, <1>3 DEF Listing
    <3> QED
      BY <1>2, <1>3, <2>1, <3>1 DEF Listing
  <2>2. ASSUME x \in T, x > ht PROVE \E q \in j + 1 .. m : x = t[q]
    <3>1. PICK q \in 1 .. m : t[q] = x
      BY <1>2, <2>2 DEF Listing
    <3>2. q > j
      BY <1>2, <1>3, <2>2, <3>1 DEF Listing
    <3>3. q \in j + 1 .. m
      BY <1>2, <1>3, <3>2 DEF Listing
    <3> QED
      BY <3>1, <3>3
  <2> QED
    BY <2>1, <2>2
<1>8. ASSUME NEW y \in S, y <= x, y # x PROVE y <= hs
  <2>1. PICK q \in 1 .. n : s[q] = y
    BY <1>1 DEF Listing
  <2>2. y \in Nat /\ y < x
    BY <1>1, <1>5, <1>8, <2>1 DEF Listing
  <2>3. q < p + 1
    BY <1>1, <1>4, <2>1, <2>2 DEF Listing
  <2>4. ~(q > p)
    BY <1>3, <2>3
  <2>5. ~(y > hs)
    BY <1>1, <1>4, <2>1, <2>4 DEF Listing
  <2> QED
    BY <1>5, <2>2, <2>5
<1> HIDE DEF hs, ht
<1>9. /\ h \in Int /\ g \in Int /\ hs <= h
      /\ (x > ht <=> x > h) /\ (x > h => g = x) /\ (x <= h => g = h)
  BY <1>5, <1>6 DEF Greater
<1>10. \A y \in S : y <= x /\ y # x => y <= hs
  BY <1>8
<1> QED
  BY <1>0, <1>5, <1>7, <1>9, <1>10 DEF hs, FoundLeft
-----------------------------------------------------------------------------
\* The states of the block loop: where it begins, and what is known after a round.
BlockStart == [buffer |-> common_buffer, count |-> 0, i |-> 0, j |-> 0, high |-> -1]

BlockStep(k, u, acc) ==
  IF /\ BlocksLeft(acc, Top(k).cardinality, Cardinality(Row(u)))
     /\ ~ Gallops(Top(k).cardinality, Cardinality(Row(u)))
  THEN Round(k, u, acc) ELSE acc

BlockRounds(k, u, n, f) ==
  f = [r \in 0 .. n |-> IF r = 0 THEN BlockStart ELSE BlockStep(k, u, f[r - 1])]

LEMMA RoundsExist ==
  ASSUME NEW k, NEW u, NEW n \in Nat
  PROVE  \E f : BlockRounds(k, u, n, f)
<1> DEFINE Good == {m \in Nat : \E f : BlockRounds(k, u, m, f)}
<1>1. 0 \in Good
  <2>1. BlockRounds(k, u, 0, [r \in 0 .. 0 |-> BlockStart])
    BY DEF BlockRounds
  <2> QED
    BY <2>1
<1>2. ASSUME NEW m \in Nat, m \in Good PROVE m + 1 \in Good
  <2>1. PICK f : BlockRounds(k, u, m, f)
    BY <1>2
  <2> DEFINE g == [r \in 0 .. m + 1 |-> IF r = 0 THEN BlockStart ELSE BlockStep(k, u, f[r - 1])]
  <2>2. \A r \in 0 .. m : g[r] = f[r]
    BY <2>1 DEF BlockRounds
  <2>3. \A r \in 0 .. m + 1 : r # 0 => g[r - 1] = f[r - 1]
    BY <2>2
  <2>4. g = [r \in 0 .. m + 1 |-> IF r = 0 THEN BlockStart ELSE BlockStep(k, u, g[r - 1])]
    BY <2>3
  <2> HIDE DEF g
  <2>5. BlockRounds(k, u, m + 1, g)
    BY <2>4 DEF BlockRounds
  <2> QED
    BY <2>5
<1> HIDE DEF Good
<1>3. n \in Good
  BY ONLY <1>1, <1>2, NatSetInduction, n \in Nat
<1> QED
  BY <1>3 DEF Good

\* What holds at the beginning of the block loop and is kept by its rounds holds at
\* its end.
LEMMA ByRounds ==
  ASSUME NEW k, NEW u, Top(k).cardinality \in Nat, Cardinality(Row(u)) \in Nat,
         NEW G, BlockStart \in G, \A a \in G : BlockStep(k, u, a) \in G
  PROVE  Blocks(k, u) \in G
<1> DEFINE n == Top(k).cardinality + Cardinality(Row(u))
           f == CHOOSE g : BlockRounds(k, u, n, g)
<1>1. BlockRounds(k, u, n, f)
  <2>1. n \in Nat
    OBVIOUS
  <2> HIDE DEF n
  <2> QED
    BY <2>1, RoundsExist
<1>2. Blocks(k, u) = f[n]
  BY DEF Blocks, BlockRounds, BlockStart, BlockStep
<1>3. n \in Nat
  OBVIOUS
<1> HIDE DEF f, n
<1> DEFINE S == {r \in Nat : r <= n => f[r] \in G}
<1>4. 0 \in S
  BY <1>1, <1>3 DEF BlockRounds
<1>5. ASSUME NEW r \in Nat, r \in S PROVE r + 1 \in S
  <2> SUFFICES ASSUME r + 1 <= n PROVE f[r + 1] \in G
    OBVIOUS
  <2>1. r + 1 \in 0 .. n /\ r + 1 # 0 /\ (r + 1) - 1 = r /\ f[r] \in G
    BY <1>3, <1>5
  <2>2. f[r + 1] = BlockStep(k, u, f[r])
    BY <1>1, <2>1 DEF BlockRounds
  <2> QED
    BY <2>1, <2>2
<1> HIDE DEF S
<1>6. n \in S
  BY ONLY <1>3, <1>4, <1>5, NatSetInduction
<1> QED
  BY <1>2, <1>3, <1>6 DEF S

\* The states of the scalar merge, which goes on from the i-th element.
Scans(k, u, n, f) ==
  f = [p \in 0 .. n |-> IF p <= Blocks(k, u).i THEN Blocks(k, u)
                        ELSE Scan(k, u, f[p - 1], p - 1)]

LEMMA ScansExist ==
  ASSUME NEW k, NEW u, NEW n \in Nat, Blocks(k, u).i \in Nat
  PROVE  \E f : Scans(k, u, n, f)
<1> DEFINE B == Blocks(k, u)
           i == B.i
           Good == {m \in Nat : \E f : Scans(k, u, m, f)}
<1>0. B = Blocks(k, u) /\ i = Blocks(k, u).i /\ i \in Nat
  OBVIOUS
<1> HIDE DEF B, i
<1>1. 0 \in Good
  <2>1. Scans(k, u, 0, [p \in 0 .. 0 |-> B])
    BY <1>0 DEF Scans
  <2> QED
    BY <2>1
<1>2. ASSUME NEW m \in Nat, m \in Good PROVE m + 1 \in Good
  <2>1. PICK f : Scans(k, u, m, f)
    BY <1>2
  <2> DEFINE g == [p \in 0 .. m + 1 |-> IF p <= i THEN B ELSE Scan(k, u, f[p - 1], p - 1)]
  <2>2. \A p \in 0 .. m : g[p] = f[p]
    BY <1>0, <2>1 DEF Scans
  <2>3. \A p \in 0 .. m + 1 : ~(p <= i) => g[p - 1] = f[p - 1]
    <3> HIDE DEF g
    <3>1. \A p \in 0 .. m + 1 : ~(p <= i) => p - 1 \in 0 .. m
      BY <1>0
    <3> QED
      BY <2>2, <3>1
  <2>4. g = [p \in 0 .. m + 1 |-> IF p <= i THEN B ELSE Scan(k, u, g[p - 1], p - 1)]
    BY <2>3
  <2> HIDE DEF g
  <2>5. Scans(k, u, m + 1, g)
    BY <1>0, <2>4 DEF Scans
  <2> QED
    BY <2>5
<1> HIDE DEF Good
<1>3. n \in Good
  BY ONLY <1>1, <1>2, NatSetInduction, n \in Nat
<1> QED
  BY <1>3 DEF Good

\* What holds at the end of the block loop and is kept for each element that the
\* merge scans holds of the result.
LEMMA ByScans ==
  ASSUME NEW k, NEW u, NEW n \in Nat, n = Top(k).cardinality, Blocks(k, u).i \in 0 .. n,
         NEW G, <<Blocks(k, u), Blocks(k, u).i>> \in G,
         \A p \in 0 .. n - 1 : \A a : <<a, p>> \in G => <<Scan(k, u, a, p), p + 1>> \in G
  PROVE  <<Intersection(k, u), n>> \in G
<1> DEFINE i == Blocks(k, u).i
           f == CHOOSE g : Scans(k, u, n, g)
<1>0. i \in 0 .. n /\ i \in Nat /\ <<Blocks(k, u), i>> \in G
  OBVIOUS
<1>1. Scans(k, u, n, f)
  BY <1>0, ScansExist
<1>2. Intersection(k, u) = f[n]
  BY DEF Intersection, Scans
<1> HIDE DEF f
<1>3. \A p \in 0 .. n : f[p] = IF p <= i THEN Blocks(k, u) ELSE Scan(k, u, f[p - 1], p - 1)
  BY <1>1 DEF Scans
<1> HIDE DEF i
<1> DEFINE S == {p \in Nat : i <= p /\ p <= n => <<f[p], p>> \in G}
<1>4. \A p \in Nat : p <= i => p \in S
  <2> TAKE p \in Nat
  <2> SUFFICES ASSUME p = i PROVE <<f[p], p>> \in G
    BY <1>0
  <2> QED
    BY <1>0, <1>3
<1>5. 0 \in S
  BY <1>0, <1>4
<1>6. ASSUME NEW p \in Nat, p \in S PROVE p + 1 \in S
  <2>1. CASE p + 1 <= i
    BY <1>4, <2>1
  <2>2. CASE ~(p + 1 <= i)
    <3> SUFFICES ASSUME p + 1 <= n PROVE <<f[p + 1], p + 1>> \in G
      OBVIOUS
    <3>1. <<f[p], p>> \in G /\ p \in 0 .. n - 1 /\ p + 1 \in 0 .. n /\ (p + 1) - 1 = p
      BY <1>0, <1>6, <2>2
    <3>2. f[p + 1] = Scan(k, u, f[p], p)
      BY <1>3, <2>2, <3>1
    <3> QED
      BY <3>1, <3>2
  <2> QED
    BY <2>1, <2>2
<1> HIDE DEF S
<1>7. n \in S
  BY ONLY n \in Nat, <1>5, <1>6, NatSetInduction
<1> QED
  BY <1>0, <1>2, <1>7 DEF S
-----------------------------------------------------------------------------
\* Whole blocks of the first x of n elements.
WholeBlocks(x, n) == x \in 0 .. n /\ \E c \in Nat : x = VEC * c

LEMMA NextBlock ==
  ASSUME VEC \in Nat \ {0}, NEW n \in Nat, NEW x, WholeBlocks(x, n),
         x < (n \div VEC) * VEC
  PROVE  x + VEC <= n /\ WholeBlocks(x + VEC, n)
<1>1. PICK c \in Nat : x = VEC * c
  BY DEF WholeBlocks
<1> DEFINE d == n \div VEC
<1>2. d \in Nat /\ d * VEC <= n
  BY VEC \in Nat \ {0}
<1>3. x < d * VEC
  OBVIOUS
<1> HIDE DEF d
<1>4. c < d
  <2> SUFFICES ASSUME d <= c PROVE FALSE
    BY <1>2
  <2>1. d * VEC <= VEC * c
    BY ONLY VEC \in Nat \ {0}, <1>2, c \in Nat, d <= c
  <2>2. d * VEC \in Nat /\ VEC * c \in Nat
    BY ONLY VEC \in Nat \ {0}, <1>2, c \in Nat
  <2> QED
    BY ONLY <1>1, <1>3, <2>1, <2>2
<1>5. VEC * (c + 1) <= d * VEC
  BY ONLY VEC \in Nat \ {0}, <1>2, c \in Nat, <1>4
<1>6. VEC * (c + 1) = VEC * c + VEC /\ VEC * c \in Nat /\ d * VEC \in Nat
  BY ONLY VEC \in Nat \ {0}, <1>2, c \in Nat
<1>7. x + VEC <= n /\ x + VEC \in Nat /\ x + VEC = VEC * (c + 1)
  BY ONLY VEC \in Nat \ {0}, <1>1, <1>2, <1>5, <1>6, n \in Nat
<1> QED
  BY <1>7 DEF WholeBlocks

\* Elements are numbers, and reading the set at the top of a stack gives nodes or no
\* element, whatever the buffer holds.
Entry == Node \cup {NoElement}
Entries(k) ==
  \A b : \A p \in 0 .. Top(k).cardinality - 1 : Element(k, Depth(k), p, b) \in Entry

MergeStates == [buffer : Contents, count : Nat, i : Nat, j : Nat, high : Int]
Merging(k, u) ==
  {a \in MergeStates : /\ WholeBlocks(a.i, Top(k).cardinality)
                       /\ WholeBlocks(a.j, Cardinality(Row(u)))}

\* The blocks of the shorter and of the longer operand.
RowIsRare(k, u) == Top(k).cardinality > Cardinality(Row(u))
RareBlock(k, u, a) == IF RowIsRare(k, u) THEN RowBlock(u, a) ELSE SetBlock(k, a)
FreqBlock(k, u, a) == IF RowIsRare(k, u) THEN SetBlock(k, a) ELSE RowBlock(u, a)
Lanes(k, u, a) == Matching(RareBlock(k, u, a), FreqBlock(k, u, a))

LEMMA RoundIs ==
  ASSUME NEW k, NEW u, NEW a
  PROVE  LET r == Round(k, u, a)
         IN  /\ r = [buffer |-> r.buffer, count |-> r.count, i |-> r.i, j |-> r.j, high |-> r.high]
             /\ r.buffer = Store(a.buffer, ResultSlot(k) + SizeOf * a.count,
                                 Shuffle(RareBlock(k, u, a), Lanes(k, u, a)))
             /\ r.count = a.count + Cardinality(Lanes(k, u, a))
             /\ r.i = IF SetBlock(k, a)[VEC] <= RowBlock(u, a)[VEC] THEN a.i + VEC ELSE a.i
             /\ r.j = IF SetBlock(k, a)[VEC] >= RowBlock(u, a)[VEC] THEN a.j + VEC ELSE a.j
             /\ r.high = a.high
BY DEF Round, RareBlock, FreqBlock, Lanes, RowIsRare

LEMMA RowPlaces ==
  ASSUME to \in Nat, NEW u \in Node
  PROVE  /\ Row(u) \subseteq Node /\ IsFiniteSet(Row(u)) /\ Row(u) \subseteq Nat
         /\ Cardinality(Row(u)) \in 0 .. to /\ Len(Increasing(Row(u))) = Cardinality(Row(u))
         /\ \A p \in 1 .. Cardinality(Row(u)) : Increasing(Row(u))[p] \in Node
<1>1. /\ Row(u) \subseteq Node /\ IsFiniteSet(Row(u)) /\ Row(u) \subseteq Int
      /\ Cardinality(Row(u)) \in 0 .. to
  BY RowIsCommon, CommonIsSet
<1>2. /\ Len(Increasing(Row(u))) = Cardinality(Row(u))
      /\ \A p \in 1 .. Cardinality(Row(u)) : Increasing(Row(u))[p] \in Row(u)
  BY ONLY <1>1, IncreasingPlaces
<1>3. Node \subseteq Nat
  BY DEF Node
<1> QED
  BY <1>1, <1>2, <1>3

\* A shuffled register holds what the register held.
LEMMA ShuffleKeeps ==
  ASSUME VEC \in Nat, NEW A, NEW a \in [1 .. VEC -> A], NEW lanes \in SUBSET (1 .. VEC)
  PROVE  Shuffle(a, lanes) \in [1 .. VEC -> A] /\ Cardinality(lanes) \in Nat
<1>1. IsFiniteSet(lanes) /\ lanes \subseteq Int
  <2>1. IsFiniteSet(1 .. VEC)
    BY FS_Interval
  <2>2. lanes \in SUBSET (1 .. VEC) /\ lanes \subseteq Int
    BY VEC \in Nat
  <2>3. IsFiniteSet(lanes)
    BY ONLY <2>1, <2>2, FS_Subset
  <2> QED
    BY <2>2, <2>3
<1>2. /\ Cardinality(lanes) \in Nat
      /\ \A q \in 1 .. Cardinality(lanes) : Increasing(lanes)[q] \in lanes
  BY ONLY <1>1, IncreasingPlaces
<1>3. ASSUME NEW q \in 1 .. VEC
      PROVE  (IF q <= Cardinality(lanes) THEN a[Increasing(lanes)[q]] ELSE a[q]) \in A
  <2>1. CASE q <= Cardinality(lanes)
    <3>1. q \in 1 .. Cardinality(lanes)
      BY ONLY <1>2, <2>1, q \in 1 .. VEC, VEC \in Nat
    <3>3. Increasing(lanes)[q] \in 1 .. VEC
      BY ONLY <1>2, <3>1, lanes \in SUBSET (1 .. VEC)
    <3>2. a[Increasing(lanes)[q]] \in A
      BY <3>3
    <3> QED
      BY <2>1, <3>2
  <2>2. CASE ~(q <= Cardinality(lanes))
    BY <2>2
  <2> QED
    BY <2>1, <2>2
<1> QED
  BY <1>2, <1>3 DEF Shuffle

LEMMA BlocksRead ==
  ASSUME to \in Nat, VEC \in Nat \ {0}, NEW k, NEW u \in Node, Top(k).cardinality \in Nat,
         Entries(k), NEW a \in Merging(k, u),
         BlocksLeft(a, Top(k).cardinality, Cardinality(Row(u)))
  PROVE  /\ a.i \in Nat /\ a.i + VEC <= Top(k).cardinality
         /\ a.j \in Nat /\ a.j + VEC <= Cardinality(Row(u))
         /\ WholeBlocks(a.i + VEC, Top(k).cardinality)
         /\ WholeBlocks(a.j + VEC, Cardinality(Row(u)))
         /\ SetBlock(k, a) \in [1 .. VEC -> Entry] /\ RowBlock(u, a) \in [1 .. VEC -> Node]
<1> DEFINE n == Top(k).cardinality
           m == Cardinality(Row(u))
<1>1. n \in Nat /\ m \in Nat
  BY RowPlaces
<1>2. /\ a.i \in Nat /\ a.j \in Nat /\ WholeBlocks(a.i, n) /\ WholeBlocks(a.j, m)
      /\ a.i < (n \div VEC) * VEC /\ a.j < (m \div VEC) * VEC
  BY DEF Merging, MergeStates, BlocksLeft
<1> HIDE DEF n, m
<1>3. a.i + VEC <= n /\ WholeBlocks(a.i + VEC, n)
  BY ONLY VEC \in Nat \ {0}, <1>1, <1>2, NextBlock
<1>4. a.j + VEC <= m /\ WholeBlocks(a.j + VEC, m)
  BY ONLY VEC \in Nat \ {0}, <1>1, <1>2, NextBlock
<1>5. ASSUME NEW q \in 1 .. VEC
      PROVE  Element(k, Depth(k), a.i + q - 1, a.buffer) \in Entry
  <2>1. a.i + q - 1 \in 0 .. n - 1
    BY ONLY <1>1, <1>2, <1>3, VEC \in Nat \ {0}, q \in 1 .. VEC
  <2> QED
    BY <2>1 DEF Entries, n
<1>6. ASSUME NEW q \in 1 .. VEC
      PROVE  Increasing(Row(u))[a.j + q] \in Node
  <2>1. a.j + q \in 1 .. m
    BY ONLY <1>1, <1>2, <1>4, VEC \in Nat \ {0}, q \in 1 .. VEC
  <2> QED
    BY <2>1, RowPlaces DEF m
<1>7. SetBlock(k, a) \in [1 .. VEC -> Entry]
  BY <1>5 DEF SetBlock
<1>8. RowBlock(u, a) \in [1 .. VEC -> Node]
  BY <1>6 DEF RowBlock
<1> QED
  BY <1>2, <1>3, <1>4, <1>7, <1>8 DEF n, m

LEMMA RoundTyped ==
  ASSUME SizeOf \in Nat \ {0}, to \in Nat, BufferEnd \in Nat, VEC \in Nat \ {0},
         NEW k, NEW u \in Node, Top(k).cardinality \in Nat,
         Entries(k), ResultSlot(k) \in Nat, NEW a \in Merging(k, u),
         BlocksLeft(a, Top(k).cardinality, Cardinality(Row(u)))
  PROVE  Round(k, u, a) \in Merging(k, u)
<1> DEFINE r == Round(k, u, a)
           rare == RareBlock(k, u, a)
           lanes == Lanes(k, u, a)
           stored == Shuffle(rare, lanes)
           first == ResultSlot(k) + SizeOf * a.count
<1>1. /\ r = [buffer |-> r.buffer, count |-> r.count, i |-> r.i, j |-> r.j, high |-> r.high]
      /\ r.buffer = Store(a.buffer, first, stored)
      /\ r.count = a.count + Cardinality(lanes)
      /\ r.i = a.i \/ r.i = a.i + VEC
      /\ r.j = a.j \/ r.j = a.j + VEC
      /\ r.high = a.high
  BY RoundIs
<1>2. /\ a.i \in Nat /\ a.j \in Nat
      /\ WholeBlocks(a.i + VEC, Top(k).cardinality)
      /\ WholeBlocks(a.j + VEC, Cardinality(Row(u)))
      /\ SetBlock(k, a) \in [1 .. VEC -> Entry] /\ RowBlock(u, a) \in [1 .. VEC -> Node]
  BY BlocksRead
<1>3. /\ a.buffer \in Contents /\ a.count \in Nat /\ a.high \in Int
      /\ WholeBlocks(a.i, Top(k).cardinality) /\ WholeBlocks(a.j, Cardinality(Row(u)))
  BY DEF Merging, MergeStates
<1>4. rare \in [1 .. VEC -> Entry]
  BY <1>2 DEF RareBlock, Entry
<1>5. lanes \in SUBSET (1 .. VEC)
  BY DEF Lanes, Matching
<1> HIDE DEF r, rare, lanes
<1>6. stored \in [1 .. VEC -> Entry] /\ Cardinality(lanes) \in Nat
  BY ONLY <1>4, <1>5, VEC \in Nat \ {0}, ShuffleKeeps
<1>7. first \in Nat
  BY <1>3
<1> HIDE DEF stored, first
<1>8. r.buffer \in Contents
  BY ONLY SizeOf \in Nat \ {0}, to \in Nat, BufferEnd \in Nat, VEC \in Nat \ {0},
          <1>1, <1>3, <1>6, <1>7, StoreIsBuffer DEF Entry
<1>9. r.i \in Nat /\ r.j \in Nat /\ r.count \in Nat /\ r.high \in Int
  BY ONLY <1>1, <1>2, <1>3, <1>6, VEC \in Nat \ {0}
<1>10. r \in MergeStates
  BY ONLY <1>1, <1>8, <1>9 DEF MergeStates
<1>11. WholeBlocks(r.i, Top(k).cardinality) /\ WholeBlocks(r.j, Cardinality(Row(u)))
  BY ONLY <1>1, <1>2, <1>3
<1> QED
  BY <1>10, <1>11 DEF Merging, r

\* What a step of the merge does to the state a, when the element it scans is x.
LEMMA LargerOfTwo ==
  ASSUME NEW x \in Int, NEW y \in Int
  PROVE  Max({x, y}) = IF x > y THEN x ELSE y
<1> DEFINE m == IF x > y THEN x ELSE y
<1>1. m \in {x, y} /\ \A z \in {x, y} : m >= z
  OBVIOUS
<1>2. \A a, b \in {x, y} : (\A z \in {x, y} : a >= z) /\ (\A z \in {x, y} : b >= z) => a = b
  OBVIOUS
<1>3. Max({x, y}) \in {x, y} /\ \A z \in {x, y} : Max({x, y}) >= z
  BY <1>1 DEF Max
<1> QED
  BY <1>1, <1>2, <1>3

\* The row has the element among those that the blocks have left of it.
LeftInRow(u, a, x) == \E t \in a.j + 1 .. Cardinality(Row(u)) : x = Increasing(Row(u))[t]

\* The element x has been scanned in the state a, which gives the state b.
Scanned(k, u, a, b, x) ==
  /\ b.i = a.i /\ b.j = a.j
  /\ b.high = IF x > a.high THEN x ELSE a.high
  /\ x > a.high /\ LeftInRow(u, a, x) =>
       /\ b.buffer = Store(a.buffer, ResultSlot(k) + SizeOf * a.count, <<x>>)
       /\ b.count = a.count + 1
  /\ ~(x > a.high /\ LeftInRow(u, a, x)) => b.buffer = a.buffer /\ b.count = a.count

LEMMA ScanTyped ==
  ASSUME SizeOf \in Nat \ {0}, to \in Nat, BufferEnd \in Nat, VEC \in Nat \ {0},
         NEW k, NEW u \in Node, ResultSlot(k) \in Nat, NEW a \in Merging(k, u), NEW p,
         NEW x \in Entry, x = Element(k, Depth(k), p, a.buffer)
  PROVE  /\ Scan(k, u, a, p) \in Merging(k, u)
         /\ Scanned(k, u, a, Scan(k, u, a, p), x)
<1> DEFINE r == Scan(k, u, a, p)
           high == Max({x, a.high})
           first == ResultSlot(k) + SizeOf * a.count
           buffer == Store(a.buffer, first, <<x>>)
<1>1. /\ x \in Int /\ a.high \in Int /\ a.count \in Nat /\ a.buffer \in Contents
      /\ a \in MergeStates /\ first \in Nat
  BY DEF Merging, MergeStates, Entry, Node, NoElement
<1>2. high = (IF x > a.high THEN x ELSE a.high) /\ high \in Int
  BY <1>1, LargerOfTwo
<1>3. r = IF x > a.high /\ LeftInRow(u, a, x)
          THEN [[[a EXCEPT !.buffer = buffer] EXCEPT !.count = a.count + 1] EXCEPT !.high = high]
          ELSE [a EXCEPT !.high = high]
  <2>1. Len(Increasing(Row(u))) = Cardinality(Row(u))
    BY RowPlaces
  <2>2. r = IF x > a.high /\ \E t \in a.j + 1 .. Len(Increasing(Row(u))) : x = Increasing(Row(u))[t]
            THEN [a EXCEPT !.buffer = buffer, !.count = a.count + 1, !.high = high]
            ELSE [a EXCEPT !.high = high]
    BY Zenon DEF Scan
  <2> HIDE DEF r, high, buffer, first
  <2> QED
    BY <2>1, <2>2 DEF LeftInRow
<1>4. buffer \in Contents
  <2>1. <<x>> \in [1 .. 1 -> Node \cup {NoElement}]
    BY DEF Entry
  <2> HIDE DEF first
  <2> QED
    BY ONLY SizeOf \in Nat \ {0}, to \in Nat, BufferEnd \in Nat, VEC \in Nat \ {0},
            <1>1, <2>1, StoreIsBuffer
<1>5. buffer = Store(a.buffer, ResultSlot(k) + SizeOf * a.count, <<x>>)
  OBVIOUS
<1> HIDE DEF r, high, buffer, first
<1>6. CASE x > a.high /\ LeftInRow(u, a, x)
  <2>1. r = [[[a EXCEPT !.buffer = buffer] EXCEPT !.count = a.count + 1] EXCEPT !.high = high]
    BY <1>3, <1>6
  <2>2. /\ r \in MergeStates /\ r.buffer = buffer /\ r.count = a.count + 1 /\ r.high = high
        /\ r.i = a.i /\ r.j = a.j
    <3> DEFINE b == [a EXCEPT !.buffer = buffer]
               c == [b EXCEPT !.count = a.count + 1]
    <3>1. /\ b \in MergeStates /\ b.buffer = buffer /\ b.count = a.count
          /\ b.high = a.high /\ b.i = a.i /\ b.j = a.j
      BY ONLY <1>1, <1>4 DEF MergeStates
    <3>2. r = [c EXCEPT !.high = high]
      BY <2>1
    <3> HIDE DEF b
    <3>3. /\ c \in MergeStates /\ c.buffer = buffer /\ c.count = a.count + 1
          /\ c.high = a.high /\ c.i = a.i /\ c.j = a.j
      BY ONLY <1>1, <3>1 DEF MergeStates
    <3> HIDE DEF c
    <3> QED
      BY ONLY <1>2, <3>2, <3>3 DEF MergeStates
  <2> QED
    BY <1>2, <1>5, <1>6, <2>2 DEF r, Scanned, Merging
<1>7. CASE ~(x > a.high /\ LeftInRow(u, a, x))
  <2>1. r = [a EXCEPT !.high = high]
    BY <1>3, <1>7
  <2>2. /\ r \in MergeStates /\ r.buffer = a.buffer /\ r.count = a.count /\ r.high = high
        /\ r.i = a.i /\ r.j = a.j
    BY ONLY <1>1, <1>2, <2>1 DEF MergeStates
  <2> QED
    BY <1>2, <1>7, <2>2 DEF r, Scanned, Merging
<1> QED
  BY <1>6, <1>7
-----------------------------------------------------------------------------
\* Whatever slots suffice, the states of an intersection have their types.
LEMMA IntersectionTyped ==
  ASSUME SizeOf \in Nat \ {0}, to \in Nat, BufferEnd \in Nat, VEC \in Nat \ {0},
         common_buffer \in Contents, NEW k, NEW u \in Node, Top(k).cardinality \in Nat,
         Entries(k), ResultSlot(k) \in Nat
  PROVE  /\ Blocks(k, u) \in Merging(k, u) /\ Intersection(k, u) \in Merging(k, u)
<1> DEFINE n == Top(k).cardinality
           m == Cardinality(Row(u))
<1>1. n \in Nat /\ m \in Nat
  BY RowPlaces
<1>2. BlockStart \in Merging(k, u)
  <2>1. BlockStart \in MergeStates /\ BlockStart.i = 0 /\ BlockStart.j = 0
    BY DEF BlockStart, MergeStates
  <2>2. \A x \in Nat : WholeBlocks(0, x)
    <3>1. 0 = VEC * 0
      BY VEC \in Nat \ {0}
    <3> QED
      BY <3>1 DEF WholeBlocks
  <2> QED
    BY <1>1, <2>1, <2>2 DEF Merging
<1>3. ASSUME NEW a \in Merging(k, u) PROVE BlockStep(k, u, a) \in Merging(k, u)
  <2>1. CASE BlocksLeft(a, n, m)
    <3>1. Round(k, u, a) \in Merging(k, u)
      BY <2>1, RoundTyped
    <3> QED
      BY <3>1 DEF BlockStep
  <2>2. CASE ~BlocksLeft(a, n, m)
    BY <2>2 DEF BlockStep
  <2> QED
    BY <2>1, <2>2
<1>4. Blocks(k, u) \in Merging(k, u)
  BY ONLY <1>1, <1>2, <1>3, ByRounds
<1>5. Blocks(k, u).i \in 0 .. n
  BY <1>4 DEF Merging, WholeBlocks
<1> DEFINE G == Merging(k, u) \X (0 .. n)
<1>6. <<Blocks(k, u), Blocks(k, u).i>> \in G
  BY <1>4, <1>5
<1>7. ASSUME NEW p \in 0 .. n - 1, NEW a, <<a, p>> \in G
      PROVE  <<Scan(k, u, a, p), p + 1>> \in G
  <2>1. a \in Merging(k, u) /\ p + 1 \in 0 .. n
    BY <1>1, <1>7
  <2>2. Element(k, Depth(k), p, a.buffer) \in Entry
    BY DEF Entries
  <2>3. Scan(k, u, a, p) \in Merging(k, u)
    BY ONLY SizeOf \in Nat \ {0}, to \in Nat, BufferEnd \in Nat, VEC \in Nat \ {0},
            u \in Node, ResultSlot(k) \in Nat, <2>1, <2>2, ScanTyped
  <2> QED
    BY <2>1, <2>3
<1> HIDE DEF n, G
<1>8. <<Intersection(k, u), n>> \in G
  BY ONLY <1>1, <1>5, <1>6, <1>7, ByScans DEF n
<1> QED
  BY <1>4, <1>8 DEF G
-----------------------------------------------------------------------------
Between(T, h, g) == {y \in T : h < y /\ y <= g}

\* The elements of T up to h have been counted and written, from byte R on.
Written(b, c, T, h, R) ==
  /\ b \in Contents /\ c = Cardinality({y \in T : y <= h})
  /\ \A y \in T : y <= h => WordAt(b, R + SizeOf * RankIn(T, y)) = y

\* When a register is stored in which the elements of T from h to g are in front, in
\* their order, those up to g have been written.
LEMMA MoreWritten ==
  ASSUME SizeOf \in Nat \ {0}, to \in Nat, BufferEnd \in Nat, VEC \in Nat,
         NEW T, IsFiniteSet(T), T \subseteq Node, NEW R \in Nat,
         NEW h \in Int, NEW g \in Int, h <= g,
         NEW b, NEW c, Written(b, c, T, h, R),
         NEW E, E = Between(T, h, g),
         NEW n \in Nat, NEW e \in [1 .. n -> Entry], InFront(E, e, n),
         NEW a, a = R + SizeOf * c, Inside(a, n), Inside(R, Cardinality(T)),
         NEW o, o = c + Cardinality(E)
  PROVE  Written(Store(b, a, e), o, T, g, R)
<1> DEFINE below == {y \in T : y <= h}
           first == R + SizeOf * c
           d == Store(b, first, e)
<1>12. /\ first .. first + SizeOf * n - 1 \subseteq Byte
       /\ R .. R + SizeOf * Cardinality(T) - 1 \subseteq Byte
  BY DEF Inside
<1>1. b \in Contents /\ c = Cardinality(below)
      /\ \A y \in T : y <= h => WordAt(b, R + SizeOf * RankIn(T, y)) = y
  BY DEF Written
<1>2. T \subseteq Nat /\ T \subseteq Int /\ E \subseteq Int /\ E \subseteq T
  <2>1. T \subseteq Nat /\ T \subseteq Int
    BY ONLY T \subseteq Node DEF Node
  <2>2. E \subseteq T
    BY DEF Between
  <2> QED
    BY ONLY <2>1, <2>2
<1>0. \A y \in T : y \in E <=> h < y /\ y <= g
  BY DEF Between
<1>3. IsFiniteSet(below) /\ IsFiniteSet(E) /\ c \in Nat /\ Cardinality(E) \in Nat
  <2>1. below \subseteq T /\ E \subseteq T
    BY <1>2
  <2>2. IsFiniteSet(below) /\ IsFiniteSet(E)
    BY <2>1, FS_Subset
  <2> QED
    BY <1>1, <2>2, FS_CardinalityType
<1>4. /\ \A x \in T : RankIn(T, x) \in 0 .. Cardinality(T) - 1
      /\ Cardinality(T) \in Nat
  BY <1>2, Ranks, FS_CardinalityType
<1>5. SizeOf * c \in Nat /\ first \in Nat /\ SizeOf * n \in Nat
  BY <1>3
<1>6. Len(e) = n
  BY DOMAIN e = 1 .. n
<1>7. d \in Contents
  BY ONLY SizeOf \in Nat \ {0}, to \in Nat, BufferEnd \in Nat, VEC \in Nat,
          <1>1, <1>5, n \in Nat, e \in [1 .. n -> Entry], StoreIsBuffer DEF Entry
<1>8. c + Cardinality(E) = Cardinality({y \in T : y <= g})
  <2>1. below \cap E = {} /\ below \cup E = {y \in T : y <= g}
    <3>1. \A y \in T : y <= g <=> y <= h \/ y \in E
      BY ONLY <1>0, <1>2, h \in Int, g \in Int, h <= g
    <3>2. \A y \in T : ~(y <= h /\ y \in E)
      BY ONLY <1>0, <1>2, h \in Int, g \in Int, h <= g
    <3> QED
      BY ONLY <1>2, <3>1, <3>2
  <2>2. Cardinality(below \cup E) = Cardinality(below) + Cardinality(E)
    BY ONLY <1>3, <2>1, DisjointUnion
  <2> QED
    BY <1>1, <2>1, <2>2
<1>9. ASSUME NEW y \in T, y <= h
      PROVE  WordAt(d, R + SizeOf * RankIn(T, y)) = y
  <2> DEFINE r == RankIn(T, y)
             w == R + SizeOf * r
             L == {z \in T : z < y}
  <2>1. L \subseteq below /\ y \in below /\ y \notin L
    <3>1. \A z \in T : z < y => z <= h
      BY ONLY <1>2, y \in T, y <= h, h \in Int
    <3>2. ~(y < y)
      BY ONLY <1>2, y \in T
    <3> QED
      BY ONLY <3>1, <3>2, y \in T, y <= h
  <2>2. r < c /\ r \in Nat
    <3>1. L # below
      BY <2>1
    <3>2. Cardinality(L) < Cardinality(below)
      <4> HIDE DEF L, below
      <4>1. IsFiniteSet(L) /\ Cardinality(L) <= Cardinality(below) /\ Cardinality(L) # Cardinality(below)
        BY ONLY <1>3, <2>1, <3>1, FS_Subset
      <4>2. Cardinality(L) \in Nat /\ Cardinality(below) \in Nat
        BY ONLY <1>3, <4>1, FS_CardinalityType
      <4> QED
        BY ONLY <4>1, <4>2
    <3>3. r = Cardinality(L)
      BY DEF RankIn
    <3> QED
      BY <1>1, <1>4, <3>2, <3>3
  <2>3. SizeOf * r \in Nat /\ SizeOf * r + SizeOf <= SizeOf * c
    BY ONLY <1>3, <2>2, SizeOf \in Nat \ {0}, BytesOf
  <2>4. SizeOf * Cardinality(T) \in Nat /\ SizeOf * r + SizeOf <= SizeOf * Cardinality(T)
    <3>1. r < Cardinality(T)
      BY <1>4
    <3> QED
      BY ONLY <1>4, <2>2, <3>1, SizeOf \in Nat \ {0}, BytesOf
  <2> HIDE DEF r
  <2>5. w \in Int /\ WordAt(b, w) = y
    <3>1. WordAt(b, w) = y
      BY <1>1, <1>9 DEF r
    <3> QED
      BY <2>3, <3>1
  <2>6. ASSUME NEW j \in 0 .. SizeOf - 1 PROVE d[w + j] = b[w + j]
    <3> DEFINE x == SizeOf * r
               y2 == SizeOf * Cardinality(T)
               z == SizeOf * c
    <3>1. x \in Nat /\ y2 \in Nat /\ z \in Nat /\ x + SizeOf <= z /\ x + SizeOf <= y2
      BY <1>5, <2>3, <2>4
    <3>2. w = R + x /\ first = R + z /\ R .. R + y2 - 1 \subseteq Byte
      BY <1>12
    <3> HIDE DEF x, y2, z, w, first, d
    <3>3. w + j \in R .. R + y2 - 1 /\ w + j < first
      BY ONLY <3>1, <3>2, R \in Nat, SizeOf \in Nat \ {0}, j \in 0 .. SizeOf - 1
    <3>4. w + j \in Byte
      BY <3>2, <3>3
    <3> DEFINE v == w + j
    <3>5. v \in Byte /\ ~(first <= v /\ v < first + SizeOf * Len(e))
      <4>1. first \in Nat /\ v \in Int /\ v < first
        BY <1>5, <3>2, <3>3
      <4>2. ~(first <= v)
        BY ONLY <4>1
      <4> QED
        BY ONLY <3>4, <4>2 DEF v
    <3> HIDE DEF v
    <3>6. Store(b, first, e)[v] = b[v]
      BY ONLY <3>5 DEF Store
    <3> QED
      BY ONLY <3>6 DEF d, v
  <2> HIDE DEF w, d
  <2>7. WordAt(d, w) = WordAt(b, w)
    BY ONLY SizeOf \in Nat \ {0}, <2>5, <2>6, WordKept
  <2> QED
    BY <2>5, <2>7 DEF w, r
<1>10. ASSUME NEW y \in E, y \in T
       PROVE  WordAt(d, R + SizeOf * RankIn(T, y)) = y
  <2> DEFINE r == RankIn(E, y)
             L == {z \in E : z < y}
  <2>1. r \in Nat /\ r = Cardinality(L) /\ IsFiniteSet(L)
    <3>1. L \subseteq E
      OBVIOUS
    <3>2. IsFiniteSet(L)
      BY ONLY <1>3, <3>1, FS_Subset
    <3>3. Cardinality(L) \in Nat
      BY ONLY <3>2, FS_CardinalityType
    <3> QED
      BY <3>2, <3>3 DEF RankIn
  <2>2. RankIn(T, y) = c + r
    <3>0. y \in Int /\ h < y /\ y <= g
      BY <1>0, <1>2
    <3>1. below \cap L = {} /\ below \cup L = {z \in T : z < y}
      <4>1. \A z \in T : z < y <=> z <= h \/ (z \in E /\ z < y)
        BY ONLY <1>0, <1>2, <3>0, h \in Int, g \in Int, h <= g
      <4>2. \A z \in T : ~(z <= h /\ z \in E)
        BY ONLY <1>0, <1>2, h \in Int, g \in Int, h <= g
      <4> QED
        BY ONLY <1>2, <4>1, <4>2
    <3>2. Cardinality(below \cup L) = Cardinality(below) + Cardinality(L)
      BY ONLY <1>3, <2>1, <3>1, DisjointUnion
    <3> QED
      BY <1>1, <2>1, <3>1, <3>2 DEF RankIn
  <2>3. r + 1 \in 1 .. n /\ e[r + 1] = y /\ y \in Node
    BY <1>2 DEF InFront
  <2> HIDE DEF r, L
  <2> DEFINE q == r + 1
  <2>4. q \in 1 .. n /\ e[q] = y /\ e[q] \in Node /\ q - 1 = r
    BY <2>1, <2>3
  <2> HIDE DEF q
  <2>5. WordAt(d, first + SizeOf * (q - 1)) = e[q]
    <3>1. first .. first + SizeOf * n - 1 \subseteq Byte
      BY <1>12
    <3>2. first \in Nat /\ q \in 1 .. n /\ e[q] \in Node
      BY <1>5, <2>4
    <3> HIDE DEF first
    <3>3. Inside(first, n)
      BY ONLY <3>1 DEF Inside
    <3>4. WordAt(Store(b, first, e), PlaceOf(first, q)) = e[q]
      BY ONLY SizeOf \in Nat \ {0}, <1>6, n \in Nat, <3>2, <3>3, StoreReads
    <3> QED
      BY ONLY <3>4 DEF d, PlaceOf
  <2>6. SizeOf * (c + r) = SizeOf * c + SizeOf * r /\ SizeOf * r \in Nat
    BY ONLY <1>3, <2>1, SizeOf \in Nat \ {0}
  <2>7. first + SizeOf * r = R + SizeOf * (c + r)
    BY ONLY <1>5, <2>6, R \in Nat DEF first
  <2> HIDE DEF d, first
  <2>8. WordAt(d, R + SizeOf * (c + r)) = y
    BY ONLY <2>4, <2>5, <2>7
  <2> QED
    BY ONLY <2>2, <2>8
<1>11. \A y \in T : y <= g => y <= h \/ y \in E
  BY <1>0, <1>2
<1> HIDE DEF d
<1> QED
  BY <1>2, <1>7, <1>8, <1>9, <1>10, <1>11 DEF Written, d
-----------------------------------------------------------------------------
\* How many bytes behind a set a register may reach: with less room no register is
\* stored.
Spill == IF SizeOf * VEC <= 2 * to THEN SizeOf * VEC ELSE 0

\* The bytes in which a result of n elements is written, and a buffer that differs
\* only there.
ResultBytes(k, n) == ResultSlot(k) .. ResultSlot(k) + SizeOf * n + Spill - 1
Kept(k, n, b) == \A w \in Byte : w \notin ResultBytes(k, n) => b[w] = common_buffer[w]

\* Thread k reads the set S in order, whatever has been written for n elements of the
\* result.
Reads(k, S, n) ==
  \A b \in Contents :
    Kept(k, n, b)
      => \A p \in 0 .. Cardinality(S) - 1 : Element(k, Depth(k), p, b) = Increasing(S)[p + 1]

\* What an intersection of the set S at the top with the row of u may rely on.
MergeSetting(k, u, S, T) ==
  /\ SizeOf \in Nat \ {0} /\ to \in Nat /\ BufferEnd \in Nat /\ VEC \in Nat \ {0}
  /\ common_buffer \in Contents /\ u \in Node
  /\ IsFiniteSet(S) /\ S \subseteq Node /\ Top(k).cardinality = Cardinality(S)
  /\ T = S \cap Row(u)
  /\ Entries(k) /\ ResultSlot(k) \in Nat
  /\ ResultBytes(k, Cardinality(T)) \subseteq Byte
  /\ Reads(k, S, Cardinality(T))
  /\ Spill = SizeOf * VEC \/ Cardinality(S) < VEC \/ Cardinality(Row(u)) < VEC

\* The elements in common up to h have been found.
Merged(k, u, T, a, h) ==
  /\ a \in Merging(k, u) /\ Kept(k, Cardinality(T), a.buffer)
  /\ Written(a.buffer, a.count, T, h, ResultSlot(k))

\* The greater of the elements passed last.
PassedTo(S, T, i, j) == Greater(LastOf(Increasing(S), i), LastOf(Increasing(T), j))

LEMMA KeptByStore ==
  ASSUME SizeOf \in Nat \ {0}, NEW k, NEW m, NEW b, NEW a \in Nat, NEW n \in Nat, NEW e,
         Len(e) = n, Kept(k, m, b), a .. a + SizeOf * n - 1 \subseteq ResultBytes(k, m)
  PROVE  Kept(k, m, Store(b, a, e))
<1> SUFFICES ASSUME NEW w \in Byte, w \notin ResultBytes(k, m)
             PROVE  Store(b, a, e)[w] = common_buffer[w]
  BY DEF Kept
<1> DEFINE z == SizeOf * n
<1>1. w \in Int /\ z \in Nat /\ w \notin a .. a + z - 1
  BY DEF Byte
<1> HIDE DEF z
<1>2. ~(a <= w /\ w < a + z)
  BY ONLY <1>1, a \in Nat
<1>3. Store(b, a, e)[w] = b[w]
  BY <1>2 DEF Store, z
<1> QED
  BY <1>3 DEF Kept

LEMMA MergeSets ==
  ASSUME NEW k, NEW u, NEW S, NEW T, MergeSetting(k, u, S, T)
  PROVE  /\ IsFiniteSet(S) /\ S \subseteq Nat /\ Cardinality(S) \in Nat
         /\ IsFiniteSet(Row(u)) /\ Row(u) \subseteq Nat /\ Cardinality(Row(u)) \in Nat
         /\ IsFiniteSet(T) /\ T \subseteq Nat /\ T \subseteq Node /\ Cardinality(T) \in Nat
         /\ SizeOf * Cardinality(T) \in Nat /\ Spill \in Nat /\ SizeOf * VEC \in Nat
         /\ Inside(ResultSlot(k), Cardinality(T))
<1>1. /\ IsFiniteSet(S) /\ S \subseteq Node /\ T = S \cap Row(u) /\ u \in Node /\ to \in Nat
      /\ SizeOf \in Nat \ {0} /\ VEC \in Nat \ {0} /\ ResultSlot(k) \in Nat
      /\ ResultBytes(k, Cardinality(T)) \subseteq Byte
  BY DEF MergeSetting
<1>2. Node \subseteq Nat
  BY DEF Node
<1>3. /\ IsFiniteSet(Row(u)) /\ Row(u) \subseteq Nat /\ Cardinality(Row(u)) \in Nat
  BY <1>1, RowPlaces
<1>4. IsFiniteSet(T) /\ T \subseteq Nat /\ T \subseteq Node /\ S \subseteq Nat
  <2>1. T \in SUBSET S
    BY <1>1
  <2> QED
    BY <1>1, <1>2, <2>1, FS_Subset
<1>5. Cardinality(S) \in Nat /\ Cardinality(T) \in Nat
  BY <1>1, <1>4, FS_CardinalityType
<1>6. SizeOf * Cardinality(T) \in Nat /\ SizeOf * VEC \in Nat
  BY <1>1, <1>5
<1>7. Spill \in Nat
  BY <1>6 DEF Spill
<1>8. Inside(ResultSlot(k), Cardinality(T))
  <2> DEFINE R == ResultSlot(k)
             z == SizeOf * Cardinality(T)
  <2>1. R \in Nat /\ z \in Nat /\ Spill \in Nat /\ R .. R + z + Spill - 1 \subseteq Byte
    BY <1>1, <1>6, <1>7 DEF ResultBytes
  <2> HIDE DEF R, z
  <2>2. R .. R + z - 1 \subseteq R .. R + z + Spill - 1
    BY ONLY <2>1
  <2>3. R .. R + z - 1 \subseteq Byte
    BY ONLY <2>1, <2>2
  <2> QED
    BY <2>3 DEF Inside, R, z
<1> QED
  BY <1>1, <1>3, <1>4, <1>5, <1>6, <1>7, <1>8

\* What is written for elements that are all in common lies in the result's bytes.
LEMMA WrittenInside ==
  ASSUME NEW k, NEW u, NEW S, NEW T, MergeSetting(k, u, S, T), NEW a, NEW h, Merged(k, u, T, a, h),
         NEW n \in Nat, NEW f, f = ResultSlot(k) + SizeOf * a.count,
         \/ n <= VEC /\ Spill = SizeOf * VEC
         \/ n = 1 /\ a.count < Cardinality(T)
  PROVE  /\ f \in Nat /\ a.count \in Nat
         /\ f .. f + SizeOf * n - 1 \subseteq ResultBytes(k, Cardinality(T)) /\ Inside(f, n)
<1>1. /\ SizeOf \in Nat \ {0} /\ VEC \in Nat \ {0} /\ ResultSlot(k) \in Nat
      /\ ResultBytes(k, Cardinality(T)) \subseteq Byte
  BY DEF MergeSetting
<1>2. /\ Cardinality(T) \in Nat /\ SizeOf * Cardinality(T) \in Nat /\ Spill \in Nat
      /\ SizeOf * VEC \in Nat /\ IsFiniteSet(T)
  BY MergeSets
<1>3. a.count \in Nat /\ a.count <= Cardinality(T)
  <2>1. a.count = Cardinality({y \in T : y <= h})
    BY DEF Merged, Written
  <2>2. {y \in T : y <= h} \in SUBSET T
    OBVIOUS
  <2>3. /\ Cardinality({y \in T : y <= h}) <= Cardinality(T)
        /\ IsFiniteSet({y \in T : y <= h})
    BY ONLY <1>2, <2>2, FS_Subset
  <2>4. Cardinality({y \in T : y <= h}) \in Nat
    BY ONLY <2>3, FS_CardinalityType
  <2> QED
    BY ONLY <2>1, <2>3, <2>4
<1> DEFINE c == a.count
           R == ResultSlot(k)
           x == SizeOf * c
           y == SizeOf * n
           z == SizeOf * Cardinality(T)
<1>4. x \in Nat /\ y \in Nat /\ z \in Nat /\ x <= z
  BY <1>1, <1>2, <1>3
<1>5. x + y <= z + Spill
  <2>1. CASE n <= VEC /\ Spill = SizeOf * VEC
    <3>1. y <= SizeOf * VEC
      BY <1>1, <2>1
    <3> HIDE DEF x, y, z
    <3> QED
      BY <1>4, <2>1, <3>1
  <2>2. CASE n = 1 /\ a.count < Cardinality(T)
    <3>1. SizeOf * c + SizeOf <= SizeOf * Cardinality(T)
      BY ONLY <1>1, <1>2, <1>3, <2>2, BytesOf
    <3>2. y = SizeOf
      BY <1>1, <2>2
    <3>3. x + SizeOf <= z
      BY <3>1
    <3> HIDE DEF x, y, z
    <3> QED
      BY <1>2, <1>4, <3>2, <3>3
  <2> QED
    BY <2>1, <2>2
<1>6. /\ R \in Nat /\ f = R + x /\ ResultBytes(k, Cardinality(T)) = R .. R + z + Spill - 1
  BY <1>1 DEF ResultBytes
<1> HIDE DEF x, y, z, R
<1>7. f \in Nat
  BY ONLY <1>4, <1>6
<1>8. f .. f + y - 1 \subseteq R .. R + z + Spill - 1
  BY ONLY <1>2, <1>4, <1>5, <1>6
<1>9. f .. f + SizeOf * n - 1 \subseteq ResultBytes(k, Cardinality(T))
  BY ONLY <1>6, <1>8 DEF y
<1>10. Inside(f, n)
  BY ONLY <1>1, <1>9 DEF Inside
<1> QED
  BY <1>3, <1>7, <1>9, <1>10
-----------------------------------------------------------------------------
\* The blocks of a round, when the set is read in order.
LEMMA BlocksInOrder ==
  ASSUME NEW k, NEW u, NEW S, NEW T, MergeSetting(k, u, S, T), NEW a, NEW h, Merged(k, u, T, a, h),
         BlocksLeft(a, Top(k).cardinality, Cardinality(Row(u)))
  PROVE  /\ a.i \in Nat /\ a.i + VEC <= Cardinality(S)
         /\ a.j \in Nat /\ a.j + VEC <= Cardinality(Row(u))
         /\ \A q \in 1 .. VEC : SetBlock(k, a)[q] = Increasing(S)[a.i + q]
         /\ \A q \in 1 .. VEC : RowBlock(u, a)[q] = Increasing(Row(u))[a.j + q]
         /\ SetBlock(k, a) \in [1 .. VEC -> Entry] /\ RowBlock(u, a) \in [1 .. VEC -> Node]
<1>1. /\ to \in Nat /\ VEC \in Nat \ {0} /\ u \in Node /\ Top(k).cardinality = Cardinality(S)
      /\ Entries(k) /\ Reads(k, S, Cardinality(T))
  BY DEF MergeSetting
<1>2. Cardinality(S) \in Nat
  BY MergeSets
<1>3. a \in Merging(k, u) /\ Kept(k, Cardinality(T), a.buffer) /\ a.buffer \in Contents
  BY DEF Merged, Merging, MergeStates
<1>4. /\ a.i \in Nat /\ a.i + VEC <= Cardinality(S)
      /\ a.j \in Nat /\ a.j + VEC <= Cardinality(Row(u))
      /\ SetBlock(k, a) \in [1 .. VEC -> Entry] /\ RowBlock(u, a) \in [1 .. VEC -> Node]
  BY <1>1, <1>2, <1>3, BlocksRead
<1>5. ASSUME NEW q \in 1 .. VEC PROVE SetBlock(k, a)[q] = Increasing(S)[a.i + q]
  <2> DEFINE p == a.i + q - 1
  <2>1. p \in 0 .. Cardinality(S) - 1 /\ p + 1 = a.i + q
    BY ONLY <1>1, <1>2, <1>4, q \in 1 .. VEC
  <2>2. SetBlock(k, a)[q] = Element(k, Depth(k), p, a.buffer)
    BY DEF SetBlock
  <2> HIDE DEF p
  <2>3. Element(k, Depth(k), p, a.buffer) = Increasing(S)[p + 1]
    BY ONLY <1>1, <1>3, <2>1 DEF Reads
  <2> QED
    BY ONLY <2>1, <2>2, <2>3
<1>6. ASSUME NEW q \in 1 .. VEC PROVE RowBlock(u, a)[q] = Increasing(Row(u))[a.j + q]
  BY DEF RowBlock
<1> QED
  BY <1>4, <1>5, <1>6

\* A block of a set in order.
BlockOf(b, S, i) == \A q \in 1 .. VEC : b[q] = Increasing(S)[i + q]

LEMMA BlockOrdered ==
  ASSUME VEC \in Nat, NEW S, IsFiniteSet(S), S \subseteq Nat, NEW i \in Nat,
         i + VEC <= Cardinality(S), NEW A, NEW b \in [1 .. VEC -> A], BlockOf(b, S, i)
  PROVE  Rising(b)
<1> DEFINE s == Increasing(S)
           n == Cardinality(S)
<1>1. Listing(S, s, n)
  BY ONLY Ordered, IsFiniteSet(S), S \subseteq Nat
<1>2. i + VEC <= n /\ \A q \in 1 .. VEC : b[q] = s[i + q]
  BY DEF BlockOf
<1> HIDE DEF s, n
<1>3. /\ n \in Nat /\ \A p \in 1 .. n : s[p] \in Nat
      /\ \A p, q \in 1 .. n : s[p] < s[q] <=> p < q
  BY <1>1 DEF Listing
<1>4. \A q \in 1 .. VEC : i + q \in 1 .. n
  BY ONLY <1>2, <1>3, VEC \in Nat, i \in Nat
<1>5. \A q \in 1 .. VEC : b[q] \in Nat
  BY ONLY <1>2, <1>3, <1>4
<1>6. ASSUME NEW q \in 1 .. VEC, NEW r \in 1 .. VEC PROVE b[q] < b[r] <=> q < r
  <2> DEFINE x == i + q
             y == i + r
  <2>1. x \in 1 .. n /\ y \in 1 .. n /\ (x < y <=> q < r)
    BY <1>4
  <2>2. b[q] = s[x] /\ b[r] = s[y]
    BY <1>2
  <2> HIDE DEF x, y
  <2> QED
    BY ONLY <1>3, <2>1, <2>2
<1> QED
  BY <1>5, <1>6 DEF Rising

LEMMA RoundMerges ==
  ASSUME NEW k, NEW u, NEW S, NEW T, MergeSetting(k, u, S, T), NEW a,
         Merged(k, u, T, a, PassedTo(S, Row(u), a.i, a.j)),
         BlocksLeft(a, Top(k).cardinality, Cardinality(Row(u))),
         NEW r, r = Round(k, u, a)
  PROVE  Merged(k, u, T, r, PassedTo(S, Row(u), r.i, r.j)) /\ r.high = a.high
<1> DEFINE s == Increasing(S)
           t == Increasing(Row(u))
           h == PassedTo(S, Row(u), a.i, a.j)
           g == PassedTo(S, Row(u), r.i, r.j)
           E == Between(T, h, g)
           A == SetBlock(k, a)
           B == RowBlock(u, a)
           rare == RareBlock(k, u, a)
           lanes == Lanes(k, u, a)
           e == Shuffle(rare, lanes)
           f == ResultSlot(k) + SizeOf * a.count
<1>1. /\ SizeOf \in Nat \ {0} /\ to \in Nat /\ BufferEnd \in Nat /\ VEC \in Nat \ {0}
      /\ u \in Node /\ T = S \cap Row(u) /\ Entries(k) /\ ResultSlot(k) \in Nat
      /\ Top(k).cardinality = Cardinality(S)
      /\ Spill = SizeOf * VEC \/ Cardinality(S) < VEC \/ Cardinality(Row(u)) < VEC
  BY DEF MergeSetting
<1>2. /\ IsFiniteSet(S) /\ S \subseteq Nat /\ Cardinality(S) \in Nat
      /\ IsFiniteSet(Row(u)) /\ Row(u) \subseteq Nat /\ Cardinality(Row(u)) \in Nat
      /\ IsFiniteSet(T) /\ T \subseteq Nat /\ T \subseteq Node /\ Cardinality(T) \in Nat
      /\ Inside(ResultSlot(k), Cardinality(T))
  BY MergeSets
<1>3. /\ a \in Merging(k, u) /\ Kept(k, Cardinality(T), a.buffer)
      /\ Written(a.buffer, a.count, T, h, ResultSlot(k))
  BY DEF Merged
<1>4. /\ a.i \in Nat /\ a.i + VEC <= Cardinality(S)
      /\ a.j \in Nat /\ a.j + VEC <= Cardinality(Row(u))
      /\ \A q \in 1 .. VEC : A[q] = s[a.i + q]
      /\ \A q \in 1 .. VEC : B[q] = t[a.j + q]
      /\ A \in [1 .. VEC -> Entry] /\ B \in [1 .. VEC -> Node]
  <2>1. Merged(k, u, T, a, h)
    OBVIOUS
  <2> HIDE DEF h
  <2> QED
    BY ONLY <2>1, MergeSetting(k, u, S, T),
            BlocksLeft(a, Top(k).cardinality, Cardinality(Row(u))), BlocksInOrder
<1>5. /\ r.buffer = Store(a.buffer, f, e) /\ r.count = a.count + Cardinality(lanes)
      /\ r.i = (IF A[VEC] <= B[VEC] THEN a.i + VEC ELSE a.i)
      /\ r.j = (IF A[VEC] >= B[VEC] THEN a.j + VEC ELSE a.j)
      /\ r.high = a.high
  BY RoundIs
<1>6. VEC \in 1 .. VEC
  BY <1>1
<1>7. /\ r.i = (IF s[a.i + VEC] <= t[a.j + VEC] THEN a.i + VEC ELSE a.i)
      /\ r.j = (IF s[a.i + VEC] >= t[a.j + VEC] THEN a.j + VEC ELSE a.j)
  BY ONLY <1>4, <1>5, <1>6
<1>8. /\ h = Greater(LastOf(s, a.i), LastOf(t, a.j))
      /\ g = Greater(LastOf(s, r.i), LastOf(t, r.j))
  BY DEF PassedTo
<1> HIDE DEF h, g
<1>9. Met(S, Row(u), s, t, a.i, a.j, VEC, h, g)
  BY ONLY <1>1, <1>2, <1>4, <1>7, <1>8, BlocksMeet
<1> HIDE DEF A, B, s, t
<1>10. \A x : x \in E <=> (\E q \in 1 .. VEC : x = A[q]) /\ (\E q \in 1 .. VEC : x = B[q])
  <2> SUFFICES ASSUME NEW x
               PROVE  x \in E <=> (\E q \in 1 .. VEC : x = A[q]) /\ (\E q \in 1 .. VEC : x = B[q])
    OBVIOUS
  <2>1. (\E q \in 1 .. VEC : x = A[q]) <=> (\E q \in 1 .. VEC : x = s[a.i + q])
    BY ONLY <1>4
  <2>2. (\E q \in 1 .. VEC : x = B[q]) <=> (\E q \in 1 .. VEC : x = t[a.j + q])
    BY ONLY <1>4
  <2>3. x \in E <=> x \in S \cap Row(u) /\ h < x /\ x <= g
    BY <1>1 DEF Between
  <2> HIDE DEF E
  <2> QED
    BY ONLY <1>9, <2>1, <2>2, <2>3 DEF Met
<1>11. \/ rare = A /\ lanes = Matching(A, B)
       \/ rare = B /\ lanes = Matching(B, A)
  BY DEF RareBlock, FreqBlock, Lanes, A, B
<1> HIDE DEF rare, lanes
<1>12. lanes \in SUBSET (1 .. VEC) /\ E = InLanes(rare, lanes)
  <2>1. CASE rare = A /\ lanes = Matching(A, B)
    <3>1. \A q : q \in lanes <=> q \in 1 .. VEC /\ \E p \in 1 .. VEC : A[q] = B[p]
      BY <2>1 DEF Matching
    <3>2. \A x : x \in E <=> \E q \in lanes : x = A[q]
      BY ONLY <1>10, <3>1
    <3> HIDE DEF E
    <3> QED
      BY ONLY <2>1, <3>1, <3>2 DEF InLanes
  <2>2. CASE rare = B /\ lanes = Matching(B, A)
    <3>1. \A q : q \in lanes <=> q \in 1 .. VEC /\ \E p \in 1 .. VEC : B[q] = A[p]
      BY <2>2 DEF Matching
    <3>2. \A x : x \in E <=> \E q \in lanes : x = B[q]
      BY ONLY <1>10, <3>1
    <3> HIDE DEF E
    <3> QED
      BY ONLY <2>2, <3>1, <3>2 DEF InLanes
  <2> QED
    BY <1>11, <2>1, <2>2
<1>13. Rising(rare) /\ rare \in [1 .. VEC -> Entry]
  <2>1. BlockOf(A, S, a.i) /\ BlockOf(B, Row(u), a.j)
    BY ONLY <1>4 DEF s, t, BlockOf
  <2>2. VEC \in Nat
    BY <1>1
  <2>3. Rising(A)
    BY ONLY <1>2, <1>4, <2>1, <2>2, BlockOrdered
  <2>4. Rising(B)
    BY ONLY <1>2, <1>4, <2>1, <2>2, BlockOrdered
  <2>5. B \in [1 .. VEC -> Entry]
    BY ONLY <1>4 DEF Entry
  <2> QED
    BY ONLY <1>4, <1>11, <2>3, <2>4, <2>5
<1> HIDE DEF E
<1>14. /\ Cardinality(E) = Cardinality(lanes) /\ Cardinality(lanes) \in 0 .. VEC
       /\ InFront(E, e, VEC)
  <2>1. VEC \in Nat
    BY <1>1
  <2> QED
    BY ONLY <2>1, <1>12, <1>13, ShuffledInOrder
<1>15. e \in [1 .. VEC -> Entry] /\ Len(e) = VEC
  <2>1. e \in [1 .. VEC -> Entry]
    BY ONLY <1>1, <1>12, <1>13, ShuffleKeeps
  <2> HIDE DEF e
  <2>2. DOMAIN e = 1 .. VEC
    BY <2>1
  <2> QED
    BY <1>1, <2>1, <2>2
<1>16. Spill = SizeOf * VEC
  BY <1>1, <1>2, <1>4
<1>17. /\ f \in Nat /\ a.count \in Nat /\ Inside(f, VEC)
       /\ f .. f + SizeOf * VEC - 1 \subseteq ResultBytes(k, Cardinality(T))
  <2>1. Merged(k, u, T, a, h)
    BY DEF h
  <2>2. VEC \in Nat /\ VEC <= VEC
    BY <1>1
  <2> QED
    BY ONLY <2>1, <2>2, <1>16, MergeSetting(k, u, S, T), WrittenInside
<1>18. f = ResultSlot(k) + SizeOf * a.count /\ r.count = a.count + Cardinality(E)
  BY <1>5, <1>14
<1> HIDE DEF e, f
<1>19. h \in Int /\ g \in Int /\ h <= g
  BY ONLY <1>9 DEF Met
<1>20. Written(r.buffer, r.count, T, g, ResultSlot(k))
  <2>1. E = Between(T, h, g)
    BY DEF E
  <2>2. VEC \in Nat
    BY <1>1
  <2>3. Written(Store(a.buffer, f, e), r.count, T, g, ResultSlot(k))
    BY ONLY <1>1, <1>2, <1>3, <1>14, <1>15, <1>17, <1>18, <1>19, <2>1, <2>2, MoreWritten
  <2> QED
    BY ONLY <1>5, <2>3
<1>21. Kept(k, Cardinality(T), r.buffer)
  <2>1. VEC \in Nat
    BY <1>1
  <2>2. Kept(k, Cardinality(T), Store(a.buffer, f, e))
    BY ONLY <1>1, <1>3, <1>15, <1>17, <2>1, KeptByStore
  <2> QED
    BY ONLY <1>5, <2>2
<1>22. r \in Merging(k, u)
  <2>1. Top(k).cardinality \in Nat
    BY <1>1, <1>2
  <2>2. Round(k, u, a) \in Merging(k, u)
    BY ONLY <1>1, <1>3, <2>1, BlocksLeft(a, Top(k).cardinality, Cardinality(Row(u))), RoundTyped
  <2> QED
    BY <2>2
<1> QED
  BY <1>5, <1>20, <1>21, <1>22 DEF Merged, g
-----------------------------------------------------------------------------
LEMMA ScanMerges ==
  ASSUME NEW k, NEW u, NEW S, NEW T, MergeSetting(k, u, S, T),
         NEW p \in 0 .. Cardinality(S) - 1, NEW a,
         Merged(k, u, T, a, PassedTo(S, Row(u), p, a.j)),
         a.high <= LastOf(Increasing(S), p), NEW b, b = Scan(k, u, a, p)
  PROVE  /\ Merged(k, u, T, b, PassedTo(S, Row(u), p + 1, b.j))
         /\ b.high <= LastOf(Increasing(S), p + 1)
<1> DEFINE s == Increasing(S)
           t == Increasing(Row(u))
           h == PassedTo(S, Row(u), p, a.j)
           g == PassedTo(S, Row(u), p + 1, a.j)
           x == s[p + 1]
           R == ResultSlot(k)
           f == R + SizeOf * a.count
           below == {y \in T : y <= h}
<1>1. /\ SizeOf \in Nat \ {0} /\ to \in Nat /\ BufferEnd \in Nat /\ VEC \in Nat \ {0}
      /\ u \in Node /\ T = S \cap Row(u) /\ Entries(k) /\ R \in Nat
      /\ S \subseteq Node /\ Top(k).cardinality = Cardinality(S) /\ Reads(k, S, Cardinality(T))
  BY DEF MergeSetting
<1>2. /\ IsFiniteSet(S) /\ S \subseteq Nat /\ Cardinality(S) \in Nat
      /\ IsFiniteSet(Row(u)) /\ Row(u) \subseteq Nat /\ Cardinality(Row(u)) \in Nat
      /\ IsFiniteSet(T) /\ T \subseteq Nat /\ T \subseteq Node /\ Cardinality(T) \in Nat
      /\ Inside(R, Cardinality(T))
  BY MergeSets
<1>3. /\ a \in Merging(k, u) /\ Kept(k, Cardinality(T), a.buffer)
      /\ Written(a.buffer, a.count, T, h, R)
  BY DEF Merged
<1>4. /\ a.buffer \in Contents /\ a.count \in Nat /\ a.high \in Int
      /\ a.j \in 0 .. Cardinality(Row(u))
  BY <1>3 DEF Merging, MergeStates, WholeBlocks
<1>5. FoundLeft(S, Row(u), s, t, p, a.j, h, g, x)
  <2>1. /\ h = Greater(LastOf(s, p), LastOf(t, a.j))
        /\ g = Greater(LastOf(s, p + 1), LastOf(t, a.j))
        /\ s = Increasing(S) /\ t = Increasing(Row(u)) /\ x = s[p + 1]
    BY DEF PassedTo
  <2> HIDE DEF h, g, s, t, x
  <2> QED
    BY ONLY <1>2, <1>4, <2>1, p \in 0 .. Cardinality(S) - 1, LeftOver
<1>6. /\ h \in Int /\ g \in Int /\ x \in S /\ x \in Nat /\ LastOf(s, p + 1) = x
      /\ LastOf(s, p) \in Int /\ x > LastOf(s, p) /\ LastOf(s, p) <= h
      /\ LeftInRow(u, a, x) <=> x \in Row(u) /\ x > h
      /\ x > h => g = x
      /\ x <= h => g = h
      /\ \A y \in S : y <= x /\ y # x => y <= LastOf(s, p)
  <2> HIDE DEF h, g, x
  <2> QED
    BY <1>5 DEF FoundLeft, LeftInRow
<1>7. x = Element(k, Depth(k), p, a.buffer)
  BY <1>1, <1>3, <1>4 DEF Reads
<1> HIDE DEF h, g, x, s
<1>8. b \in Merging(k, u) /\ Scanned(k, u, a, b, x)
  <2>1. x \in Entry
    BY ONLY <1>1, <1>6 DEF Entry
  <2>2. Scan(k, u, a, p) \in Merging(k, u) /\ Scanned(k, u, a, Scan(k, u, a, p), x)
    BY ONLY <1>1, <1>3, <1>7, <2>1, ScanTyped
  <2> QED
    BY <2>2
<1>9. x > a.high /\ a.high <= LastOf(s, p)
  <2>1. a.high <= LastOf(s, p)
    BY DEF s
  <2> QED
    BY ONLY <1>4, <1>6, <2>1
<1>10. /\ b.j = a.j /\ b.high = x
       /\ LeftInRow(u, a, x) => /\ b.buffer = Store(a.buffer, f, <<x>>)
                                /\ b.count = a.count + 1
       /\ ~LeftInRow(u, a, x) => b.buffer = a.buffer /\ b.count = a.count
  BY ONLY <1>8, <1>9 DEF Scanned
<1>11. ASSUME NEW y \in T PROVE y \in Int /\ (y <= x /\ y # x => y <= h)
  BY <1>1, <1>2, <1>6
<1>12. Kept(k, Cardinality(T), b.buffer) /\ Written(b.buffer, b.count, T, g, R)
  <2>1. CASE x \in Row(u) /\ x > h
    <3>1. x \in T /\ g = x /\ LeftInRow(u, a, x)
      BY <1>1, <1>6, <2>1
    <3>2. {x} = Between(T, h, g)
      <4>1. \A y : y \in Between(T, h, g) <=> y \in T /\ h < y /\ y <= x
        BY <3>1 DEF Between
      <4>2. ASSUME NEW y \in T, h < y, y <= x PROVE y = x
        BY ONLY <1>6, <1>11, <4>2
      <4>3. h < x /\ x <= x
        BY <1>6, <2>1
      <4> QED
        BY <3>1, <4>1, <4>2, <4>3
    <3>3. /\ IsFiniteSet({x}) /\ Cardinality({x}) = 1
          /\ InFront({x}, <<x>>, 1) /\ <<x>> \in [1 .. 1 -> Entry] /\ Len(<<x>>) = 1
      <4>1. {y \in {x} : y < x} = {}
        BY <1>6
      <4>2. RankIn({x}, x) = 0
        BY <4>1, FS_EmptySet DEF RankIn
      <4>3. InFront({x}, <<x>>, 1)
        BY <4>2 DEF InFront
      <4>4. <<x>> \in [1 .. 1 -> Entry]
        BY <1>2, <3>1 DEF Entry
      <4> QED
        BY <4>3, <4>4, FS_Singleton
    <3>4. a.count < Cardinality(T)
      <4>1. below \in SUBSET T /\ below # T
        BY <1>6, <2>1, <3>1
      <4>2. /\ IsFiniteSet(below) /\ Cardinality(below) <= Cardinality(T)
            /\ Cardinality(below) # Cardinality(T)
        <5> HIDE DEF below
        <5> QED
          BY ONLY <1>2, <4>1, FS_Subset
      <4>3. a.count = Cardinality(below)
        BY <1>3 DEF Written
      <4> QED
        BY ONLY <1>2, <1>4, <4>2, <4>3
    <3>5. /\ f \in Nat /\ Inside(f, 1)
          /\ f .. f + SizeOf * 1 - 1 \subseteq ResultBytes(k, Cardinality(T))
      <4>1. Merged(k, u, T, a, h)
        BY DEF h
      <4>2. f = ResultSlot(k) + SizeOf * a.count
        OBVIOUS
      <4> HIDE DEF f, R
      <4> QED
        BY ONLY <3>4, <4>1, <4>2, MergeSetting(k, u, S, T), WrittenInside
    <3> DEFINE e == <<x>>
               E == {x}
    <3>6. /\ E = Between(T, h, g) /\ IsFiniteSet(E) /\ InFront(E, e, 1)
          /\ e \in [1 .. 1 -> Entry] /\ Len(e) = 1 /\ b.count = a.count + Cardinality(E)
          /\ b.buffer = Store(a.buffer, f, e) /\ f = R + SizeOf * a.count /\ h <= g
      BY <1>6, <1>10, <2>1, <3>1, <3>2, <3>3
    <3> HIDE DEF e, E, f, R
    <3>7. Written(Store(a.buffer, f, e), b.count, T, g, R)
      <4>1. VEC \in Nat /\ 1 \in Nat
        BY <1>1
      <4> QED
        BY ONLY <1>1, <1>2, <1>3, <1>6, <3>5, <3>6, <4>1, MoreWritten
    <3>8. Kept(k, Cardinality(T), Store(a.buffer, f, e))
      <4>1. 1 \in Nat
        OBVIOUS
      <4> QED
        BY ONLY <1>1, <1>3, <3>5, <3>6, <4>1, KeptByStore
    <3> QED
      BY ONLY <3>6, <3>7, <3>8
  <2>2. CASE ~(x \in Row(u) /\ x > h)
    <3>1. b.buffer = a.buffer /\ b.count = a.count
      BY <1>6, <1>10, <2>2
    <3>2. ASSUME NEW y \in T PROVE y <= g <=> y <= h
      <4>1. CASE x > h
        <5>1. y # x /\ g = x
          BY <1>1, <1>6, <2>2, <4>1
        <5> QED
          BY ONLY <1>6, <1>11, <4>1, <5>1, y \in T
      <4>2. CASE ~(x > h)
        <5>1. g = h
          BY <1>6, <4>2
        <5> QED
          BY <5>1
      <4> QED
        BY <4>1, <4>2
    <3>3. {y \in T : y <= g} = {y \in T : y <= h}
      BY <3>2
    <3> QED
      BY <1>3, <3>1, <3>2, <3>3 DEF Written
  <2> QED
    BY <2>1, <2>2
<1> QED
  BY <1>6, <1>8, <1>10, <1>12 DEF Merged, g, s
-----------------------------------------------------------------------------
\* While a set is read in order, whatever is written to the result's bytes, the result
\* is what the set has in common with the row, in order, and nothing else is written.
LEMMA MergeResult ==
  ASSUME NEW k, NEW u, NEW S, NEW T, MergeSetting(k, u, S, T),
         NEW r, r = Intersection(k, u)
  PROVE  /\ r.buffer \in Contents /\ r.count = Cardinality(T)
         /\ Kept(k, Cardinality(T), r.buffer)
         /\ \A p \in 0 .. Cardinality(T) - 1 :
              WordAt(r.buffer, ResultSlot(k) + SizeOf * p) = Increasing(T)[p + 1]
<1> DEFINE n == Cardinality(S)
           s == Increasing(S)
           R == ResultSlot(k)
           B == Blocks(k, u)
<1>1. /\ SizeOf \in Nat \ {0} /\ to \in Nat /\ BufferEnd \in Nat /\ VEC \in Nat \ {0}
      /\ u \in Node /\ T = S \cap Row(u) /\ Entries(k) /\ ResultSlot(k) \in Nat
      /\ S \subseteq Node /\ Top(k).cardinality = n /\ common_buffer \in Contents
  BY DEF MergeSetting
<1>2. /\ IsFiniteSet(S) /\ S \subseteq Nat /\ n \in Nat
      /\ Cardinality(Row(u)) \in Nat
      /\ IsFiniteSet(T) /\ T \subseteq Nat /\ Cardinality(T) \in Nat
  BY MergeSets
<1>3. B \in Merging(k, u) /\ Intersection(k, u) \in Merging(k, u)
  <2>1. Top(k).cardinality \in Nat
    BY <1>1, <1>2
  <2> QED
    BY ONLY <1>1, <2>1, IntersectionTyped
<1>4. B.i \in 0 .. n
  BY <1>1, <1>3 DEF Merging, WholeBlocks
<1>5. Merged(k, u, T, B, PassedTo(S, Row(u), B.i, B.j)) /\ B.high = -1
  <2> DEFINE Good(a) == Merged(k, u, T, a, PassedTo(S, Row(u), a.i, a.j)) /\ a.high = -1
             G == {a \in Merging(k, u) : Good(a)}
  <2>1. BlockStart \in G
    <3>1. BlockStart \in Merging(k, u)
      <4>1. /\ BlockStart \in MergeStates /\ BlockStart.i = 0 /\ BlockStart.j = 0
        BY <1>1 DEF BlockStart, MergeStates
      <4>2. \A x \in Nat : WholeBlocks(0, x)
        <5>1. 0 = VEC * 0
          BY <1>1
        <5> QED
          BY <5>1 DEF WholeBlocks
      <4> QED
        BY <1>1, <1>2, <4>1, <4>2 DEF Merging
    <3>2. /\ BlockStart.buffer = common_buffer /\ BlockStart.count = 0
          /\ BlockStart.i = 0 /\ BlockStart.j = 0 /\ BlockStart.high = -1
      BY DEF BlockStart
    <3>3. PassedTo(S, Row(u), 0, 0) = -1
      BY DEF PassedTo, LastOf, Greater
    <3>4. Kept(k, Cardinality(T), common_buffer)
      BY DEF Kept
    <3>5. Written(common_buffer, 0, T, -1, R)
      <4>1. \A y \in T : ~(y <= -1)
        BY <1>2
      <4>2. {y \in T : y <= -1} = {}
        BY <4>1
      <4> QED
        BY <1>1, <4>1, <4>2, FS_EmptySet DEF Written
    <3> QED
      BY <3>1, <3>2, <3>3, <3>4, <3>5 DEF Merged
  <2>2. ASSUME NEW a \in G PROVE BlockStep(k, u, a) \in G
    <3>1. a \in Merging(k, u) /\ Merged(k, u, T, a, PassedTo(S, Row(u), a.i, a.j)) /\ a.high = -1
      OBVIOUS
    <3>2. CASE BlocksLeft(a, Top(k).cardinality, Cardinality(Row(u)))
      <4> DEFINE c == Round(k, u, a)
      <4>1. c = Round(k, u, a)
        OBVIOUS
      <4> HIDE DEF c
      <4>2. Merged(k, u, T, c, PassedTo(S, Row(u), c.i, c.j)) /\ c.high = a.high
        BY ONLY <3>1, <3>2, <4>1, MergeSetting(k, u, S, T), RoundMerges
      <4>3. c \in Merging(k, u)
        BY <4>2 DEF Merged
      <4>4. c \in G
        BY <3>1, <4>2, <4>3
      <4> HIDE DEF G
      <4> QED
        BY <4>1, <4>4 DEF BlockStep
    <3>3. CASE ~BlocksLeft(a, Top(k).cardinality, Cardinality(Row(u)))
      <4> HIDE DEF G
      <4> QED
        BY <3>3 DEF BlockStep
    <3> QED
      BY <3>2, <3>3
  <2> HIDE DEF G
  <2>3. Blocks(k, u) \in G
    <3>1. Top(k).cardinality \in Nat
      BY <1>1, <1>2
    <3> QED
      BY ONLY <1>2, <2>1, <2>2, <3>1, ByRounds
  <2> QED
    BY <2>3 DEF G
<1>6. Listing(S, s, n)
  BY ONLY <1>2, Ordered
<1> DEFINE GoodAt(a, p) == /\ Merged(k, u, T, a, PassedTo(S, Row(u), p, a.j))
                           /\ a.high <= LastOf(s, p)
           H == {x \in Merging(k, u) \X (0 .. n) : GoodAt(x[1], x[2])}
<1>7. <<B, B.i>> \in H
  <2>1. B.high <= LastOf(s, B.i)
    <3>1. CASE B.i = 0
      BY <1>5, <3>1 DEF LastOf
    <3>2. CASE B.i # 0
      <4>1. B.i \in 1 .. n
        BY <1>2, <1>4, <3>2
      <4>2. s[B.i] \in Nat
        BY <1>6, <4>1 DEF Listing
      <4>3. LastOf(s, B.i) = s[B.i]
        BY <3>2 DEF LastOf
      <4> HIDE DEF s, B
      <4> QED
        BY <1>5, <4>2, <4>3
    <3> QED
      BY <3>1, <3>2
  <2> HIDE DEF B, s
  <2> QED
    BY <1>3, <1>4, <1>5, <2>1
<1>8. ASSUME NEW p \in 0 .. n - 1, NEW a, <<a, p>> \in H
      PROVE  <<Scan(k, u, a, p), p + 1>> \in H
  <2> DEFINE b == Scan(k, u, a, p)
  <2>1. /\ Merged(k, u, T, a, PassedTo(S, Row(u), p, a.j)) /\ a.high <= LastOf(s, p)
        /\ b = Scan(k, u, a, p)
    BY <1>8
  <2>2. p \in 0 .. Cardinality(S) - 1
    OBVIOUS
  <2> HIDE DEF b, H, n
  <2>3. /\ Merged(k, u, T, b, PassedTo(S, Row(u), p + 1, b.j))
        /\ b.high <= LastOf(s, p + 1)
    BY ONLY <2>1, <2>2, MergeSetting(k, u, S, T), ScanMerges
  <2>4. b \in Merging(k, u) /\ p + 1 \in 0 .. n
    BY <1>2, <2>3 DEF Merged
  <2>5. <<b, p + 1>> \in H
    BY <2>3, <2>4 DEF H
  <2> QED
    BY <2>5 DEF b
<1>9. r \in Merging(k, u) /\ Merged(k, u, T, r, PassedTo(S, Row(u), n, r.j))
  <2>1. n = Top(k).cardinality /\ <<Blocks(k, u), Blocks(k, u).i>> \in H /\ Blocks(k, u).i \in 0 .. n
    BY <1>1, <1>4, <1>7
  <2> HIDE DEF H, n
  <2>2. <<Intersection(k, u), n>> \in H
    BY ONLY <1>2, <1>8, <2>1, ByScans
  <2> QED
    BY <2>2 DEF H
<1> DEFINE g == PassedTo(S, Row(u), n, r.j)
<1>10. \A y \in T : y <= g
  <2>1. g = Greater(LastOf(s, n), LastOf(Increasing(Row(u)), r.j))
    BY DEF PassedTo
  <2>2. LastOf(Increasing(Row(u)), r.j) \in Int
    <3>1. r.j \in 0 .. Cardinality(Row(u))
      BY <1>9 DEF Merging, WholeBlocks
    <3>2. IsFiniteSet(Row(u)) /\ Row(u) \subseteq Nat
      BY MergeSets
    <3>3. Listing(Row(u), Increasing(Row(u)), Cardinality(Row(u)))
      BY ONLY <3>2, Ordered
    <3> QED
      BY ONLY <3>1, <3>3 DEF Listing
  <2>3. ASSUME NEW y \in T PROVE y <= LastOf(s, n) /\ LastOf(s, n) \in Int /\ y \in Int
    <3>1. y \in S
      BY <1>1
    <3> HIDE DEF s, n
    <3>2. PICK q \in 1 .. n : s[q] = y
      BY <1>6, <3>1 DEF Listing
    <3>3. /\ n \in 0 .. n /\ LastOf(s, n) \in Int /\ s[q] \in Nat
          /\ s[q] > LastOf(s, n) <=> q > n
      BY <1>2, <1>6 DEF Listing
    <3> QED
      BY <1>2, <3>2, <3>3
  <2> HIDE DEF g, s, n
  <2> QED
    BY ONLY <2>1, <2>2, <2>3 DEF Greater
<1>11. Written(r.buffer, r.count, T, g, R) /\ Kept(k, Cardinality(T), r.buffer)
  BY <1>9 DEF Merged
<1> HIDE DEF g
<1>12. r.buffer \in Contents /\ r.count = Cardinality(T)
  <2>1. {y \in T : y <= g} = T
    BY <1>10
  <2> QED
    BY <1>11, <2>1 DEF Written
<1>13. ASSUME NEW p \in 0 .. Cardinality(T) - 1
       PROVE  WordAt(r.buffer, R + SizeOf * p) = Increasing(T)[p + 1]
  <2> DEFINE y == Increasing(T)[p + 1]
  <2>1. p + 1 \in 1 .. Cardinality(T) /\ (p + 1) - 1 = p
    BY <1>2
  <2>2. T \subseteq Int
    BY <1>2
  <2>3. y \in T /\ RankIn(T, y) = p
    BY ONLY <1>2, <2>1, <2>2, IncreasingPlaces
  <2> HIDE DEF y, R
  <2>4. WordAt(r.buffer, R + SizeOf * RankIn(T, y)) = y
    BY <1>10, <1>11, <2>3 DEF Written
  <2> QED
    BY <2>3, <2>4 DEF y
<1> QED
  BY <1>11, <1>12, <1>13
-----------------------------------------------------------------------------
\* The slot of a set that is iterated is before the slot d of thread k, or at least three
\* slots behind it, when it is another thread's or a shallower one: the slots 0 and 1 of
\* every thread hold no set.
LEMMA NumbersApart ==
  ASSUME NEW q \in Nat, NEW k \in Nat, NEW h \in Nat, NEW d \in 2 .. q - 1, NEW e \in 2 .. q - 1,
         h # k \/ e < d
  PROVE  h * q + e < k * q + d \/ (k * q + d) + 3 <= h * q + e
<1>1. k * q \in Nat /\ h * q \in Nat
  OBVIOUS
<1>2. k < h => k * q + q <= h * q
  <2> SUFFICES ASSUME k < h PROVE k * q + q <= h * q
    OBVIOUS
  <2>1. (k + 1) * q <= h * q
    OBVIOUS
  <2>2. (k + 1) * q = k * q + q
    OBVIOUS
  <2> QED
    BY <2>1, <2>2
<1>3. h < k => h * q + q <= k * q
  <2> SUFFICES ASSUME h < k PROVE h * q + q <= k * q
    OBVIOUS
  <2>1. (h + 1) * q <= k * q
    OBVIOUS
  <2>2. (h + 1) * q = h * q + q
    OBVIOUS
  <2> QED
    BY <2>1, <2>2
<1> DEFINE x == k * q
           y == h * q
<1>4. x \in Nat /\ y \in Nat /\ (k < h => x + q <= y) /\ (h < k => y + q <= x)
  BY <1>1, <1>2, <1>3
<1>5. h = k => x = y
  OBVIOUS
<1> HIDE DEF x, y
<1>6. y + e < x + d \/ (x + d) + 3 <= y + e
  BY <1>4, <1>5
<1> QED
  BY <1>6 DEF x, y

\* Slots lie one behind the other, inside the buffer.
LEMMA SlotPlaces ==
  ASSUME CliqueShapes, numThreads \in Nat,
         NEW k \in 0 .. numThreads - 1, NEW d \in 0 .. query_depth - 1
  PROVE  /\ Slot(k, d) \in Nat /\ Slot(k, d + 1) = Slot(k, d) + to
         /\ Slot(k, d) + to <= BufferEnd /\ BufferEnd \in Nat
<1> DEFINE q == query_depth
           m == k * q + d
<1>1. to \in Nat /\ q \in Nat /\ k \in Nat /\ d \in Nat
  BY CliqueGraph
<1>2. m \in Nat /\ k * q + (d + 1) = m + 1
  <2>1. k * q \in Nat
    BY <1>1
  <2> QED
    BY <1>1, <2>1
<1>3. m + 1 <= numThreads * q /\ numThreads * q \in Nat
  <2>1. (k + 1) * q <= numThreads * q
    BY <1>1
  <2>2. (k + 1) * q = k * q + q
    BY <1>1
  <2>3. k * q \in Nat /\ numThreads * q \in Nat
    BY <1>1
  <2> QED
    BY <1>1, <2>1, <2>2, <2>3
<1>4. Slot(k, d) = m * to /\ Slot(k, d + 1) = (m + 1) * to /\ BufferEnd = (numThreads * q) * to
  BY <1>2 DEF Slot, BufferEnd, num_nodes
<1> DEFINE n == numThreads * q
<1>5. n \in Nat /\ m + 1 <= n /\ BufferEnd = n * to
  BY <1>3, <1>4
<1> HIDE DEF m, n
<1>6. /\ m * to \in Nat /\ (m + 1) * to = m * to + to /\ n * to \in Nat
      /\ (m + 1) * to <= n * to
  BY ONLY <1>1, <1>2, <1>5
<1> QED
  BY <1>4, <1>5, <1>6

\* What is written in one slot, and up to two slots behind it, is not in the slot of a
\* set that another thread iterates, or the same thread at a smaller depth.
LEMMA SlotsApart ==
  ASSUME CliqueShapes, numThreads \in Nat,
         NEW k \in 0 .. numThreads - 1, NEW d \in 2 .. query_depth - 1,
         NEW h \in 0 .. numThreads - 1, NEW e \in 2 .. query_depth - 1,
         h # k \/ e < d
  PROVE  Slot(h, e) + to <= Slot(k, d) \/ Slot(k, d) + 3 * to <= Slot(h, e)
<1> DEFINE q == query_depth
           m == k * q + d
           n == h * q + e
<1>1. to \in Nat /\ q \in Nat /\ k \in Nat /\ h \in Nat
  BY CliqueGraph
<1>2. n < m \/ m + 3 <= n
  BY ONLY <1>1, NumbersApart, d \in 2 .. query_depth - 1, e \in 2 .. query_depth - 1,
          h # k \/ e < d
<1>3. m \in Nat /\ n \in Nat
  <2>1. k * q \in Nat /\ h * q \in Nat
    BY <1>1
  <2> QED
    BY <1>1, <2>1
<1>4. Slot(k, d) = m * to /\ Slot(h, e) = n * to
  BY DEF Slot, num_nodes
<1> HIDE DEF m, n
<1>5. n < m => n * to + to <= m * to
  <2> SUFFICES ASSUME n < m PROVE n * to + to <= m * to
    OBVIOUS
  <2>1. (n + 1) * to <= m * to /\ (n + 1) * to = n * to + to
    BY <1>1, <1>3
  <2> QED
    BY <2>1
<1>6. m + 3 <= n => m * to + 3 * to <= n * to
  <2> SUFFICES ASSUME m + 3 <= n PROVE m * to + 3 * to <= n * to
    OBVIOUS
  <2>1. (m + 3) * to <= n * to /\ (m + 3) * to = m * to + 3 * to
    BY <1>1, <1>3
  <2> QED
    BY <2>1
<1> QED
  BY <1>2, <1>4, <1>5, <1>6

LEMMA SpillFits ==
  ASSUME CliqueShapes
  PROVE  Spill \in Nat /\ Spill <= 2 * to /\ Spill <= SizeOf * VEC
<1>1. to \in Nat /\ SizeOf * VEC \in Nat
  BY CliqueGraph
<1> QED
  BY <1>1 DEF Spill

\* The bytes of a slot, and those that a register can reach behind it.
LEMMA SlotBytes ==
  ASSUME CliqueShapes, numThreads \in Nat,
         NEW k \in 0 .. numThreads - 1, NEW d \in 0 .. query_depth - 1,
         NEW w \in Int, Slot(k, d) <= w, w < Slot(k, d) + to + SizeOf * VEC
  PROVE  w \in Byte /\ w < Slot(k, d + 1) + SizeOf * VEC
<1>1. to \in Nat /\ SizeOf \in Nat \ {0} /\ VEC \in Nat \ {0} /\ SizeOf * VEC \in Nat
  BY CliqueGraph
<1>2. /\ Slot(k, d) \in Nat /\ Slot(k, d + 1) = Slot(k, d) + to
      /\ Slot(k, d) + to <= BufferEnd /\ BufferEnd \in Nat
  BY SlotPlaces
<1> DEFINE x == SizeOf * (to + VEC)
           v == SizeOf * VEC
           s == Slot(k, d)
<1>3. x \in Nat /\ v <= x /\ v \in Nat
  <2>1. SizeOf * (to + VEC) = SizeOf * to + SizeOf * VEC /\ SizeOf * to \in Nat
    BY <1>1
  <2> QED
    BY <1>1, <2>1
<1>4. s \in Nat /\ s <= w /\ w < s + to + v /\ s + to <= BufferEnd
  BY <1>2
<1>5. Byte = 0 .. BufferEnd + x
  BY DEF Byte, num_nodes
<1> HIDE DEF x, v, s
<1>6. w \in 0 .. BufferEnd + x
  BY ONLY <1>1, <1>2, <1>3, <1>4, w \in Int
<1>7. w < s + to + v
  BY <1>4
<1> QED
  BY <1>2, <1>5, <1>6, <1>7 DEF v, s
-----------------------------------------------------------------------------
LEMMA CliqueInputKept ==
  ASSUME UNCHANGED <<inputVars, to, numThreads>>
  PROVE  /\ Byte' = Byte /\ Node' = Node /\ Room' = Room /\ Cliques' = Cliques
         /\ \A u : Row(u)' = Row(u)
         /\ \A k, d : Slot(k, d)' = Slot(k, d)
         /\ \A S : Common(S)' = Common(S) /\ Extending(S)' = Extending(S)
<1> USE DEF inputVars, num_nodes
<1>1. Byte' = Byte /\ Node' = Node
  BY DEF Byte, BufferEnd, Node
<1>2. \A u : Row(u)' = Row(u)
  BY DEF Row
<1>3. \A k, d : Slot(k, d)' = Slot(k, d)
  BY DEF Slot
<1>4. \A S : Common(S)' = Common(S)
  BY <1>1, <1>2 DEF Common
<1>5. Room' = Room
  BY <1>1, <1>2, <1>4 DEF Room
<1>6. Cliques' = Cliques
  BY <1>1 DEF Cliques
<1>7. \A S : Extending(S)' = Extending(S)
  BY <1>6 DEF Extending
<1> QED
  BY <1>1, <1>2, <1>3, <1>4, <1>5, <1>6, <1>7

\* The parts of the invariant in the next state, when the input stays.
LEMMA CliqueInvNext ==
  ASSUME UNCHANGED <<inputVars, to, from, numThreads>>
  PROVE  /\ CliqueShapes /\ common_buffer' \in Contents /\ stack' \in [Tid -> Seq(Calls)]
              /\ found' \in [Tid -> Nat] /\ num_cliques' \in Nat
           => CliqueShapes'
         /\ (\A k \in Tid : Stacked(k, stack'[k], running')) => AllStacked'
         /\ (Room => /\ \A k \in Tid : Nested(k, stack'[k], common_buffer')
                     /\ InSlots(common_buffer'))
              => AllNested'
         /\ (Room => AddUp(num_cliques', found', Live', PassedCliques(completed', stack')))
              => CliquesAdded'
<1>1. /\ Byte' = Byte /\ Node' = Node /\ Room' = Room /\ Cliques' = Cliques
      /\ \A u : Row(u)' = Row(u)
      /\ \A k, d : Slot(k, d)' = Slot(k, d)
      /\ \A S : Common(S)' = Common(S) /\ Extending(S)' = Extending(S)
  BY CliqueInputKept
<1>2. ASSUME CliqueShapes, common_buffer' \in Contents, stack' \in [Tid -> Seq(Calls)],
             found' \in [Tid -> Nat], num_cliques' \in Nat
      PROVE  CliqueShapes'
  BY <1>1, <1>2 DEF CliqueShapes, Contents, Calls, inputVars, Tid, NoElement
<1>3. ASSUME \A k \in Tid : Stacked(k, stack'[k], running') PROVE AllStacked'
  BY <1>1, <1>3 DEF AllStacked, Stacked, inputVars, Tid
<1>4. /\ \A s, d : Iterated(s, d)' = Iterated(s, d)
      /\ \A b, w : WordAt(b, w)' = WordAt(b, w)
  BY <1>1 DEF Iterated, Chosen, WordAt, NoElement
<1>5. ASSUME Room => /\ \A k \in Tid : Nested(k, stack'[k], common_buffer')
                     /\ InSlots(common_buffer')
      PROVE  AllNested'
  BY <1>1, <1>4, <1>5 DEF AllNested, Nested, InSlots, inputVars, Tid, Unwritten, NoElement
<1>6. ASSUME Room => AddUp(num_cliques', found', Live', PassedCliques(completed', stack'))
      PROVE  CliquesAdded'
  BY <1>1, <1>4, <1>6 DEF CliquesAdded, AddUp, PassedCliques, Searched, Done, Chosen, Tid
<1> QED
  BY <1>2, <1>3, <1>5, <1>6
-----------------------------------------------------------------------------
LEMMA CallsOf ==
  ASSUME NEW s \in Seq(Calls)
  PROVE  /\ Len(s) \in Nat
         /\ \A d \in 1 .. Len(s) : /\ s[d] \in Calls /\ s[d].node \in Node
                                   /\ s[d].cardinality \in Nat /\ s[d].pos \in Nat
<1>1. Len(s) \in Nat /\ \A d \in 1 .. Len(s) : s[d] \in Calls
  OBVIOUS
<1>2. \A c \in Calls : c.node \in Node /\ c.cardinality \in Nat /\ c.pos \in Nat
  BY DEF Calls
<1> QED
  BY ONLY <1>1, <1>2

\* A thread that searches runs the first node of its stack.
LEMMA CliqueThread ==
  ASSUME LoopFacts!LoopInv, CliqueShapes, NEW k \in Tid, NEW s \in Seq(Calls),
         Stacked(k, s, running), Len(s) > 0
  PROVE  /\ numThreads \in Nat /\ k \in 0 .. numThreads - 1
         /\ s[1].node \in Node /\ <<k, s[1].node>> \in running
         /\ Len(s) \in 1 .. query_depth - 2
<1>1. query_depth \in Nat
  BY CliqueGraph
<1>2. Len(s) \in 1 .. query_depth - 2
  BY <1>1, CallsOf DEF Stacked
<1>3. s[1].node \in Node
  BY <1>1, <1>2, CallsOf
<1>4. <<k, s[1].node>> \in running
  BY <1>2, <1>3 DEF Stacked
<1>5. from = 0
  BY DEF CliqueShapes
<1>6. numThreads \in 1 .. MaxThreads /\ \A r \in running : r[1] < numThreads
  BY ONLY <1>5, LoopFacts!LoopInv, LoopPlaces
<1>7. <<k, s[1].node>>[1] < numThreads
  BY <1>4, <1>6
<1> QED
  BY <1>2, <1>3, <1>4, <1>6, <1>7, LoopAssumption DEF Tid

LEMMA ChosenOne ==
  ASSUME NEW s, NEW d \in Nat, d > 0
  PROVE  /\ Chosen(s, 1) = {s[1].node}
         /\ Chosen(s, d + 1) = Chosen(s, d) \cup {s[d + 1].node}
         /\ \A c \in 1 .. d : s[c].node \in Chosen(s, d)
<1>1. 1 .. 1 = {1} /\ 1 .. d + 1 = (1 .. d) \cup {d + 1}
  OBVIOUS
<1> QED
  BY <1>1 DEF Chosen

\* Where the nodes of a stack were found.
LEMMA Chain ==
  ASSUME to \in Nat, NEW k, NEW s \in Seq(Calls), NEW b, Nested(k, s, b),
         \A d \in 1 .. Len(s) : s[d].pos <= s[d].cardinality,
         NEW d \in 1 .. Len(s) - 1
  PROVE  /\ s[d + 1].node \in Iterated(s, d)
         /\ RankIn(Iterated(s, d), s[d + 1].node) = s[d].pos - 1
<1>1. d \in 1 .. Len(s) /\ s[d].pos \in Nat
  BY CallsOf
<1>2. /\ IsFiniteSet(Iterated(s, d)) /\ Iterated(s, d) \subseteq Int
      /\ Cardinality(Iterated(s, d)) \in Nat
  BY CommonIsSet DEF Iterated
<1>3. s[d].cardinality = Cardinality(Iterated(s, d)) /\ s[d].pos > 0
      /\ s[d + 1].node = Increasing(Iterated(s, d))[s[d].pos]
  BY <1>1 DEF Nested
<1>4. s[d].pos \in 1 .. Cardinality(Iterated(s, d))
  <2>1. s[d].pos <= s[d].cardinality
    BY <1>1
  <2> QED
    BY ONLY <1>1, <1>2, <1>3, <2>1
<1>5. /\ Increasing(Iterated(s, d))[s[d].pos] \in Iterated(s, d)
      /\ RankIn(Iterated(s, d), Increasing(Iterated(s, d))[s[d].pos]) = s[d].pos - 1
  BY ONLY <1>2, <1>4, IncreasingPlaces
<1> QED
  BY ONLY <1>3, <1>5

LEMMA IteratedNodes ==
  ASSUME to \in Nat, NEW s, NEW d
  PROVE  /\ Iterated(s, d) \subseteq Node /\ Iterated(s, d) \subseteq Int
         /\ IsFiniteSet(Iterated(s, d)) /\ Cardinality(Iterated(s, d)) \in 0 .. to
         /\ \A u : Iterated(s, d) \cap Row(u) = Common(Chosen(s, d) \cup {u})
<1>1. \A u : Iterated(s, d) \cap Row(u) = Common(Chosen(s, d) \cup {u})
  BY DEF Iterated, Common
<1> QED
  BY <1>1, CommonIsSet DEF Iterated

\* What two adjacent nodes have in common fits in a slot.
LEMMA CommonFits ==
  ASSUME CliqueShapes, Room, NEW u \in Node, NEW v \in Row(u), NEW C, u \in C, v \in C
  PROVE  SizeOf * Cardinality(Common(C)) <= to
<1>1. to \in Nat /\ SizeOf \in Nat \ {0}
  BY CliqueGraph
<1>2. /\ Common(C) \subseteq Common({u, v}) /\ IsFiniteSet(Common({u, v}))
      /\ Cardinality(Common(C)) \in Nat /\ Cardinality(Common({u, v})) \in Nat
  <2>1. Common(C) \subseteq Common({u, v})
    BY DEF Common
  <2>2. \A S : IsFiniteSet(Common(S)) /\ Cardinality(Common(S)) \in 0 .. to
    BY ONLY <1>1, CommonIsSet
  <2>3. \A S : IsFiniteSet(Common(S)) /\ Cardinality(Common(S)) \in Nat
    BY ONLY <1>1, <2>2
  <2> QED
    BY ONLY <2>1, <2>3
<1>3. Cardinality(Common(C)) <= Cardinality(Common({u, v}))
  BY <1>2, FS_Subset
<1>4. SizeOf * Cardinality(Common({u, v})) <= to
  BY DEF Room, num_nodes
<1> DEFINE x == Cardinality(Common(C))
           y == Cardinality(Common({u, v}))
<1>5. x \in Nat /\ y \in Nat /\ x <= y /\ SizeOf * y <= to
  BY <1>2, <1>3, <1>4
<1> HIDE DEF x, y
<1>6. SizeOf * x <= SizeOf * y /\ SizeOf * x \in Nat /\ SizeOf * y \in Nat
  BY ONLY <1>1, <1>5
<1> QED
  BY ONLY <1>1, <1>5, <1>6 DEF x

LEMMA ResultFits ==
  ASSUME CliqueShapes, Room, NEW k, NEW s \in Seq(Calls), NEW b, Nested(k, s, b),
         \A d \in 1 .. Len(s) : s[d].pos <= s[d].cardinality,
         NEW d \in 1 .. Len(s)
  PROVE  /\ d # 1 => SizeOf * Cardinality(Iterated(s, d)) <= to
         /\ \A u \in Iterated(s, d) :
              /\ SizeOf * Cardinality(Common(Chosen(s, d) \cup {u})) <= to
              /\ \/ Spill = SizeOf * VEC
                 \/ Cardinality(Iterated(s, d)) < VEC \/ Cardinality(Row(u)) < VEC
<1>1. to \in Nat /\ d \in Nat /\ d > 0 /\ VEC \in Nat
  BY CliqueGraph
<1>2. s[1].node \in Node /\ s[1].node \in Chosen(s, d)
  <2>1. 1 \in 1 .. d /\ 1 \in 1 .. Len(s)
    OBVIOUS
  <2> QED
    BY ONLY <1>1, <2>1, CallsOf, ChosenOne, s \in Seq(Calls)
<1>3. Iterated(s, 1) = Row(s[1].node) /\ IsFiniteSet(Row(s[1].node))
  <2>1. Iterated(s, 1) = Row(s[1].node)
    BY <1>1, <1>2, RowIsCommon, ChosenOne DEF Iterated
  <2>2. IsFiniteSet(Iterated(s, 1))
    BY <1>1, IteratedNodes
  <2> QED
    BY <2>1, <2>2
<1>4. ASSUME NEW u \in Iterated(s, d)
      PROVE  \/ Spill = SizeOf * VEC
             \/ Cardinality(Iterated(s, d)) < VEC \/ Cardinality(Row(u)) < VEC
  <2>1. Iterated(s, d) \subseteq Row(s[1].node)
    BY <1>2 DEF Iterated, Common
  <2>2. /\ Cardinality(Iterated(s, d)) <= Cardinality(Row(s[1].node))
        /\ IsFiniteSet(Iterated(s, d))
    BY ONLY <1>3, <2>1, FS_Subset
  <2>3. Cardinality(Iterated(s, d)) \in Nat /\ Cardinality(Row(s[1].node)) \in Nat
    BY ONLY <1>3, <2>2, FS_CardinalityType
  <2>4. \/ SizeOf * VEC <= 2 * to
        \/ Cardinality(Row(s[1].node)) < VEC \/ Cardinality(Row(u)) < VEC
    BY <1>2, <2>1 DEF Room, num_nodes
  <2> DEFINE x == Cardinality(Iterated(s, d))
             y == Cardinality(Row(s[1].node))
  <2>5. x \in Nat /\ y \in Nat /\ x <= y
    BY <2>2, <2>3
  <2> HIDE DEF x, y
  <2>6. y < VEC => x < VEC
    BY ONLY <1>1, <2>5
  <2> QED
    BY ONLY <2>4, <2>6 DEF Spill, x, y
<1>5. CASE d = 1
  <2> SUFFICES ASSUME NEW u \in Iterated(s, d)
               PROVE  SizeOf * Cardinality(Common(Chosen(s, d) \cup {u})) <= to
    BY <1>4, <1>5
  <2>1. u \in Row(s[1].node)
    BY <1>3, <1>5
  <2> QED
    BY <1>2, <2>1, CommonFits
<1>6. CASE d # 1
  <2>1. 1 \in 1 .. Len(s) - 1 /\ 2 \in 1 .. d
    BY <1>1, <1>6
  <2>2. s[2].node \in Row(s[1].node)
    <3>1. s[1 + 1].node \in Iterated(s, 1)
      BY <1>1, <2>1, Chain
    <3> QED
      BY <1>3, <3>1
  <2>3. s[2].node \in Chosen(s, d)
    BY <2>1 DEF Chosen
  <2>4. \A u : s[1].node \in Chosen(s, d) \cup {u} /\ s[2].node \in Chosen(s, d) \cup {u}
    BY <1>2, <2>3
  <2>5. \A u : SizeOf * Cardinality(Common(Chosen(s, d) \cup {u})) <= to
    BY <1>2, <2>2, <2>4, CommonFits
  <2>6. SizeOf * Cardinality(Iterated(s, d)) <= to
    BY <1>2, <2>2, <2>3, CommonFits DEF Iterated
  <2> QED
    BY <1>4, <2>5, <2>6
<1> QED
  BY <1>5, <1>6
-----------------------------------------------------------------------------
LEMMA GreatestElement ==
  ASSUME NEW S, IsFiniteSet(S), S \subseteq Int, S # {}
  PROVE  \E x \in S : \A y \in S : y <= x
<1> DEFINE n == Cardinality(S)
<1>1. n \in Nat /\ n # 0
  BY FS_CardinalityType, FS_EmptySet
<1>2. /\ \A x \in S : RankIn(S, x) \in 0 .. n - 1
      /\ \A x, y \in S : x < y <=> RankIn(S, x) < RankIn(S, y)
      /\ \A r \in 0 .. n - 1 : \E x \in S : RankIn(S, x) = r
  BY Ranks
<1> HIDE DEF n
<1>3. PICK x \in S : RankIn(S, x) = n - 1
  BY <1>1, <1>2
<1>4. ASSUME NEW y \in S PROVE y <= x
  <2>1. x < y <=> RankIn(S, x) < RankIn(S, y)
    BY <1>2
  <2>2. RankIn(S, y) \in 0 .. n - 1
    BY <1>2
  <2>3. ~(x < y)
    BY ONLY <1>1, <1>3, <2>1, <2>2
  <2> QED
    BY <2>3
<1> QED
  BY <1>4

LEMMA RowBelow ==
  ASSUME to \in Nat, NEW u \in Node
  PROVE  \A v \in Row(u) : v \in Node /\ v < u /\ {u, v} \in edges
BY DEF Row, Node

\* What is common to the nodes of C is below all of them.
LEMMA CommonBelow ==
  ASSUME to \in Nat, NEW C \in SUBSET Node, NEW x \in Common(C)
  PROVE  x \in Node /\ x \notin C /\ \A c \in C : x < c /\ {c, x} \in edges
<1>1. x \in Node /\ \A c \in C : x \in Row(c)
  BY DEF Common
<1>2. \A c \in C : x < c /\ {c, x} \in edges
  BY <1>1, RowBelow
<1>3. ~(x < x)
  BY <1>1 DEF Node
<1> QED
  BY <1>1, <1>2, <1>3

LEMMA CliqueSets ==
  ASSUME CliqueShapes, NEW S \in Cliques
  PROVE  /\ S \in SUBSET Node /\ S \subseteq Int /\ IsFiniteSet(S)
         /\ Cardinality(S) = query_depth
         /\ \A u, v \in S : u < v => {u, v} \in edges
<1>1. /\ S \in SUBSET Node /\ Cardinality(S) = query_depth
      /\ \A u, v \in S : u < v => {u, v} \in edges
  BY DEF Cliques, kSubset
<1>2. to \in Nat
  BY CliqueGraph
<1> QED
  BY <1>1, <1>2, SetsOfNodes DEF Node

\* A clique that extends C goes on with exactly one of the nodes common to C.
LEMMA ExtendingSplits ==
  ASSUME CliqueShapes, NEW C \in SUBSET Node, Cardinality(C) # query_depth, NEW S
  PROVE  S \in Extending(C) <=> \E x \in Common(C) : S \in Extending(C \cup {x})
<1>0. to \in Nat
  BY CliqueGraph
<1>1. ASSUME S \in Extending(C) PROVE \E x \in Common(C) : S \in Extending(C \cup {x})
  <2>1. S \in Cliques /\ C \subseteq S /\ \A x \in S \ C, c \in C : x < c
    BY <1>1 DEF Extending
  <2>2. /\ S \in SUBSET Node /\ S \subseteq Int /\ IsFiniteSet(S)
        /\ Cardinality(S) = query_depth
        /\ \A u, v \in S : u < v => {u, v} \in edges
    BY <2>1, CliqueSets
  <2>3. S \ C # {} /\ IsFiniteSet(S \ C) /\ S \ C \subseteq Int
    <3>1. S \ C # {}
      <4>1. S \ C = {} => S = C
        BY <2>1
      <4> QED
        BY <2>2, <4>1
    <3>2. S \ C \in SUBSET S
      OBVIOUS
    <3>3. IsFiniteSet(S \ C)
      BY ONLY <2>2, <3>2, FS_Subset
    <3> QED
      BY <2>2, <3>1, <3>3
  <2>4. PICK x \in S \ C : \A y \in S \ C : y <= x
    BY <2>3, GreatestElement
  <2>5. x \in Common(C)
    <3> SUFFICES ASSUME NEW c \in C PROVE x \in Row(c)
      BY <2>2, <2>4 DEF Common
    <3>1. x < c /\ {x, c} \in edges
      BY <2>1, <2>2, <2>4
    <3>2. {c, x} = {x, c}
      OBVIOUS
    <3>3. x \in 0 .. c - 1
      BY <2>2, <2>4, <3>1 DEF Node
    <3> QED
      BY <3>1, <3>2, <3>3 DEF Row
  <2>6. \A y \in S \ (C \cup {x}), c \in C \cup {x} : y < c
    BY <2>1, <2>2, <2>4
  <2>7. S \in Extending(C \cup {x})
    BY <2>1, <2>4, <2>6 DEF Extending
  <2> QED
    BY <2>5, <2>7
<1>2. ASSUME NEW x \in Common(C), S \in Extending(C \cup {x}) PROVE S \in Extending(C)
  <2>1. S \in Cliques /\ C \subseteq S /\ \A y \in S \ (C \cup {x}), c \in C : y < c
    BY <1>2 DEF Extending
  <2>2. \A c \in C : x < c
    BY <1>0, CommonBelow
  <2>3. \A y \in S \ C, c \in C : y < c
    BY ONLY <2>1, <2>2
  <2> QED
    BY ONLY <2>1, <2>3 DEF Extending
<1> QED
  BY <1>1, <1>2

LEMMA ExtendingApart ==
  ASSUME CliqueShapes, NEW C \in SUBSET Node, NEW x \in Common(C), NEW y \in Common(C), x # y,
         NEW S, S \in Extending(C \cup {x})
  PROVE  S \notin Extending(C \cup {y})
<1> SUFFICES ASSUME S \in Extending(C \cup {y}) PROVE FALSE
  OBVIOUS
<1>1. x \in S /\ y \in S /\ x \notin C /\ y \notin C /\ x \in Int /\ y \in Int
  BY CliqueGraph, CommonBelow DEF Extending, Node
<1>2. x < y /\ y < x
  BY <1>1 DEF Extending
<1> QED
  BY <1>1, <1>2

LEMMA GrownClique ==
  ASSUME CliqueShapes, NEW C \in SUBSET Node, IsFiniteSet(C),
         \A u, v \in C : u < v => {u, v} \in edges,
         NEW x \in Common(C)
  PROVE  /\ C \cup {x} \in SUBSET Node /\ IsFiniteSet(C \cup {x})
         /\ Cardinality(C \cup {x}) = Cardinality(C) + 1
         /\ \A u, v \in C \cup {x} : u < v => {u, v} \in edges
<1>1. /\ x \in Node /\ x \notin C
      /\ \A c \in C : x < c /\ {c, x} \in edges
  BY CliqueGraph, CommonBelow
<1>2. IsFiniteSet(C \cup {x}) /\ Cardinality(C \cup {x}) = Cardinality(C) + 1
  BY <1>1, FS_AddElement
<1>3. ASSUME NEW u \in C \cup {x}, NEW v \in C \cup {x}, u < v PROVE {u, v} \in edges
  <2>1. \A a, b : {a, b} = {b, a}
    OBVIOUS
  <2>2. u \in Int /\ v \in Int /\ x \in Int /\ \A c \in C : c \in Int
    BY <1>1 DEF Node
  <2>3. CASE u = x /\ v \in C
    BY <1>1, <2>1, <2>3
  <2>4. CASE v = x /\ u \in C
    <3>1. x < u
      BY <1>1, <2>4
    <3> QED
      BY <1>3, <2>2, <2>4, <3>1
  <2>5. CASE u = x /\ v = x
    BY <1>3, <2>2, <2>5
  <2> QED
    BY <1>3, <2>3, <2>4, <2>5
<1> QED
  BY <1>1, <1>2, <1>3

\* The cliques that lack one node are as many as the nodes that complete them.
LEMMA ExtendingCounted ==
  ASSUME CliqueShapes, NEW E \in SUBSET Node, IsFiniteSet(E), Cardinality(E) = query_depth - 1,
         \A u, v \in E : u < v => {u, v} \in edges
  PROVE  /\ IsFiniteSet(Extending(E))
         /\ Cardinality(Extending(E)) = Cardinality(Common(E))
<1>1. query_depth \in Nat /\ to \in Nat
  BY CliqueGraph
<1>2. \A x \in Common(E) : /\ x \in Node /\ x \notin E
                           /\ \A c \in E : x < c /\ {c, x} \in edges
  BY <1>1, CommonBelow
<1>3. ASSUME NEW x \in Common(E)
      PROVE  E \cup {x} \in Extending(E) /\ Extending(E \cup {x}) \subseteq {E \cup {x}}
  <2>1. /\ IsFiniteSet(E \cup {x}) /\ Cardinality(E \cup {x}) = query_depth
        /\ \A u, v \in E \cup {x} : u < v => {u, v} \in edges
    BY <1>1, GrownClique
  <2>3. E \cup {x} \in Cliques
    BY <1>2, <2>1 DEF Cliques, kSubset
  <2>4. E \cup {x} \in Extending(E)
    BY <1>2, <2>3 DEF Extending
  <2>5. ASSUME NEW S \in Extending(E \cup {x}) PROVE S = E \cup {x}
    <3>1. S \in Cliques /\ E \cup {x} \in SUBSET S
      BY <2>5 DEF Extending
    <3>2. IsFiniteSet(S) /\ Cardinality(S) = query_depth
      BY <3>1, CliqueSets
    <3> QED
      BY <2>1, <3>1, <3>2, FS_Subset
  <2> QED
    BY <2>4, <2>5
<1> DEFINE f == [x \in Common(E) |-> E \cup {x}]
<1>4. f \in [Common(E) -> Extending(E)]
  BY <1>3
<1>5. \A x, y \in Common(E) : f[x] = f[y] => x = y
  BY <1>2
<1>6. \A S \in Extending(E) : \E x \in Common(E) : f[x] = S
  <2> TAKE S \in Extending(E)
  <2>1. Cardinality(E) # query_depth
    BY <1>1
  <2>2. PICK x \in Common(E) : S \in Extending(E \cup {x})
    BY <2>1, ExtendingSplits
  <2> QED
    BY <1>3, <2>2
<1> HIDE DEF f
<1>7. IsFiniteSet(Common(E))
  BY <1>1, CommonIsSet
<1> QED
  BY ONLY <1>4, <1>5, <1>6, <1>7, ImagesCounted
-----------------------------------------------------------------------------
\* The calls of a search: each node is one of those common to the nodes before it,
\* the one at the place that was passed last.
Path(s) ==
  /\ s \in Seq(Calls)
  /\ \A d \in 1 .. Len(s) : /\ s[d].pos <= s[d].cardinality
                            /\ s[d].cardinality = Cardinality(Iterated(s, d))
  /\ \A d \in 1 .. Len(s) - 1 : /\ s[d + 1].node \in Iterated(s, d)
                                /\ RankIn(Iterated(s, d), s[d + 1].node) = s[d].pos - 1

LEMMA StackIsPath ==
  ASSUME to \in Nat, NEW k, NEW s \in Seq(Calls), NEW b, Nested(k, s, b),
         \A d \in 1 .. Len(s) : s[d].pos <= s[d].cardinality
  PROVE  Path(s)
<1>1. \A d \in 1 .. Len(s) - 1 : /\ s[d + 1].node \in Iterated(s, d)
                                 /\ RankIn(Iterated(s, d), s[d + 1].node) = s[d].pos - 1
  BY Chain
<1> QED
  BY <1>1 DEF Path, Nested

\* The nodes chosen are a clique.
LEMMA ChosenClique ==
  ASSUME CliqueShapes, NEW s, Path(s)
  PROVE  \A d \in 1 .. Len(s) : /\ Chosen(s, d) \in SUBSET Node /\ IsFiniteSet(Chosen(s, d))
                                /\ Cardinality(Chosen(s, d)) = d
                                /\ \A u, v \in Chosen(s, d) : u < v => {u, v} \in edges
<1> DEFINE Good(d) == /\ Chosen(s, d) \in SUBSET Node /\ IsFiniteSet(Chosen(s, d))
                      /\ Cardinality(Chosen(s, d)) = d
                      /\ \A u, v \in Chosen(s, d) : u < v => {u, v} \in edges
           G == {d \in Nat : d + 1 \in 1 .. Len(s) => Good(d + 1)}
<1>1. s \in Seq(Calls) /\ Len(s) \in Nat
  BY DEF Path
<1>2. ASSUME 1 \in 1 .. Len(s) PROVE Good(1)
  <2>1. Chosen(s, 1) = {s[1].node} /\ s[1].node \in Node
    BY <1>1, <1>2, ChosenOne, CallsOf
  <2>2. IsFiniteSet(Chosen(s, 1)) /\ Cardinality(Chosen(s, 1)) = 1
    BY <2>1, FS_Singleton
  <2>3. \A u, v \in Chosen(s, 1) : ~(u < v)
    BY <2>1 DEF Node
  <2> QED
    BY <2>1, <2>2, <2>3
<1>3. ASSUME NEW d \in Nat, d > 0, d + 1 \in 1 .. Len(s), Good(d) PROVE Good(d + 1)
  <2>1. s[d + 1].node \in Common(Chosen(s, d))
    BY <1>1, <1>3 DEF Path, Iterated
  <2>2. Chosen(s, d + 1) = Chosen(s, d) \cup {s[d + 1].node}
    BY <1>3, ChosenOne
  <2>3. /\ Chosen(s, d) \in SUBSET Node /\ IsFiniteSet(Chosen(s, d))
        /\ Cardinality(Chosen(s, d)) = d
        /\ \A u, v \in Chosen(s, d) : u < v => {u, v} \in edges
    BY <1>3
  <2> DEFINE E == Chosen(s, d) \cup {s[d + 1].node}
  <2>4. /\ E \in SUBSET Node /\ IsFiniteSet(E)
        /\ Cardinality(E) = Cardinality(Chosen(s, d)) + 1
        /\ \A u, v \in E : u < v => {u, v} \in edges
    BY ONLY CliqueShapes, <2>1, <2>3, GrownClique
  <2> QED
    BY ONLY <2>2, <2>3, <2>4
<1> HIDE DEF Good
<1>4. 0 \in G
  BY <1>2
<1>5. ASSUME NEW d \in Nat, d \in G PROVE d + 1 \in G
  BY <1>1, <1>3, <1>5
<1> HIDE DEF G
<1>6. Nat \subseteq G
  BY ONLY <1>4, <1>5, NatSetInduction
<1> SUFFICES ASSUME NEW d \in 1 .. Len(s) PROVE Good(d)
  BY DEF Good
<1>7. d - 1 \in G /\ (d - 1) + 1 = d
  BY <1>1, <1>6
<1> QED
  BY <1>7 DEF G

\* A clique that is found deeper in a search extends what was chosen before.
LEMMA Narrowing ==
  ASSUME CliqueShapes, NEW s, Path(s), NEW d \in 1 .. Len(s), NEW c \in 1 .. d,
         NEW x \in Iterated(s, d), NEW S, S \in Extending(Chosen(s, d) \cup {x})
  PROVE  S \in Extending(Chosen(s, c))
<1>1. to \in Nat /\ Len(s) \in Nat
  BY CliqueGraph DEF Path
<1>2. \A e \in 1 .. Len(s) : Chosen(s, e) \in SUBSET Node
  BY ChosenClique
<1>3. ASSUME NEW e \in 1 .. Len(s) - 1 PROVE \A y \in Chosen(s, e) : s[e + 1].node < y
  <2>1. s[e + 1].node \in Common(Chosen(s, e))
    BY DEF Path, Iterated
  <2>2. Chosen(s, e) \in SUBSET Node
    BY <1>1, <1>2
  <2> QED
    BY <1>1, <2>1, <2>2, CommonBelow
<1>4. \A y \in Chosen(s, d) : x < y
  BY <1>1, <1>2, CommonBelow DEF Iterated
<1>5. \A a, e \in Nat : a <= e => Chosen(s, a) \subseteq Chosen(s, e)
  BY DEF Chosen
<1>6. Chosen(s, c) \subseteq Chosen(s, d)
  BY <1>1, <1>5
<1>7. ASSUME NEW z \in S \ Chosen(s, c), NEW y \in Chosen(s, c) PROVE z < y
  <2>1. CASE z = x
    BY <1>4, <1>6, <2>1
  <2>2. CASE z \in Chosen(s, d)
    <3>1. PICK e \in 1 .. d : z = s[e].node
      BY <2>2 DEF Chosen
    <3>2. ~(e <= c)
      <4>1. e <= c => e \in 1 .. c
        OBVIOUS
      <4> QED
        BY <1>7, <3>1, <4>1 DEF Chosen
    <3>3. e - 1 \in 1 .. Len(s) - 1 /\ (e - 1) + 1 = e /\ c <= e - 1 /\ c \in Nat
      BY <1>1, <3>2
    <3>4. y \in Chosen(s, e - 1)
      BY <1>5, <3>3
    <3> QED
      BY <1>3, <3>1, <3>3, <3>4
  <2>3. CASE z \notin Chosen(s, d) \cup {x}
    BY <1>6, <2>3 DEF Extending
  <2> QED
    BY <2>1, <2>2, <2>3
<1> QED
  BY <1>6, <1>7 DEF Extending

\* So what a search has passed has the first node of the search as its largest.
LEMMA SearchedNode ==
  ASSUME CliqueShapes, NEW s, Path(s), NEW S, Searched(s, S)
  PROVE  Len(s) > 0 /\ S \in Extending({s[1].node})
<1>1. PICK d \in 1 .. Len(s) : \E x \in Iterated(s, d) : S \in Extending(Chosen(s, d) \cup {x})
  BY DEF Searched
<1>2. Len(s) > 0 /\ 1 \in 1 .. d
  BY <1>1 DEF Path
<1>3. S \in Extending(Chosen(s, 1))
  BY <1>1, <1>2, Narrowing
<1>4. Chosen(s, 1) = {s[1].node}
  BY ChosenOne, 1 \in Nat
<1> QED
  BY <1>2, <1>3, <1>4

LEMMA LargestIsOne ==
  ASSUME NEW u \in Node, NEW v \in Node, NEW S, S \in Extending({u}), S \in Extending({v})
  PROVE  u = v
<1>1. /\ u \in S /\ \A x \in S \ {u} : x < u
      /\ v \in S /\ \A x \in S \ {v} : x < v
  BY DEF Extending
<1> SUFFICES ASSUME u # v PROVE FALSE
  OBVIOUS
<1>2. u < v /\ v < u
  BY <1>1
<1> QED
  BY <1>2 DEF Node
-----------------------------------------------------------------------------
LEMMA SameNodes ==
  ASSUME NEW n \in Nat, NEW s, NEW t, \A d \in 1 .. n : t[d].node = s[d].node
  PROVE  \A d \in 1 .. n : Chosen(t, d) = Chosen(s, d) /\ Iterated(t, d) = Iterated(s, d)
<1>1. ASSUME NEW d \in 1 .. n PROVE Chosen(t, d) = Chosen(s, d)
  <2>1. \A c \in 1 .. d : c \in 1 .. n
    OBVIOUS
  <2>2. \A c \in 1 .. d : t[c].node = s[c].node
    BY <2>1
  <2> QED
    BY <2>2 DEF Chosen
<1> QED
  BY <1>1 DEF Iterated

\* A search that has just been entered at a depth has passed nothing there.
LEMMA PushPasses ==
  ASSUME CliqueShapes, NEW s, Path(s), NEW t, Len(t) = Len(s) + 1, Len(s) > 0,
         \A d \in 1 .. Len(s) : t[d].node = s[d].node,
         \A d \in 1 .. Len(s) - 1 : t[d].pos = s[d].pos,
         t[Len(s)].pos = s[Len(s)].pos + 1, t[Len(s) + 1].pos = 0,
         NEW S
  PROVE  Searched(t, S) <=> Searched(s, S)
<1>1. Len(s) \in Nat /\ to \in Nat /\ \A d \in 1 .. Len(s) : s[d].pos \in Int
  BY CliqueGraph, CallsOf DEF Path
<1>2. \A d \in 1 .. Len(s) : Chosen(t, d) = Chosen(s, d) /\ Iterated(t, d) = Iterated(s, d)
  BY <1>1, SameNodes
<1>3. \A d \in 1 .. Len(s) : Done(t, d) = Done(s, d)
  BY <1>1 DEF Done
<1>4. \A x \in Iterated(t, Len(s) + 1) : ~(RankIn(Iterated(t, Len(s) + 1), x) < Done(t, Len(s) + 1))
  <2>1. IsFiniteSet(Iterated(t, Len(s) + 1)) /\ Iterated(t, Len(s) + 1) \subseteq Int
        /\ Cardinality(Iterated(t, Len(s) + 1)) \in Nat
    BY <1>1, CommonIsSet DEF Iterated
  <2>2. \A x \in Iterated(t, Len(s) + 1) : RankIn(Iterated(t, Len(s) + 1), x) \in Nat
    BY <2>1, Ranks
  <2>3. Done(t, Len(s) + 1) = 0
    BY <1>1 DEF Done
  <2> QED
    BY <2>2, <2>3
<1>5. \A d \in 1 .. Len(t) : d \in 1 .. Len(s) \/ d = Len(s) + 1
  BY <1>1
<1>6. \A d \in 1 .. Len(s) : d \in 1 .. Len(t)
  BY <1>1
<1> QED
  BY <1>2, <1>3, <1>4, <1>5, <1>6 DEF Searched

\* A call at the last depth passes the cliques that extend what is chosen by its node;
\* none of them was passed before.
LEMMA LastPasses ==
  ASSUME CliqueShapes, NEW s, Path(s), NEW t, Len(t) = Len(s), Len(s) > 0,
         \A d \in 1 .. Len(s) : t[d].node = s[d].node,
         \A d \in 1 .. Len(s) - 1 : t[d].pos = s[d].pos,
         t[Len(s)].pos = s[Len(s)].pos + 1,
         NEW u \in Iterated(s, Len(s)), RankIn(Iterated(s, Len(s)), u) = s[Len(s)].pos,
         NEW S
  PROVE  /\ Searched(t, S)
              <=> Searched(s, S) \/ S \in Extending(Chosen(s, Len(s)) \cup {u})
         /\ ~(Searched(s, S) /\ S \in Extending(Chosen(s, Len(s)) \cup {u}))
<1> DEFINE D == Len(s)
<1>1. D \in Nat /\ D \in 1 .. D /\ to \in Nat /\ \A d \in 1 .. D : s[d].pos \in Nat
  BY CliqueGraph, CallsOf DEF Path
<1>2. \A d \in 1 .. D : Chosen(t, d) = Chosen(s, d) /\ Iterated(t, d) = Iterated(s, d)
  <2>1. D \in Nat /\ \A d \in 1 .. D : t[d].node = s[d].node
    BY <1>1
  <2> HIDE DEF D
  <2> QED
    BY ONLY <2>1, SameNodes
<1>3. /\ \A d \in 1 .. D - 1 : Done(t, d) = Done(s, d)
      /\ Done(s, D) = s[D].pos /\ Done(t, D) = s[D].pos + 1
  BY <1>1 DEF Done
<1>4. \A d \in 1 .. D : /\ \A x \in Iterated(s, d) : RankIn(Iterated(s, d), x) \in Nat
                        /\ \A x, y \in Iterated(s, d) :
                             RankIn(Iterated(s, d), x) = RankIn(Iterated(s, d), y) => x = y
  <2> TAKE d \in 1 .. D
  <2>1. IsFiniteSet(Iterated(s, d)) /\ Iterated(s, d) \subseteq Int
        /\ Cardinality(Iterated(s, d)) \in Nat
    BY <1>1, CommonIsSet DEF Iterated
  <2>2. /\ \A x \in Iterated(s, d) : RankIn(Iterated(s, d), x) \in Nat
        /\ \A x, y \in Iterated(s, d) :
             x < y <=> RankIn(Iterated(s, d), x) < RankIn(Iterated(s, d), y)
    BY <2>1, Ranks
  <2> QED
    BY <2>1, <2>2
<1>5. \A x \in Iterated(s, D) :
        RankIn(Iterated(s, D), x) < Done(t, D) <=> RankIn(Iterated(s, D), x) < Done(s, D) \/ x = u
  <2> TAKE x \in Iterated(s, D)
  <2>1. RankIn(Iterated(s, D), x) \in Nat /\ s[D].pos \in Nat
        /\ (RankIn(Iterated(s, D), x) = s[D].pos <=> x = u)
    BY <1>1, <1>4
  <2> QED
    BY <1>3, <2>1
<1>6. \A d \in 1 .. D : d = D \/ d \in 1 .. D - 1
  BY <1>1
<1> DEFINE At(r, d) == \E x \in Iterated(s, d) :
                         /\ RankIn(Iterated(s, d), x) < Done(r, d)
                         /\ S \in Extending(Chosen(s, d) \cup {x})
<1>7. (Searched(t, S) <=> \E d \in 1 .. D : At(t, d)) /\ (Searched(s, S) <=> \E d \in 1 .. D : At(s, d))
  BY <1>2 DEF Searched
<1>8. \A d \in 1 .. D - 1 : At(t, d) <=> At(s, d)
  BY <1>3
<1>9. At(t, D) <=> At(s, D) \/ S \in Extending(Chosen(s, D) \cup {u})
  BY <1>5
<1>10. ASSUME NEW d \in 1 .. D, At(s, d), S \in Extending(Chosen(s, D) \cup {u}) PROVE FALSE
  <2>1. PICK x \in Iterated(s, d) : /\ RankIn(Iterated(s, d), x) < Done(s, d)
                                    /\ S \in Extending(Chosen(s, d) \cup {x})
    BY <1>10
  <2>2. CASE d = D
    <3>1. x # u
      BY <1>1, <1>3, <2>1, <2>2
    <3>2. x \in Common(Chosen(s, D)) /\ u \in Common(Chosen(s, D)) /\ Chosen(s, D) \in SUBSET Node
      BY <1>1, <2>2, ChosenClique DEF Iterated
    <3> QED
      BY <1>10, <2>1, <2>2, <3>1, <3>2, ExtendingApart
  <2>3. CASE d \in 1 .. D - 1
    <3> DEFINE y == s[d + 1].node
    <3>1. y \in Iterated(s, d) /\ RankIn(Iterated(s, d), y) = s[d].pos - 1
      BY <2>3 DEF Path
    <3>2. Done(s, d) = s[d].pos - 1 /\ d \in Nat /\ d > 0
      BY <1>1, <2>3 DEF Done
    <3>3. x # y
      <4>1. RankIn(Iterated(s, d), x) \in Nat
        BY <1>4
      <4> QED
        BY <2>1, <3>1, <3>2, <4>1
    <3>4. Chosen(s, d + 1) = Chosen(s, d) \cup {y}
      BY <3>2, ChosenOne
    <3>5. S \in Extending(Chosen(s, d + 1))
      <4>1. d + 1 \in 1 .. D
        BY <1>1, <2>3
      <4> QED
        BY <1>1, <1>10, <4>1, Narrowing
    <3>6. Chosen(s, d) \in SUBSET Node
      BY ChosenClique
    <3> HIDE DEF y
    <3> QED
      BY <2>1, <3>1, <3>3, <3>4, <3>5, <3>6, ExtendingApart DEF Iterated
  <2> QED
    BY <1>6, <2>2, <2>3
<1> HIDE DEF At
<1>11. D \in 1 .. D
  BY <1>1
<1> QED
  BY <1>6, <1>7, <1>8, <1>9, <1>10, <1>11

\* When a set has been searched to its end, so has the element it was entered for.
LEMMA ReturnPasses ==
  ASSUME CliqueShapes, NEW s, Path(s), Len(s) > 1, Len(s) # query_depth,
         s[Len(s)].pos = s[Len(s)].cardinality,
         NEW t, Len(t) = Len(s) - 1, \A d \in 1 .. Len(t) : t[d] = s[d],
         NEW S
  PROVE  Searched(t, S) <=> Searched(s, S)
<1> DEFINE D == Len(s)
           y == s[D].node
<1>1. /\ D \in Nat /\ D - 1 \in Nat /\ D - 1 > 0 /\ to \in Nat
      /\ \A d \in 1 .. D : s[d].pos \in Nat
      /\ Len(t) = D - 1 /\ D \in 1 .. D /\ D - 1 \in 1 .. D - 1 /\ (D - 1) + 1 = D
      /\ \A d \in 1 .. D - 2 : d < D - 1 /\ d < D
  BY CliqueGraph, CallsOf DEF Path
<1>2. \A d \in 1 .. D - 1 : Chosen(t, d) = Chosen(s, d) /\ Iterated(t, d) = Iterated(s, d)
  <2> DEFINE n == D - 1
  <2>1. n \in Nat /\ \A d \in 1 .. n : t[d].node = s[d].node
    BY <1>1
  <2> HIDE DEF n
  <2>2. \A d \in 1 .. n : Chosen(t, d) = Chosen(s, d) /\ Iterated(t, d) = Iterated(s, d)
    BY ONLY <2>1, SameNodes
  <2> QED
    BY <2>2 DEF n
<1>3. /\ \A d \in 1 .. D - 2 : Done(t, d) = Done(s, d)
      /\ Done(s, D) = Cardinality(Iterated(s, D))
      /\ Done(t, D - 1) = s[D - 1].pos /\ Done(s, D - 1) = s[D - 1].pos - 1
  <2>1. Done(s, D) = Cardinality(Iterated(s, D))
    BY <1>1 DEF Done, Path
  <2> QED
    BY <1>1, <2>1 DEF Done
<1>4. \A d \in 1 .. D : /\ \A x \in Iterated(s, d) :
                             RankIn(Iterated(s, d), x) \in 0 .. Cardinality(Iterated(s, d)) - 1
                        /\ Cardinality(Iterated(s, d)) \in Nat
                        /\ \A x, z \in Iterated(s, d) :
                             RankIn(Iterated(s, d), x) = RankIn(Iterated(s, d), z) => x = z
  <2> TAKE d \in 1 .. D
  <2>1. IsFiniteSet(Iterated(s, d)) /\ Iterated(s, d) \subseteq Int
        /\ Cardinality(Iterated(s, d)) \in Nat
    BY <1>1, CommonIsSet DEF Iterated
  <2>2. /\ \A x \in Iterated(s, d) :
             RankIn(Iterated(s, d), x) \in 0 .. Cardinality(Iterated(s, d)) - 1
        /\ \A x, z \in Iterated(s, d) :
             x < z <=> RankIn(Iterated(s, d), x) < RankIn(Iterated(s, d), z)
    BY <2>1, Ranks
  <2> QED
    BY <2>1, <2>2
<1>5. y \in Iterated(s, D - 1) /\ RankIn(Iterated(s, D - 1), y) = s[D - 1].pos - 1
  BY <1>1 DEF Path
<1>6. Chosen(s, D) = Chosen(s, D - 1) \cup {y}
  BY <1>1, ChosenOne
<1> DEFINE At(r, d) == \E x \in Iterated(s, d) :
                         /\ RankIn(Iterated(s, d), x) < Done(r, d)
                         /\ S \in Extending(Chosen(s, d) \cup {x})
<1>7. At(s, D) <=> S \in Extending(Chosen(s, D - 1) \cup {y})
  <2>1. \A x \in Iterated(s, D) : RankIn(Iterated(s, D), x) < Done(s, D)
    <3>1. D \in 1 .. D
      BY <1>1
    <3> QED
      BY <1>3, <1>4, <3>1
  <2>2. Chosen(s, D) \in SUBSET Node /\ Cardinality(Chosen(s, D)) = D
    BY <1>1, ChosenClique
  <2>3. S \in Extending(Chosen(s, D)) <=> \E x \in Common(Chosen(s, D)) : S \in Extending(Chosen(s, D) \cup {x})
    BY <2>2, ExtendingSplits
  <2> QED
    BY <1>6, <2>1, <2>3 DEF Iterated
<1>8. At(t, D - 1) <=> At(s, D - 1) \/ S \in Extending(Chosen(s, D - 1) \cup {y})
  <2>1. ASSUME NEW x \in Iterated(s, D - 1)
        PROVE  RankIn(Iterated(s, D - 1), x) < Done(t, D - 1)
                 <=> RankIn(Iterated(s, D - 1), x) < Done(s, D - 1) \/ x = y
    <3>1. D - 1 \in 1 .. D
      BY <1>1
    <3>2. /\ RankIn(Iterated(s, D - 1), x) \in Int /\ s[D - 1].pos \in Int
          /\ RankIn(Iterated(s, D - 1), x) = s[D - 1].pos - 1 <=> x = y
      BY <1>1, <1>4, <1>5, <3>1
    <3> QED
      BY <1>3, <3>2
  <2> QED
    BY <1>5, <2>1
<1>9. \A d \in 1 .. D - 2 : At(t, d) <=> At(s, d)
  BY <1>3
<1>10. /\ Searched(t, S) <=> \E d \in 1 .. D - 1 : At(t, d)
       /\ Searched(s, S) <=> \E d \in 1 .. D : At(s, d)
  BY <1>1, <1>2 DEF Searched
<1>11. /\ \A d \in 1 .. D : d = D \/ d = D - 1 \/ d \in 1 .. D - 2
       /\ \A d \in 1 .. D - 2 : d \in 1 .. D - 1 /\ d \in 1 .. D
       /\ D - 1 \in 1 .. D - 1 /\ D - 1 \in 1 .. D /\ D \in 1 .. D
       /\ \A d \in 1 .. D - 1 : d \in 1 .. D /\ d # D
  BY <1>1
<1> HIDE DEF At, D
<1> QED
  BY <1>7, <1>8, <1>9, <1>10, <1>11

\* A search that has come to its end has passed the cliques whose largest node is its.
LEMMA EndPasses ==
  ASSUME CliqueShapes, NEW s, Path(s), Len(s) = 1, s[1].pos = s[1].cardinality, NEW S
  PROVE  Searched(s, S) <=> S \in Extending({s[1].node})
<1>1. to \in Nat /\ query_depth # 1 /\ 1 \in 1 .. Len(s)
  BY CliqueGraph
<1>2. Chosen(s, 1) = {s[1].node}
  BY ChosenOne, 1 \in Nat
<1>3. Chosen(s, 1) \in SUBSET Node /\ Cardinality(Chosen(s, 1)) = 1
  BY <1>1, ChosenClique
<1>4. S \in Extending(Chosen(s, 1)) <=> \E x \in Common(Chosen(s, 1)) : S \in Extending(Chosen(s, 1) \cup {x})
  BY <1>1, <1>3, ExtendingSplits
<1>5. \A x \in Iterated(s, 1) : RankIn(Iterated(s, 1), x) < Done(s, 1)
  <2>1. IsFiniteSet(Iterated(s, 1)) /\ Iterated(s, 1) \subseteq Int
        /\ Cardinality(Iterated(s, 1)) \in Nat
    BY <1>1, CommonIsSet DEF Iterated
  <2>2. \A x \in Iterated(s, 1) : RankIn(Iterated(s, 1), x) \in 0 .. Cardinality(Iterated(s, 1)) - 1
    BY <2>1, Ranks
  <2>3. Done(s, 1) = Cardinality(Iterated(s, 1))
    BY <1>1 DEF Done, Path
  <2> QED
    BY <2>1, <2>2, <2>3
<1>6. \A d \in 1 .. Len(s) : d = 1
  OBVIOUS
<1> QED
  BY <1>1, <1>2, <1>4, <1>5, <1>6 DEF Searched, Iterated
-----------------------------------------------------------------------------
\* What the invariant says of a thread's search.
LEMMA CliqueState ==
  ASSUME CliqueInv, NEW k \in Tid
  PROVE  /\ stack[k] \in Seq(Calls) /\ Len(stack[k]) \in Nat
         /\ Stacked(k, stack[k], running)
         /\ \A d \in 1 .. Len(stack[k]) : stack[k][d].pos <= stack[k][d].cardinality
         /\ Room => Nested(k, stack[k], common_buffer) /\ Path(stack[k])
<1>1. stack[k] \in Seq(Calls) /\ Len(stack[k]) \in Nat
  <2>1. stack \in [Tid -> Seq(Calls)]
    BY DEF CliqueInv, CliqueShapes
  <2>2. stack[k] \in Seq(Calls)
    BY <2>1
  <2> QED
    BY ONLY <2>2, CallsOf
<1>2. Stacked(k, stack[k], running)
  BY DEF CliqueInv, AllStacked
<1>3. \A d \in 1 .. Len(stack[k]) : stack[k][d].pos <= stack[k][d].cardinality
  BY <1>2 DEF Stacked
<1>4. Room => Nested(k, stack[k], common_buffer)
  BY DEF CliqueInv, AllNested
<1>5. to \in Nat
  BY CliqueGraph DEF CliqueInv
<1>6. Room => Path(stack[k])
  BY ONLY <1>1, <1>3, <1>4, <1>5, StackIsPath
<1> QED
  BY <1>1, <1>2, <1>3, <1>4, <1>6

\* The place of an element of a set that a search iterates.
LEMMA SetBytes ==
  ASSUME LoopFacts!LoopInv, CliqueShapes, Room, NEW k \in Tid, NEW s \in Seq(Calls),
         Stacked(k, s, running), Nested(k, s, common_buffer),
         NEW d \in 2 .. Len(s), NEW p \in 0 .. s[d].cardinality - 1
  PROVE  /\ numThreads \in Nat /\ k \in 0 .. numThreads - 1
         /\ d \in 2 .. query_depth - 1 /\ Slot(k, d) \in Nat
         /\ SizeOf * p \in Nat /\ SizeOf * p + SizeOf <= to
<1>1. query_depth \in Nat /\ to \in Nat /\ SizeOf \in Nat \ {0}
  BY CliqueGraph
<1>2. /\ Len(s) > 0 /\ Len(s) \in Nat /\ d \in 1 .. Len(s) /\ d # 1
      /\ s[d].cardinality \in Nat
  BY <1>1, CallsOf
<1>3. numThreads \in Nat /\ k \in 0 .. numThreads - 1 /\ Len(s) \in 1 .. query_depth - 2
  BY <1>2, CliqueThread
<1>4. d \in 2 .. query_depth - 1 /\ d \in 0 .. query_depth - 1
  BY ONLY <1>1, <1>3, d \in 2 .. Len(s)
<1>5. Slot(k, d) \in Nat
  BY <1>3, <1>4, SlotPlaces
<1>6. s[d].cardinality = Cardinality(Iterated(s, d))
  BY <1>2 DEF Nested
<1>7. SizeOf * Cardinality(Iterated(s, d)) <= to
  <2>1. \A e \in 1 .. Len(s) : s[e].pos <= s[e].cardinality
    BY DEF Stacked
  <2> QED
    BY ONLY CliqueShapes, Room, s \in Seq(Calls), Nested(k, s, common_buffer), <1>2, <2>1, ResultFits
<1> DEFINE n == s[d].cardinality
<1>8. n \in Nat /\ p \in 0 .. n - 1 /\ SizeOf * n <= to
  BY <1>2, <1>6, <1>7
<1> HIDE DEF n
<1>9. SizeOf * p \in Nat /\ SizeOf * n \in Nat /\ SizeOf * p + SizeOf <= SizeOf * n
  <2>1. p \in Nat /\ p < n
    BY <1>8
  <2> QED
    BY ONLY <1>1, <1>8, <2>1, BytesOf
<1>10. SizeOf * p + SizeOf <= to
  <2> DEFINE x == SizeOf * p
             y == SizeOf * n
  <2>1. x \in Nat /\ y \in Nat /\ x + SizeOf <= y /\ y <= to
    BY <1>8, <1>9
  <2> HIDE DEF x, y
  <2>2. x + SizeOf <= to
    BY ONLY <1>1, <2>1
  <2> QED
    BY <2>2 DEF x
<1> QED
  BY <1>3, <1>4, <1>5, <1>9, <1>10

\* A buffer that differs only in the slot of thread k for depth e and behind it.
ChangedIn(b, k, e) ==
  \A w \in Byte : b[w] # common_buffer[w] =>
                    k < numThreads /\ Slot(k, e) <= w /\ w < Slot(k, e) + to + Spill

\* The sets of other threads, and those at smaller depths, read the same in it.
LEMMA SetKept ==
  ASSUME LoopFacts!LoopInv, CliqueShapes, Room, NEW h \in Tid, NEW s \in Seq(Calls),
         Stacked(h, s, running), Nested(h, s, common_buffer),
         NEW d \in 2 .. Len(s), NEW p \in 0 .. s[d].cardinality - 1,
         NEW k \in Tid, NEW e \in 2 .. query_depth - 1, h # k \/ d < e,
         NEW b, ChangedIn(b, k, e)
  PROVE  WordAt(b, Slot(h, d) + SizeOf * p) = Increasing(Iterated(s, d))[p + 1]
<1> DEFINE a == Slot(h, d)
           x == SizeOf * p
           w == a + x
<1>1. /\ numThreads \in Nat /\ h \in 0 .. numThreads - 1 /\ d \in 2 .. query_depth - 1
      /\ a \in Nat /\ x \in Nat /\ x + SizeOf <= to
  BY SetBytes
<1>2. to \in Nat /\ SizeOf \in Nat \ {0} /\ SizeOf * VEC \in Nat /\ query_depth \in Nat
  BY CliqueGraph
<1>3. Spill \in Nat /\ Spill <= 2 * to
  BY SpillFits
<1>4. ASSUME NEW j \in 0 .. SizeOf - 1 PROVE b[w + j] = common_buffer[w + j]
  <2> DEFINE y == w + j
  <2>1. y \in Int /\ a <= y /\ y < a + to
    <3> HIDE DEF a, x
    <3> QED
      BY <1>1, <1>2
  <2> HIDE DEF y
  <2>2. y \in Byte
    <3>1. d \in 0 .. query_depth - 1
      BY <1>1, <1>2
    <3>2. y < a + to + SizeOf * VEC
      <4> DEFINE v == SizeOf * VEC
      <4>1. v \in Nat
        BY <1>2
      <4> HIDE DEF v, a
      <4>2. y < a + to + v
        BY <1>1, <1>2, <2>1, <4>1
      <4> QED
        BY <4>2 DEF v
    <3> QED
      BY <1>1, <2>1, <3>1, <3>2, SlotBytes
  <2>3. b[y] = common_buffer[y]
    <3> SUFFICES ASSUME b[y] # common_buffer[y] PROVE FALSE
      OBVIOUS
    <3>1. k < numThreads /\ Slot(k, e) <= y /\ y < Slot(k, e) + to + Spill
      BY <2>2 DEF ChangedIn
    <3>2. k \in 0 .. numThreads - 1
      BY <1>1, <3>1, LoopAssumption DEF Tid
    <3>3. Slot(k, e) \in Nat
      <4>1. e \in 0 .. query_depth - 1
        BY <1>2
      <4> QED
        BY <1>1, <3>2, <4>1, SlotPlaces
    <3>4. a + to <= Slot(k, e) \/ Slot(k, e) + 3 * to <= a
      BY <1>1, <3>2, SlotsApart
    <3> DEFINE c == Slot(k, e)
    <3>5. /\ c \in Nat /\ c <= y /\ y < c + to + Spill
          /\ a + to <= c \/ c + 3 * to <= a
      BY <3>1, <3>3, <3>4
    <3> HIDE DEF a, c
    <3> QED
      BY ONLY <1>1, <1>2, <1>3, <2>1, <3>5
  <2> QED
    BY <2>3 DEF y
<1>5. w \in Int
  BY <1>1
<1>6. WordAt(common_buffer, w) = Increasing(Iterated(s, d))[p + 1]
  BY DEF Nested
<1> HIDE DEF w
<1>7. WordAt(b, w) = WordAt(common_buffer, w)
  BY ONLY <1>2, <1>4, <1>5, WordKept
<1> QED
  BY <1>6, <1>7 DEF w

\* What an intersection changes is in the slot of its result and behind it.
LEMMA KeptIsChange ==
  ASSUME CliqueShapes, NEW k \in Nat, k < numThreads, NEW e, ResultSlot(k) = Slot(k, e),
         ResultSlot(k) \in Nat, NEW m \in Nat, SizeOf * m <= to, NEW b, Kept(k, m, b)
  PROVE  ChangedIn(b, k, e)
<1> SUFFICES ASSUME NEW w \in Byte, b[w] # common_buffer[w]
             PROVE  Slot(k, e) <= w /\ w < Slot(k, e) + to + Spill
  BY DEF ChangedIn
<1> DEFINE c == Slot(k, e)
           x == SizeOf * m
<1>1. w \in c .. c + x + Spill - 1
  BY DEF Kept, ResultBytes
<1>2. c \in Nat /\ to \in Nat /\ x \in Nat /\ x <= to /\ Spill \in Nat
  BY CliqueGraph, SpillFits
<1> HIDE DEF c, x
<1>3. c <= w /\ w < c + to + Spill
  BY ONLY <1>1, <1>2
<1> QED
  BY <1>3 DEF c

\* A step of one search leaves the other searches as they are.
LEMMA OneStackKept ==
  ASSUME AllStacked, UNCHANGED <<inputVars, to, from, numThreads>>,
         NEW k \in Tid,
         \A h \in Tid : h # k => /\ stack'[h] = stack[h]
                                 /\ \A u \in Node : <<h, u>> \in running' <=> <<h, u>> \in running,
         Stacked(k, stack'[k], running')
  PROVE  AllStacked'
<1>1. ASSUME NEW h \in Tid, h # k PROVE Stacked(h, stack[h], running')
  <2>1. Stacked(h, stack[h], running)
    BY DEF AllStacked
  <2>2. \A u \in Node : <<h, u>> \in running' <=> <<h, u>> \in running
    BY <1>1
  <2> QED
    BY <2>1, <2>2 DEF Stacked
<1>2. \A h \in Tid : Stacked(h, stack'[h], running')
  BY <1>1
<1> QED
  BY <1>2, CliqueInvNext

LEMMA OneNestKept ==
  ASSUME LoopFacts!LoopInv, CliqueShapes, AllStacked, AllNested,
         UNCHANGED <<inputVars, to, from, numThreads>>,
         NEW k \in Tid, NEW e \in 2 .. query_depth - 1,
         \A h \in Tid : h # k => stack'[h] = stack[h],
         Room => ChangedIn(common_buffer', k, e),
         Room => Nested(k, stack'[k], common_buffer')
  PROVE  AllNested'
<1> SUFFICES ASSUME Room
             PROVE  /\ \A h \in Tid : Nested(h, stack'[h], common_buffer')
                    /\ InSlots(common_buffer')
  BY CliqueInvNext
<1>1. /\ numThreads \in Nat /\ k \in Nat
      /\ k < numThreads => k \in 0 .. numThreads - 1
      /\ e \in 0 .. query_depth - 1 /\ to \in Nat /\ SizeOf * VEC \in Nat
  <2>1. numThreads \in 1 .. MaxThreads /\ from = 0
    BY LoopPlaces DEF CliqueShapes
  <2>2. query_depth \in Nat /\ to \in Nat /\ SizeOf * VEC \in Nat
    BY CliqueGraph
  <2> QED
    BY <2>1, <2>2, LoopAssumption DEF Tid
<1>2. ASSUME NEW h \in Tid, h # k PROVE Nested(h, stack[h], common_buffer')
  <2>1. /\ Nested(h, stack[h], common_buffer) /\ Stacked(h, stack[h], running)
        /\ stack[h] \in Seq(Calls)
    BY DEF AllNested, AllStacked, CliqueShapes
  <2>2. ASSUME NEW d \in 2 .. Len(stack[h]), NEW p \in 0 .. stack[h][d].cardinality - 1
        PROVE  WordAt(common_buffer', Slot(h, d) + SizeOf * p)
                 = Increasing(Iterated(stack[h], d))[p + 1]
    BY <1>2, <2>1, SetKept
  <2> QED
    BY ONLY <2>1, <2>2 DEF Nested
<1>3. InSlots(common_buffer')
  <2> SUFFICES ASSUME NEW w \in Byte, common_buffer'[w] # Unwritten
               PROVE  \E h \in 0 .. numThreads - 1, d \in 2 .. query_depth - 1 :
                        Slot(h, d) <= w /\ w < Slot(h, d + 1) + SizeOf * VEC
    BY DEF InSlots
  <2>1. CASE common_buffer'[w] = common_buffer[w]
    BY <2>1 DEF AllNested, InSlots
  <2>2. CASE common_buffer'[w] # common_buffer[w]
    <3>1. k \in 0 .. numThreads - 1 /\ Slot(k, e) <= w /\ w < Slot(k, e) + to + Spill
      BY <1>1, <2>2 DEF ChangedIn
    <3>2. Slot(k, e + 1) = Slot(k, e) + to /\ Slot(k, e) \in Nat
      BY <1>1, <3>1, SlotPlaces
    <3>3. w \in Int /\ Spill \in Nat /\ Spill <= SizeOf * VEC
      BY SpillFits DEF Byte
    <3> DEFINE v == SizeOf * VEC
               c == Slot(k, e)
    <3>4. /\ v \in Nat /\ c \in Nat /\ w < c + to + Spill /\ Spill <= v
      BY <1>1, <3>1, <3>2, <3>3
    <3> HIDE DEF v, c
    <3>5. w < c + to + v
      BY ONLY <1>1, <3>3, <3>4
    <3>6. w < Slot(k, e + 1) + SizeOf * VEC
      BY <3>2, <3>5 DEF v, c
    <3> QED
      BY <3>1, <3>6
  <2> QED
    BY <2>1, <2>2
<1> QED
  BY <1>2, <1>3
\* What thread k and the bodies that have ended have passed becomes more by New.
Advances(nodes, more, f, g, k, New) ==
  /\ New \subseteq Cliques
  /\ \A h \in Tid : h # k => g[h] = f[h]
  /\ \A S \in Cliques :
       (\E u \in more : S \in Extending({u})) \/ Searched(g[k], S)
         <=> (\E u \in nodes : S \in Extending({u})) \/ Searched(f[k], S) \/ S \in New

LEMMA PassedAs ==
  \A nodes, more, f, g, New : \A k \in Tid :
    Advances(nodes, more, f, g, k, New) =>
      PassedCliques(more, g) = PassedCliques(nodes, f) \cup New
<1> SUFFICES ASSUME NEW nodes, NEW more, NEW f, NEW g, NEW New, NEW k \in Tid,
                    Advances(nodes, more, f, g, k, New)
             PROVE  PassedCliques(more, g) = PassedCliques(nodes, f) \cup New
  OBVIOUS
<1> USE DEF Advances
<1>1. \A S \in Cliques : (\E h \in Tid : Searched(g[h], S))
                           <=> Searched(g[k], S) \/ \E h \in Tid : h # k /\ Searched(f[h], S)
  OBVIOUS
<1>2. \A S \in Cliques : (\E h \in Tid : Searched(f[h], S))
                           <=> Searched(f[k], S) \/ \E h \in Tid : h # k /\ Searched(f[h], S)
  OBVIOUS
<1>3. \A S \in Cliques : S \in PassedCliques(more, g) <=> S \in PassedCliques(nodes, f) \cup New
  BY <1>1, <1>2 DEF PassedCliques
<1>4. PassedCliques(more, g) \subseteq Cliques /\ PassedCliques(nodes, f) \subseteq Cliques
  BY DEF PassedCliques
<1> QED
  BY <1>3, <1>4

LEMMA PassedNext ==
  ASSUME NEW k \in Tid, NEW New, Advances(completed, completed', stack, stack', k, New)
  PROVE  PassedCliques(completed', stack') = PassedCliques(completed, stack) \cup New
BY PassedAs
-----------------------------------------------------------------------------
LEMMA CliqueLoopKept == CliqueInv /\ [CliqueNext]_cliqueVars => LoopFacts!LoopInv'
<1> SUFFICES ASSUME CliqueInv, [CliqueNext]_cliqueVars PROVE LoopFacts!LoopInv'
  OBVIOUS
<1>1. [LoopFacts!Next]_(LoopFacts!vars)
  <2> USE DEF LoopFacts!Next, LoopFacts!SetUp, LoopFacts!Take, LoopFacts!Begin, LoopFacts!End,
              LoopFacts!TearDown, LoopFacts!Tid, LoopFacts!Index, LoopFacts!Idle, LoopFacts!args,
              LoopFacts!vars, Loop!args, loopVars, Tid, AllNodes
  <2>1. ASSUME CliqueSetUp PROVE LoopFacts!SetUp
    BY <2>1 DEF CliqueSetUp, Loop!SetUp
  <2>2. ASSUME NEW k \in Tid, NEW u \in AllNodes, CliqueTake(k, u) PROVE LoopFacts!Take(k, u)
    BY <2>2 DEF CliqueTake, Loop!Take, Loop!Idle
  <2>3. ASSUME NEW k \in Tid, NEW u \in AllNodes, CliqueBegin(k, u) PROVE LoopFacts!Begin(k, u)
    BY <2>3 DEF CliqueBegin, Loop!Begin
  <2>4. ASSUME NEW k \in Tid, NEW u \in AllNodes, CliqueEnd(k, u) PROVE LoopFacts!End(k, u)
    BY <2>4 DEF CliqueEnd, Loop!End
  <2>5. ASSUME CliqueTearDown PROVE LoopFacts!TearDown
    BY <2>5 DEF CliqueTearDown, Loop!TearDown
  <2>6. ASSUME NEW k \in Tid, Search(k) \/ Return(k) PROVE UNCHANGED LoopFacts!vars
    BY <2>6 DEF Search, Return
  <2>7. CASE UNCHANGED cliqueVars
    BY <2>7 DEF cliqueVars
  <2>8. CASE CliqueTerminated
    BY <2>8 DEF CliqueTerminated, cliqueVars
  <2> QED
    BY <2>1, <2>2, <2>3, <2>4, <2>5, <2>6, <2>7, <2>8 DEF CliqueNext
<1> QED
  BY <1>1, LoopBounds, LoopFacts!LoopStep DEF CliqueInv

LEMMA CliqueLive ==
  ASSUME LoopFacts!LoopInv, CliqueShapes
  PROVE  /\ numThreads \in 1 .. MaxThreads /\ MaxThreads \in Nat
         /\ prepared \in 0 .. numThreads /\ released \in 0 .. numThreads
         /\ prepared < numThreads \/ running # {} => released = 0
         /\ running # {} => prepared = numThreads
         /\ \A r \in running : r[1] < numThreads /\ r[2] \notin completed
         /\ \A r, q \in running : r[1] = q[1] \/ r[2] = q[2] => r = q
         /\ running \subseteq Tid \X Node /\ completed \subseteq Node
         /\ IsFiniteSet(Live) /\ Live \in SUBSET Tid
         /\ SumFunctionOnSet(found, Live) \in Nat
<1>1. from = 0 /\ MaxThreads \in Nat
  BY LoopAssumption DEF CliqueShapes
<1>2. /\ numThreads \in 1 .. MaxThreads
      /\ prepared \in 0 .. numThreads /\ released \in 0 .. numThreads
      /\ running \subseteq Tid \X Node /\ completed \subseteq Node
      /\ \A r \in running : r[1] < numThreads /\ r[2] \notin completed
      /\ \A r, q \in running : r[1] = q[1] \/ r[2] = q[2] => r = q
      /\ prepared < numThreads \/ running # {} => released = 0
      /\ running # {} => prepared = numThreads
  BY ONLY <1>1, LoopFacts!LoopInv, LoopPlaces
<1>3. IsFiniteSet(Tid) /\ Live \in SUBSET Tid
  BY <1>1, <1>2, FS_Interval DEF Tid, Live
<1>4. IsFiniteSet(Live) /\ \A h \in Live : found[h] \in Nat
  BY <1>3, FS_Subset DEF CliqueShapes
<1>5. SumFunctionOnSet(found, Live) \in Nat
  BY ONLY <1>4, SumType
<1> QED
  BY <1>1, <1>2, <1>3, <1>4, <1>5

LEMMA SearchesKept ==
  ASSUME CliqueInv,
         UNCHANGED <<inputVars, to, from, numThreads, stack, common_buffer, running>>
  PROVE  AllStacked' /\ AllNested'
<1>1. AllStacked /\ AllNested
  BY DEF CliqueInv
<1>2. \A k \in Tid : Stacked(k, stack'[k], running')
  BY <1>1 DEF AllStacked
<1>3. Room => /\ \A k \in Tid : Nested(k, stack'[k], common_buffer')
              /\ InSlots(common_buffer')
  BY <1>1 DEF AllNested
<1> QED
  BY <1>2, <1>3, CliqueInvNext

LEMMA CliqueSetUpInv ==
  ASSUME CliqueInv, CliqueSetUp
  PROVE  CliqueShapes' /\ AllStacked' /\ AllNested' /\ CliquesAdded'
<1>1. /\ LoopFacts!LoopInv /\ CliqueShapes /\ CliquesAdded
      /\ prepared < numThreads /\ prepared' = prepared + 1
      /\ UNCHANGED <<numThreads, from, to, running, completed, released>>
      /\ found' = [found EXCEPT ![prepared] = 0]
      /\ UNCHANGED <<inputVars, common_buffer, stack, num_cliques>>
  BY DEF CliqueInv, CliqueSetUp, Loop!SetUp, Loop!args
<1>2. /\ numThreads \in 1 .. MaxThreads /\ MaxThreads \in Nat
      /\ prepared \in 0 .. numThreads /\ released = 0
      /\ IsFiniteSet(Live) /\ Live \in SUBSET Tid /\ SumFunctionOnSet(found, Live) \in Nat
  BY <1>1, CliqueLive
<1>3. prepared \in Tid /\ prepared \notin Live /\ Live' = Live \cup {prepared}
  BY <1>1, <1>2 DEF Tid, Live
<1>4. /\ common_buffer' \in Contents /\ stack' \in [Tid -> Seq(Calls)]
      /\ found' \in [Tid -> Nat] /\ num_cliques' \in Nat /\ found \in [Tid -> Nat]
  BY <1>1, <1>3 DEF CliqueShapes
<1>5. CliqueShapes'
  BY <1>1, <1>4, CliqueInvNext
<1>6. AllStacked' /\ AllNested'
  BY <1>1, SearchesKept
<1>7. SumFunctionOnSet(found', Live') = SumFunctionOnSet(found, Live)
  <2>1. /\ IsFiniteSet(Live') /\ prepared \in Live' /\ Live' \ {prepared} = Live
        /\ \A h \in Live' : found'[h] \in Nat
        /\ found'[prepared] = 0
    <3>1. IsFiniteSet(Live')
      BY <1>2, <1>3, FS_AddElement
    <3> QED
      BY <1>1, <1>2, <1>3, <1>4, <3>1
  <2>2. SumFunctionOnSet(found', Live')
          = found'[prepared] + SumFunctionOnSet(found', Live' \ {prepared})
    BY ONLY <2>1, SumRemove
  <2>3. \A h \in Live : found[h] \in Nat /\ found'[h] = found[h]
    BY <1>1, <1>2, <1>3, <1>4
  <2>4. SumFunctionOnSet(found', Live) = SumFunctionOnSet(found, Live)
    BY ONLY <1>2, <2>3, SumAgrees
  <2> QED
    BY <1>2, <2>1, <2>2, <2>4
<1>8. CliquesAdded'
  <2>1. Room => AddUp(num_cliques', found', Live', PassedCliques(completed', stack'))
    BY <1>1, <1>7 DEF CliquesAdded, AddUp
  <2> QED
    BY <1>1, <2>1, CliqueInvNext
<1> QED
  BY <1>5, <1>6, <1>8

\* Handing out nodes changes the state of the loop only.
LEMMA CliqueLoopOnlyInv ==
  ASSUME CliqueInv,
         UNCHANGED <<from, to, numThreads, running, completed, prepared, released, inputVars,
                     common_buffer, stack, found, num_cliques>>
  PROVE  CliqueShapes' /\ AllStacked' /\ AllNested' /\ CliquesAdded'
<1>1. CliqueShapes /\ CliquesAdded
  BY DEF CliqueInv
<1>2. /\ common_buffer' \in Contents /\ stack' \in [Tid -> Seq(Calls)]
      /\ found' \in [Tid -> Nat] /\ num_cliques' \in Nat
  BY <1>1 DEF CliqueShapes
<1>3. CliqueShapes'
  BY <1>1, <1>2, CliqueInvNext
<1>4. AllStacked' /\ AllNested'
  BY SearchesKept
<1>5. Room => AddUp(num_cliques', found', Live', PassedCliques(completed', stack'))
  BY <1>1 DEF CliquesAdded, AddUp, Live
<1> QED
  BY <1>3, <1>4, <1>5, CliqueInvNext

\* A thread's count is added to the total when it is torn down.
LEMMA CliqueTearDownInv ==
  ASSUME CliqueInv, CliqueTearDown
  PROVE  CliqueShapes' /\ AllStacked' /\ AllNested' /\ CliquesAdded'
<1>1. /\ LoopFacts!LoopInv /\ CliqueShapes /\ CliquesAdded
      /\ prepared = numThreads /\ released < numThreads /\ released' = released + 1
      /\ UNCHANGED <<numThreads, from, to, prepared, running, completed>>
      /\ num_cliques' = num_cliques + found[released]
      /\ UNCHANGED <<inputVars, common_buffer, stack, found>>
  BY DEF CliqueInv, CliqueTearDown, Loop!TearDown, Loop!args
<1>2. /\ numThreads \in 1 .. MaxThreads /\ MaxThreads \in Nat /\ released \in 0 .. numThreads
      /\ IsFiniteSet(Live) /\ Live \in SUBSET Tid
  BY <1>1, CliqueLive
<1>3. released \in Tid /\ released \in Live /\ Live' = Live \ {released}
  BY <1>1, <1>2 DEF Tid, Live
<1>4. found \in [Tid -> Nat] /\ found[released] \in Nat /\ num_cliques \in Nat
  BY <1>1, <1>3 DEF CliqueShapes
<1>5. /\ common_buffer' \in Contents /\ stack' \in [Tid -> Seq(Calls)]
      /\ found' \in [Tid -> Nat] /\ num_cliques' \in Nat
  BY <1>1, <1>4 DEF CliqueShapes
<1>6. CliqueShapes'
  BY <1>1, <1>5, CliqueInvNext
<1>7. AllStacked' /\ AllNested'
  BY <1>1, SearchesKept
<1>8. /\ SumFunctionOnSet(found, Live) = found[released] + SumFunctionOnSet(found, Live \ {released})
      /\ SumFunctionOnSet(found, Live \ {released}) \in Nat
  <2>1. \A h \in Live : found[h] \in Nat
    BY <1>2, <1>4
  <2>2. IsFiniteSet(Live \ {released}) /\ \A h \in Live \ {released} : found[h] \in Nat
    BY <1>2, <2>1, FS_RemoveElement
  <2>3. SumFunctionOnSet(found, Live) = found[released] + SumFunctionOnSet(found, Live \ {released})
    BY ONLY <1>2, <1>3, <2>1, SumRemove
  <2>4. SumFunctionOnSet(found, Live \ {released}) \in Nat
    BY ONLY <2>2, SumType
  <2> QED
    BY <2>3, <2>4
<1>9. CliquesAdded'
  <2>1. SumFunctionOnSet(found', Live') = SumFunctionOnSet(found, Live \ {released})
    BY <1>1, <1>3
  <2>2. PassedCliques(completed', stack') = PassedCliques(completed, stack)
    BY <1>1
  <2>3. Room => AddUp(num_cliques', found', Live', PassedCliques(completed', stack'))
    BY <1>1, <1>4, <1>8, <2>1, <2>2 DEF CliquesAdded, AddUp
  <2> QED
    BY <1>1, <2>3, CliqueInvNext
<1> QED
  BY <1>6, <1>7, <1>9
-----------------------------------------------------------------------------
\* A step of one search that neither writes to the buffer nor counts.
LEMMA OneSearchInv ==
  ASSUME CliqueInv, UNCHANGED <<inputVars, to, from, numThreads, prepared, released,
                                common_buffer, found, num_cliques>>,
         NEW k \in Tid, NEW s \in Seq(Calls), stack' = [stack EXCEPT ![k] = s],
         \A h \in Tid : h # k => \A u \in Node : <<h, u>> \in running' <=> <<h, u>> \in running,
         Stacked(k, s, running'),
         Room => Nested(k, s, common_buffer),
         Room => \A S \in Cliques :
                   (\E u \in completed' : S \in Extending({u})) \/ Searched(s, S)
                     <=> (\E u \in completed : S \in Extending({u})) \/ Searched(stack[k], S)
  PROVE  CliqueShapes' /\ AllStacked' /\ AllNested' /\ CliquesAdded'
<1>1. LoopFacts!LoopInv /\ CliqueShapes /\ AllStacked /\ AllNested /\ CliquesAdded
  BY DEF CliqueInv
<1>2. /\ common_buffer' \in Contents /\ stack' \in [Tid -> Seq(Calls)]
      /\ found' \in [Tid -> Nat] /\ num_cliques' \in Nat
      /\ stack'[k] = s /\ \A h \in Tid : h # k => stack'[h] = stack[h]
  <2>1. stack \in [Tid -> Seq(Calls)]
    BY <1>1 DEF CliqueShapes
  <2>2. /\ stack' \in [Tid -> Seq(Calls)]
        /\ stack'[k] = s /\ \A h \in Tid : h # k => stack'[h] = stack[h]
    BY <2>1
  <2> QED
    BY <1>1, <2>2 DEF CliqueShapes
<1>3. CliqueShapes'
  BY <1>1, <1>2, CliqueInvNext
<1>4. AllStacked'
  <2>1. Stacked(k, stack'[k], running')
    BY <1>2
  <2> QED
    BY <1>1, <1>2, <2>1, OneStackKept
<1>5. AllNested'
  <2>1. 2 \in 2 .. query_depth - 1
    BY <1>1, CliqueGraph
  <2>2. Room => Nested(k, stack'[k], common_buffer')
    BY <1>2
  <2>3. ChangedIn(common_buffer', k, 2)
    BY DEF ChangedIn
  <2> QED
    BY <1>1, <1>2, <2>1, <2>2, <2>3, OneNestKept
<1>6. CliquesAdded'
  <2>1. ASSUME Room PROVE PassedCliques(completed', stack') = PassedCliques(completed, stack)
    <3>1. Advances(completed, completed', stack, stack', k, {})
      BY <1>2, <2>1 DEF Advances
    <3>2. PassedCliques(completed', stack') = PassedCliques(completed, stack) \cup {}
      BY <3>1, PassedNext
    <3> QED
      BY <3>2
  <2>2. Room => AddUp(num_cliques', found', Live', PassedCliques(completed', stack'))
    BY <1>1, <2>1 DEF CliquesAdded, AddUp, Live
  <2> QED
    BY <2>2, CliqueInvNext
<1> QED
  BY <1>3, <1>4, <1>5, <1>6

LEMMA NothingSearched ==
  ASSUME to \in Nat, NEW s, Len(s) = 1, s[1].pos = 0, NEW S
  PROVE  ~Searched(s, S)
<1>1. IsFiniteSet(Iterated(s, 1)) /\ Iterated(s, 1) \subseteq Int
      /\ Cardinality(Iterated(s, 1)) \in Nat
  BY CommonIsSet DEF Iterated
<1>2. \A x \in Iterated(s, 1) : RankIn(Iterated(s, 1), x) \in Nat
  BY <1>1, Ranks
<1>3. Done(s, 1) = 0 /\ \A d \in 1 .. Len(s) : d = 1
  BY DEF Done
<1>4. \A x \in Iterated(s, 1) : ~(RankIn(Iterated(s, 1), x) < Done(s, 1))
  BY <1>2, <1>3
<1> QED
  BY <1>3, <1>4 DEF Searched

\* When a body begins, its search has passed nothing.
LEMMA CliqueBeginInv ==
  ASSUME CliqueInv, NEW k \in Tid, NEW u \in AllNodes, CliqueBegin(k, u)
  PROVE  CliqueShapes' /\ AllStacked' /\ AllNested' /\ CliquesAdded'
<1> DEFINE s == <<Call(u, Cardinality(Row(u)))>>
<1>1. /\ LoopFacts!LoopInv /\ CliqueShapes
      /\ u \in pending[k] /\ running' = running \cup {<<k, u>>}
      /\ \A r \in running : r[1] # k
      /\ UNCHANGED <<numThreads, from, to, prepared, completed, released>>
      /\ stack' = [stack EXCEPT ![k] = s]
      /\ UNCHANGED <<inputVars, common_buffer, found, num_cliques>>
  BY DEF CliqueInv, CliqueBegin, Loop!Begin, Loop!args
<1>2. to \in Nat /\ query_depth \in Nat /\ query_depth >= 3
  BY <1>1, CliqueGraph
<1>3. u \in Node
  <2>1. pending[k] \subseteq Node
    <3>1. from = 0
      BY <1>1 DEF CliqueShapes
    <3> QED
      BY <1>1, <3>1, LoopPlaces
  <2> QED
    BY <1>1, <2>1
<1>4. Row(u) = Common({u}) /\ Cardinality(Row(u)) \in 0 .. to
  BY <1>2, <1>3, RowIsCommon, CommonIsSet
<1>5. /\ s \in Seq(Calls) /\ Len(s) = 1
      /\ s[1].node = u /\ s[1].cardinality = Cardinality(Row(u)) /\ s[1].pos = 0
  <2>1. Call(u, Cardinality(Row(u))) \in Calls
    BY <1>2, <1>3, <1>4 DEF Call, Calls
  <2> QED
    BY <2>1 DEF Call
<1> HIDE DEF s
<1>6. Len(stack[k]) = 0
  <2>1. stack[k] \in Seq(Calls) /\ Len(stack[k]) \in Nat /\ Stacked(k, stack[k], running)
    BY CliqueState
  <2> SUFFICES ASSUME Len(stack[k]) > 0 PROVE FALSE
    BY <2>1
  <2>2. <<k, stack[k][1].node>> \in running
    BY <1>1, <2>1, CliqueThread
  <2>3. <<k, stack[k][1].node>>[1] = k
    OBVIOUS
  <2> QED
    BY <1>1, <2>2, <2>3
<1>7. \A h \in Tid : \A v \in Node :
        <<h, v>> \in running' <=> <<h, v>> \in running \/ (h = k /\ v = u)
  BY <1>1
<1>8. Stacked(k, s, running')
  <2>1. \A v \in Node : <<k, v>> \in running' <=> Len(s) > 0 /\ s[1].node = v
    <3>1. \A v \in Node : <<k, v>>[1] = k
      OBVIOUS
    <3>2. \A v \in Node : <<k, v>> \notin running
      BY <1>1, <3>1
    <3> QED
      BY <1>5, <1>7, <3>2
  <2>2. \A d \in 1 .. Len(s) : d = 1
    BY <1>5
  <2>3. Cardinality(Row(u)) >= 0
    BY <1>4
  <2> QED
    BY <1>2, <1>5, <2>1, <2>2, <2>3 DEF Stacked
<1>9. Nested(k, s, common_buffer)
  <2>1. Iterated(s, 1) = Row(u)
    <3>1. Chosen(s, 1) = {s[1].node}
      BY ChosenOne, 1 \in Nat
    <3> QED
      BY <1>4, <1>5, <3>1 DEF Iterated
  <2>2. (\A d \in 1 .. Len(s) : d = 1) /\ 1 .. Len(s) - 1 = {} /\ 2 .. Len(s) = {}
    BY <1>5
  <2> QED
    BY <1>5, <2>1, <2>2 DEF Nested
<1>10. \A S : ~Searched(s, S) /\ ~Searched(stack[k], S)
  <2> TAKE S
  <2>1. ~Searched(s, S)
    BY ONLY <1>2, <1>5, NothingSearched
  <2>2. ~Searched(stack[k], S)
    BY <1>6 DEF Searched
  <2> QED
    BY <2>1, <2>2
<1>11. \A h \in Tid : h # k => \A v \in Node : <<h, v>> \in running' <=> <<h, v>> \in running
  BY <1>7
<1> QED
  BY <1>1, <1>5, <1>8, <1>9, <1>10, <1>11, OneSearchInv

\* A set that has been searched to its end is left.
LEMMA ReturnInv ==
  ASSUME CliqueInv, NEW k \in Tid, Return(k)
  PROVE  CliqueShapes' /\ AllStacked' /\ AllNested' /\ CliquesAdded'
<1> DEFINE s == stack[k]
           t == Front(s)
           D == Len(s)
<1>1. /\ LoopFacts!LoopInv /\ CliqueShapes
      /\ D > 1 /\ s[D].pos = s[D].cardinality
      /\ stack' = [stack EXCEPT ![k] = t]
      /\ UNCHANGED <<numThreads, from, to, prepared, running, completed, released>>
      /\ UNCHANGED <<inputVars, common_buffer, found, num_cliques>>
  <2>1. stack \in [Tid -> Seq(Calls)]
    BY DEF CliqueInv, CliqueShapes
  <2> QED
    BY <2>1 DEF CliqueInv, Return, loopVars, Depth, Top
<1>2. /\ s \in Seq(Calls) /\ D \in Nat /\ Stacked(k, s, running)
      /\ \A d \in 1 .. D : s[d].pos <= s[d].cardinality
      /\ Room => Nested(k, s, common_buffer) /\ Path(s)
  BY CliqueState
<1> HIDE DEF s
<1>3. t \in Seq(Calls) /\ Len(t) = D - 1 /\ \A d \in 1 .. D - 1 : t[d] = s[d]
  BY <1>1, <1>2 DEF Front
<1> HIDE DEF t
<1>4. D \in 1 .. query_depth - 2 /\ query_depth \in Nat
  <2>1. D > 0
    BY <1>1, <1>2
  <2> QED
    BY <1>1, <1>2, <2>1, CliqueThread, CliqueGraph
<1>5. Stacked(k, t, running)
  <2>1. Len(t) > 0 /\ t[1] = s[1] /\ D > 0 /\ Len(t) <= query_depth - 2
    BY <1>1, <1>2, <1>3, <1>4
  <2>2. /\ \A d \in 1 .. Len(t) : d \in 1 .. D /\ t[d] = s[d]
        /\ \A d \in 2 .. Len(t) : d \in 2 .. D /\ t[d] = s[d]
    BY <1>2, <1>3
  <2> QED
    BY <1>2, <2>1, <2>2 DEF Stacked
<1>6. ASSUME Room PROVE Nested(k, t, common_buffer)
  <2>1. \A d \in 1 .. Len(t) : Iterated(t, d) = Iterated(s, d)
    <3>1. Len(t) \in Nat /\ \A d \in 1 .. Len(t) : t[d].node = s[d].node
      BY <1>1, <1>2, <1>3
    <3> QED
      BY ONLY <3>1, SameNodes
  <2>2. /\ \A d \in 1 .. Len(t) : d \in 1 .. D /\ t[d] = s[d]
        /\ \A d \in 1 .. Len(t) - 1 : d \in 1 .. D - 1 /\ t[d] = s[d] /\ t[d + 1] = s[d + 1]
                                      /\ d \in 1 .. Len(t)
        /\ \A d \in 2 .. Len(t) : d \in 2 .. D /\ t[d] = s[d] /\ d \in 1 .. Len(t)
    BY <1>1, <1>2, <1>3
  <2>3. Nested(k, s, common_buffer)
    BY <1>2, <1>6
  <2>4. \A d \in 1 .. Len(t) : t[d].cardinality = Cardinality(Iterated(t, d))
    BY <2>1, <2>2, <2>3 DEF Nested
  <2>5. \A d \in 1 .. Len(t) - 1 :
          t[d].pos > 0 /\ t[d + 1].node = Increasing(Iterated(t, d))[t[d].pos]
    BY <2>1, <2>2, <2>3 DEF Nested
  <2>6. \A d \in 2 .. Len(t) : \A p \in 0 .. t[d].cardinality - 1 :
          WordAt(common_buffer, Slot(k, d) + SizeOf * p) = Increasing(Iterated(t, d))[p + 1]
    BY <2>1, <2>2, <2>3 DEF Nested
  <2> QED
    BY <2>4, <2>5, <2>6 DEF Nested
<1>7. ASSUME Room, NEW S PROVE Searched(t, S) <=> Searched(s, S)
  <2>1. Path(s) /\ D # query_depth
    BY <1>2, <1>4, <1>7
  <2>2. \A d \in 1 .. Len(t) : t[d] = s[d]
    BY <1>3
  <2> QED
    BY ONLY <1>1, <1>3, <2>1, <2>2, ReturnPasses
<1> QED
  BY <1>1, <1>3, <1>5, <1>6, <1>7, OneSearchInv DEF s

\* When a body ends, its search has passed every clique whose largest node is its.
LEMMA CliqueEndInv ==
  ASSUME CliqueInv, NEW k \in Tid, NEW u \in AllNodes, CliqueEnd(k, u)
  PROVE  CliqueShapes' /\ AllStacked' /\ AllNested' /\ CliquesAdded'
<1> DEFINE s == stack[k]
<1>1. /\ LoopFacts!LoopInv /\ CliqueShapes
      /\ Len(s) = 1 /\ s[1].pos = s[1].cardinality
      /\ <<k, u>> \in running /\ running' = running \ {<<k, u>>}
      /\ completed' = completed \cup {u}
      /\ stack' = [stack EXCEPT ![k] = << >>]
      /\ UNCHANGED <<numThreads, from, to, prepared, released>>
      /\ UNCHANGED <<inputVars, common_buffer, found, num_cliques>>
  BY DEF CliqueInv, CliqueEnd, Loop!End, Loop!args, Depth, Top
<1>2. /\ s \in Seq(Calls) /\ Stacked(k, s, running)
      /\ Room => Path(s)
  BY CliqueState
<1> HIDE DEF s
<1>3. /\ u \in Node
      /\ \A r, q \in running : r[1] = q[1] \/ r[2] = q[2] => r = q
  <2>1. running \subseteq Tid \X Node
    BY <1>1, CliqueLive
  <2> QED
    BY <1>1, <2>1, CliqueLive
<1>4. s[1].node = u
  BY <1>1, <1>2, <1>3 DEF Stacked
<1>5. << >> \in Seq(Calls) /\ Len(<< >>) = 0
  OBVIOUS
<1>6. Stacked(k, << >>, running')
  <2>1. \A v \in Node : <<k, v>> \notin running'
    <3> SUFFICES ASSUME NEW v \in Node, <<k, v>> \in running' PROVE FALSE
      OBVIOUS
    <3>1. <<k, v>> \in running /\ <<k, v>> # <<k, u>>
      BY <1>1
    <3>2. <<k, v>>[1] = <<k, u>>[1]
      OBVIOUS
    <3> QED
      BY <1>1, <1>3, <3>1, <3>2
  <2>2. 0 <= query_depth - 2
    BY <1>1, CliqueGraph
  <2> QED
    BY <2>1, <2>2 DEF Stacked
<1>7. Nested(k, << >>, common_buffer)
  BY DEF Nested
<1>8. \A h \in Tid : h # k => \A v \in Node : <<h, v>> \in running' <=> <<h, v>> \in running
  BY <1>1
<1>9. ASSUME Room, NEW S \in Cliques
      PROVE  (\E v \in completed' : S \in Extending({v})) \/ Searched(<< >>, S)
               <=> (\E v \in completed : S \in Extending({v})) \/ Searched(s, S)
  <2>1. Searched(s, S) <=> S \in Extending({u})
    BY <1>1, <1>2, <1>4, <1>9, EndPasses
  <2>2. ~Searched(<< >>, S)
    BY <1>5 DEF Searched
  <2> QED
    BY <1>1, <2>1, <2>2
<1> QED
  BY <1>1, <1>5, <1>6, <1>7, <1>8, <1>9, OneSearchInv DEF s
-----------------------------------------------------------------------------
\* The element that a search has reached.
NextNode(k) == Element(k, Depth(k), Top(k).pos, common_buffer)

\* Thread k has an element to go on with.
Searching(k) == Depth(k) > 0 /\ Top(k).pos < Top(k).cardinality

LEMMA SearchState ==
  ASSUME CliqueInv, NEW k \in Tid, Searching(k)
  PROVE  /\ LoopFacts!LoopInv /\ CliqueShapes
         /\ to \in Nat /\ query_depth \in Nat /\ BufferEnd \in Nat
         /\ numThreads \in Nat /\ k \in 0 .. numThreads - 1
         /\ stack[k] \in Seq(Calls) /\ Depth(k) = Len(stack[k])
         /\ Depth(k) \in 1 .. query_depth - 2 /\ Depth(k) + 1 \in 2 .. query_depth - 1
         /\ Depth(k) \in 1 .. Depth(k) /\ Depth(k) \in Nat
         /\ Top(k).cardinality \in Nat
         /\ Top(k).pos \in 0 .. Top(k).cardinality - 1
         /\ Stacked(k, stack[k], running)
         /\ ResultSlot(k) = Slot(k, Depth(k) + 1) /\ ResultSlot(k) \in Nat
         /\ Room => Nested(k, stack[k], common_buffer) /\ Path(stack[k])
<1> DEFINE s == stack[k]
           D == Depth(k)
<1>1. /\ LoopFacts!LoopInv /\ CliqueShapes /\ s \in Seq(Calls) /\ D = Len(s) /\ D \in Nat
      /\ Stacked(k, s, running)
      /\ Room => Nested(k, s, common_buffer) /\ Path(s)
  BY CliqueState DEF CliqueInv, Depth
<1>2. to \in Nat /\ query_depth \in Nat
  BY <1>1, CliqueGraph
<1>3. D > 0 /\ s[D].pos < s[D].cardinality
  BY DEF Searching, Top
<1>4. numThreads \in Nat /\ k \in 0 .. numThreads - 1 /\ D \in 1 .. query_depth - 2
  BY <1>1, <1>3, CliqueThread
<1>5. s[D].cardinality \in Nat /\ s[D].pos \in 0 .. s[D].cardinality - 1
  <2>1. s[D].cardinality \in Nat /\ s[D].pos \in Nat
    BY <1>1, <1>3, CallsOf
  <2> QED
    BY <1>3, <2>1
<1>6. D + 1 \in 2 .. query_depth - 1 /\ D + 1 \in 0 .. query_depth - 1 /\ D \in 1 .. D
  BY <1>2, <1>4
<1>7. Slot(k, D + 1) \in Nat /\ BufferEnd \in Nat
  BY <1>1, <1>4, <1>6, SlotPlaces
<1> QED
  BY <1>1, <1>2, <1>4, <1>5, <1>6, <1>7 DEF Top, ResultSlot

\* Whatever the buffer holds, what is read is a node or none.
LEMMA SearchEntries ==
  ASSUME CliqueInv, NEW k \in Tid, Searching(k)
  PROVE  Entries(k)
<1> DEFINE s == stack[k]
           D == Depth(k)
<1>1. /\ CliqueShapes /\ s \in Seq(Calls) /\ D = Len(s)
      /\ Stacked(k, s, running) /\ to \in Nat
      /\ D \in Nat /\ D > 0 /\ Top(k) = s[D] /\ s[D].cardinality \in Nat
  BY SearchState DEF Top
<1> SUFFICES ASSUME NEW b, NEW p \in 0 .. s[D].cardinality - 1 PROVE Element(k, D, p, b) \in Entry
  BY <1>1 DEF Entries
<1>2. CASE D = 1
  <2>1. s[1].node \in Node
    <3>1. 1 \in 1 .. Len(s)
      BY <1>1, <1>2
    <3> QED
      BY ONLY <1>1, <3>1, CallsOf
  <2>2. Row(s[1].node) = Common({s[1].node})
    BY <1>1, <2>1, RowIsCommon
  <2>3. /\ IsFiniteSet(Row(s[1].node)) /\ Row(s[1].node) \subseteq Int
        /\ Row(s[1].node) \subseteq Node
    BY <1>1, <2>2, CommonIsSet
  <2>4. s[1].cardinality = Cardinality(Row(s[1].node))
    BY <1>1 DEF Stacked
  <2>5. p + 1 \in 1 .. Cardinality(Row(s[1].node))
    BY <1>1, <1>2, <2>4
  <2>6. Increasing(Row(s[1].node))[p + 1] \in Row(s[1].node)
    BY <2>3, <2>5, IncreasingPlaces
  <2> QED
    BY <1>2, <2>3, <2>6 DEF Element, Entry
<1>3. CASE D # 1
  BY <1>3, WordIsNode DEF Element, Entry
<1> QED
  BY <1>2, <1>3

\* When slots suffice, the sets that are iterated stay as they are while the result is
\* written.
LEMMA SearchReads ==
  ASSUME CliqueInv, NEW k \in Tid, Searching(k), Room,
         NEW m \in Nat, SizeOf * m <= to, NEW b, Kept(k, m, b),
         NEW d \in 1 .. Depth(k), NEW p \in 0 .. stack[k][d].cardinality - 1
  PROVE  Element(k, d, p, b) = Increasing(Iterated(stack[k], d))[p + 1]
<1> DEFINE s == stack[k]
           D == Depth(k)
<1>1. /\ LoopFacts!LoopInv /\ CliqueShapes /\ s \in Seq(Calls) /\ D = Len(s)
      /\ Stacked(k, s, running) /\ to \in Nat /\ D \in Nat
      /\ numThreads \in Nat /\ k \in 0 .. numThreads - 1 /\ query_depth \in Nat
      /\ D + 1 \in 2 .. query_depth - 1
      /\ ResultSlot(k) = Slot(k, D + 1) /\ ResultSlot(k) \in Nat
      /\ Nested(k, s, common_buffer)
  BY SearchState
<1>2. CASE d = 1
  <2>1. s[1].node \in Node
    BY <1>1, <1>2, CallsOf
  <2>2. Chosen(s, 1) = {s[1].node}
    BY ChosenOne, 1 \in Nat
  <2>3. Iterated(s, 1) = Row(s[1].node)
    BY <1>1, <2>1, <2>2, RowIsCommon DEF Iterated
  <2> QED
    BY <1>2, <2>3 DEF Element
<1>3. CASE d # 1
  <2>1. d \in 2 .. Len(s) /\ d < D + 1
    BY <1>1, <1>3
  <2>2. ChangedIn(b, k, D + 1)
    BY <1>1, KeptIsChange
  <2>3. WordAt(b, Slot(k, d) + SizeOf * p) = Increasing(Iterated(s, d))[p + 1]
    BY <1>1, <2>1, <2>2, SetKept
  <2> QED
    BY <1>3, <2>3 DEF Element
<1> QED
  BY <1>2, <1>3
-----------------------------------------------------------------------------
\* What an element narrows the set at the top to, and the state of the intersection.
Narrowed(k) == Common(Chosen(stack[k], Depth(k)) \cup {NextNode(k)})
Result(k) == Intersection(k, NextNode(k))

\* When slots suffice, the element reached is the one of its place, and the result is
\* what the nodes chosen down to it have in common, in order.
LEMMA SearchRoom ==
  ASSUME CliqueInv, NEW k \in Tid, Searching(k), Room
  PROVE  /\ NextNode(k) \in Iterated(stack[k], Depth(k))
         /\ RankIn(Iterated(stack[k], Depth(k)), NextNode(k)) = Top(k).pos
         /\ IsFiniteSet(Narrowed(k)) /\ Cardinality(Narrowed(k)) \in Nat
         /\ SizeOf * Cardinality(Narrowed(k)) <= to
         /\ Result(k).buffer \in Contents /\ Result(k).count = Cardinality(Narrowed(k))
         /\ Kept(k, Cardinality(Narrowed(k)), Result(k).buffer)
         /\ \A p \in 0 .. Cardinality(Narrowed(k)) - 1 :
              WordAt(Result(k).buffer, ResultSlot(k) + SizeOf * p) = Increasing(Narrowed(k))[p + 1]
<1> DEFINE s == stack[k]
           D == Depth(k)
           S == Iterated(s, D)
           u == NextNode(k)
           T == Narrowed(k)
           m == Cardinality(T)
<1>1. /\ CliqueShapes /\ common_buffer \in Contents
      /\ to \in Nat /\ BufferEnd \in Nat /\ SizeOf \in Nat \ {0} /\ VEC \in Nat \ {0}
      /\ s \in Seq(Calls) /\ D = Len(s) /\ D \in 1 .. Len(s) /\ D \in 1 .. D /\ D \in Nat
      /\ Top(k) = s[D] /\ Top(k).cardinality \in Nat
      /\ Top(k).pos \in 0 .. Top(k).cardinality - 1
      /\ ResultSlot(k) \in Nat /\ Nested(k, s, common_buffer)
      /\ \A d \in 1 .. Len(s) : s[d].pos <= s[d].cardinality
  <2>1. CliqueShapes /\ Nested(k, stack[k], common_buffer)
    BY SearchState
  <2>2. common_buffer \in Contents /\ Top(k) = s[D] /\ SizeOf \in Nat \ {0} /\ VEC \in Nat \ {0}
    BY <2>1, CliqueAssumption DEF CliqueShapes, Top
  <2>3. \A d \in 1 .. Len(s) : s[d].pos <= s[d].cardinality
    BY CliqueState
  <2>4. /\ to \in Nat /\ BufferEnd \in Nat
        /\ s \in Seq(Calls) /\ D = Len(s) /\ D \in 1 .. D /\ D \in Nat
        /\ Top(k).cardinality \in Nat
        /\ Top(k).pos \in 0 .. Top(k).cardinality - 1
        /\ ResultSlot(k) \in Nat
    BY SearchState
  <2>5. D \in 1 .. Len(s)
    BY <2>4
  <2> QED
    BY ONLY <2>1, <2>2, <2>3, <2>4, <2>5
<1>2. Top(k).cardinality = Cardinality(S)
  <2> HIDE DEF s, D
  <2> QED
    BY <1>1 DEF Nested, S
<1>3. /\ S \subseteq Node /\ S \subseteq Int /\ IsFiniteSet(S) /\ S \cap Row(u) = T
  BY ONLY <1>1, IteratedNodes DEF S, T, Narrowed, s, D, u
<1>4. ASSUME NEW n \in Nat, SizeOf * n <= to PROVE Reads(k, S, n)
  <2> SUFFICES ASSUME NEW b, Kept(k, n, b), NEW p \in 0 .. Cardinality(S) - 1
               PROVE  Element(k, D, p, b) = Increasing(S)[p + 1]
    BY DEF Reads
  <2>1. p \in 0 .. stack[k][D].cardinality - 1
    BY <1>1, <1>2
  <2> QED
    BY <1>1, <1>4, <2>1, SearchReads
<1>5. Entries(k)
  BY SearchEntries
<1> HIDE DEF S, D, s, u, T, m
<1>6. u = Increasing(S)[Top(k).pos + 1]
  <2>1. Reads(k, S, 0)
    <3>1. 0 \in Nat /\ SizeOf * 0 <= to
      BY <1>1
    <3> QED
      BY ONLY <1>4, <3>1
  <2>2. Kept(k, 0, common_buffer)
    BY DEF Kept
  <2>3. Element(k, Depth(k), Top(k).pos, common_buffer) = Increasing(S)[Top(k).pos + 1]
    BY <1>1, <1>2, <2>1, <2>2 DEF Reads
  <2> QED
    BY <2>3 DEF u, NextNode
<1>7. u \in S /\ RankIn(S, u) = Top(k).pos
  <2>1. Top(k).pos + 1 \in 1 .. Cardinality(S)
    BY <1>1, <1>2
  <2>2. u \in S /\ RankIn(S, u) = (Top(k).pos + 1) - 1
    BY ONLY <1>3, <1>6, <2>1, IncreasingPlaces
  <2> QED
    BY <1>1, <2>2
<1>8. /\ IsFiniteSet(T) /\ m \in Nat /\ SizeOf * m <= to
      /\ Spill = SizeOf * VEC \/ Cardinality(S) < VEC \/ Cardinality(Row(u)) < VEC
  <2>1. /\ SizeOf * m <= to
        /\ Spill = SizeOf * VEC \/ Cardinality(S) < VEC \/ Cardinality(Row(u)) < VEC
    BY <1>1, <1>7, ResultFits DEF S, T, m, Narrowed, s, D, u
  <2>2. IsFiniteSet(T) /\ m \in 0 .. to
    BY <1>1, CommonIsSet DEF T, m, Narrowed
  <2> QED
    BY <1>1, <2>1, <2>2
<1>9. ResultBytes(k, m) \subseteq Byte
  <2> SUFFICES ASSUME NEW w \in ResultBytes(k, m) PROVE w \in Byte
    OBVIOUS
  <2> DEFINE c == Slot(k, Depth(k) + 1)
             x == SizeOf * m
             v == SizeOf * VEC
  <2>1. /\ c \in Nat /\ numThreads \in Nat /\ k \in 0 .. numThreads - 1
        /\ Depth(k) + 1 \in 0 .. query_depth - 1 /\ ResultSlot(k) = c
    <3>1. /\ numThreads \in Nat /\ k \in 0 .. numThreads - 1 /\ query_depth \in Nat
          /\ Depth(k) + 1 \in 2 .. query_depth - 1
          /\ ResultSlot(k) = Slot(k, Depth(k) + 1) /\ ResultSlot(k) \in Nat
      BY SearchState
    <3> QED
      BY <3>1
  <2>2. Spill \in Nat /\ Spill <= v /\ v \in Nat /\ x \in Nat /\ x <= to
    BY <1>1, <1>8, SpillFits
  <2>3. w \in c .. c + x + Spill - 1
    BY <2>1 DEF ResultBytes
  <2> HIDE DEF c, x, v
  <2>4. w \in Int /\ c <= w /\ w < c + to + v
    BY ONLY <1>1, <2>1, <2>2, <2>3
  <2> QED
    BY <1>1, <2>1, <2>4, SlotBytes DEF c, v
<1>10. MergeSetting(k, u, S, T)
  <2>1. u \in Node /\ T = S \cap Row(u) /\ Reads(k, S, Cardinality(T))
    BY <1>3, <1>4, <1>7, <1>8 DEF m
  <2>2. ResultBytes(k, Cardinality(T)) \subseteq Byte
    BY <1>9 DEF m
  <2> QED
    BY ONLY <1>1, <1>2, <1>3, <1>5, <1>8, <2>1, <2>2 DEF MergeSetting
<1> DEFINE r == Intersection(k, u)
<1>11. /\ r.buffer \in Contents /\ r.count = Cardinality(T)
       /\ Kept(k, Cardinality(T), r.buffer)
       /\ \A p \in 0 .. Cardinality(T) - 1 :
            WordAt(r.buffer, ResultSlot(k) + SizeOf * p) = Increasing(T)[p + 1]
  BY ONLY <1>10, MergeResult
<1> QED
  BY <1>7, <1>8, <1>11 DEF S, D, s, u, T, m, Result
-----------------------------------------------------------------------------
\* The stack t is s, gone on by one element of the set at the top.
GoesOn(s, t) ==
  /\ t \in Seq(Calls) /\ Len(s) > 0 /\ Len(s) <= Len(t)
  /\ \A d \in 1 .. Len(s) : t[d].node = s[d].node /\ t[d].cardinality = s[d].cardinality
  /\ \A d \in 1 .. Len(s) - 1 : t[d].pos = s[d].pos
  /\ t[Len(s)].pos = s[Len(s)].pos + 1

LEMMA CallAdvanced ==
  ASSUME NEW c \in Calls, NEW a, a = [c EXCEPT !.pos = c.pos + 1]
  PROVE  a \in Calls /\ a.node = c.node /\ a.cardinality = c.cardinality /\ a.pos = c.pos + 1
BY DEF Calls

LEMMA AdvancedGoesOn ==
  ASSUME NEW s \in Seq(Calls), Len(s) > 0, s[Len(s)].pos < s[Len(s)].cardinality,
         NEW t, t = [s EXCEPT ![Len(s)].pos = @ + 1]
  PROVE  GoesOn(s, t) /\ Len(t) = Len(s)
<1> DEFINE D == Len(s)
           c == s[D]
           a == [c EXCEPT !.pos = @ + 1]
<1>1. D \in Nat /\ D \in 1 .. Len(s)
  BY CallsOf
<1>2. c \in Calls /\ c.node \in Node /\ c.cardinality \in Nat /\ c.pos \in Nat
  BY ONLY <1>1, CallsOf
<1>3. /\ a \in Calls /\ a.node = c.node /\ a.cardinality = c.cardinality
      /\ a.pos = c.pos + 1
  <2>1. a = [c EXCEPT !.pos = c.pos + 1]
    OBVIOUS
  <2> HIDE DEF a, c
  <2> QED
    BY ONLY <1>2, <2>1, CallAdvanced
<1>4. t = [s EXCEPT ![D] = a]
  OBVIOUS
<1> HIDE DEF c, a, D
<1>5. /\ t \in Seq(Calls) /\ Len(t) = D /\ t[D] = a
      /\ \A d \in 1 .. D : d # D => t[d] = s[d]
  BY <1>1, <1>3, <1>4 DEF D
<1>6. \A d \in 1 .. D : t[d].node = s[d].node /\ t[d].cardinality = s[d].cardinality
  BY <1>3, <1>5 DEF c
<1>7. \A d \in 1 .. D - 1 : t[d].pos = s[d].pos
  <2>1. \A d \in 1 .. D - 1 : d \in 1 .. D /\ d # D
    BY <1>1
  <2> QED
    BY <1>5, <2>1
<1>8. t[D].pos = s[D].pos + 1
  BY <1>3, <1>5 DEF c
<1>9. D > 0 /\ D <= Len(t)
  BY <1>1, <1>5 DEF D
<1> QED
  BY <1>5, <1>6, <1>7, <1>8, <1>9 DEF GoesOn, D

LEMMA PushedGoesOn ==
  ASSUME NEW s \in Seq(Calls), NEW a, GoesOn(s, a), Len(a) = Len(s), NEW c \in Calls
  PROVE  /\ GoesOn(s, Append(a, c)) /\ Len(Append(a, c)) = Len(s) + 1
         /\ Append(a, c)[Len(s) + 1] = c
<1> DEFINE t == Append(a, c)
<1>1. a \in Seq(Calls) /\ Len(s) \in Nat /\ Len(s) > 0
  BY DEF GoesOn
<1>2. /\ t \in Seq(Calls) /\ Len(t) = Len(s) + 1 /\ t[Len(s) + 1] = c
      /\ \A d \in 1 .. Len(s) : t[d] = a[d]
  BY <1>1
<1> HIDE DEF t
<1>3. /\ \A d \in 1 .. Len(s) - 1 : d \in 1 .. Len(s)
      /\ Len(s) \in 1 .. Len(s) /\ Len(s) <= Len(t)
  BY <1>1, <1>2
<1> QED
  BY <1>1, <1>2, <1>3 DEF GoesOn, t

\* What a search step does.
LEMMA SearchStep ==
  ASSUME CliqueInv, NEW k \in Tid, Search(k)
  PROVE  /\ Searching(k) /\ common_buffer' = Result(k).buffer
         /\ NextNode(k) \in Node /\ Result(k).buffer \in Contents /\ Result(k).count \in Nat
         /\ GoesOn(stack[k], stack'[k]) /\ stack' = [stack EXCEPT ![k] = stack'[k]]
         /\ UNCHANGED <<loopVars, inputVars, num_cliques>>
         /\ AtLastDepth(k) => /\ Len(stack'[k]) = Len(stack[k])
                              /\ found' = [found EXCEPT ![k] = @ + Result(k).count]
         /\ ~AtLastDepth(k) => /\ Len(stack'[k]) = Len(stack[k]) + 1
                               /\ stack'[k][Len(stack[k]) + 1] = Call(NextNode(k), Result(k).count)
                               /\ found' = found
<1> DEFINE s == stack[k]
           a == [s EXCEPT ![Len(s)].pos = @ + 1]
           c == Call(NextNode(k), Result(k).count)
<1>1. /\ Searching(k) /\ common_buffer' = Result(k).buffer
      /\ Legible(k, common_buffer)
      /\ UNCHANGED <<loopVars, inputVars, num_cliques>>
  BY DEF Search, Searching, Result, NextNode
<1>2. /\ AtLastDepth(k) => /\ stack' = [stack EXCEPT ![k] = a]
                           /\ found' = [found EXCEPT ![k] = @ + Result(k).count]
      /\ ~AtLastDepth(k) => /\ stack' = [stack EXCEPT ![k] = Append(a, c)]
                            /\ found' = found
  BY DEF Search, Result, NextNode, Depth
<1>3. stack \in [Tid -> Seq(Calls)] /\ s \in Seq(Calls)
  BY <1>1, SearchState DEF CliqueShapes
<1>4. Len(s) > 0 /\ s[Len(s)].pos < s[Len(s)].cardinality
  BY <1>1 DEF Searching, Depth, Top
<1>5. GoesOn(s, a) /\ Len(a) = Len(s)
  BY ONLY <1>3, <1>4, AdvancedGoesOn
<1>6. NextNode(k) \in Node /\ Result(k).buffer \in Contents /\ Result(k).count \in Nat
  <2>1. /\ to \in Nat /\ BufferEnd \in Nat /\ ResultSlot(k) \in Nat
        /\ Top(k).cardinality \in Nat /\ Top(k).pos \in 0 .. Top(k).cardinality - 1
        /\ common_buffer \in Contents /\ SizeOf \in Nat \ {0} /\ VEC \in Nat \ {0}
        /\ Entries(k)
    <3>1. CliqueShapes
      BY <1>1, SearchState
    <3>2. common_buffer \in Contents /\ SizeOf \in Nat \ {0} /\ VEC \in Nat \ {0}
      BY <3>1, CliqueAssumption DEF CliqueShapes
    <3> QED
      BY <1>1, <3>2, SearchState, SearchEntries
  <2>2. NextNode(k) \in Node
    BY <1>1, <2>1 DEF Entries, Entry, Legible, NextNode
  <2>3. Result(k) \in Merging(k, NextNode(k))
    BY ONLY <2>1, <2>2, IntersectionTyped DEF Result
  <2>4. Result(k) \in MergeStates
    BY ONLY <2>3 DEF Merging
  <2> QED
    BY <2>2, <2>4 DEF MergeStates
<1>7. c \in Calls
  BY <1>6 DEF Calls, Call
<1>8. /\ GoesOn(s, Append(a, c)) /\ Len(Append(a, c)) = Len(s) + 1
      /\ Append(a, c)[Len(s) + 1] = c
  BY ONLY <1>3, <1>5, <1>7, PushedGoesOn
<1> HIDE DEF a, c
<1>9. CASE AtLastDepth(k)
  <2>1. stack'[k] = a
    BY <1>2, <1>3, <1>9
  <2> QED
    BY <1>1, <1>2, <1>5, <1>6, <1>9, <2>1
<1>10. CASE ~AtLastDepth(k)
  <2>1. stack'[k] = Append(a, c)
    BY <1>2, <1>3, <1>10
  <2> QED
    BY <1>1, <1>2, <1>6, <1>8, <1>10, <2>1 DEF c
<1> QED
  BY <1>9, <1>10

LEMMA SearchStacked ==
  ASSUME CliqueInv, NEW k \in Tid, Search(k)
  PROVE  Stacked(k, stack'[k], running)
<1> DEFINE s == stack[k]
           t == stack'[k]
           D == Len(s)
           r == Result(k)
<1>1. /\ Searching(k) /\ GoesOn(s, t) /\ r.count \in Nat
      /\ AtLastDepth(k) => Len(t) = D
      /\ ~AtLastDepth(k) => Len(t) = D + 1 /\ t[D + 1] = Call(NextNode(k), r.count)
  BY SearchStep
<1>2. /\ LoopFacts!LoopInv /\ CliqueShapes /\ s \in Seq(Calls) /\ D = Depth(k) /\ D \in Nat
      /\ query_depth \in Nat /\ D \in 1 .. query_depth - 2
      /\ Stacked(k, s, running)
      /\ s[D].pos \in 0 .. s[D].cardinality - 1 /\ s[D].cardinality \in Nat
  BY <1>1, SearchState DEF Top
<1>3. \A d \in 1 .. D : s[d].pos <= s[d].cardinality
  BY <1>2 DEF Stacked
<1> HIDE DEF s, t, D, r
<1>4. /\ Len(t) <= query_depth - 2 /\ Len(t) > 0
      /\ \A d \in 1 .. Len(t) : d \notin 1 .. D => d = D + 1 /\ t[d] = Call(NextNode(k), r.count)
  <2>1. CASE AtLastDepth(k)
    BY <1>1, <1>2, <2>1
  <2>2. CASE ~AtLastDepth(k)
    <3>1. D + 2 # query_depth
      BY <1>2, <2>2 DEF AtLastDepth
    <3> QED
      BY <1>1, <1>2, <2>2, <3>1
  <2> QED
    BY <2>1, <2>2
<1>5. /\ \A d \in 1 .. D : t[d].node = s[d].node /\ t[d].cardinality = s[d].cardinality
      /\ \A d \in 1 .. D - 1 : t[d].pos = s[d].pos
      /\ t[D].pos = s[D].pos + 1 /\ D > 0
  BY <1>1 DEF GoesOn, D
<1>6. ASSUME NEW d \in 1 .. Len(t) PROVE t[d].pos <= t[d].cardinality
  <2>1. CASE d \in 1 .. D - 1
    <3>1. d \in 1 .. D
      BY <1>2, <2>1
    <3> QED
      BY <1>3, <1>5, <2>1, <3>1
  <2>2. CASE d = D
    <3>1. D \in 1 .. D
      BY <1>2
    <3>2. t[D].pos = s[D].pos + 1 /\ t[D].cardinality = s[D].cardinality
      BY <1>5, <3>1
    <3>3. s[D].pos + 1 <= s[D].cardinality
      BY <1>2
    <3> QED
      BY <2>2, <3>2, <3>3
  <2>3. CASE d \notin 1 .. D
    <3>1. t[d].pos = 0 /\ t[d].cardinality = r.count
      BY <1>4, <2>3 DEF Call
    <3> QED
      BY <1>1, <3>1
  <2> QED
    BY <1>2, <2>1, <2>2, <2>3
<1>7. /\ \A v \in Node : <<k, v>> \in running <=> Len(t) > 0 /\ t[1].node = v
      /\ t[1].cardinality = Cardinality(Row(t[1].node))
  <2>1. 1 \in 1 .. D /\ Len(s) > 0
    BY <1>2 DEF D
  <2> QED
    BY <1>2, <1>4, <1>5, <2>1 DEF Stacked
<1> QED
  BY <1>4, <1>6, <1>7 DEF Stacked, t

LEMMA SearchNested ==
  ASSUME CliqueInv, NEW k \in Tid, Search(k), Room
  PROVE  Nested(k, stack'[k], common_buffer')
<1> DEFINE s == stack[k]
           t == stack'[k]
           D == Len(s)
           b == Result(k).buffer
           u == NextNode(k)
           S == Iterated(s, D)
           T == Narrowed(k)
<1>1. /\ Searching(k) /\ common_buffer' = b /\ GoesOn(s, t)
      /\ AtLastDepth(k) => Len(t) = D
      /\ ~AtLastDepth(k) => Len(t) = D + 1 /\ t[D + 1] = Call(u, Result(k).count)
  BY SearchStep
<1>2. /\ s \in Seq(Calls) /\ D = Depth(k) /\ D \in Nat /\ to \in Nat
      /\ D \in 1 .. D /\ Nested(k, s, common_buffer)
      /\ s[D].pos \in Nat /\ Top(k).pos = s[D].pos
      /\ ResultSlot(k) = Slot(k, D + 1)
  <2>1. /\ s \in Seq(Calls) /\ D = Depth(k) /\ D \in Nat /\ to \in Nat
        /\ Depth(k) \in 1 .. Depth(k) /\ Nested(k, s, common_buffer)
        /\ Top(k).pos \in 0 .. Top(k).cardinality - 1
        /\ ResultSlot(k) = Slot(k, Depth(k) + 1)
    BY <1>1, SearchState
  <2>2. Top(k).pos = s[D].pos
    BY <2>1 DEF Top
  <2> QED
    BY ONLY <2>1, <2>2
<1>3. /\ u \in S /\ RankIn(S, u) = s[D].pos
      /\ Cardinality(T) \in Nat /\ SizeOf * Cardinality(T) <= to
      /\ Result(k).count = Cardinality(T) /\ Kept(k, Cardinality(T), b)
      /\ \A p \in 0 .. Cardinality(T) - 1 :
           WordAt(b, ResultSlot(k) + SizeOf * p) = Increasing(T)[p + 1]
      /\ T = Common(Chosen(s, D) \cup {u})
  BY <1>1, <1>2, SearchRoom DEF Narrowed
<1>4. \A d \in 1 .. D : \A p \in 0 .. s[d].cardinality - 1 :
        Element(k, d, p, b) = Increasing(Iterated(s, d))[p + 1]
  <2> TAKE d \in 1 .. D
  <2> TAKE p \in 0 .. s[d].cardinality - 1
  <2>1. d \in 1 .. Depth(k) /\ p \in 0 .. stack[k][d].cardinality - 1
    BY <1>2
  <2> QED
    BY <1>1, <1>3, <2>1, SearchReads
<1> HIDE DEF s, t, D, b, u, S, T
<1>5. /\ Len(t) \in Nat /\ D <= Len(t)
      /\ \A d \in 1 .. D : t[d].node = s[d].node /\ t[d].cardinality = s[d].cardinality
      /\ \A d \in 1 .. D - 1 : t[d].pos = s[d].pos
      /\ t[D].pos = s[D].pos + 1
  <2>1. t \in Seq(Calls)
    BY <1>1 DEF GoesOn
  <2> QED
    BY <1>1, <2>1, CallsOf DEF GoesOn, D
<1>6. \A d \in 1 .. Len(t) : d \notin 1 .. D =>
        d = D + 1 /\ t[d].node = u /\ t[d].cardinality = Cardinality(T)
  <2>1. CASE AtLastDepth(k)
    BY <1>1, <2>1
  <2>2. CASE ~AtLastDepth(k)
    <3>1. t[D + 1].node = u /\ t[D + 1].cardinality = Cardinality(T)
      <4>1. t[D + 1] = [node |-> u, cardinality |-> Cardinality(T), pos |-> 0]
        BY <1>1, <1>3, <2>2 DEF Call
      <4> QED
        BY ONLY <4>1
    <3> QED
      BY <1>1, <1>2, <2>2, <3>1
  <2> QED
    BY <2>1, <2>2
<1>7. \A d \in 1 .. D : Chosen(t, d) = Chosen(s, d) /\ Iterated(t, d) = Iterated(s, d)
  <2>1. D \in Nat /\ \A d \in 1 .. D : t[d].node = s[d].node
    BY <1>2, <1>5
  <2> QED
    BY ONLY <2>1, SameNodes
<1>8. t[D + 1].node = u => Iterated(t, D + 1) = T
  <2>1. Chosen(t, D + 1) = Chosen(t, D) \cup {t[D + 1].node}
    BY <1>2, ChosenOne
  <2> QED
    BY <1>2, <1>3, <1>7, <2>1 DEF Iterated
<1>9. ASSUME NEW d \in 1 .. Len(t) PROVE t[d].cardinality = Cardinality(Iterated(t, d))
  <2>1. CASE d \in 1 .. D
    <3>1. s[d].cardinality = Cardinality(Iterated(s, d))
      BY <1>2, <2>1 DEF Nested, D
    <3> QED
      BY <1>5, <1>7, <2>1, <3>1
  <2>2. CASE d \notin 1 .. D
    BY <1>6, <1>8, <2>2
  <2> QED
    BY <2>1, <2>2
<1>10. ASSUME NEW d \in 1 .. Len(t) - 1
       PROVE  t[d].pos > 0 /\ t[d + 1].node = Increasing(Iterated(t, d))[t[d].pos]
  <2>1. d \in 1 .. D /\ d + 1 \in 1 .. Len(t) /\ d \in 1 .. Len(t)
    BY <1>2, <1>5, <1>6
  <2>2. CASE d # D
    <3>1. d \in 1 .. D - 1 /\ d + 1 \in 1 .. D
      BY <1>2, <2>1, <2>2
    <3>2. s[d].pos > 0 /\ s[d + 1].node = Increasing(Iterated(s, d))[s[d].pos]
      BY <1>2, <3>1 DEF Nested, D
    <3> QED
      BY <1>5, <1>7, <2>1, <3>1, <3>2
  <2>3. CASE d = D
    <3>1. D + 1 \notin 1 .. D
      BY <1>2
    <3>2. t[D + 1].node = u
      BY <1>6, <2>1, <2>3, <3>1
    <3>3. IsFiniteSet(S) /\ S \subseteq Int /\ u \in S
      BY ONLY <1>2, <1>3, IteratedNodes DEF S
    <3>4. Increasing(S)[RankIn(S, u) + 1] = u
      BY ONLY <3>3, IncreasingPlaces
    <3>5. Iterated(t, d) = S
      BY <1>7, <2>1, <2>3 DEF S
    <3> QED
      BY <1>2, <1>3, <1>5, <2>3, <3>2, <3>4, <3>5
  <2> QED
    BY <2>2, <2>3
<1>11. ASSUME NEW d \in 2 .. Len(t), NEW p \in 0 .. t[d].cardinality - 1
       PROVE  WordAt(b, Slot(k, d) + SizeOf * p) = Increasing(Iterated(t, d))[p + 1]
  <2>1. CASE d \in 1 .. D
    <3>1. p \in 0 .. s[d].cardinality - 1 /\ d # 1
      BY <1>5, <2>1
    <3> QED
      BY <1>4, <1>7, <2>1, <3>1 DEF Element
  <2>2. CASE d \notin 1 .. D
    <3>1. d \in 1 .. Len(t)
      OBVIOUS
    <3>2. d = D + 1 /\ t[d].node = u /\ t[d].cardinality = Cardinality(T)
      BY <1>6, <2>2, <3>1
    <3> QED
      BY <1>2, <1>3, <1>8, <3>2
  <2> QED
    BY <2>1, <2>2
<1>12. Nested(k, t, b)
  BY <1>9, <1>10, <1>11 DEF Nested
<1> QED
  BY <1>1, <1>12 DEF t

\* The cliques that a search step passes: at the last depth, those that the set found
\* completes.
Completes(k) == IF AtLastDepth(k) THEN Extending(Chosen(stack[k], Depth(k)) \cup {NextNode(k)})
                ELSE {}

LEMMA CompletedCounted ==
  ASSUME CliqueInv, NEW k \in Tid, Searching(k), Room, AtLastDepth(k)
  PROVE  IsFiniteSet(Completes(k)) /\ Cardinality(Completes(k)) = Result(k).count
<1> DEFINE s == stack[k]
           D == Depth(k)
           u == NextNode(k)
           E == Chosen(s, D) \cup {u}
<1>1. /\ CliqueShapes /\ Path(s) /\ D \in 1 .. Len(s) /\ D \in Nat /\ query_depth \in Nat
      /\ D + 2 = query_depth
  <2>1. CliqueShapes /\ Path(s) /\ D = Len(s) /\ D \in 1 .. D /\ D \in Nat /\ query_depth \in Nat
    BY SearchState
  <2> QED
    BY <2>1 DEF AtLastDepth
<1>2. u \in Common(Chosen(s, D)) /\ Result(k).count = Cardinality(Common(E))
  BY SearchRoom DEF Iterated, Narrowed
<1> HIDE DEF s, D, u
<1>3. /\ Chosen(s, D) \in SUBSET Node /\ IsFiniteSet(Chosen(s, D))
      /\ Cardinality(Chosen(s, D)) = D
      /\ \A v, w \in Chosen(s, D) : v < w => {v, w} \in edges
  BY ONLY <1>1, ChosenClique
<1>4. /\ E \in SUBSET Node /\ IsFiniteSet(E) /\ Cardinality(E) = Cardinality(Chosen(s, D)) + 1
      /\ \A v, w \in E : v < w => {v, w} \in edges
  BY ONLY <1>1, <1>2, <1>3, GrownClique
<1> HIDE DEF E
<1>5. Cardinality(E) = query_depth - 1
  BY <1>1, <1>3, <1>4
<1>6. IsFiniteSet(Extending(E)) /\ Cardinality(Extending(E)) = Cardinality(Common(E))
  BY ONLY <1>1, <1>4, <1>5, ExtendingCounted
<1> QED
  BY <1>2, <1>6 DEF Completes, E, s, D, u

\* No thread has passed them, and no body that completed.
LEMMA CompletedAreNew ==
  ASSUME CliqueInv, NEW k \in Tid, Searching(k), Room, NEW S \in Completes(k)
  PROVE  S \notin PassedCliques(completed, stack) \/ Searched(stack[k], S)
<1> DEFINE s == stack[k]
           D == Depth(k)
           u == NextNode(k)
<1>1. /\ LoopFacts!LoopInv /\ CliqueShapes /\ Path(s) /\ s \in Seq(Calls)
      /\ Stacked(k, s, running)
      /\ D \in 1 .. Len(s) /\ 1 \in 1 .. D /\ Len(s) > 0
  <2>1. /\ LoopFacts!LoopInv /\ CliqueShapes /\ Path(s) /\ s \in Seq(Calls)
        /\ Stacked(k, s, running)
        /\ D = Len(s) /\ D \in 1 .. D /\ D \in Nat
    BY SearchState
  <2> QED
    BY <2>1
<1>2. S \in Extending(Chosen(s, D) \cup {u}) /\ u \in Iterated(s, D)
  BY SearchRoom DEF Completes
<1> HIDE DEF s, D, u
<1>3. S \in Extending({s[1].node})
  <2>1. S \in Extending(Chosen(s, 1))
    BY ONLY <1>1, <1>2, Narrowing
  <2>2. Chosen(s, 1) = {s[1].node}
    BY ChosenOne, 1 \in Nat
  <2> QED
    BY <2>1, <2>2
<1>4. s[1].node \in Node /\ <<k, s[1].node>> \in running
  BY <1>1, CliqueThread
<1>5. /\ \A r \in running : r[2] \notin completed
      /\ \A r, q \in running : r[1] = q[1] \/ r[2] = q[2] => r = q
      /\ completed \subseteq Node
  BY <1>1, CliqueLive
<1>6. ASSUME NEW v \in completed, S \in Extending({v}) PROVE FALSE
  <2>1. v = s[1].node
    BY <1>3, <1>4, <1>5, <1>6, LargestIsOne
  <2>2. <<k, s[1].node>>[2] = s[1].node
    OBVIOUS
  <2> QED
    BY <1>4, <1>5, <2>1, <2>2
<1>7. ASSUME NEW h \in Tid, h # k, Searched(stack[h], S) PROVE FALSE
  <2> DEFINE q == stack[h]
  <2>1. q \in Seq(Calls) /\ Stacked(h, q, running) /\ Path(q)
    BY CliqueState
  <2> HIDE DEF q
  <2>2. Len(q) > 0 /\ S \in Extending({q[1].node})
    BY <1>1, <1>7, <2>1, SearchedNode DEF q
  <2>3. q[1].node \in Node /\ <<h, q[1].node>> \in running
    BY <1>1, <2>1, <2>2, CliqueThread
  <2>4. q[1].node = s[1].node
    BY ONLY <1>3, <1>4, <2>2, <2>3, LargestIsOne
  <2>5. /\ <<k, s[1].node>>[2] = s[1].node /\ <<h, q[1].node>>[2] = q[1].node
        /\ <<k, s[1].node>>[1] = k /\ <<h, q[1].node>>[1] = h
    OBVIOUS
  <2>6. <<k, s[1].node>> = <<h, q[1].node>>
    BY ONLY <1>4, <1>5, <2>3, <2>4, <2>5
  <2> QED
    BY <1>7, <2>6
<1>8. ASSUME S \in PassedCliques(completed, stack) PROVE Searched(stack[k], S)
  BY <1>6, <1>7, <1>8 DEF PassedCliques
<1> QED
  BY <1>8

LEMMA SearchPasses ==
  ASSUME CliqueInv, NEW k \in Tid, Search(k), Room
  PROVE  /\ PassedCliques(completed', stack')
              = PassedCliques(completed, stack) \cup Completes(k)
         /\ PassedCliques(completed, stack) \cap Completes(k) = {}
<1> DEFINE s == stack[k]
           t == stack'[k]
           D == Len(s)
           u == NextNode(k)
           New == Completes(k)
<1>1. /\ Searching(k) /\ GoesOn(s, t) /\ stack' = [stack EXCEPT ![k] = t]
      /\ AtLastDepth(k) => Len(t) = D
      /\ ~AtLastDepth(k) => Len(t) = D + 1 /\ t[D + 1] = Call(u, Result(k).count)
      /\ UNCHANGED loopVars
  BY SearchStep
<1>2. /\ CliqueShapes /\ Path(s) /\ D = Depth(k) /\ Top(k).pos = s[D].pos
  <2>1. CliqueShapes /\ Path(s) /\ D = Depth(k)
    BY <1>1, SearchState
  <2> QED
    BY <2>1 DEF Top
<1>3. u \in Iterated(s, D) /\ RankIn(Iterated(s, D), u) = s[D].pos
  BY <1>1, <1>2, SearchRoom
<1>4. New = IF AtLastDepth(k) THEN Extending(Chosen(s, D) \cup {u}) ELSE {}
  BY <1>2 DEF Completes
<1> HIDE DEF s, t, D, u, New
<1>5. /\ Len(s) > 0 /\ \A d \in 1 .. Len(s) : t[d].node = s[d].node
      /\ \A d \in 1 .. Len(s) - 1 : t[d].pos = s[d].pos
      /\ t[Len(s)].pos = s[Len(s)].pos + 1
  BY <1>1 DEF GoesOn
<1>6. ASSUME NEW S
      PROVE  /\ Searched(t, S) <=> Searched(s, S) \/ S \in New
             /\ ~(Searched(s, S) /\ S \in New)
  <2>1. CASE AtLastDepth(k)
    <3>1. Len(t) = Len(s) /\ New = Extending(Chosen(s, Len(s)) \cup {u})
      BY <1>1, <1>4, <2>1 DEF D
    <3>2. u \in Iterated(s, Len(s)) /\ RankIn(Iterated(s, Len(s)), u) = s[Len(s)].pos
      BY <1>3 DEF D
    <3>3. /\ Searched(t, S)
               <=> Searched(s, S) \/ S \in Extending(Chosen(s, Len(s)) \cup {u})
          /\ ~(Searched(s, S) /\ S \in Extending(Chosen(s, Len(s)) \cup {u}))
      BY ONLY <1>2, <1>5, <3>1, <3>2, LastPasses
    <3> QED
      BY ONLY <3>1, <3>3
  <2>2. CASE ~AtLastDepth(k)
    <3>1. Len(t) = Len(s) + 1 /\ t[Len(s) + 1].pos = 0 /\ New = {}
      BY <1>1, <1>4, <2>2 DEF D, Call
    <3>2. Searched(t, S) <=> Searched(s, S)
      BY ONLY <1>2, <1>5, <3>1, PushPasses
    <3> QED
      BY <3>1, <3>2
  <2> QED
    BY <2>1, <2>2
<1>7. Advances(completed, completed', stack, stack', k, New)
  <2>1. New \subseteq Cliques
    BY <1>4 DEF Extending
  <2>2. completed' = completed
    BY <1>1 DEF loopVars
  <2>3. \A h \in Tid : h # k => stack'[h] = stack[h]
    <3>1. stack \in [Tid -> Seq(Calls)]
      BY <1>2 DEF CliqueShapes
    <3> QED
      BY <1>1, <3>1
  <2>4. \A S : Searched(stack'[k], S) <=> Searched(stack[k], S) \/ S \in New
    BY <1>6 DEF s, t
  <2> QED
    BY <2>1, <2>2, <2>3, <2>4 DEF Advances
<1>8. PassedCliques(completed', stack') = PassedCliques(completed, stack) \cup New
  BY <1>7, PassedNext
<1>9. PassedCliques(completed, stack) \cap New = {}
  <2> SUFFICES ASSUME NEW S \in New, S \in PassedCliques(completed, stack) PROVE FALSE
    OBVIOUS
  <2>1. Searched(stack[k], S)
    BY <1>1, CompletedAreNew DEF New
  <2> QED
    BY <1>6, <2>1 DEF s
<1> QED
  BY <1>8, <1>9 DEF New

LEMMA SearchAdds ==
  ASSUME CliqueInv, NEW k \in Tid, Search(k), Room
  PROVE  AddUp(num_cliques', found', Live', PassedCliques(completed', stack'))
<1> DEFINE P == PassedCliques(completed, stack)
           P1 == PassedCliques(completed', stack')
           New == Completes(k)
           n == IF AtLastDepth(k) THEN Result(k).count ELSE 0
           sum == SumFunctionOnSet(found, Live)
<1>1. /\ Searching(k) /\ UNCHANGED <<loopVars, inputVars, num_cliques>>
      /\ AtLastDepth(k) => found' = [found EXCEPT ![k] = @ + Result(k).count]
      /\ ~AtLastDepth(k) => found' = found
  BY SearchStep
<1>2. /\ LoopFacts!LoopInv /\ CliqueShapes /\ AddUp(num_cliques, found, Live, P)
      /\ found \in [Tid -> Nat] /\ num_cliques \in Nat
  BY DEF CliqueInv, CliqueShapes, CliquesAdded
<1>3. P1 = P \cup New /\ P \cap New = {}
  BY SearchPasses
<1>4. n \in Nat /\ IsFiniteSet(New) /\ Cardinality(New) = n
  <2>1. CASE AtLastDepth(k)
    <3>1. Result(k).count \in Nat
      BY SearchStep
    <3>2. IsFiniteSet(New) /\ Cardinality(New) = Result(k).count
      BY <1>1, <2>1, CompletedCounted
    <3> QED
      BY <2>1, <3>1, <3>2
  <2>2. CASE ~AtLastDepth(k)
    BY <2>2, FS_EmptySet DEF Completes
  <2> QED
    BY <2>1, <2>2
<1>5. Live' = Live /\ num_cliques' = num_cliques
  BY <1>1 DEF loopVars, Live
<1>6. IsFiniteSet(Live) /\ Live \in SUBSET Tid /\ k \in Live
  <2>1. /\ stack[k] \in Seq(Calls) /\ Stacked(k, stack[k], running)
        /\ Len(stack[k]) > 0 /\ numThreads \in Nat /\ k \in 0 .. numThreads - 1
    <3>1. /\ stack[k] \in Seq(Calls) /\ Stacked(k, stack[k], running)
          /\ numThreads \in Nat /\ k \in 0 .. numThreads - 1
      BY <1>1, SearchState
    <3>2. Len(stack[k]) > 0
      BY <1>1 DEF Searching, Depth
    <3> QED
      BY <3>1, <3>2
  <2>2. <<k, stack[k][1].node>> \in running
    BY <1>2, <2>1, CliqueThread
  <2>3. /\ IsFiniteSet(Live) /\ Live \in SUBSET Tid
        /\ running # {} => prepared = numThreads /\ released = 0
    BY <1>2, CliqueLive
  <2> QED
    BY <2>1, <2>2, <2>3 DEF Live
<1> HIDE DEF n
<1>7. SumFunctionOnSet(found', Live) = sum + n /\ sum \in Nat
  <2>1. /\ found' \in [Tid -> Nat] /\ found'[k] = found[k] + n
        /\ \A y \in Tid : y # k => found'[y] = found[y]
    <3>1. CASE AtLastDepth(k)
      <4>1. n = Result(k).count
        BY <3>1 DEF n
      <4>2. found' = [found EXCEPT ![k] = @ + n]
        BY <1>1, <3>1, <4>1
      <4> QED
        BY <1>2, <1>4, <4>2
    <3>2. CASE ~AtLastDepth(k)
      <4>1. n = 0 /\ found' = found
        BY <1>1, <3>2 DEF n
      <4>2. found[k] \in Nat
        BY <1>2
      <4> QED
        BY <1>2, <4>1, <4>2
    <3> QED
      BY <3>1, <3>2
  <2> QED
    BY ONLY <1>2, <1>4, <1>6, <2>1, SumAdd
<1>8. IsFiniteSet(P) /\ num_cliques + sum = Cardinality(P)
  BY <1>2 DEF AddUp
<1>9. IsFiniteSet(P1) /\ Cardinality(P1) = Cardinality(P) + Cardinality(New)
  BY <1>3, <1>4, <1>8, DisjointUnion
<1> HIDE DEF P, P1, New, sum
<1>10. num_cliques + (sum + n) = Cardinality(P1)
  BY <1>2, <1>4, <1>7, <1>8, <1>9
<1> QED
  BY <1>5, <1>7, <1>9, <1>10 DEF AddUp, P1

LEMMA SearchInv ==
  ASSUME CliqueInv, NEW k \in Tid, Search(k)
  PROVE  CliqueShapes' /\ AllStacked' /\ AllNested' /\ CliquesAdded'
<1> DEFINE D == Depth(k)
<1>1. LoopFacts!LoopInv /\ CliqueShapes /\ AllStacked /\ AllNested
  BY DEF CliqueInv
<1>2. /\ Searching(k) /\ common_buffer' = Result(k).buffer
      /\ Result(k).buffer \in Contents /\ Result(k).count \in Nat
      /\ stack' = [stack EXCEPT ![k] = stack'[k]] /\ GoesOn(stack[k], stack'[k])
      /\ UNCHANGED <<loopVars, inputVars, num_cliques>>
      /\ AtLastDepth(k) => found' = [found EXCEPT ![k] = @ + Result(k).count]
      /\ ~AtLastDepth(k) => found' = found
  BY SearchStep
<1>3. UNCHANGED <<inputVars, to, from, numThreads, running>>
  BY <1>2 DEF loopVars
<1>4. Stacked(k, stack'[k], running')
  BY <1>3, SearchStacked
<1>5. /\ stack' \in [Tid -> Seq(Calls)] /\ \A h \in Tid : h # k => stack'[h] = stack[h]
  <2>1. stack \in [Tid -> Seq(Calls)] /\ stack'[k] \in Seq(Calls)
    BY <1>1, <1>2 DEF CliqueShapes, GoesOn
  <2> QED
    BY <1>2, <2>1
<1>6. CliqueShapes'
  <2>1. found' \in [Tid -> Nat]
    <3>1. found \in [Tid -> Nat]
      BY <1>1 DEF CliqueShapes
    <3>2. Result(k).count \in Nat
      BY <1>2
    <3> QED
      BY <1>2, <3>1, <3>2
  <2>2. common_buffer' \in Contents /\ num_cliques' \in Nat
    BY <1>1, <1>2 DEF CliqueShapes
  <2> QED
    BY <1>1, <1>3, <1>5, <2>1, <2>2, CliqueInvNext
<1>7. AllStacked'
  <2>1. \A h \in Tid : h # k => /\ stack'[h] = stack[h]
                                /\ \A u \in Node : <<h, u>> \in running' <=> <<h, u>> \in running
    BY <1>3, <1>5
  <2> QED
    BY <1>1, <1>3, <1>4, <2>1, OneStackKept
<1>8. AllNested'
  <2>1. D + 1 \in 2 .. query_depth - 1
    BY <1>2, SearchState
  <2>2. ASSUME Room PROVE ChangedIn(common_buffer', k, D + 1)
    <3> DEFINE m == Cardinality(Narrowed(k))
    <3>1. Kept(k, m, common_buffer') /\ m \in Nat /\ SizeOf * m <= to
      BY <1>2, <2>2, SearchRoom
    <3>2. /\ ResultSlot(k) = Slot(k, D + 1) /\ ResultSlot(k) \in Nat
          /\ k \in Nat /\ k < numThreads
      BY <1>2, SearchState
    <3> QED
      BY ONLY <1>1, <3>1, <3>2, KeptIsChange
  <2>3. Room => Nested(k, stack'[k], common_buffer')
    BY SearchNested
  <2> HIDE DEF D
  <2> QED
    BY <1>1, <1>3, <1>5, <2>1, <2>2, <2>3, OneNestKept
<1>9. CliquesAdded'
  <2>1. Room => AddUp(num_cliques', found', Live', PassedCliques(completed', stack'))
    BY SearchAdds
  <2> QED
    BY <1>3, <2>1, CliqueInvNext
<1> QED
  BY <1>6, <1>7, <1>8, <1>9
-----------------------------------------------------------------------------
LEMMA CliqueInitInv == CliqueInit => CliqueInv
<1> SUFFICES ASSUME CliqueInit PROVE CliqueInv
  OBVIOUS
<1>1. /\ numThreads \in 1 .. MaxThreads /\ from = 0 /\ workers \in 1 .. numThreads
      /\ prepared = 0 /\ unclaimed = 0 /\ pending = [k \in Tid |-> {}] /\ running = {}
      /\ completed = {} /\ released = 0
      /\ \E g \in Graphs : to = g[1] /\ edges = g[2]
  BY DEF CliqueInit, Loop!Init, Loop!Tid, Tid
<1>2. CliqueShapes
  <2>1. << >> \in Seq(Calls)
    OBVIOUS
  <2>2. common_buffer \in Contents /\ stack \in [Tid -> Seq(Calls)]
    <3>1. 0 \in 0 .. SizeOf - 1
      BY CliqueAssumption
    <3>2. common_buffer \in Contents
      BY <3>1 DEF CliqueInit, Contents, Unwritten
    <3> QED
      BY <2>1, <3>2 DEF CliqueInit
  <2>3. query_depth \in QueryDepths /\ found \in [Tid -> Nat] /\ num_cliques \in Nat
    BY DEF CliqueInit
  <2> QED
    BY <1>1, <2>2, <2>3 DEF CliqueShapes
<1>3. LoopFacts!LoopInv
  <2>1. MaxNodes \in Nat /\ from \in 0 .. MaxNodes /\ to \in from .. MaxNodes
    BY <1>1, <1>2, CliqueGraph, LoopAssumption
  <2>2. pending = [k \in LoopFacts!Tid |-> {}]
    BY <1>1 DEF LoopFacts!Tid, Tid
  <2>3. LoopFacts!Init
    BY <1>1, <2>1, <2>2 DEF LoopFacts!Init
  <2> QED
    BY <2>3, LoopBounds, LoopFacts!LoopInit
<1>4. \A k \in Tid : Len(stack[k]) = 0
  BY DEF CliqueInit
<1>5. AllStacked
  <2>1. query_depth \in Nat /\ query_depth >= 3
    BY <1>2, CliqueGraph
  <2>2. \A r : r \notin running
    BY <1>1
  <2> QED
    BY <1>4, <2>1, <2>2 DEF AllStacked, Stacked
<1>6. AllNested
  <2>1. \A k \in Tid : Nested(k, stack[k], common_buffer)
    BY <1>4 DEF Nested
  <2>2. InSlots(common_buffer)
    BY DEF CliqueInit, InSlots
  <2> QED
    BY <2>1, <2>2 DEF AllNested
<1>7. CliquesAdded
  <2>1. PassedCliques(completed, stack) = {}
    BY <1>1, <1>4 DEF PassedCliques, Searched
  <2>2. Live = {} /\ num_cliques = 0
    BY <1>1 DEF Live, CliqueInit
  <2>3. SumFunctionOnSet(found, {}) = 0
    <3>1. IsFiniteSet({}) /\ \A x \in {} : found[x] \in Nat
      BY FS_EmptySet
    <3> QED
      BY <3>1, SumType
  <2> QED
    BY <2>1, <2>2, <2>3, FS_EmptySet DEF CliquesAdded, AddUp
<1> QED
  BY <1>2, <1>3, <1>5, <1>6, <1>7 DEF CliqueInv

LEMMA CliqueNextInv == CliqueInv /\ [CliqueNext]_cliqueVars => CliqueInv'
<1> SUFFICES ASSUME CliqueInv, [CliqueNext]_cliqueVars PROVE CliqueInv'
  OBVIOUS
<1>1. LoopFacts!LoopInv'
  BY CliqueLoopKept
<1> DEFINE Others == CliqueShapes' /\ AllStacked' /\ AllNested' /\ CliquesAdded'
<1>2. ASSUME UNCHANGED cliqueVars PROVE Others
  BY <1>2, CliqueLoopOnlyInv DEF cliqueVars, loopVars
<1>3. CASE CliqueSetUp
  BY <1>1, <1>3, CliqueSetUpInv DEF CliqueInv
<1>4. ASSUME NEW k \in Tid, NEW u \in AllNodes, CliqueTake(k, u) PROVE Others
  BY <1>4, CliqueLoopOnlyInv DEF CliqueTake, Loop!Take, Loop!args
<1>5. ASSUME NEW k \in Tid, NEW u \in AllNodes, CliqueBegin(k, u) PROVE Others
  BY <1>5, CliqueBeginInv
<1>6. ASSUME NEW k \in Tid, NEW u \in AllNodes, CliqueEnd(k, u) PROVE Others
  BY <1>6, CliqueEndInv
<1>7. ASSUME NEW k \in Tid, Search(k) PROVE Others
  BY <1>7, SearchInv
<1>8. ASSUME NEW k \in Tid, Return(k) PROVE Others
  BY <1>8, ReturnInv
<1>9. CASE CliqueTearDown
  BY <1>1, <1>9, CliqueTearDownInv DEF CliqueInv
<1>10. CASE CliqueTerminated
  BY <1>1, <1>2, <1>10 DEF CliqueTerminated, CliqueInv
<1>11. CASE UNCHANGED cliqueVars
  BY <1>1, <1>2, <1>11 DEF CliqueInv
<1> QED
  BY <1>1, <1>3, <1>4, <1>5, <1>6, <1>7, <1>8, <1>9, <1>10, <1>11 DEF CliqueNext, CliqueInv

\* In every graph whose common neighbourhoods fit in a slot, of any number of nodes, sets
\* lie in the slots of their depths, hold what the nodes chosen have in common, and the
\* cliques passed add up (n_clique.cpp:26-97).
THEOREM CliqueInvariance == CliqueSpec => []CliqueInv
BY CliqueInitInv, CliqueNextInv, PTL DEF CliqueSpec

\* Nothing is written outside the slots but within a register behind one
\* (n_clique.cpp:36-48, intersection.hpp:745).
THEOREM OnlySlotsWrittenHolds == CliqueSpec => []OnlySlotsWritten
<1>1. ASSUME CliqueInv PROVE OnlySlotsWritten
  <2>1. LoopFacts!LoopInv /\ CliqueShapes /\ AllNested
    BY <1>1 DEF CliqueInv
  <2>2. Room => InSlots(common_buffer)
    BY <2>1 DEF AllNested
  <2>3. ASSUME NEW k \in Tid
        PROVE  /\ Depth(k) <= query_depth - 2
               /\ \A d \in 1 .. Depth(k) : /\ stack[k][d].node \in Node
                                           /\ stack[k][d].cardinality \in Nat
                                           /\ stack[k][d].pos \in 0 .. stack[k][d].cardinality
    <3> DEFINE s == stack[k]
    <3>1. /\ s \in Seq(Calls) /\ Stacked(k, s, running) /\ Depth(k) = Len(s)
          /\ \A d \in 1 .. Len(s) : s[d].pos <= s[d].cardinality
      BY <1>1, CliqueState DEF Depth
    <3> HIDE DEF s
    <3>2. Len(s) <= query_depth - 2
      BY <3>1 DEF Stacked
    <3>3. \A d \in 1 .. Len(s) : /\ s[d].node \in Node
                                 /\ s[d].cardinality \in Nat /\ s[d].pos \in Nat
      BY ONLY <3>1, CallsOf
    <3>4. \A d \in 1 .. Len(s) : s[d].pos \in 0 .. s[d].cardinality
      <4> TAKE d \in 1 .. Len(s)
      <4>1. s[d].cardinality \in Nat /\ s[d].pos \in Nat /\ s[d].pos <= s[d].cardinality
        BY <3>1, <3>3
      <4> QED
        BY <4>1
    <3> QED
      BY <3>1, <3>2, <3>3, <3>4 DEF s
  <2>4. /\ query_depth \in QueryDepths /\ common_buffer \in Contents
        /\ DOMAIN stack = Tid /\ found \in [Tid -> Nat] /\ num_cliques \in Nat
    BY <2>1 DEF CliqueShapes
  <2> QED
    BY <2>2, <2>3, <2>4 DEF OnlySlotsWritten, CliqueTypeOK, InSlots, Contents
<1> QED
  BY <1>1, CliqueInvariance, PTL

\* As long as common neighbourhoods fit in a slot, a set that is iterated stays the
\* neighbourhood common to the nodes chosen, while the deeper slots and those of other
\* threads are written, and registers behind them (n_clique.cpp:36-66).
THEOREM SetsIntactHolds == CliqueSpec => []SetsIntact
<1>1. ASSUME CliqueInv PROVE SetsIntact
  <2> SUFFICES ASSUME Room, NEW k \in Tid, NEW d \in 1 .. Depth(k)
               PROVE  LET common == Increasing(Common({stack[k][c].node : c \in 1 .. d}))
                      IN  /\ stack[k][d].cardinality = Len(common)
                          /\ \A p \in 0 .. Len(common) - 1 :
                               Element(k, d, p, common_buffer) = common[p + 1]
    BY DEF SetsIntact
  <2> DEFINE s == stack[k]
             S == Iterated(s, d)
  <2>1. CliqueShapes /\ to \in Nat
    BY <1>1, CliqueGraph DEF CliqueInv
  <2>2. s \in Seq(Calls) /\ d \in 1 .. Len(s) /\ Nested(k, s, common_buffer)
    BY <1>1, CliqueState DEF Depth
  <2>3. S = Common({stack[k][c].node : c \in 1 .. d})
    BY DEF Iterated, Chosen
  <2> HIDE DEF s, S
  <2>4. IsFiniteSet(S) /\ S \subseteq Int /\ Len(Increasing(S)) = Cardinality(S)
    <3>1. IsFiniteSet(S) /\ S \subseteq Int
      BY ONLY <2>1, IteratedNodes DEF S
    <3> QED
      BY ONLY <3>1, IncreasingPlaces
  <2>5. s[d].cardinality = Cardinality(S)
    BY <2>2 DEF Nested, S
  <2>6. ASSUME NEW p \in 0 .. Cardinality(S) - 1
        PROVE  Element(k, d, p, common_buffer) = Increasing(S)[p + 1]
    <3>1. CASE d = 1
      <4>1. s[1].node \in Node
        BY <2>2, <3>1, CallsOf
      <4>2. Chosen(s, 1) = {s[1].node}
        BY ChosenOne, 1 \in Nat
      <4>3. S = Row(s[1].node)
        BY <2>1, <3>1, <4>1, <4>2, RowIsCommon DEF S, Iterated
      <4> QED
        BY <3>1, <4>3 DEF Element, s
    <3>2. CASE d # 1
      <4>1. d \in 2 .. Len(s)
        BY <2>2, <3>2
      <4>2. WordAt(common_buffer, Slot(k, d) + SizeOf * p) = Increasing(S)[p + 1]
        BY <2>2, <2>5, <4>1 DEF Nested, S
      <4> QED
        BY <3>2, <4>2 DEF Element
    <3> QED
      BY <3>1, <3>2
  <2> QED
    BY <2>3, <2>4, <2>5, <2>6 DEF s
<1> QED
  BY <1>1, CliqueInvariance, PTL

\* The number printed is the number of cliques, in every graph whose common neighbourhoods
\* fit in a slot, whatever registers are stored behind slots (n_clique.cpp:36-97).
THEOREM CliquesCountedHolds == CliqueSpec => []CliquesCounted
<1>1. ASSUME CliqueInv, Room, released = numThreads PROVE num_cliques = Cardinality(Cliques)
  <2>1. LoopFacts!LoopInv /\ CliqueShapes /\ num_cliques \in Nat
        /\ AddUp(num_cliques, found, Live, PassedCliques(completed, stack))
    BY <1>1 DEF CliqueInv, CliquesAdded, CliqueShapes
  <2>2. /\ numThreads \in 1 .. MaxThreads /\ MaxThreads \in Nat /\ prepared \in 0 .. numThreads
    BY <2>1, CliqueLive
  <2>3. released > 0
    BY <1>1, <2>2
  <2>4. running = {} /\ completed = from .. to - 1
    BY <2>1, <2>3, LoopBounds, LoopFacts!NothingAfterTearDown
    DEF LoopFacts!LoopInv, LoopFacts!Brackets
  <2>5. Live = {} /\ completed = Node
    BY <1>1, <2>1, <2>2, <2>4 DEF Live, CliqueShapes, Node
  <2>6. ASSUME NEW S \in Cliques PROVE \E u \in Node : S \in Extending({u})
    <3>1. /\ S \in SUBSET Node /\ S \subseteq Int /\ IsFiniteSet(S)
          /\ Cardinality(S) = query_depth /\ query_depth >= 3
      BY <2>1, CliqueSets, CliqueGraph
    <3>2. S # {}
      BY <3>1, FS_EmptySet
    <3>3. PICK u \in S : \A y \in S : y <= u
      BY <3>1, <3>2, GreatestElement
    <3>4. \A x \in S \ {u} : x < u
      BY <3>1, <3>3
    <3>5. {u} \subseteq S
      BY <3>3
    <3>6. S \in Extending({u}) /\ u \in Node
      BY <3>1, <3>3, <3>4, <3>5 DEF Extending
    <3> QED
      BY <3>6
  <2>7. PassedCliques(completed, stack) = Cliques
    BY <2>5, <2>6 DEF PassedCliques
  <2>8. SumFunctionOnSet(found, {}) = 0
    <3>1. IsFiniteSet({}) /\ \A x \in {} : found[x] \in Nat
      BY FS_EmptySet
    <3> QED
      BY <3>1, SumType
  <2> QED
    BY <2>1, <2>5, <2>7, <2>8 DEF AddUp
<1>2. CliqueInv => CliquesCounted
  BY <1>1 DEF CliquesCounted
<1> QED
  BY <1>2, CliqueInvariance, PTL
\* With elements of four bytes in registers of four, slots smaller than half a register
\* belong to graphs in which no two adjacent nodes both have a whole block of neighbours
\* below them: all that Room asks for is that what two nodes have in common fits in a slot
\* (n_clique.cpp:64-70, intersection.hpp:745).
THEOREM RoomOfCode ==
  ASSUME SizeOf = 4, VEC = 4, to \in Nat,
         \A u \in Node : \A v \in Row(u) : SizeOf * Cardinality(Common({u, v})) <= num_nodes
  PROVE  Room
<1>1. SUFFICES ASSUME NEW u \in Node, NEW v \in Row(u), 2 * to < 16,
                      Cardinality(Row(u)) >= 4, Cardinality(Row(v)) >= 4
               PROVE  FALSE
  <2>1. ASSUME NEW u \in Node, NEW v \in Row(u)
        PROVE  /\ Cardinality(Row(u)) \in Nat /\ Cardinality(Row(v)) \in Nat
    BY <2>1, RowPlaces
  <2> QED
    BY <1>1, <2>1 DEF Room, num_nodes
<1> DEFINE A == Row(u) \cap (0 .. v - 1)
           B == Row(v)
           D == v .. u - 1
           E == 0 .. v - 1
<1>2. u \in Nat /\ v \in Nat /\ v < u /\ v \in Node /\ u < to
  BY <1>1 DEF Row, Node
<1>3. /\ IsFiniteSet(Row(u)) /\ Cardinality(Row(u)) \in Nat
      /\ IsFiniteSet(B) /\ Cardinality(B) \in Nat
  BY <1>1, <1>2, RowPlaces
<1>4. IsFiniteSet(D) /\ Cardinality(D) = u - v /\ IsFiniteSet(E) /\ Cardinality(E) = v
  <2>1. v \in Int /\ u - 1 \in Int /\ 0 \in Int /\ v - 1 \in Int
    BY <1>2
  <2>2. /\ IsFiniteSet(D) /\ Cardinality(D) = IF v > u - 1 THEN 0 ELSE u - 1 - v + 1
        /\ IsFiniteSet(E) /\ Cardinality(E) = IF 0 > v - 1 THEN 0 ELSE v - 1 - 0 + 1
    BY ONLY <2>1, FS_Interval
  <2> HIDE DEF D, E
  <2> QED
    BY <1>2, <2>2
<1>5. IsFiniteSet(A) /\ A \in SUBSET E /\ B \in SUBSET E /\ Row(u) \in SUBSET (A \cup D)
  <2>1. A \in SUBSET Row(u)
    OBVIOUS
  <2>2. IsFiniteSet(A)
    BY ONLY <1>3, <2>1, FS_Subset
  <2> QED
    BY <1>2, <2>2 DEF Row
<1>6. A \cap B = Common({u, v})
  BY <1>1, <1>2 DEF Common, Row, Node
<1>7. 4 * Cardinality(A \cap B) <= to
  BY <1>1, <1>6 DEF num_nodes
<1> HIDE DEF A, B, D, E
<1>8. IsFiniteSet(A \cup D) /\ Cardinality(A \cup D) = Cardinality(A) + (u - v) - Cardinality(A \cap D)
  BY ONLY <1>4, <1>5, FS_Union
<1>9. Cardinality(Row(u)) <= Cardinality(A \cup D)
  BY ONLY <1>5, <1>8, FS_Subset
<1>10. IsFiniteSet(A \cup B)
       /\ Cardinality(A \cup B) = Cardinality(A) + Cardinality(B) - Cardinality(A \cap B)
  BY ONLY <1>3, <1>5, FS_Union
<1>11. A \cup B \in SUBSET E
  BY ONLY <1>5
<1>12. Cardinality(A \cup B) <= v
  BY ONLY <1>4, <1>11, FS_Subset
<1>13. /\ Cardinality(A) \in Nat /\ Cardinality(A \cap D) \in Nat
       /\ Cardinality(A \cap B) \in Nat
  <2>1. A \cap D \in SUBSET A /\ A \cap B \in SUBSET A
    OBVIOUS
  <2>2. IsFiniteSet(A \cap D) /\ IsFiniteSet(A \cap B)
    BY ONLY <1>5, <2>1, FS_Subset
  <2> QED
    BY ONLY <1>5, <2>2, FS_CardinalityType
<1>14. Cardinality(B) >= 4
  BY <1>1 DEF B
<1>15. Cardinality(Row(u)) >= 4 /\ to \in Nat /\ to <= 7
  BY <1>1
<1> QED
  BY ONLY <1>2, <1>3, <1>7, <1>8, <1>9, <1>10, <1>12, <1>13, <1>14, <1>15
================================================================================
