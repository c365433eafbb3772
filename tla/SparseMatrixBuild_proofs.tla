----------------------- MODULE SparseMatrixBuild_proofs -----------------------
(***************************************************************************)
(* Theorems about the parallel construction of the matrix, for any number  *)
(* of threads and nodes, any graphs and selections, any estimate of the    *)
(* space and any threshold.                                                *)
(***************************************************************************)
EXTENDS SparseMatrixBuild, FiniteFacts, TLAPS

LoopFacts == INSTANCE ParallelFor_proofs WITH MaxIndex <- MaxRows

\* The input is one of those considered, and only nodes have neighbours.
InputOK ==
  /\ input \in Inputs
  /\ from = 0
  /\ \A i \in Row : i >= to => \A s \in Side : Neighborhood(s, i) = {}

\* Where a thread is in the body agrees with the loop's view of it.
Stages ==
  /\ \A k \in Tid : stage[k] = "idle" <=> \A r \in running : r[1] # k
  /\ \A r \in running :
       /\ Kept(r[2]) <=> stage[r[1]] # "skipped"
       /\ stage[r[1]] \in {"between", "column"} => ~input.symmetric
  /\ live = {k \in Tid : released <= k /\ k < prepared}

\* Pairs of a thread and the node whose row, or column, it is packing.
Packing(s) == {r \in running : stage[r[1]] = s}

\* Nodes whose row, or column, has been packed.
Packed(s) ==
  {i \in Row :
     /\ Kept(i)
     /\ \/ s \in Sides /\ i \in completed
        \/ s = "row" /\ \E r \in running : r[2] = i /\ stage[r[1]] \in {"between", "column"}}

\* The bytes of a row, and where it starts and ends in its buffer.
Size(s, i) == Cardinality(Selected(s, i)) * sizeof_uint32
Start(s, i) == ArrayOf(s, i).at
End(s, i) == Start(s, i) + Size(s, i)

\* How much of a buffer of thread k has been used.
Used(s, k, buf) ==
  IF buf < Len(sealed[s][k]) THEN sealed[s][k][buf + 1] ELSE tid_alloc_size[s][k]

\* Rows are placed when they are begun: at the end of what its thread has used, for
\* a row being packed; within what has been used and apart from each other, for rows
\* that have been packed.
Layout(s) ==
  /\ \A i \in Row : Kept(i) =>
       (ArrayOf(s, i) # NoRow <=> i \in Packed(s) \/ \E r \in Packing(s) : r[2] = i)
  /\ \A r \in Packing(s) : ArrayOf(s, r[2]) =
       [tid |-> r[1], buf |-> Len(sealed[s][r[1]]), at |-> tid_alloc_size[s][r[1]]]
  /\ \A i \in Packed(s) :
       /\ ArrayOf(s, i).buf <= Len(sealed[s][ArrayOf(s, i).tid])
       /\ End(s, i) <= Used(s, ArrayOf(s, i).tid, ArrayOf(s, i).buf)
  /\ \A i, h \in Packed(s) : i # h /\ SameBuffer(s, i, h) =>
       End(s, i) <= Start(s, h) \/ End(s, h) <= Start(s, i)

\* A buffer in use is not full.
Reserve ==
  \A s \in Side, k \in Tid : 10 * tid_alloc_size[s][k] <= REALLOC_THRESHOLD * alloc_size

\* What has been packed is what was selected; nothing else has been written.
Data(s) ==
  \A i \in Row : Kept(i) =>
    LET r == old2newids(i)
    IN  IF i \in Packed(s)
        THEN /\ lengths[s][r] = Cardinality(Selected(s, i))
             /\ contents[s][r] = {old2newids(j) : j \in Selected(s, i)}
             /\ edge_attributes[s][r] = IF input.attributed THEN Selected(s, i) ELSE {}
        ELSE lengths[s][r] = 0 /\ contents[s][r] = {} /\ edge_attributes[s][r] = {}

\* The ids of the rows begun.
Names ==
  \A i \in Row : Kept(i) /\ ArrayOf("row", i) # NoRow => new_imap[old2newids(i)] = i

\* The threads not yet torn down.
Waiting == released .. numThreads - 1

\* The totals so far and what the threads will add to them.
Totals ==
  /\ \A k \in Tid : k >= prepared =>
       cardinalities[k] = 0 /\ \A s \in Side : indices[s][k] = 0 /\ tid_alloc_size[s][k] = 0
  /\ new_cardinality + SumFunctionOnSet(cardinalities, Waiting)
       = SumFunctionOnSet(lengths["row"], Row) + SumFunctionOnSet(lengths["column"], Row)
  /\ \A s \in Side :
       total_bytes_used[s] + SumFunctionOnSet(indices[s], Waiting)
         = sizeof_uint32 * SumFunctionOnSet(lengths[s], Row)

\* The rows and columns packed, as CounterIsEstimate counts them.
Done == {d \in Sides \X Row : d[2] \in Packed(d[1])}

Counter ==
  /\ num_uint <= Cardinality(Done)
  /\ Done # {} => num_uint > 0
  /\ \A k \in Tid : counter_read[k] <= Cardinality(Done)

IInv ==
  /\ TypeOK /\ LoopFacts!LoopInv /\ InputOK /\ Stages
  /\ \A s \in Side : Layout(s) /\ Data(s)
  /\ Reserve /\ Names /\ Totals /\ Counter
-----------------------------------------------------------------------------
LEMMA LoopBounds == LoopFacts!Bounds
BY BuildAssumption DEF LoopFacts!Bounds

LEMMA RowsFinite ==
  IsFiniteSet(Row) /\ \A S \in SUBSET Row : IsFiniteSet(S) /\ Cardinality(S) \in 0 .. MaxRows
<1>1. IsFiniteSet(Row) /\ Cardinality(Row) = MaxRows
  BY BuildAssumption, FS_Interval DEF Row
<1> QED
  BY <1>1, BuildAssumption, FS_Subset, FS_CardinalityType

\* What the input allows to be selected: nodes that are kept, in numbers.
LEMMA SelectedNodes ==
  ASSUME InputOK, to \in Nat, NEW s \in Side, NEW i \in Row
  PROVE  /\ Selected(s, i) \in SUBSET Row
         /\ IsFiniteSet(Selected(s, i))
         /\ Cardinality(Selected(s, i)) \in 0 .. MaxRows
         /\ Size(s, i) \in Nat
         /\ s \in Sides => \A j \in Selected(s, i) : Kept(j)
<1>1. IsInput(input)
  BY BuildAssumption DEF InputOK
<1>2. Neighborhood(s, i) \in SUBSET Row
  BY <1>1 DEF IsInput, Neighborhood
<1>3. ASSUME s \in Sides, NEW j \in Selected(s, i) PROVE Kept(j)
  <2>1. j \in Row /\ j \in Neighborhood(s, i) /\ j \in input.node_selection
    BY <1>2 DEF Selected
  <2>2. \E t \in Side : i \in Neighborhood(t, j)
    <3>1. \A x, y \in Row :
            y \in Neighborhood("row", x) <=>
              x \in Neighborhood(IF input.symmetric THEN "row" ELSE "column", y)
      BY <1>1 DEF IsInput, Neighborhood
    <3> QED
      BY <1>3, <2>1, <3>1 DEF Side, Sides
  <2>3. j < to
    BY <2>1, <2>2, BuildAssumption DEF InputOK, Row
  <2> QED
    BY <2>1, <2>3 DEF Kept
<1>4. Selected(s, i) \in SUBSET Row
  BY <1>2 DEF Selected
<1>5. Cardinality(Selected(s, i)) \in 0 .. MaxRows
  BY <1>4, RowsFinite
<1> QED
  BY <1>3, <1>4, <1>5, RowsFinite, BuildAssumption DEF Size, sizeof_uint32

\* The new ids are rows, and no two nodes get the same one.
LEMMA NewIds ==
  ASSUME to \in Nat
  PROVE  /\ \A i \in Row : Kept(i) => old2newids(i) \in Row
         /\ \A i, h \in Row : Kept(i) /\ Kept(h) /\ i # h => old2newids(i) # old2newids(h)
<1> DEFINE Before(i) == {h \in Row : h < i /\ Kept(h)}
<1>1. ASSUME NEW i \in Row PROVE Before(i) \in SUBSET Row /\ Cardinality(Before(i)) \in 0 .. i
  <2>1. Before(i) \in SUBSET (0 .. i - 1) /\ i \in Nat
    BY BuildAssumption DEF Row
  <2>2. IsFiniteSet(0 .. i - 1) /\ Cardinality(0 .. i - 1) = i
    <3>1. 0 \in Int /\ i - 1 \in Int /\ (IF 0 > i - 1 THEN 0 ELSE i - 1 - 0 + 1) = i
      BY <2>1
    <3> QED
      BY <3>1, FS_Interval
  <2>3. Cardinality(Before(i)) \in Nat /\ Cardinality(Before(i)) <= i
    BY <2>1, <2>2, FS_Subset, FS_CardinalityType
  <2> QED
    BY <2>1, <2>3
<1>2. ASSUME NEW i \in Row, NEW h \in Row, Kept(i), i < h
      PROVE  Cardinality(Before(i)) < Cardinality(Before(h))
  <2>1. Before(i) \cup {i} \in SUBSET Before(h) /\ i \notin Before(i)
    BY <1>2, BuildAssumption DEF Row
  <2>2. IsFiniteSet(Before(i)) /\ IsFiniteSet(Before(h))
    BY <1>1, RowsFinite
  <2>3. Cardinality(Before(i) \cup {i}) = Cardinality(Before(i)) + 1
    BY <2>1, <2>2, FS_AddElement
  <2>4. Cardinality(Before(i) \cup {i}) <= Cardinality(Before(h))
    BY <2>1, <2>2, FS_Subset
  <2>5. Cardinality(Before(i)) \in Nat /\ Cardinality(Before(h)) \in Nat
    BY <2>2, FS_CardinalityType
  <2> QED
    BY <2>3, <2>4, <2>5
<1>3. ASSUME NEW i \in Row, Kept(i) PROVE old2newids(i) \in Row
  BY <1>1, BuildAssumption DEF old2newids, Row
<1>4. ASSUME NEW i \in Row, NEW h \in Row, Kept(i), Kept(h), i # h
      PROVE  old2newids(i) # old2newids(h)
  <2>1. i < h \/ h < i
    BY <1>4, BuildAssumption DEF Row
  <2>2. Cardinality(Before(i)) \in Int /\ Cardinality(Before(h)) \in Int
    BY <1>1
  <2>3. Cardinality(Before(i)) # Cardinality(Before(h))
    BY <1>2, <1>4, <2>1, <2>2
  <2> QED
    BY <1>4, <2>3 DEF old2newids
<1> QED
  BY <1>3, <1>4

LEMMA AllocSize == ASSUME InputOK, numThreads \in Nat \ {0} PROVE alloc_size \in Nat
<1>1. IsInput(input)
  BY BuildAssumption DEF InputOK
<1> DEFINE degree == [i \in Row |-> Cardinality(Neighborhood("row", i))]
<1>2. \A i \in Row : degree[i] \in Nat
  BY <1>1, RowsFinite DEF IsInput, Neighborhood, Side
<1>3. SumFunctionOnSet(degree, Row) \in Nat
  <2> HIDE DEF degree
  <2> QED
    BY <1>2, RowsFinite, SumType
<1>4. num_edges = SumFunctionOnSet(degree, Row)
  BY DEF num_edges, SumFunction
<1>5. num_edges * sizeof_uint32 * ALLOCATOR \in Nat
  <2>1. \A a, b \in Nat : a * b \in Nat
    OBVIOUS
  <2> QED
    BY <1>3, <1>4, <2>1, BuildAssumption DEF sizeof_uint32
<1>6. \A a \in Nat : a \div numThreads \in Nat
  OBVIOUS
<1> QED
  BY <1>5, <1>6 DEF alloc_size

\* The threshold leaves a reserve, and both together are the buffer.
LEMMA Threshold ==
  ASSUME NEW A \in Nat
  PROVE  /\ REALLOC_THRESHOLD * A \in Nat /\ REALLOC_THRESHOLD * A <= 10 * A
         /\ (10 - REALLOC_THRESHOLD) * A = 10 * A - REALLOC_THRESHOLD * A
<1>1. REALLOC_THRESHOLD \in 0 .. 10
  BY BuildAssumption
<1> QED
  BY <1>1

\* What is computed from the arguments stays the same throughout the build.
LEMMA Fixed ==
  ASSUME UNCHANGED <<input, to, from, numThreads>>
  PROVE  /\ \A i : Kept(i)' = Kept(i)
         /\ \A i : old2newids(i)' = old2newids(i)
         /\ \A s, i : Selected(s, i)' = Selected(s, i) /\ Size(s, i)' = Size(s, i)
         /\ alloc_size' = alloc_size /\ Sides' = Sides
         /\ InputOK => InputOK'
BY DEF Kept, old2newids, Selected, Size, Neighborhood, alloc_size, num_edges, Sides, InputOK
-----------------------------------------------------------------------------
\* What IInv says of the loop, in the terms the lemmas below use.
LEMMA LoopState ==
  ASSUME IInv
  PROVE  /\ MaxThreads \in Nat /\ numThreads \in 1 .. MaxThreads /\ numThreads \in Nat \ {0}
         /\ from = 0 /\ to \in 0 .. MaxRows /\ to \in Nat
         /\ prepared \in 0 .. numThreads /\ released \in 0 .. numThreads
         /\ Tid = 0 .. MaxThreads - 1
         /\ completed \subseteq Row /\ completed \subseteq 0 .. to - 1
         /\ running \subseteq Tid \X Row
         /\ \A r \in running : r = <<r[1], r[2]>> /\ r[2] \notin completed /\ r[2] < to
         /\ \A r, q \in running : r[1] = q[1] \/ r[2] = q[2] => r = q
         /\ alloc_size \in Nat
<1>1. /\ MaxThreads \in Nat /\ MaxRows \in Nat /\ numThreads \in 1 .. MaxThreads
      /\ to \in from .. MaxRows /\ from = 0
      /\ prepared \in 0 .. numThreads /\ released \in 0 .. numThreads
      /\ unclaimed \in from .. to
      /\ completed \subseteq from .. unclaimed - 1
      /\ running \subseteq Tid \X (from .. unclaimed - 1)
  BY BuildAssumption
  DEF IInv, InputOK, LoopFacts!LoopInv, LoopFacts!LoopTypes, LoopFacts!Claimed, LoopFacts!Tid, Tid
<1>2. from .. unclaimed - 1 \subseteq Row /\ from .. unclaimed - 1 \subseteq 0 .. to - 1
  BY <1>1 DEF Row
<1>3. /\ \A r \in running : r[2] \notin completed
      /\ \A r, q \in running : r[1] = q[1] \/ r[2] = q[2] => r = q
  BY DEF IInv, LoopFacts!LoopInv, LoopFacts!OnePlace
<1>4. alloc_size \in Nat
  BY <1>1, AllocSize DEF IInv
<1>5. \A r \in running : r = <<r[1], r[2]>> /\ r[2] < to
  BY <1>1, <1>2
<1> QED
  BY <1>1, <1>2, <1>3, <1>4, <1>5 DEF Tid

\* A side that is left alone stays as it is.
LEMMA SideFrame ==
  ASSUME NEW s \in Side, UNCHANGED <<input, to, from, numThreads>>,
         Packing(s)' = Packing(s), Packed(s)' = Packed(s),
         UNCHANGED <<arrays[s], sealed[s], tid_alloc_size[s],
                     lengths[s], contents[s], edge_attributes[s]>>
  PROVE  /\ Layout(s) => Layout(s)'
         /\ Data(s) => Data(s)'
<1>1. \A i : ArrayOf(s, i)' = ArrayOf(s, i)
  BY Fixed DEF ArrayOf
<1>2. \A i : Start(s, i)' = Start(s, i) /\ End(s, i)' = End(s, i)
  BY <1>1, Fixed DEF Start, End
<1>3. \A k, b : Used(s, k, b)' = Used(s, k, b)
  BY DEF Used
<1>4. \A i, h : SameBuffer(s, i, h)' = SameBuffer(s, i, h)
  BY <1>1 DEF SameBuffer
<1>5. Layout(s) => Layout(s)'
  BY <1>1, <1>2, <1>3, <1>4, Fixed DEF Layout
<1>6. Data(s) => Data(s)'
  BY Fixed DEF Data
<1> QED
  BY <1>5, <1>6

\* A row that is begun is placed behind all that its thread has packed into the buffer.
LEMMA PlaceKeeps ==
  ASSUME IInv, NEW s \in Sides, NEW k \in Tid, NEW i \in Row, Kept(i), Place(s, k, i),
         UNCHANGED <<to, from, numThreads>>,
         Packing(s)' = Packing(s) \cup {<<k, i>>}, i \notin Packed(s),
         \A r \in Packing(s) : r[2] # i,
         \A t \in Side : Packed(t)' = Packed(t),
         \A t \in Side : t # s => Packing(t)' = Packing(t)
  PROVE  \A t \in Side : Layout(t)' /\ Data(t)'
<1> USE DEF Place, bufferVars, resultVars
<1>1. s \in Side /\ Layout(s) /\ Data(s) /\ TypeOK /\ to \in Nat
  BY LoopState DEF IInv, Sides, Side
<1> DEFINE new == [tid |-> k, buf |-> Len(sealed[s][k]), at |-> tid_alloc_size[s][k]]
<1>2. /\ arrays'[s] = [arrays[s] EXCEPT ![old2newids(i)] = new]
      /\ \A t \in Side : t # s => arrays'[t] = arrays[t]
  BY <1>1 DEF TypeOK
<1>3. /\ ArrayOf(s, i)' = new
      /\ \A h \in Row : Kept(h) /\ h # i => ArrayOf(s, h)' = ArrayOf(s, h)
  <2>1. \A h : ArrayOf(s, h)' = arrays'[s][old2newids(h)]
    BY Fixed DEF ArrayOf
  <2>2. arrays[s] \in [Row -> [tid : Tid, buf : Nat, at : Nat] \cup {NoRow}]
    BY <1>1 DEF TypeOK
  <2>3. old2newids(i) \in Row
        /\ \A h \in Row : Kept(h) /\ h # i => old2newids(h) # old2newids(i) /\ old2newids(h) \in Row
    BY <1>1, NewIds
  <2> HIDE DEF new
  <2> QED
    BY <1>2, <2>1, <2>2, <2>3 DEF ArrayOf
<1>4. new # NoRow
  <2>1. new.at \in Nat /\ NoRow.at = -1
    BY <1>1 DEF TypeOK, NoRow
  <2> QED
    BY <2>1
<1> HIDE DEF new
<1>5. \A h \in Packed(s) : h \in Row /\ Kept(h) /\ h # i
  BY DEF Packed
<1>6. \A h \in Packed(s) : /\ ArrayOf(s, h)' = ArrayOf(s, h)
                           /\ Start(s, h)' = Start(s, h) /\ End(s, h)' = End(s, h)
  BY <1>3, <1>5, Fixed DEF Start, End
<1>7. \A r \in Packing(s) : ArrayOf(s, r[2])' = ArrayOf(s, r[2])
  <2>1. \A r \in Packing(s) : r[2] \in Row /\ Kept(r[2])
    BY <1>1, LoopState DEF Packing, IInv, Stages, Side
  <2> QED
    BY <1>3, <2>1
<1>8. \A j, b : Used(s, j, b)' = Used(s, j, b)
  BY DEF Used
<1>9. Layout(s)'
  <2>1. \A h \in Row : Kept(h) =>
          (ArrayOf(s, h)' # NoRow
             <=> h \in Packed(s)' \/ \E r \in Packing(s)' : r[2] = h)
    <3> SUFFICES ASSUME NEW h \in Row, Kept(h)
                 PROVE  ArrayOf(s, h)' # NoRow
                          <=> h \in Packed(s) \/ \E r \in Packing(s)' : r[2] = h
      BY <1>1
    <3>1. CASE h = i
      <4>1. <<k, i>> \in Packing(s)' /\ <<k, i>>[2] = i
        OBVIOUS
      <4>2. ArrayOf(s, i)' # NoRow
        BY <1>3, <1>4
      <4> QED
        BY <3>1, <4>1, <4>2
    <3>2. CASE h # i
      <4>1. (\E r \in Packing(s)' : r[2] = h) <=> (\E r \in Packing(s) : r[2] = h)
        BY <3>2
      <4> QED
        BY <1>1, <1>3, <3>2, <4>1 DEF Layout
    <3> QED
      BY <3>1, <3>2
  <2>2. \A r \in Packing(s)' : ArrayOf(s, r[2])' =
          [tid |-> r[1], buf |-> Len(sealed'[s][r[1]]), at |-> tid_alloc_size'[s][r[1]]]
    BY <1>1, <1>3, <1>7, SMTT(30) DEF Layout, new
  <2>3. \A h \in Packed(s)' :
          /\ ArrayOf(s, h)'.buf <= Len(sealed'[s][ArrayOf(s, h)'.tid])
          /\ End(s, h)' <= Used(s, ArrayOf(s, h).tid, ArrayOf(s, h).buf)'
    BY <1>1, <1>6, <1>8 DEF Layout, Used
  <2>4. \A h, g \in Packed(s)' : h # g /\ SameBuffer(s, h, g)' =>
          End(s, h)' <= Start(s, g)' \/ End(s, g)' <= Start(s, h)'
    BY <1>1, <1>6 DEF Layout, SameBuffer
  <2> QED
    BY <2>1, <2>2, <2>3, <2>4, Fixed DEF Layout
<1>10. Data(s)'
  BY <1>1, Fixed DEF Data
<1>11. ASSUME NEW t \in Side, t # s PROVE Layout(t)' /\ Data(t)'
  BY <1>2, <1>11, SideFrame DEF IInv
<1> QED
  BY <1>9, <1>10, <1>11
-----------------------------------------------------------------------------
\* What Finish does to the variables of one side and one thread.
LEMMA FinishEffect ==
  ASSUME IInv, NEW s \in Sides, NEW k \in Tid, NEW i \in Row, Kept(i), Finish(s, k, i)
  PROVE  LET n == Cardinality(Selected(s, i))
             used == tid_alloc_size[s][k] + Size(s, i)
         IN  /\ s \in Side /\ n \in 0 .. MaxRows /\ n \in Nat /\ used \in Nat
             /\ Size(s, i) = 4 * n /\ old2newids(i) \in Row
             /\ UNCHANGED <<input, live, arrays, new_imap, counter_read,
                            new_cardinality, total_bytes_used>>
             /\ num_uint' = counter_read[k] + 1
             /\ indices' = [indices EXCEPT ![s][k] = @ + Size(s, i)]
             /\ lengths' = [lengths EXCEPT ![s][old2newids(i)] = n]
             /\ contents' = [contents EXCEPT ![s][old2newids(i)] =
                               {old2newids(j) : j \in Selected(s, i)}]
             /\ edge_attributes' = [edge_attributes EXCEPT ![s][old2newids(i)] =
                  IF input.attributed THEN @ \cup Selected(s, i) ELSE @]
             /\ cardinalities' = [cardinalities EXCEPT ![k] = @ + n]
             /\ Reallocate(s, k, used)
<1>1. s \in Side /\ InputOK /\ TypeOK /\ to \in Nat
  BY LoopState DEF IInv, Sides, Side
<1>2. /\ Cardinality(Selected(s, i)) \in 0 .. MaxRows /\ Size(s, i) \in Nat
      /\ Size(s, i) = 4 * Cardinality(Selected(s, i))
  BY <1>1, SelectedNodes, BuildAssumption DEF Size, sizeof_uint32
<1>3. tid_alloc_size[s][k] \in Nat
  BY <1>1 DEF TypeOK
<1>4. old2newids(i) \in Row
  BY <1>1, NewIds
<1> DEFINE n == Cardinality(Selected(s, i))
           used == tid_alloc_size[s][k] + Size(s, i)
<1>5. n \in Nat /\ used \in Nat
  BY <1>2, <1>3, BuildAssumption
<1>6. /\ num_uint' = counter_read[k] + 1
      /\ indices' = [indices EXCEPT ![s][k] = @ + Size(s, i)]
      /\ lengths' = [lengths EXCEPT ![s][old2newids(i)] = n]
      /\ contents' = [contents EXCEPT ![s][old2newids(i)] =
                        {old2newids(j) : j \in Selected(s, i)}]
      /\ edge_attributes' = [edge_attributes EXCEPT ![s][old2newids(i)] =
           IF input.attributed THEN @ \cup Selected(s, i) ELSE @]
      /\ cardinalities' = [cardinalities EXCEPT ![k] = cardinalities[k] + n]
      /\ Reallocate(s, k, used)
      /\ UNCHANGED <<input, live, arrays, new_imap, counter_read, resultVars>>
  BY DEF Finish, Pack, Size, WithAttribute
<1>7. UNCHANGED <<input, live, arrays, new_imap, counter_read, new_cardinality,
                  total_bytes_used>>
  BY <1>6 DEF resultVars
<1> HIDE DEF n, used
<1>8. /\ s \in Side /\ n \in 0 .. MaxRows /\ n \in Nat /\ used \in Nat
      /\ Size(s, i) = 4 * n /\ old2newids(i) \in Row
  BY <1>1, <1>2, <1>4, <1>5 DEF n
<1> QED
  BY <1>6, <1>7, <1>8 DEF n, used

\* What has been used of the buffers after that: those that were cut are as they
\* were, the one in use holds the row as well, whether it has been cut or not.
LEMMA UsedEffect ==
  ASSUME IInv, NEW s \in Sides, NEW k \in Tid, NEW i \in Row, Kept(i), Finish(s, k, i)
  PROVE  LET L == Len(sealed[s][k])
             used == tid_alloc_size[s][k] + Size(s, i)
         IN  /\ L \in Nat /\ Len(sealed'[s][k]) >= L
             /\ \A j \in Tid : j # k =>
                  sealed'[s][j] = sealed[s][j] /\ tid_alloc_size'[s][j] = tid_alloc_size[s][j]
             /\ \A t \in Side : t # s =>
                  sealed'[t] = sealed[t] /\ tid_alloc_size'[t] = tid_alloc_size[t]
             /\ \A b \in Nat : b < L => Used(s, k, b)' = Used(s, k, b)
             /\ \A b \in Nat : b = L =>
                  Used(s, k, b) = tid_alloc_size[s][k] /\ Used(s, k, b)' = used
             /\ \A j \in Tid, b \in Nat : j # k => Used(s, j, b)' = Used(s, j, b)
<1> DEFINE L == Len(sealed[s][k])
           used == tid_alloc_size[s][k] + Size(s, i)
<1>1. s \in Side /\ TypeOK /\ used \in Nat /\ Reallocate(s, k, used)
  BY FinishEffect DEF IInv
<1>2. sealed[s][k] \in Seq(Nat) /\ L \in Nat /\ tid_alloc_size[s][k] \in Nat
  BY <1>1 DEF TypeOK
<1> HIDE DEF used
<1>3. CASE 10 * used > REALLOC_THRESHOLD * alloc_size
  <2>1. /\ sealed'[s][k] = Append(sealed[s][k], used)
        /\ tid_alloc_size'[s][k] = 0
        /\ \A j \in Tid : j # k =>
             sealed'[s][j] = sealed[s][j] /\ tid_alloc_size'[s][j] = tid_alloc_size[s][j]
        /\ \A t \in Side : t # s =>
             sealed'[t] = sealed[t] /\ tid_alloc_size'[t] = tid_alloc_size[t]
    BY <1>1, <1>3 DEF TypeOK, Reallocate
  <2>2. /\ Len(sealed'[s][k]) = L + 1 /\ sealed'[s][k][L + 1] = used
        /\ \A b \in Nat : b < L => sealed'[s][k][b + 1] = sealed[s][k][b + 1]
    BY <1>1, <1>2, <2>1
  <2> HIDE DEF L
  <2>3. \A b \in Nat : b < L => Used(s, k, b)' = Used(s, k, b)
    BY <1>2, <2>2 DEF Used, L
  <2>4. \A b \in Nat : b = L =>
          Used(s, k, b) = tid_alloc_size[s][k] /\ Used(s, k, b)' = used
    BY <1>2, <2>2 DEF Used, L
  <2>5. \A j \in Tid, b \in Nat : j # k => Used(s, j, b)' = Used(s, j, b)
    BY <2>1 DEF Used
  <2> QED
    BY <1>2, <2>1, <2>2, <2>3, <2>4, <2>5 DEF L, used
<1>4. CASE ~(10 * used > REALLOC_THRESHOLD * alloc_size)
  <2>1. /\ sealed' = sealed
        /\ tid_alloc_size'[s][k] = used
        /\ \A j \in Tid : j # k => tid_alloc_size'[s][j] = tid_alloc_size[s][j]
        /\ \A t \in Side : t # s => tid_alloc_size'[t] = tid_alloc_size[t]
    BY <1>1, <1>4 DEF TypeOK, Reallocate
  <2> QED
    BY <1>2, <2>1 DEF Used, L, used
<1> QED
  BY <1>3, <1>4

\* The row that was being packed lies behind the rows packed before into the same
\* buffer and within what has been used of it.
LEMMA PackKeepsLayout ==
  ASSUME IInv, NEW s \in Sides, NEW k \in Tid, NEW i \in Row, Kept(i), Finish(s, k, i),
         UNCHANGED <<to, from, numThreads>>,
         <<k, i>> \in Packing(s), Packing(s)' = Packing(s) \ {<<k, i>>},
         i \notin Packed(s), Packed(s)' = Packed(s) \cup {i}
  PROVE  Layout(s)'
<1> DEFINE L == Len(sealed[s][k])
           used == tid_alloc_size[s][k] + Size(s, i)
<1>1. /\ s \in Side /\ used \in Nat /\ Size(s, i) \in Nat /\ Layout(s) /\ TypeOK
      /\ UNCHANGED <<input, arrays>>
  BY FinishEffect, SelectedNodes, LoopState DEF IInv, Sides, Side
<1>2. /\ L \in Nat /\ Len(sealed'[s][k]) >= L
      /\ \A j \in Tid : j # k =>
           sealed'[s][j] = sealed[s][j] /\ tid_alloc_size'[s][j] = tid_alloc_size[s][j]
      /\ \A b \in Nat : b < L => Used(s, k, b)' = Used(s, k, b)
      /\ \A b \in Nat : b = L =>
           Used(s, k, b) = tid_alloc_size[s][k] /\ Used(s, k, b)' = used
      /\ \A j \in Tid, b \in Nat : j # k => Used(s, j, b)' = Used(s, j, b)
  BY UsedEffect
<1>3. /\ ArrayOf(s, i) = [tid |-> k, buf |-> L, at |-> tid_alloc_size[s][k]]
      /\ Start(s, i) = tid_alloc_size[s][k] /\ End(s, i) = used
  <2>1. ArrayOf(s, <<k, i>>[2]) =
          [tid |-> <<k, i>>[1], buf |-> Len(sealed[s][<<k, i>>[1]]),
           at |-> tid_alloc_size[s][<<k, i>>[1]]]
    BY <1>1 DEF Layout
  <2>2. ArrayOf(s, i) = [tid |-> k, buf |-> L, at |-> tid_alloc_size[s][k]]
    BY <2>1
  <2> QED
    BY <2>2 DEF Start, End
<1>4. \A h : ArrayOf(s, h)' = ArrayOf(s, h)
  BY <1>1, Fixed DEF ArrayOf
<1>5. \A h : Start(s, h)' = Start(s, h) /\ End(s, h)' = End(s, h)
  BY <1>1, <1>4, Fixed DEF Start, End
<1>6. \A h \in Packed(s) : /\ h \in Row /\ Kept(h) /\ h # i
                           /\ ArrayOf(s, h).tid \in Tid /\ ArrayOf(s, h).buf \in Nat
                           /\ Start(s, h) \in Nat /\ End(s, h) \in Nat
  <2> SUFFICES ASSUME NEW h \in Packed(s)
               PROVE  /\ h \in Row /\ Kept(h) /\ h # i
                      /\ ArrayOf(s, h).tid \in Tid /\ ArrayOf(s, h).buf \in Nat
                      /\ Start(s, h) \in Nat /\ End(s, h) \in Nat
    OBVIOUS
  <2>1. h \in Row /\ Kept(h) /\ h # i
    BY DEF Packed
  <2>2. old2newids(h) \in Row
    BY <2>1, LoopState, NewIds
  <2>3. ArrayOf(s, h) # NoRow
    BY <1>1, <2>1 DEF Layout
  <2>4. ArrayOf(s, h) \in [tid : Tid, buf : Nat, at : Nat]
    BY <1>1, <2>2, <2>3 DEF TypeOK, ArrayOf
  <2>5. Size(s, h) \in Nat
    BY <1>1, <2>1, SelectedNodes, LoopState DEF IInv
  <2> QED
    BY <2>1, <2>4, <2>5 DEF Start, End
<1> HIDE DEF used
<1>7. \A h \in Row : Kept(h) =>
        (ArrayOf(s, h)' # NoRow <=> h \in Packed(s)' \/ \E r \in Packing(s)' : r[2] = h)
  <2> SUFFICES ASSUME NEW h \in Row, Kept(h)
               PROVE  ArrayOf(s, h) # NoRow
                        <=> h \in Packed(s)' \/ \E r \in Packing(s)' : r[2] = h
    BY <1>4
  <2>1. ArrayOf(s, h) # NoRow <=> h \in Packed(s) \/ \E r \in Packing(s) : r[2] = h
    BY <1>1 DEF Layout
  <2>2. CASE h = i
    <3>1. <<k, i>>[2] = i
      OBVIOUS
    <3> QED
      BY <2>1, <2>2, <3>1
  <2>3. CASE h # i
    <3>1. (\E r \in Packing(s)' : r[2] = h) <=> (\E r \in Packing(s) : r[2] = h)
      BY <2>3
    <3> QED
      BY <2>1, <2>3, <3>1
  <2> QED
    BY <2>2, <2>3
<1>8. \A r \in Packing(s)' : ArrayOf(s, r[2])' =
        [tid |-> r[1], buf |-> Len(sealed'[s][r[1]]), at |-> tid_alloc_size'[s][r[1]]]
  <2> SUFFICES ASSUME NEW r \in Packing(s), r # <<k, i>>
               PROVE  ArrayOf(s, r[2]) =
                 [tid |-> r[1], buf |-> Len(sealed'[s][r[1]]), at |-> tid_alloc_size'[s][r[1]]]
    BY <1>4
  <2>1. r[1] # k /\ r[1] \in Tid
    <3>1. r \in running /\ <<k, i>> \in running /\ <<k, i>>[1] = k
      BY DEF Packing
    <3> QED
      BY <3>1, LoopState
  <2> QED
    BY <1>1, <1>2, <2>1 DEF Layout
<1>9. \A h \in Packed(s)' :
        /\ ArrayOf(s, h)'.buf <= Len(sealed'[s][ArrayOf(s, h)'.tid])
        /\ End(s, h)' <= Used(s, ArrayOf(s, h).tid, ArrayOf(s, h).buf)'
  <2> SUFFICES ASSUME NEW h \in Packed(s)'
               PROVE  /\ ArrayOf(s, h).buf <= Len(sealed'[s][ArrayOf(s, h).tid])
                      /\ \E t \in Tid, b \in Nat :
                           /\ t = ArrayOf(s, h).tid /\ b = ArrayOf(s, h).buf
                           /\ End(s, h) <= Used(s, t, b)'
    BY <1>4, <1>5 DEF Used
  <2>1. CASE h = i
    <3>1. End(s, i) <= Used(s, k, ArrayOf(s, i).buf)'
      BY <1>2, <1>3, <1>4, <1>1 DEF Used
    <3> QED
      BY <1>2, <1>3, <2>1, <1>1
  <2>2. CASE h \in Packed(s)
    <3> DEFINE t == ArrayOf(s, h).tid
               b == ArrayOf(s, h).buf
    <3>1. t \in Tid /\ b \in Nat /\ End(s, h) \in Nat
      BY <1>6, <2>2
    <3>2. b <= Len(sealed[s][t]) /\ End(s, h) <= Used(s, t, b)
      BY <1>1, <2>2 DEF Layout
    <3> QED
      <4>1. PICK tt \in Tid, bb \in Nat : tt = t /\ bb = b
        BY <3>1
      <4> HIDE DEF t, b
      <4>2. bb <= Len(sealed[s][tt]) /\ End(s, h) <= Used(s, tt, bb)
        BY <3>2, <4>1
      <4>3. CASE tt # k
        BY <1>2, <4>1, <4>2, <4>3 DEF t, b
      <4>4. CASE tt = k /\ bb < L
        BY <1>2, <4>1, <4>2, <4>4 DEF t, b
      <4>5. CASE tt = k /\ bb = L
        <5>1. End(s, h) <= tid_alloc_size[s][k] /\ tid_alloc_size[s][k] <= used
          BY <1>1, <1>2, <3>1, <4>2, <4>5, SMTT(30) DEF used, TypeOK
        <5> QED
          BY <1>1, <1>2, <3>1, <4>1, <4>2, <4>5, <5>1 DEF t, b, TypeOK
      <4> QED
        BY <1>2, <4>2, <4>3, <4>4, <4>5
  <2> QED
    BY <2>1, <2>2
<1>10. \A h, g \in Packed(s)' : h # g /\ SameBuffer(s, h, g)' =>
         End(s, h)' <= Start(s, g)' \/ End(s, g)' <= Start(s, h)'
  <2>1. ASSUME NEW h \in Packed(s), SameBuffer(s, h, i) PROVE End(s, h) <= Start(s, i)
    <3>1. ArrayOf(s, h).tid = k /\ ArrayOf(s, h).buf = L
      BY <1>3, <2>1 DEF SameBuffer
    <3>2. End(s, h) <= Used(s, ArrayOf(s, h).tid, ArrayOf(s, h).buf)
      BY <1>1 DEF Layout
    <3> QED
      BY <1>2, <1>3, <3>1, <3>2
  <2>2. \A h, g : SameBuffer(s, h, g)' = SameBuffer(s, h, g)
                  /\ SameBuffer(s, h, g) = SameBuffer(s, g, h)
    BY <1>4 DEF SameBuffer
  <2>3. \A h, g \in Packed(s) : h # g /\ SameBuffer(s, h, g) =>
          End(s, h) <= Start(s, g) \/ End(s, g) <= Start(s, h)
    BY <1>1 DEF Layout
  <2> QED
    BY <1>5, <2>1, <2>2, <2>3
<1> QED
  BY <1>1, <1>4, <1>7, <1>8, <1>9, <1>10, Fixed DEF Layout

\* The row gets the length and the elements of what was selected.
LEMMA PackKeepsData ==
  ASSUME IInv, NEW s \in Sides, NEW k \in Tid, NEW i \in Row, Kept(i), Finish(s, k, i),
         UNCHANGED <<to, from, numThreads>>,
         i \notin Packed(s), Packed(s)' = Packed(s) \cup {i}
  PROVE  Data(s)'
<1>1. /\ s \in Side /\ Data(s) /\ TypeOK /\ UNCHANGED input /\ old2newids(i) \in Row
      /\ Selected(s, i) \subseteq Row /\ to \in Nat
  BY FinishEffect, SelectedNodes, LoopState DEF IInv, Sides, Side
<1>2. /\ lengths' = [lengths EXCEPT ![s][old2newids(i)] = Cardinality(Selected(s, i))]
      /\ contents' = [contents EXCEPT ![s][old2newids(i)] =
                        {old2newids(j) : j \in Selected(s, i)}]
      /\ edge_attributes' = [edge_attributes EXCEPT ![s][old2newids(i)] =
           IF input.attributed THEN @ \cup Selected(s, i) ELSE @]
  BY FinishEffect
<1>3. /\ edge_attributes[s][old2newids(i)] = {}
  BY <1>1 DEF Data
<1>4. /\ lengths'[s][old2newids(i)] = Cardinality(Selected(s, i))
      /\ contents'[s][old2newids(i)] = {old2newids(j) : j \in Selected(s, i)}
      /\ edge_attributes'[s][old2newids(i)] =
           IF input.attributed THEN Selected(s, i) ELSE {}
  BY <1>1, <1>2, <1>3 DEF TypeOK
<1>5. ASSUME NEW h \in Row, Kept(h), h # i
      PROVE  /\ lengths'[s][old2newids(h)] = lengths[s][old2newids(h)]
             /\ contents'[s][old2newids(h)] = contents[s][old2newids(h)]
             /\ edge_attributes'[s][old2newids(h)] = edge_attributes[s][old2newids(h)]
  <2>1. old2newids(h) \in Row /\ old2newids(h) # old2newids(i)
    BY <1>1, <1>5, NewIds
  <2> QED
    BY <1>1, <1>2, <2>1 DEF TypeOK
<1>6. \A h : {old2newids(j) : j \in Selected(s, h)}' = {old2newids(j) : j \in Selected(s, h)}
  BY <1>1, Fixed
<1> SUFFICES ASSUME NEW h \in Row, Kept(h)
             PROVE  IF h \in Packed(s)'
                    THEN /\ lengths'[s][old2newids(h)] = Cardinality(Selected(s, h))
                         /\ contents'[s][old2newids(h)] = {old2newids(j) : j \in Selected(s, h)}
                         /\ edge_attributes'[s][old2newids(h)] =
                              IF input.attributed THEN Selected(s, h) ELSE {}
                    ELSE /\ lengths'[s][old2newids(h)] = 0
                         /\ contents'[s][old2newids(h)] = {}
                         /\ edge_attributes'[s][old2newids(h)] = {}
  BY <1>1, <1>6, Fixed DEF Data
<1>7. CASE h = i
  BY <1>4, <1>7
<1>8. CASE h # i
  <2>1. h \in Packed(s)' <=> h \in Packed(s)
    BY <1>8
  <2>2. IF h \in Packed(s)
        THEN /\ lengths[s][old2newids(h)] = Cardinality(Selected(s, h))
             /\ contents[s][old2newids(h)] = {old2newids(j) : j \in Selected(s, h)}
             /\ edge_attributes[s][old2newids(h)] =
                  IF input.attributed THEN Selected(s, h) ELSE {}
        ELSE /\ lengths[s][old2newids(h)] = 0 /\ contents[s][old2newids(h)] = {}
             /\ edge_attributes[s][old2newids(h)] = {}
    BY <1>1 DEF Data
  <2> QED
    BY <1>5, <1>8, <2>1, <2>2
<1> QED
  BY <1>7, <1>8

\* A buffer that goes on being used is not full.
LEMMA PackKeepsReserve ==
  ASSUME IInv, NEW s \in Sides, NEW k \in Tid, NEW i \in Row, Kept(i), Finish(s, k, i),
         UNCHANGED <<to, from, numThreads>>
  PROVE  Reserve'
<1> DEFINE used == tid_alloc_size[s][k] + Size(s, i)
<1>1. /\ s \in Side /\ used \in Nat /\ Reallocate(s, k, used) /\ UNCHANGED input
      /\ Reserve /\ TypeOK
  BY FinishEffect DEF IInv
<1>2. alloc_size' = alloc_size /\ REALLOC_THRESHOLD * alloc_size \in Nat
  BY <1>1, Fixed, LoopState, Threshold
<1> HIDE DEF used
<1>3. /\ \/ tid_alloc_size'[s][k] = 0
         \/ tid_alloc_size'[s][k] = used /\ ~(10 * used > REALLOC_THRESHOLD * alloc_size)
      /\ \A h \in Tid : h # k => tid_alloc_size'[s][h] = tid_alloc_size[s][h]
      /\ \A t \in Side : t # s => tid_alloc_size'[t] = tid_alloc_size[t]
  <2>1. tid_alloc_size'[s][k] = IF 10 * used > REALLOC_THRESHOLD * alloc_size THEN 0 ELSE used
    BY <1>1 DEF Reallocate, TypeOK
  <2> QED
    BY <2>1, UsedEffect
<1>4. ASSUME NEW t \in Side, NEW h \in Tid
      PROVE  10 * tid_alloc_size'[t][h] <= REALLOC_THRESHOLD * alloc_size
  <2>1. 10 * tid_alloc_size[t][h] <= REALLOC_THRESHOLD * alloc_size
    BY <1>1 DEF Reserve
  <2>2. CASE t = s /\ h = k
    BY <1>1, <1>2, <1>3, <2>2
  <2>3. CASE ~(t = s /\ h = k)
    BY <1>3, <2>1, <2>3
  <2> QED
    BY <2>2, <2>3
<1> QED
  BY <1>2, <1>4 DEF Reserve

\* The threads not yet torn down are finitely many of the threads.
LEMMA WaitingThreads ==
  ASSUME IInv
  PROVE  /\ IsFiniteSet(Waiting) /\ Waiting \subseteq Tid
         /\ released \in Nat /\ numThreads \in Nat
<1>1. /\ released \in Int /\ numThreads - 1 \in Int /\ released >= 0
      /\ numThreads <= MaxThreads /\ MaxThreads \in Nat /\ Tid = 0 .. MaxThreads - 1
      /\ released \in Nat /\ numThreads \in Nat
  BY LoopState
<1>2. IsFiniteSet(released .. numThreads - 1)
  BY <1>1, FS_Interval
<1>3. released .. numThreads - 1 \subseteq Tid
  BY <1>1
<1> QED
  BY <1>1, <1>2, <1>3 DEF Waiting

\* A row adds its length to what its thread will add to the totals.
LEMMA PackKeepsTotals ==
  ASSUME IInv, NEW s \in Sides, NEW k \in Waiting, NEW i \in Row, Kept(i), Finish(s, k, i),
         k < prepared, i \notin Packed(s),
         UNCHANGED <<to, from, numThreads, prepared, released>>
  PROVE  Totals'
<1> DEFINE n == Cardinality(Selected(s, i))
           r == old2newids(i)
<1>1. /\ s \in Side /\ n \in 0 .. MaxRows /\ n \in Nat /\ r \in Row
      /\ Size(s, i) = 4 * n /\ Size(s, i) \in Nat
      /\ indices' = [indices EXCEPT ![s][k] = @ + Size(s, i)]
      /\ lengths' = [lengths EXCEPT ![s][r] = n]
      /\ cardinalities' = [cardinalities EXCEPT ![k] = @ + n]
      /\ UNCHANGED <<new_cardinality, total_bytes_used>>
      /\ TypeOK /\ Totals /\ Data(s) /\ k \in Tid
  <2>1. k \in Tid
    BY LoopState DEF Waiting
  <2>2. Size(s, i) \in Nat
    BY <2>1, FinishEffect
  <2> QED
    BY <2>1, <2>2, FinishEffect DEF IInv
<1> HIDE DEF n, r
<1>2. IsFiniteSet(Row) /\ IsFiniteSet(Waiting) /\ Waiting \subseteq Tid /\ Waiting' = Waiting
  BY WaitingThreads, RowsFinite DEF Waiting
<1>3. lengths[s][r] = 0
  BY <1>1 DEF Data, r
<1>4. /\ SumFunctionOnSet(lengths'[s], Row) = SumFunctionOnSet(lengths[s], Row) + n
      /\ \A t \in Side : t # s => lengths'[t] = lengths[t]
  <2>1. \A x \in Row : lengths[s][x] \in Nat /\ lengths'[s][x] \in Nat
    BY <1>1, BuildAssumption DEF TypeOK
  <2>2. lengths'[s][r] = n /\ \A x \in Row \ {r} : lengths'[s][x] = lengths[s][x]
    BY <1>1 DEF TypeOK
  <2>3. SumFunctionOnSet(lengths'[s], Row)
          = SumFunctionOnSet(lengths[s], Row) + lengths'[s][r] - lengths[s][r]
    <3>1. PICK f, h : f = lengths[s] /\ h = lengths'[s]
      OBVIOUS
    <3>2. SumFunctionOnSet(h, Row) = SumFunctionOnSet(f, Row) + h[r] - f[r]
      <4>1. \A x \in Row : f[x] \in Nat /\ h[x] \in Nat
        BY <2>1, <3>1
      <4>2. \A x \in Row \ {r} : h[x] = f[x]
        BY <2>2, <3>1
      <4> QED
        BY <1>1, <1>2, <4>1, <4>2, SumChange
    <3> QED
      BY <3>1, <3>2
  <2>4. SumFunctionOnSet(lengths[s], Row) \in Nat
    BY <1>2, <2>1, SumType
  <2>5. \A t \in Side : t # s => lengths'[t] = lengths[t]
    BY <1>1 DEF TypeOK
  <2> QED
    BY <1>1, <1>3, <2>2, <2>3, <2>4, <2>5
<1>5. SumFunctionOnSet(cardinalities', Waiting)
        = SumFunctionOnSet(cardinalities, Waiting) + n
  <2>1. \A x \in Waiting : cardinalities[x] \in Nat /\ cardinalities'[x] \in Nat
    BY <1>1, <1>2 DEF TypeOK
  <2>2. cardinalities'[k] = cardinalities[k] + n
        /\ \A x \in Waiting \ {k} : cardinalities'[x] = cardinalities[x]
    BY <1>1, <1>2 DEF TypeOK
  <2>3. SumFunctionOnSet(cardinalities', Waiting)
          = SumFunctionOnSet(cardinalities, Waiting) + cardinalities'[k] - cardinalities[k]
    BY <1>2, <2>1, <2>2, SumChange
  <2>4. SumFunctionOnSet(cardinalities, Waiting) \in Nat
    BY <1>2, <2>1, SumType
  <2> QED
    BY <1>1, <2>1, <2>2, <2>3, <2>4
<1>6. /\ SumFunctionOnSet(indices'[s], Waiting)
           = SumFunctionOnSet(indices[s], Waiting) + 4 * n
      /\ \A t \in Side : t # s => indices'[t] = indices[t]
  <2>1. \A x \in Waiting : indices[s][x] \in Nat /\ indices'[s][x] \in Nat
    BY <1>1, <1>2 DEF TypeOK
  <2>2. indices'[s][k] = indices[s][k] + 4 * n
        /\ \A x \in Waiting \ {k} : indices'[s][x] = indices[s][x]
    BY <1>1, <1>2 DEF TypeOK
  <2>3. SumFunctionOnSet(indices'[s], Waiting)
          = SumFunctionOnSet(indices[s], Waiting) + indices'[s][k] - indices[s][k]
    <3>1. PICK f, h : f = indices[s] /\ h = indices'[s]
      OBVIOUS
    <3>2. SumFunctionOnSet(h, Waiting) = SumFunctionOnSet(f, Waiting) + h[k] - f[k]
      <4>1. \A x \in Waiting : f[x] \in Nat /\ h[x] \in Nat
        BY <2>1, <3>1
      <4>2. \A x \in Waiting \ {k} : h[x] = f[x]
        BY <2>2, <3>1
      <4> QED
        BY <1>2, <4>1, <4>2, SumChange
    <3> QED
      BY <3>1, <3>2
  <2>4. SumFunctionOnSet(indices[s], Waiting) \in Nat
    BY <1>2, <2>1, SumType
  <2> QED
    BY <1>1, <2>1, <2>2, <2>3, <2>4 DEF TypeOK
<1>7. /\ \A t \in Side : SumFunctionOnSet(lengths[t], Row) \in Nat
      /\ \A t \in Side : SumFunctionOnSet(indices[t], Waiting) \in Nat
      /\ SumFunctionOnSet(cardinalities, Waiting) \in Nat
      /\ new_cardinality \in Nat /\ total_bytes_used \in [Side -> Nat]
  <2>1. \A t \in Side : \A x \in Row : lengths[t][x] \in Nat
    BY <1>1, BuildAssumption DEF TypeOK
  <2>2. \A t \in Side : \A x \in Waiting : indices[t][x] \in Nat /\ cardinalities[x] \in Nat
    BY <1>1, <1>2 DEF TypeOK
  <2>3. "row" \in Side
    BY DEF Side
  <2> QED
    BY <1>1, <1>2, <2>1, <2>2, <2>3, SumType DEF TypeOK
<1>8. new_cardinality' + SumFunctionOnSet(cardinalities', Waiting)
        = SumFunctionOnSet(lengths'["row"], Row) + SumFunctionOnSet(lengths'["column"], Row)
  <2>1. new_cardinality + SumFunctionOnSet(cardinalities, Waiting)
          = SumFunctionOnSet(lengths["row"], Row) + SumFunctionOnSet(lengths["column"], Row)
    BY <1>1 DEF Totals
  <2>2. s = "row" \/ s = "column"
    BY <1>1 DEF Side
  <2> QED
    BY <1>1, <1>4, <1>5, <1>7, <2>1, <2>2 DEF Side
<1>9. ASSUME NEW t \in Side
      PROVE  total_bytes_used'[t] + SumFunctionOnSet(indices'[t], Waiting)
               = sizeof_uint32 * SumFunctionOnSet(lengths'[t], Row)
  <2>1. total_bytes_used[t] + SumFunctionOnSet(indices[t], Waiting)
          = 4 * SumFunctionOnSet(lengths[t], Row)
    BY <1>1 DEF Totals, sizeof_uint32
  <2>2. CASE t = s
    BY <1>1, <1>4, <1>6, <1>7, <2>1, <2>2 DEF sizeof_uint32
  <2>3. CASE t # s
    BY <1>1, <1>4, <1>6, <2>1, <2>3 DEF sizeof_uint32
  <2> QED
    BY <2>2, <2>3
<1>10. \A h \in Tid : h >= prepared =>
         cardinalities'[h] = 0 /\ \A t \in Side : indices'[t][h] = 0 /\ tid_alloc_size'[t][h] = 0
  <2>1. ASSUME NEW h \in Tid, h >= prepared
        PROVE  h # k /\ cardinalities'[h] = cardinalities[h]
               /\ \A t \in Side : indices'[t][h] = indices[t][h]
                                  /\ tid_alloc_size'[t][h] = tid_alloc_size[t][h]
    <3>1. h # k
      BY <2>1, LoopState DEF Waiting
    <3>2. \A t \in Side : tid_alloc_size'[t][h] = tid_alloc_size[t][h]
      BY <1>1, <3>1, UsedEffect
    <3> QED
      BY <1>1, <3>1, <3>2 DEF TypeOK
  <2> QED
    BY <1>1, <2>1 DEF Totals
<1> QED
  BY <1>2, <1>8, <1>9, <1>10 DEF Totals
-----------------------------------------------------------------------------
\* Every step is a step of the loop, or leaves its state alone.
LEMMA LoopKept == IInv /\ [Next]_vars => LoopFacts!LoopInv'
<1> SUFFICES ASSUME IInv, [Next]_vars PROVE LoopFacts!LoopInv'
  OBVIOUS
<1>1. [LoopFacts!Next]_(LoopFacts!vars)
  <2> USE DEF LoopFacts!Next, LoopFacts!SetUp, LoopFacts!Take, LoopFacts!Begin, LoopFacts!End,
              LoopFacts!TearDown, LoopFacts!Tid, LoopFacts!Index, LoopFacts!Idle, LoopFacts!args,
              LoopFacts!vars, Loop!args, loopVars, Tid, Row
  <2>1. CASE SetUp
    BY <2>1 DEF SetUp, Loop!SetUp
  <2>2. ASSUME NEW k \in Tid, NEW i \in Row, Take(k, i) PROVE LoopFacts!Take(k, i)
    BY <2>2 DEF Take, Loop!Take, Loop!Idle
  <2>3. ASSUME NEW k \in Tid, NEW i \in Row, Loop!Begin(k, i) PROVE LoopFacts!Begin(k, i)
    BY <2>3 DEF Loop!Begin
  <2>4. ASSUME NEW k \in Tid, NEW i \in Row, Loop!End(k, i) PROVE LoopFacts!End(k, i)
    BY <2>4 DEF Loop!End
  <2>5. CASE TearDown
    BY <2>5 DEF TearDown, Loop!TearDown
  <2>6. CASE UNCHANGED vars
    BY <2>6 DEF vars
  <2>7. ASSUME NEW k \in Tid, NEW i \in Row, Body(k, i)
        PROVE  Loop!Begin(k, i) \/ Loop!End(k, i) \/ UNCHANGED loopVars
    BY <2>7 DEF Body, BeginRow, EndRow, BeginColumn, EndColumn, BeginSkipped, EndSkipped
  <2>8. ASSUME NEW k \in Tid, NEW i \in Row, Take(k, i) \/ Body(k, i)
        PROVE  [LoopFacts!Next]_(LoopFacts!vars)
    BY <2>2, <2>3, <2>4, <2>7, <2>8
  <2> QED
    BY <2>1, <2>5, <2>6, <2>8 DEF Next, Terminated
<1> QED
  BY <1>1, LoopBounds, LoopFacts!LoopStep DEF IInv

\* While a body runs, every thread has been set up and none has been torn down.
LEMMA BodyState ==
  ASSUME IInv, NEW k, NEW i, <<k, i>> \in running
  PROVE  /\ k \in Tid /\ i \in Row /\ i \notin completed /\ i < to
         /\ released = 0 /\ prepared = numThreads /\ k \in Waiting /\ k < prepared
         /\ \A r \in running : r[1] = k \/ r[2] = i => r = <<k, i>>
         /\ Kept(i) <=> stage[k] # "skipped"
         /\ stage[k] \in {"between", "column"} => ~input.symmetric
         /\ k \in live
<1> DEFINE r == <<k, i>>
<1>1. r \in running /\ r[1] = k /\ r[2] = i
  OBVIOUS
<1> HIDE DEF r
<1>2. /\ k \in Tid /\ i \in Row /\ i \notin completed /\ i < to
      /\ \A q \in running : q[1] = k \/ q[2] = i => q = <<k, i>>
  <2>1. r \in Tid \X Row /\ r[2] \notin completed /\ r[2] < to
    BY <1>1, LoopState
  <2>2. \A q \in running : q[1] = r[1] \/ q[2] = r[2] => q = r
    BY <1>1, LoopState
  <2> QED
    BY <1>1, <2>1, <2>2 DEF r
<1>3. released = 0
  BY <1>1, LoopBounds, LoopFacts!NothingAfterTearDown, LoopState DEF IInv
<1>4. k < workers /\ workers <= numThreads
  BY <1>1, LoopState DEF IInv, LoopFacts!LoopInv, LoopFacts!Brackets, LoopFacts!LoopTypes
<1>5. prepared = numThreads
  <2>1. prepared < numThreads => running = {}
    <3>1. prepared < numThreads => unclaimed = from /\ from = 0
      BY LoopState DEF IInv, LoopFacts!LoopInv, LoopFacts!Brackets
    <3>2. running \subseteq LoopFacts!Tid \X (from .. unclaimed - 1)
      BY DEF IInv, LoopFacts!LoopInv, LoopFacts!LoopTypes, LoopFacts!Claimed
    <3>3. 0 .. 0 - 1 = {}
      OBVIOUS
    <3> QED
      BY <3>1, <3>2, <3>3
  <2> QED
    BY <1>1, <2>1, LoopState
<1>6. k \in Waiting /\ k < prepared
  <2>1. k \in Nat /\ workers \in Int
    BY <1>2, LoopState DEF IInv, LoopFacts!LoopInv, LoopFacts!LoopTypes
  <2> QED
    BY <1>3, <1>4, <1>5, <2>1, LoopState DEF Waiting
<1>7. /\ Kept(i) <=> stage[k] # "skipped"
      /\ stage[k] \in {"between", "column"} => ~input.symmetric
      /\ live = {h \in Tid : released <= h /\ h < prepared}
  BY <1>1 DEF IInv, Stages
<1> QED
  BY <1>2, <1>3, <1>5, <1>6, <1>7 DEF Waiting

\* A body that begins is the only one of its thread and of its node.
LEMMA BeginState ==
  ASSUME IInv, NEW k \in Tid, NEW i \in Row, Loop!Begin(k, i)
  PROVE  /\ i \notin completed /\ i < to
         /\ \A r \in running : r[1] # k /\ r[2] # i
         /\ running' = running \cup {<<k, i>>}
         /\ UNCHANGED <<numThreads, from, to, workers, prepared, unclaimed, completed,
                        released>>
<1> USE DEF Loop!Begin, Loop!args
<1>1. i \in pending[k] /\ k \in LoopFacts!Tid
  BY DEF LoopFacts!Tid, Tid
<1>2. i \notin completed /\ \A r \in running : r[1] # k /\ r[2] # i
  BY <1>1 DEF IInv, LoopFacts!LoopInv, LoopFacts!OnePlace
<1>3. i < to
  <2>1. pending[k] \subseteq from .. unclaimed - 1 /\ from = 0
    BY <1>1 DEF IInv, InputOK, LoopFacts!LoopInv, LoopFacts!LoopTypes, LoopFacts!Claimed
  <2>2. unclaimed \in from .. to /\ to \in Nat
    BY LoopState DEF IInv, LoopFacts!LoopInv, LoopFacts!LoopTypes
  <2> QED
    BY <1>1, <2>1, <2>2
<1> QED
  BY <1>2, <1>3
-----------------------------------------------------------------------------
\* A thread moves to another stage of its body; the others stay where they are.
LEMMA StageMove ==
  ASSUME IInv, NEW k \in Tid, NEW a, NEW b, Goto(k, a, b)
  PROVE  stage[k] = a /\ stage'[k] = b /\ \A h \in Tid : h # k => stage'[h] = stage[h]
BY DEF IInv, TypeOK, Goto

\* What each step of a body does to the rows being packed and the rows packed.
LEMMA BeginRowEffect ==
  ASSUME IInv, NEW k \in Tid, NEW i \in Row, BeginRow(k, i)
  PROVE  /\ Stages' /\ UNCHANGED <<input, to, from, numThreads, prepared, released>>
         /\ Packing("row")' = Packing("row") \cup {<<k, i>>}
         /\ Packing("column")' = Packing("column")
         /\ \A s \in Side : Packed(s)' = Packed(s)
         /\ i \notin Packed("row") /\ \A r \in Packing("row") : r[2] # i
<1>1. /\ i \notin completed /\ \A r \in running : r[1] # k /\ r[2] # i
      /\ running' = running \cup {<<k, i>>} /\ Kept(i)
      /\ UNCHANGED <<input, to, from, numThreads, prepared, released, completed, live>>
  BY BeginState DEF BeginRow, Place, bufferVars
<1>2. /\ stage'[k] = "row" /\ \A h \in Tid : h # k => stage'[h] = stage[h]
      /\ <<k, i>>[1] = k /\ <<k, i>>[2] = i
      /\ \A r \in running : r[1] \in Tid /\ r[1] # k /\ stage'[r[1]] = stage[r[1]]
  BY <1>1, LoopState, StageMove DEF BeginRow
<1>3. Stages'
  <2>1. ASSUME NEW h \in Tid PROVE stage'[h] = "idle" <=> \A r \in running' : r[1] # h
    <3>1. CASE h = k
      BY <1>1, <1>2, <3>1
    <3>2. CASE h # k
      BY <1>1, <1>2, <3>2 DEF IInv, Stages
    <3> QED
      BY <3>1, <3>2
  <2>2. \A r \in running' :
          /\ Kept(r[2]) <=> stage'[r[1]] # "skipped"
          /\ stage'[r[1]] \in {"between", "column"} => ~input.symmetric
    BY <1>1, <1>2 DEF IInv, Stages
  <2> QED
    BY <1>1, <2>1, <2>2, Fixed DEF IInv, Stages
<1>4. Packing("row")' = Packing("row") \cup {<<k, i>>} /\ Packing("column")' = Packing("column")
  BY <1>1, <1>2 DEF Packing
<1>5. ASSUME NEW s \in Side PROVE Packed(s)' = Packed(s)
  <2>1. \A h : (\E r \in running' : r[2] = h /\ stage'[r[1]] \in {"between", "column"})
               <=> \E r \in running : r[2] = h /\ stage[r[1]] \in {"between", "column"}
    BY <1>1, <1>2
  <2> QED
    BY <1>1, <2>1, Fixed DEF Packed
<1>6. i \notin Packed("row") /\ \A r \in Packing("row") : r[2] # i
  BY <1>1 DEF Packed, Packing
<1> QED
  BY <1>1, <1>3, <1>4, <1>5, <1>6

LEMMA BeginColumnEffect ==
  ASSUME IInv, NEW k \in Tid, NEW i \in Row, BeginColumn(k, i)
  PROVE  /\ Stages' /\ UNCHANGED <<input, to, from, numThreads, prepared, released>>
         /\ "column" \in Sides /\ Kept(i)
         /\ Packing("row")' = Packing("row")
         /\ Packing("column")' = Packing("column") \cup {<<k, i>>}
         /\ \A s \in Side : Packed(s)' = Packed(s)
         /\ i \notin Packed("column") /\ \A r \in Packing("column") : r[2] # i
<1>1. /\ <<k, i>> \in running /\ stage[k] = "between"
      /\ UNCHANGED <<input, to, from, numThreads, prepared, released, running, completed, live>>
  BY DEF BeginColumn, Goto, Place, bufferVars, loopVars
<1>2. /\ stage'[k] = "column" /\ \A h \in Tid : h # k => stage'[h] = stage[h]
      /\ <<k, i>>[1] = k /\ <<k, i>>[2] = i
      /\ \A r \in running : r[1] \in Tid /\ (r[1] = k \/ r[2] = i => r = <<k, i>>)
  BY <1>1, LoopState, BodyState, StageMove DEF BeginColumn
<1>3. /\ i \notin completed /\ ~input.symmetric /\ Kept(i) /\ "column" \in Sides
  BY <1>1, BodyState DEF Sides, Side
<1>4. Stages'
  <2>1. \A h \in Tid : stage'[h] = "idle" <=> \A r \in running : r[1] # h
    BY <1>1, <1>2 DEF IInv, Stages
  <2>2. \A r \in running :
          /\ Kept(r[2]) <=> stage'[r[1]] # "skipped"
          /\ stage'[r[1]] \in {"between", "column"} => ~input.symmetric
    BY <1>1, <1>2, <1>3 DEF IInv, Stages
  <2> QED
    BY <1>1, <2>1, <2>2, Fixed DEF IInv, Stages
<1>5. /\ Packing("row")' = Packing("row")
      /\ Packing("column")' = Packing("column") \cup {<<k, i>>}
  BY <1>1, <1>2 DEF Packing
<1>6. ASSUME NEW s \in Side PROVE Packed(s)' = Packed(s)
  <2>1. \A r \in running : stage'[r[1]] \in {"between", "column"}
                           <=> stage[r[1]] \in {"between", "column"}
    BY <1>1, <1>2
  <2> QED
    BY <1>1, <2>1, Fixed DEF Packed
<1>7. i \notin Packed("column") /\ \A r \in Packing("column") : r[2] # i
  BY <1>1, <1>2, <1>3 DEF Packed, Packing
<1> QED
  BY <1>1, <1>3, <1>4, <1>5, <1>6, <1>7

\* A row is packed at its end, also when the body goes on with the column.
LEMMA EndRowEffect ==
  ASSUME IInv, NEW k \in Tid, NEW i \in Row, EndRow(k, i)
  PROVE  /\ Stages' /\ UNCHANGED <<input, to, from, numThreads, prepared, released>>
         /\ Kept(i) /\ <<k, i>> \in Packing("row")
         /\ Packing("row")' = Packing("row") \ {<<k, i>>}
         /\ Packing("column")' = Packing("column")
         /\ Packed("row")' = Packed("row") \cup {i} /\ i \notin Packed("row")
         /\ Packed("column")' = Packed("column")
<1>1. /\ <<k, i>> \in running /\ stage[k] = "row"
      /\ UNCHANGED <<input, to, from, numThreads, prepared, released, live>>
  BY DEF EndRow, Goto, Loop!End, Loop!args, loopVars, Finish, Pack
<1>2. /\ \A r \in running : r[1] \in Tid /\ (r[1] = k \/ r[2] = i => r = <<k, i>>)
      /\ i \notin completed /\ Kept(i) /\ <<k, i>>[1] = k /\ <<k, i>>[2] = i
  BY <1>1, LoopState, BodyState
<1>3. <<k, i>> \in Packing("row") /\ i \notin Packed("row")
  BY <1>1, <1>2 DEF Packing, Packed
<1>4. CASE input.symmetric
  <2>1. /\ running' = running \ {<<k, i>>} /\ completed' = completed \cup {i}
    BY <1>4 DEF EndRow, Loop!End
  <2>2. stage'[k] = "idle" /\ \A h \in Tid : h # k => stage'[h] = stage[h]
    BY <1>4, StageMove DEF EndRow
  <2>3. Stages'
    <3>1. \A h \in Tid : stage'[h] = "idle" <=> \A r \in running' : r[1] # h
      BY <1>2, <2>1, <2>2 DEF IInv, Stages
    <3>2. \A r \in running' :
            /\ Kept(r[2]) <=> stage'[r[1]] # "skipped"
            /\ stage'[r[1]] \in {"between", "column"} => ~input.symmetric
      BY <1>2, <2>1, <2>2 DEF IInv, Stages
    <3> QED
      BY <1>1, <3>1, <3>2, Fixed DEF IInv, Stages
  <2>4. /\ Packing("row")' = Packing("row") \ {<<k, i>>}
        /\ Packing("column")' = Packing("column")
    BY <1>1, <1>2, <2>1, <2>2 DEF Packing
  <2>5. \A r \in running : stage[r[1]] \notin {"between", "column"}
    BY <1>4 DEF IInv, Stages
  <2>6. \A r \in running' : stage'[r[1]] \notin {"between", "column"}
    BY <1>2, <2>1, <2>2, <2>5
  <2>7. "row" \in Sides /\ "column" \notin Sides
    BY <1>4 DEF Sides
  <2>8. Packed("row")' = Packed("row") \cup {i} /\ Packed("column")' = Packed("column")
    BY <1>1, <1>2, <2>1, <2>5, <2>6, <2>7, Fixed DEF Packed
  <2> QED
    BY <1>1, <1>2, <1>3, <2>3, <2>4, <2>8
<1>5. CASE ~input.symmetric
  <2>1. UNCHANGED <<running, completed>>
    BY <1>5 DEF EndRow, loopVars
  <2>2. stage'[k] = "between" /\ \A h \in Tid : h # k => stage'[h] = stage[h]
    BY <1>5, StageMove DEF EndRow
  <2>3. Stages'
    <3>1. \A h \in Tid : stage'[h] = "idle" <=> \A r \in running : r[1] # h
      BY <1>1, <1>2, <2>1, <2>2 DEF IInv, Stages
    <3>2. \A r \in running :
            /\ Kept(r[2]) <=> stage'[r[1]] # "skipped"
            /\ stage'[r[1]] \in {"between", "column"} => ~input.symmetric
      BY <1>2, <1>5, <2>1, <2>2 DEF IInv, Stages
    <3> QED
      BY <1>1, <2>1, <3>1, <3>2, Fixed DEF IInv, Stages
  <2>4. /\ Packing("row")' = Packing("row") \ {<<k, i>>}
        /\ Packing("column")' = Packing("column")
    BY <1>1, <1>2, <2>1, <2>2 DEF Packing
  <2>5. \A h : (\E r \in running : r[2] = h /\ stage'[r[1]] \in {"between", "column"})
               <=> \/ h = i
                   \/ \E r \in running : r[2] = h /\ stage[r[1]] \in {"between", "column"}
    <3> SUFFICES ASSUME NEW h
                 PROVE  (\E r \in running : r[2] = h /\ stage'[r[1]] \in {"between", "column"})
                        <=> \/ h = i
                            \/ \E r \in running :
                                 r[2] = h /\ stage[r[1]] \in {"between", "column"}
      OBVIOUS
    <3>1. CASE h = i
      BY <1>1, <1>2, <2>2, <3>1
    <3>2. CASE h # i
      BY <1>1, <1>2, <2>2, <3>2
    <3> QED
      BY <3>1, <3>2
  <2>6. Packed("row")' = Packed("row") \cup {i}
    BY <1>1, <1>2, <2>1, <2>5, Fixed DEF Packed
  <2>7. Packed("column")' = Packed("column")
    BY <1>1, <2>1, Fixed DEF Packed
  <2> QED
    BY <1>1, <1>2, <1>3, <2>3, <2>4, <2>6, <2>7
<1> QED
  BY <1>4, <1>5

LEMMA EndColumnEffect ==
  ASSUME IInv, NEW k \in Tid, NEW i \in Row, EndColumn(k, i)
  PROVE  /\ Stages' /\ UNCHANGED <<input, to, from, numThreads, prepared, released>>
         /\ Kept(i) /\ <<k, i>> \in Packing("column") /\ "column" \in Sides
         /\ Packing("row")' = Packing("row")
         /\ Packing("column")' = Packing("column") \ {<<k, i>>}
         /\ Packed("row")' = Packed("row")
         /\ Packed("column")' = Packed("column") \cup {i} /\ i \notin Packed("column")
<1>1. /\ <<k, i>> \in running /\ stage[k] = "column"
      /\ running' = running \ {<<k, i>>} /\ completed' = completed \cup {i}
      /\ UNCHANGED <<input, to, from, numThreads, prepared, released, live>>
  BY DEF EndColumn, Goto, Loop!End, Loop!args, Finish, Pack
<1>2. /\ \A r \in running : r[1] \in Tid /\ (r[1] = k \/ r[2] = i => r = <<k, i>>)
      /\ i \notin completed /\ Kept(i) /\ <<k, i>>[1] = k /\ <<k, i>>[2] = i
      /\ ~input.symmetric /\ "row" \in Sides /\ "column" \in Sides
  BY <1>1, LoopState, BodyState DEF Sides, Side
<1>3. stage'[k] = "idle" /\ \A h \in Tid : h # k => stage'[h] = stage[h]
  BY StageMove DEF EndColumn
<1>4. <<k, i>> \in Packing("column") /\ i \notin Packed("column")
  BY <1>1, <1>2 DEF Packing, Packed
<1>5. Stages'
  <2>1. \A h \in Tid : stage'[h] = "idle" <=> \A r \in running' : r[1] # h
    BY <1>1, <1>2, <1>3 DEF IInv, Stages
  <2>2. \A r \in running' :
          /\ Kept(r[2]) <=> stage'[r[1]] # "skipped"
          /\ stage'[r[1]] \in {"between", "column"} => ~input.symmetric
    BY <1>1, <1>2, <1>3 DEF IInv, Stages
  <2> QED
    BY <1>1, <2>1, <2>2, Fixed DEF IInv, Stages
<1>6. /\ Packing("row")' = Packing("row")
      /\ Packing("column")' = Packing("column") \ {<<k, i>>}
  BY <1>1, <1>2, <1>3 DEF Packing
<1>7. \A h : (\E r \in running : r[2] = h /\ stage[r[1]] \in {"between", "column"})
             <=> \/ h = i
                 \/ \E r \in running' : r[2] = h /\ stage'[r[1]] \in {"between", "column"}
  <2> SUFFICES ASSUME NEW h
               PROVE  (\E r \in running : r[2] = h /\ stage[r[1]] \in {"between", "column"})
                      <=> \/ h = i
                          \/ \E r \in running' :
                               r[2] = h /\ stage'[r[1]] \in {"between", "column"}
    OBVIOUS
  <2>1. CASE h = i
    BY <1>1, <1>2, <1>3, <2>1
  <2>2. CASE h # i
    BY <1>1, <1>2, <1>3, <2>2
  <2> QED
    BY <2>1, <2>2
<1>8. Packed("row")' = Packed("row")
  BY <1>1, <1>2, <1>7, Fixed DEF Packed
<1>9. Packed("column")' = Packed("column") \cup {i}
  BY <1>1, <1>2, Fixed DEF Packed
<1> QED
  BY <1>1, <1>2, <1>4, <1>5, <1>6, <1>8, <1>9
-----------------------------------------------------------------------------
LEMMA DoneFinite ==
  ASSUME IInv
  PROVE  IsFiniteSet(Done) /\ Cardinality(Done) \in Nat /\ (Done # {} => Cardinality(Done) > 0)
<1>1. IsFiniteSet(Sides)
  <2>1. IsFiniteSet({"row"}) /\ IsFiniteSet({"row"} \cup {"column"})
    BY FS_Singleton, FS_Union
  <2>2. {"row"} \cup {"column"} = {"row", "column"}
    OBVIOUS
  <2> QED
    BY <2>1, <2>2 DEF Sides, Side
<1>2. IsFiniteSet(Sides \X Row)
  BY <1>1, RowsFinite, FS_Product
<1>3. IsFiniteSet(Done)
  BY <1>2, FS_Subset DEF Done
<1> QED
  BY <1>3, FS_CardinalityType, FS_EmptySet

\* The counter is loaded when a row is begun; it may be stored back when others have
\* been packed meanwhile, but it never exceeds their number.
LEMMA PlaceKeepsCounter ==
  ASSUME IInv, NEW s, NEW k \in Tid, NEW i, Place(s, k, i),
         UNCHANGED <<to, from, numThreads>>,
         \A t \in Side : Packed(t)' = Packed(t)
  PROVE  Counter'
<1>1. /\ UNCHANGED <<input, num_uint>> /\ Counter
      /\ counter_read' = [counter_read EXCEPT ![k] = num_uint]
      /\ counter_read \in [Tid -> Nat]
  BY DEF Place, IInv, TypeOK
<1>2. Done' = Done
  BY <1>1, Fixed DEF Done, Sides, Side
<1> QED
  BY <1>1, <1>2 DEF Counter

LEMMA PackKeepsCounter ==
  ASSUME IInv, NEW s \in Sides, NEW k \in Tid, NEW i \in Row, Kept(i), Finish(s, k, i),
         UNCHANGED <<to, from, numThreads>>,
         i \notin Packed(s), Packed(s)' = Packed(s) \cup {i},
         \A t \in Side : t # s => Packed(t)' = Packed(t)
  PROVE  Counter'
<1>1. /\ UNCHANGED <<input, counter_read>> /\ num_uint' = counter_read[k] + 1 /\ Counter
      /\ counter_read \in [Tid -> Nat]
  BY FinishEffect DEF IInv, TypeOK
<1>2. Done' = Done \cup {<<s, i>>} /\ <<s, i>> \notin Done
  <2>1. Sides' = Sides /\ Sides \subseteq Side
    BY <1>1, Fixed DEF Sides, Side
  <2>2. \A d \in Sides \X Row : d[2] \in Packed(d[1])' <=> d[2] \in Packed(d[1]) \/ d = <<s, i>>
    <3> SUFFICES ASSUME NEW d \in Sides \X Row
                 PROVE  d[2] \in Packed(d[1])' <=> d[2] \in Packed(d[1]) \/ d = <<s, i>>
      OBVIOUS
    <3>1. PICK t \in Sides, h \in Row : d = <<t, h>>
      OBVIOUS
    <3>2. CASE t = s
      BY <3>1, <3>2
    <3>3. CASE t # s
      BY <2>1, <3>1, <3>3
    <3> QED
      BY <3>2, <3>3
  <2>3. <<s, i>> \in Sides \X Row /\ <<s, i>>[2] \notin Packed(<<s, i>>[1])
    OBVIOUS
  <2> QED
    BY <2>1, <2>2, <2>3 DEF Done
<1>3. Cardinality(Done') = Cardinality(Done) + 1 /\ Cardinality(Done) \in Nat
  BY <1>2, DoneFinite, FS_AddElement
<1> QED
  BY <1>1, <1>3 DEF Counter
-----------------------------------------------------------------------------
\* The types, step by step.
LEMMA StageType ==
  ASSUME IInv, NEW k \in Tid, NEW a, NEW b \in {"idle", "row", "between", "column", "skipped"},
         Goto(k, a, b)
  PROVE  stage' \in [Tid -> {"idle", "row", "between", "column", "skipped"}]
BY DEF IInv, TypeOK, Goto

LEMMA PlaceKeepsTypes ==
  ASSUME IInv, NEW s \in Side, NEW k \in Tid, NEW i \in Row, Place(s, k, i),
         stage' \in [Tid -> {"idle", "row", "between", "column", "skipped"}],
         new_imap' \in [Row -> Row]
  PROVE  TypeOK'
<1> DEFINE new == [tid |-> k, buf |-> Len(sealed[s][k]), at |-> tid_alloc_size[s][k]]
           Places == [tid : Tid, buf : Nat, at : Nat] \cup {NoRow}
<1>1. /\ TypeOK /\ arrays' = [arrays EXCEPT ![s][old2newids(i)] = new]
      /\ counter_read' = [counter_read EXCEPT ![k] = num_uint]
      /\ UNCHANGED <<live, sealed, tid_alloc_size, indices, cardinalities, lengths, contents,
                     edge_attributes, num_uint, new_cardinality, total_bytes_used>>
  BY DEF IInv, Place, bufferVars, sumVars, resultVars
<1>2. new \in Places
  BY <1>1 DEF TypeOK
<1>3. arrays' \in [Side -> [Row -> Places]]
  <2>1. arrays \in [Side -> [Row -> Places]]
    BY <1>1 DEF TypeOK
  <2> HIDE DEF new, Places
  <2> QED
    BY <1>1, <1>2, <2>1
<1>4. counter_read' \in [Tid -> Nat]
  BY <1>1 DEF TypeOK
<1> QED
  BY <1>1, <1>3, <1>4 DEF TypeOK

LEMMA PackKeepsTypes ==
  ASSUME IInv, NEW s \in Sides, NEW k \in Tid, NEW i \in Row, Kept(i), Finish(s, k, i),
         stage' \in [Tid -> {"idle", "row", "between", "column", "skipped"}]
  PROVE  TypeOK'
<1> DEFINE n == Cardinality(Selected(s, i))
           used == tid_alloc_size[s][k] + Size(s, i)
           r == old2newids(i)
           elements == {old2newids(j) : j \in Selected(s, i)}
<1>1. /\ s \in Side /\ n \in 0 .. MaxRows /\ n \in Nat /\ used \in Nat /\ TypeOK
      /\ Size(s, i) \in Nat /\ r \in Row
      /\ UNCHANGED <<live, arrays, new_imap, counter_read, new_cardinality, total_bytes_used>>
      /\ num_uint' = counter_read[k] + 1
      /\ indices' = [indices EXCEPT ![s][k] = @ + Size(s, i)]
      /\ lengths' = [lengths EXCEPT ![s][r] = n]
      /\ contents' = [contents EXCEPT ![s][r] = elements]
      /\ edge_attributes' = [edge_attributes EXCEPT ![s][r] =
           IF input.attributed THEN @ \cup Selected(s, i) ELSE @]
      /\ cardinalities' = [cardinalities EXCEPT ![k] = @ + n]
      /\ Reallocate(s, k, used)
  BY FinishEffect DEF IInv
<1>2. Selected(s, i) \subseteq Row /\ elements \subseteq Row
  BY <1>1, SelectedNodes, NewIds, LoopState, SMTT(30) DEF IInv
<1> HIDE DEF n, used, r, elements
<1>3. num_uint' \in Nat /\ indices' \in [Side -> [Tid -> Nat]] /\ cardinalities' \in [Tid -> Nat]
  BY <1>1, SMTT(30) DEF TypeOK
<1>4. lengths' \in [Side -> [Row -> 0 .. MaxRows]]
  BY <1>1 DEF TypeOK
<1>5. contents' \in [Side -> [Row -> SUBSET Row]]
  BY <1>1, <1>2 DEF TypeOK
<1>6. edge_attributes' \in [Side -> [Row -> SUBSET Row]]
  BY <1>1, <1>2, SMTT(30) DEF TypeOK
<1>7. tid_alloc_size' \in [Side -> [Tid -> Nat]]
  <2>1. PICK v \in Nat : tid_alloc_size' = [tid_alloc_size EXCEPT ![s][k] = v]
    BY <1>1 DEF Reallocate
  <2> QED
    BY <1>1, <2>1 DEF TypeOK
<1>8. sealed' \in [Side -> [Tid -> Seq(Nat)]]
  <2>1. Append(sealed[s][k], used) \in Seq(Nat) /\ sealed \in [Side -> [Tid -> Seq(Nat)]]
    BY <1>1 DEF TypeOK
  <2>2. CASE sealed' = sealed
    BY <2>1, <2>2
  <2>3. CASE sealed' = [sealed EXCEPT ![s][k] = Append(@, used)]
    <3>1. PICK v \in Seq(Nat) : v = Append(sealed[s][k], used)
      BY <2>1
    <3>2. sealed' = [sealed EXCEPT ![s][k] = v]
      BY <2>3, <3>1
    <3> DEFINE lists == Seq(Nat)
    <3> HIDE DEF lists
    <3>3. sealed \in [Side -> [Tid -> lists]] /\ v \in lists
      BY <2>1 DEF lists
    <3>4. sealed' \in [Side -> [Tid -> lists]]
      BY <1>1, <3>2, <3>3
    <3> QED
      BY <3>4 DEF lists
  <2> QED
    BY <1>1, <2>2, <2>3 DEF Reallocate
<1> QED
  BY <1>1, <1>3, <1>4, <1>5, <1>6, <1>7, <1>8 DEF TypeOK
-----------------------------------------------------------------------------
\* A step that packs nothing keeps what is known of rows, buffers and the counter.
LEMMA QuietKeeps ==
  ASSUME IInv, UNCHANGED <<input, to, from, numThreads>>,
         \A s \in Side : Packing(s)' = Packing(s) /\ Packed(s)' = Packed(s),
         UNCHANGED <<sealed, tid_alloc_size, sumVars, matrixVars, counterVars>>
  PROVE  /\ InputOK' /\ Reserve' /\ Names' /\ Counter'
         /\ \A s \in Side : Layout(s)' /\ Data(s)'
<1> USE DEF sumVars, matrixVars, counterVars
<1>1. \A s \in Side : Layout(s)' /\ Data(s)'
  BY SideFrame DEF IInv
<1>2. InputOK' /\ Reserve'
  BY Fixed DEF IInv, Reserve
<1>3. Names'
  BY Fixed DEF IInv, Names, ArrayOf
<1>4. Done' = Done
  BY Fixed DEF Done, Sides, Side
<1>5. Counter'
  BY <1>4 DEF IInv, Counter
<1> QED
  BY <1>1, <1>2, <1>3, <1>5

\* A step that leaves the loop's bodies and their stages alone packs nothing.
LEMMA SameStages ==
  ASSUME UNCHANGED <<input, to, from, numThreads, running, completed, stage>>
  PROVE  \A s \in Side : Packing(s)' = Packing(s) /\ Packed(s)' = Packed(s)
BY Fixed DEF Packing, Packed

LEMMA StutterKeeps == ASSUME IInv, UNCHANGED vars PROVE IInv'
<1> USE DEF vars
<1>1. UNCHANGED <<input, to, from, numThreads, prepared, released, running, completed, stage, live,
                  sealed, tid_alloc_size, sumVars, matrixVars, counterVars, resultVars>>
  BY DEF loopVars, bufferVars
<1>2. \A s \in Side : Packing(s)' = Packing(s) /\ Packed(s)' = Packed(s)
  BY <1>1, SameStages
<1>3. /\ InputOK' /\ Reserve' /\ Names' /\ Counter'
      /\ \A s \in Side : Layout(s)' /\ Data(s)'
  BY <1>1, <1>2, QuietKeeps
<1>4. TypeOK'
  BY <1>1 DEF IInv, TypeOK, sumVars, matrixVars, counterVars, resultVars
<1>5. Stages'
  BY <1>1, Fixed DEF IInv, Stages
<1>6. Totals'
  BY <1>1 DEF IInv, Totals, Waiting, sumVars, matrixVars, resultVars
<1> QED
  BY <1>3, <1>4, <1>5, <1>6, LoopKept DEF IInv

\* A thread that is set up starts with counters of zero.
LEMMA SetUpKeepsIInv == ASSUME IInv, SetUp PROVE IInv'
<1>1. /\ prepared < numThreads /\ prepared' = prepared + 1
      /\ UNCHANGED <<input, to, from, numThreads, released, running, completed, stage, sealed,
                     matrixVars, counterVars, resultVars>>
      /\ live' = live \cup {prepared}
      /\ prepared \in Tid /\ prepared \in Nat
  BY LoopState DEF SetUp, Loop!SetUp, Loop!args
<1>2. TypeOK /\ \A k \in Tid : k >= prepared =>
        cardinalities[k] = 0 /\ \A s \in Side : indices[s][k] = 0 /\ tid_alloc_size[s][k] = 0
  BY DEF IInv, Totals
<1>3. cardinalities[prepared] = 0
      /\ \A s \in Side : indices[s][prepared] = 0 /\ tid_alloc_size[s][prepared] = 0
  BY <1>1, <1>2
<1>4. UNCHANGED sumVars /\ tid_alloc_size' = tid_alloc_size
  <2>1. cardinalities' = cardinalities
    BY <1>1, <1>2, <1>3 DEF SetUp, TypeOK
  <2>2. indices' = indices
    BY <1>1, <1>2, <1>3 DEF SetUp, TypeOK
  <2>3. tid_alloc_size' = tid_alloc_size
    BY <1>1, <1>2, <1>3 DEF SetUp, TypeOK
  <2> QED
    BY <2>1, <2>2, <2>3 DEF sumVars
<1>5. \A s \in Side : Packing(s)' = Packing(s) /\ Packed(s)' = Packed(s)
  BY <1>1, SameStages
<1>6. /\ InputOK' /\ Reserve' /\ Names' /\ Counter'
      /\ \A s \in Side : Layout(s)' /\ Data(s)'
  BY <1>1, <1>4, <1>5, QuietKeeps
<1>7. TypeOK'
  BY <1>1, <1>2, <1>4 DEF TypeOK, sumVars, matrixVars, counterVars, resultVars
<1>8. released = 0
  BY <1>1, LoopState DEF IInv, LoopFacts!LoopInv, LoopFacts!Brackets
<1>9. Stages'
  <2>1. live' = {k \in Tid : released' <= k /\ k < prepared'}
    BY <1>1, <1>8, LoopState DEF IInv, Stages
  <2> QED
    BY <1>1, <2>1, Fixed DEF IInv, Stages
<1>10. Totals'
  <2>1. Waiting' = Waiting
    BY <1>1 DEF Waiting
  <2>2. \A k \in Tid : k >= prepared' => k >= prepared
    BY <1>1, LoopState
  <2> QED
    BY <1>1, <1>2, <1>4, <2>1, <2>2 DEF IInv, Totals, sumVars, matrixVars, resultVars
<1> QED
  BY <1>6, <1>7, <1>9, <1>10, LoopKept DEF IInv, Next

LEMMA TakeKeepsIInv ==
  ASSUME IInv, NEW k \in Tid, NEW i \in Row, Take(k, i) PROVE IInv'
<1>1. UNCHANGED <<input, to, from, numThreads, prepared, released, running, completed, stage, live,
                  sealed, tid_alloc_size, sumVars, matrixVars, counterVars, resultVars>>
  BY DEF Take, Loop!Take, Loop!args, bufferVars
<1>2. \A s \in Side : Packing(s)' = Packing(s) /\ Packed(s)' = Packed(s)
  BY <1>1, SameStages
<1>3. /\ InputOK' /\ Reserve' /\ Names' /\ Counter'
      /\ \A s \in Side : Layout(s)' /\ Data(s)'
  BY <1>1, <1>2, QuietKeeps
<1>4. TypeOK'
  BY <1>1 DEF IInv, TypeOK, sumVars, matrixVars, counterVars, resultVars
<1>5. Stages'
  BY <1>1, Fixed DEF IInv, Stages
<1>6. Totals'
  BY <1>1 DEF IInv, Totals, Waiting, sumVars, matrixVars, resultVars
<1> QED
  BY <1>3, <1>4, <1>5, <1>6, LoopKept DEF IInv, Next

\* A node that is not selected has no row: neither its beginning nor its end packs one.
LEMMA SkippedKeepsIInv ==
  ASSUME IInv, NEW k \in Tid, NEW i \in Row, BeginSkipped(k, i) \/ EndSkipped(k, i)
  PROVE  IInv'
<1>1. UNCHANGED <<input, to, from, numThreads, prepared, released, live,
                  sealed, tid_alloc_size, sumVars, matrixVars, counterVars, resultVars>>
  BY DEF BeginSkipped, EndSkipped, Loop!Begin, Loop!End, Loop!args, bufferVars
<1>2. ASSUME BeginSkipped(k, i)
      PROVE  Stages' /\ \A s \in Side : Packing(s)' = Packing(s) /\ Packed(s)' = Packed(s)
  <2>1. /\ \A r \in running : r[1] # k /\ r[2] # i
        /\ running' = running \cup {<<k, i>>} /\ completed' = completed /\ ~Kept(i)
    BY <1>2, BeginState DEF BeginSkipped
  <2>2. stage'[k] = "skipped" /\ \A h \in Tid : h # k => stage'[h] = stage[h]
    BY <1>2, StageMove DEF BeginSkipped
  <2>3. /\ <<k, i>>[1] = k /\ <<k, i>>[2] = i
        /\ \A r \in running : r[1] \in Tid /\ r[1] # k /\ stage'[r[1]] = stage[r[1]]
    BY <2>1, <2>2, LoopState
  <2>4. \A s \in Side : Packing(s)' = Packing(s)
    BY <2>1, <2>2, <2>3 DEF Packing, Side
  <2>5. \A r \in running' : stage'[r[1]] \in {"between", "column"} => r \in running
    BY <2>1, <2>2, <2>3
  <2>6. \A s \in Side : Packed(s)' = Packed(s)
    BY <1>1, <2>1, <2>3, <2>5, Fixed DEF Packed
  <2>7. Stages'
    <3>1. ASSUME NEW h \in Tid PROVE stage'[h] = "idle" <=> \A r \in running' : r[1] # h
      <4>1. CASE h = k
        BY <2>1, <2>2, <2>3, <4>1
      <4>2. CASE h # k
        BY <2>1, <2>2, <2>3, <4>2 DEF IInv, Stages
      <4> QED
        BY <4>1, <4>2
    <3>2. \A r \in running' :
            /\ Kept(r[2]) <=> stage'[r[1]] # "skipped"
            /\ stage'[r[1]] \in {"between", "column"} => ~input.symmetric
      BY <2>1, <2>2, <2>3 DEF IInv, Stages
    <3> QED
      BY <1>1, <3>1, <3>2, Fixed DEF IInv, Stages
  <2> QED
    BY <2>4, <2>6, <2>7
<1>3. ASSUME EndSkipped(k, i)
      PROVE  Stages' /\ \A s \in Side : Packing(s)' = Packing(s) /\ Packed(s)' = Packed(s)
  <2>1. /\ <<k, i>> \in running /\ stage[k] = "skipped"
        /\ running' = running \ {<<k, i>>} /\ completed' = completed \cup {i}
    BY <1>3 DEF EndSkipped, Loop!End, Goto
  <2>2. stage'[k] = "idle" /\ \A h \in Tid : h # k => stage'[h] = stage[h]
    BY <1>3, StageMove DEF EndSkipped
  <2>3. /\ \A r \in running : r[1] \in Tid /\ (r[1] = k \/ r[2] = i => r = <<k, i>>)
        /\ <<k, i>>[1] = k /\ <<k, i>>[2] = i /\ ~Kept(i)
    BY <2>1, LoopState, BodyState
  <2>4. \A r \in running' : r \in running /\ r # <<k, i>> /\ stage'[r[1]] = stage[r[1]]
    BY <2>1, <2>2, <2>3
  <2>5. \A s \in Side : Packing(s)' = Packing(s)
    BY <2>1, <2>3, <2>4 DEF Packing, Side
  <2>6. \A r \in running : stage[r[1]] \in {"between", "column"} => r \in running'
    BY <2>1, <2>3
  <2>7. \A s \in Side : Packed(s)' = Packed(s)
    BY <1>1, <2>1, <2>3, <2>4, <2>6, Fixed DEF Packed
  <2>8. Stages'
    <3>1. \A h \in Tid : stage'[h] = "idle" <=> \A r \in running' : r[1] # h
      BY <2>1, <2>2, <2>3 DEF IInv, Stages
    <3>2. \A r \in running' :
            /\ Kept(r[2]) <=> stage'[r[1]] # "skipped"
            /\ stage'[r[1]] \in {"between", "column"} => ~input.symmetric
      BY <2>4 DEF IInv, Stages
    <3> QED
      BY <1>1, <3>1, <3>2, Fixed DEF IInv, Stages
  <2> QED
    BY <2>5, <2>7, <2>8
<1>4. /\ InputOK' /\ Reserve' /\ Names' /\ Counter'
      /\ \A s \in Side : Layout(s)' /\ Data(s)'
  BY <1>1, <1>2, <1>3, QuietKeeps
<1>5. TypeOK'
  <2>1. stage' \in [Tid -> {"idle", "row", "between", "column", "skipped"}]
    <3>1. Goto(k, "idle", "skipped") \/ Goto(k, "skipped", "idle")
      BY DEF BeginSkipped, EndSkipped
    <3> QED
      BY <3>1, StageType
  <2> QED
    BY <1>1, <2>1 DEF IInv, TypeOK, sumVars, matrixVars, counterVars, resultVars
<1>6. Totals'
  BY <1>1 DEF IInv, Totals, Waiting, sumVars, matrixVars, resultVars
<1> QED
  BY <1>2, <1>3, <1>4, <1>5, <1>6, LoopKept DEF IInv, Next, Body
-----------------------------------------------------------------------------
\* Placing a row uses no space yet and adds nothing to the totals.
LEMMA PlaceKeepsSums ==
  ASSUME IInv, NEW s, NEW k, NEW i, Place(s, k, i),
         UNCHANGED <<to, from, numThreads, prepared, released>>
  PROVE  InputOK' /\ Reserve' /\ Totals'
<1>1. UNCHANGED <<input, to, from, numThreads, prepared, released, tid_alloc_size, indices,
                  cardinalities, lengths, new_cardinality, total_bytes_used>>
  BY DEF Place, bufferVars, sumVars, resultVars
<1>2. InputOK' /\ Reserve'
  BY <1>1, Fixed DEF IInv, Reserve
<1>3. Totals'
  BY <1>1 DEF IInv, Totals, Waiting
<1> QED
  BY <1>2, <1>3

LEMMA BeginRowKeepsIInv ==
  ASSUME IInv, NEW k \in Tid, NEW i \in Row, BeginRow(k, i) PROVE IInv'
<1>1. /\ Stages' /\ UNCHANGED <<input, to, from, numThreads, prepared, released>>
      /\ Packing("row")' = Packing("row") \cup {<<k, i>>}
      /\ Packing("column")' = Packing("column")
      /\ \A s \in Side : Packed(s)' = Packed(s)
      /\ i \notin Packed("row") /\ \A r \in Packing("row") : r[2] # i
  BY BeginRowEffect
<1>2. /\ Kept(i) /\ Place("row", k, i) /\ Goto(k, "idle", "row")
      /\ new_imap' = [new_imap EXCEPT ![old2newids(i)] = i]
  BY DEF BeginRow
<1>3. "row" \in Sides /\ "row" \in Side /\ \A s \in Side : s # "row" => s = "column"
  BY DEF Sides, Side
<1>4. \A s \in Side : Layout(s)' /\ Data(s)'
  BY <1>1, <1>2, <1>3, PlaceKeeps
<1>5. InputOK' /\ Reserve' /\ Totals' /\ Counter'
  BY <1>1, <1>2, PlaceKeepsSums, PlaceKeepsCounter
<1>6. TypeOK'
  <2>1. new_imap' \in [Row -> Row]
    BY <1>2 DEF IInv, TypeOK
  <2>2. stage' \in [Tid -> {"idle", "row", "between", "column", "skipped"}]
    BY <1>2, StageType
  <2> QED
    BY <1>2, <1>3, <2>1, <2>2, PlaceKeepsTypes
<1>7. Names'
  <2> SUFFICES ASSUME NEW h \in Row, Kept(h), ArrayOf("row", h)' # NoRow
               PROVE  new_imap'[old2newids(h)] = h
    BY <1>1, Fixed DEF Names
  <2>1. /\ old2newids(h) \in Row /\ old2newids(i) \in Row
        /\ h # i => old2newids(h) # old2newids(i)
    BY <1>2, LoopState, NewIds
  <2>2. new_imap \in [Row -> Row] /\ arrays["row"] \in [Row -> [tid : Tid, buf : Nat, at : Nat] \cup {NoRow}]
        /\ arrays \in [Side -> [Row -> [tid : Tid, buf : Nat, at : Nat] \cup {NoRow}]]
    BY <1>3 DEF IInv, TypeOK
  <2>3. CASE h = i
    BY <1>2, <2>1, <2>2, <2>3
  <2>4. CASE h # i
    <3>1. PICK new : arrays' = [arrays EXCEPT !["row"][old2newids(i)] = new]
      BY <1>2 DEF Place
    <3>2. arrays'["row"][old2newids(h)] = arrays["row"][old2newids(h)]
      BY <1>3, <2>1, <2>2, <2>4, <3>1
    <3>3. ArrayOf("row", h)' = ArrayOf("row", h)
      BY <1>1, <3>2, Fixed DEF ArrayOf
    <3>4. new_imap[old2newids(h)] = h
      BY <3>3 DEF IInv, Names
    <3> QED
      BY <1>2, <2>1, <2>2, <2>4, <3>4
  <2> QED
    BY <2>3, <2>4
<1> QED
  BY <1>1, <1>4, <1>5, <1>6, <1>7, LoopKept DEF IInv, Next, Body

LEMMA BeginColumnKeepsIInv ==
  ASSUME IInv, NEW k \in Tid, NEW i \in Row, BeginColumn(k, i) PROVE IInv'
<1>1. /\ Stages' /\ UNCHANGED <<input, to, from, numThreads, prepared, released>>
      /\ "column" \in Sides /\ Kept(i)
      /\ Packing("row")' = Packing("row")
      /\ Packing("column")' = Packing("column") \cup {<<k, i>>}
      /\ \A s \in Side : Packed(s)' = Packed(s)
      /\ i \notin Packed("column") /\ \A r \in Packing("column") : r[2] # i
  BY BeginColumnEffect
<1>2. Place("column", k, i) /\ Goto(k, "between", "column") /\ UNCHANGED new_imap
  BY DEF BeginColumn
<1>3. "row" \in Side /\ "column" \in Side /\ \A s \in Side : s # "column" => s = "row"
  BY DEF Side
<1>4. \A s \in Side : Layout(s)' /\ Data(s)'
  BY <1>1, <1>2, <1>3, PlaceKeeps
<1>5. InputOK' /\ Reserve' /\ Totals' /\ Counter'
  BY <1>1, <1>2, PlaceKeepsSums, PlaceKeepsCounter
<1>6. TypeOK'
  <2>1. new_imap' \in [Row -> Row]
    BY <1>2 DEF IInv, TypeOK
  <2>2. stage' \in [Tid -> {"idle", "row", "between", "column", "skipped"}]
    BY <1>2, StageType
  <2> QED
    BY <1>2, <1>3, <2>1, <2>2, PlaceKeepsTypes
<1>7. Names'
  <2>1. arrays'["row"] = arrays["row"]
    <3>1. arrays \in [Side -> [Row -> [tid : Tid, buf : Nat, at : Nat] \cup {NoRow}]]
      BY DEF IInv, TypeOK
    <3>2. PICK new : arrays' = [arrays EXCEPT !["column"][old2newids(i)] = new]
      BY <1>2 DEF Place
    <3> QED
      BY <1>3, <3>1, <3>2
  <2>2. \A h : ArrayOf("row", h)' = ArrayOf("row", h)
    BY <1>1, <2>1, Fixed DEF ArrayOf
  <2> QED
    BY <1>1, <1>2, <2>2, Fixed DEF IInv, Names
<1> QED
  BY <1>1, <1>4, <1>5, <1>6, <1>7, LoopKept DEF IInv, Next, Body

\* A row or column that is packed, whether or not its body ends with it.
LEMMA PackKeepsIInv ==
  ASSUME IInv, NEW s \in Sides, NEW k \in Tid, NEW i \in Row, Kept(i), Finish(s, k, i),
         UNCHANGED <<input, to, from, numThreads, prepared, released>>, Stages',
         LoopFacts!LoopInv',
         stage' \in [Tid -> {"idle", "row", "between", "column", "skipped"}],
         <<k, i>> \in Packing(s), Packing(s)' = Packing(s) \ {<<k, i>>},
         i \notin Packed(s), Packed(s)' = Packed(s) \cup {i},
         \A t \in Side : t # s => Packing(t)' = Packing(t) /\ Packed(t)' = Packed(t)
  PROVE  IInv'
<1>1. k \in Waiting /\ k < prepared
  <2>1. <<k, i>> \in running
    BY DEF Packing
  <2> QED
    BY <2>1, BodyState
<1>2. /\ Layout(s)' /\ Data(s)' /\ Reserve' /\ Totals' /\ Counter' /\ TypeOK'
  <2>1. Layout(s)' /\ Data(s)'
    BY PackKeepsLayout, PackKeepsData
  <2>2. Reserve' /\ Totals'
    BY <1>1, PackKeepsReserve, PackKeepsTotals
  <2>3. Counter' /\ TypeOK'
    BY PackKeepsCounter, PackKeepsTypes
  <2> QED
    BY <2>1, <2>2, <2>3
<1>3. InputOK'
  BY Fixed DEF IInv
<1>4. UNCHANGED <<arrays, new_imap>>
  BY FinishEffect
<1>5. Names'
  <2>1. \A h : ArrayOf("row", h)' = ArrayOf("row", h)
    BY <1>4, Fixed DEF ArrayOf
  <2> QED
    BY <1>4, <2>1, Fixed DEF IInv, Names
<1>6. ASSUME NEW t \in Side, t # s PROVE Layout(t)' /\ Data(t)'
  <2>1. UNCHANGED <<sealed[t], tid_alloc_size[t]>>
    BY <1>6, UsedEffect
  <2>2. UNCHANGED <<lengths[t], contents[t], edge_attributes[t]>>
    <3>1. /\ lengths' = [lengths EXCEPT ![s][old2newids(i)] = Cardinality(Selected(s, i))]
          /\ contents' = [contents EXCEPT ![s][old2newids(i)] =
                            {old2newids(j) : j \in Selected(s, i)}]
          /\ edge_attributes' = [edge_attributes EXCEPT ![s][old2newids(i)] =
               IF input.attributed THEN @ \cup Selected(s, i) ELSE @]
      BY FinishEffect
    <3>2. /\ lengths \in [Side -> [Row -> 0 .. MaxRows]]
          /\ contents \in [Side -> [Row -> SUBSET Row]]
          /\ edge_attributes \in [Side -> [Row -> SUBSET Row]]
      BY DEF IInv, TypeOK
    <3> QED
      BY <1>6, <3>1, <3>2
  <2>3. arrays'[t] = arrays[t]
    BY <1>4
  <2> QED
    BY <1>6, <2>1, <2>2, <2>3, SideFrame DEF IInv
<1> QED
  BY <1>2, <1>3, <1>5, <1>6 DEF IInv

LEMMA EndRowKeepsIInv ==
  ASSUME IInv, NEW k \in Tid, NEW i \in Row, EndRow(k, i) PROVE IInv'
<1>1. /\ Stages' /\ UNCHANGED <<input, to, from, numThreads, prepared, released>>
      /\ Kept(i) /\ <<k, i>> \in Packing("row")
      /\ Packing("row")' = Packing("row") \ {<<k, i>>}
      /\ Packing("column")' = Packing("column")
      /\ Packed("row")' = Packed("row") \cup {i} /\ i \notin Packed("row")
      /\ Packed("column")' = Packed("column")
  BY EndRowEffect
<1>2. Finish("row", k, i) /\ (Goto(k, "row", "idle") \/ Goto(k, "row", "between"))
  BY DEF EndRow
<1>3. "row" \in Sides /\ \A s \in Side : s # "row" => s = "column"
  BY DEF Sides, Side
<1>4. stage' \in [Tid -> {"idle", "row", "between", "column", "skipped"}]
  BY <1>2, StageType
<1>5. LoopFacts!LoopInv'
  BY LoopKept DEF Next, Body
<1> QED
  BY <1>1, <1>2, <1>3, <1>4, <1>5, PackKeepsIInv

LEMMA EndColumnKeepsIInv ==
  ASSUME IInv, NEW k \in Tid, NEW i \in Row, EndColumn(k, i) PROVE IInv'
<1>1. /\ Stages' /\ UNCHANGED <<input, to, from, numThreads, prepared, released>>
      /\ Kept(i) /\ <<k, i>> \in Packing("column") /\ "column" \in Sides
      /\ Packing("row")' = Packing("row")
      /\ Packing("column")' = Packing("column") \ {<<k, i>>}
      /\ Packed("row")' = Packed("row")
      /\ Packed("column")' = Packed("column") \cup {i} /\ i \notin Packed("column")
  BY EndColumnEffect
<1>2. Finish("column", k, i) /\ Goto(k, "column", "idle")
  BY DEF EndColumn
<1>3. \A s \in Side : s # "column" => s = "row"
  BY DEF Side
<1>4. stage' \in [Tid -> {"idle", "row", "between", "column", "skipped"}]
  BY <1>2, StageType
<1>5. LoopFacts!LoopInv'
  BY LoopKept DEF Next, Body
<1> QED
  BY <1>1, <1>2, <1>3, <1>4, <1>5, PackKeepsIInv

\* What a thread adds to the totals when it is torn down is what it leaves out of
\* the sums over the threads that wait.
LEMMA TearDownKeepsIInv == ASSUME IInv, TearDown PROVE IInv'
<1>1. /\ released < numThreads /\ prepared = numThreads /\ released' = released + 1
      /\ UNCHANGED <<input, to, from, numThreads, prepared, running, completed, stage, sealed,
                     tid_alloc_size, sumVars, matrixVars, counterVars>>
      /\ live' = live \ {released}
      /\ new_cardinality' = new_cardinality + cardinalities[released]
      /\ total_bytes_used' = [s \in Side |-> total_bytes_used[s] + indices[s][released]]
  BY DEF TearDown, Loop!TearDown, Loop!args
<1>2. /\ TypeOK /\ released \in Tid /\ released \in Waiting /\ Waiting' = Waiting \ {released}
      /\ IsFiniteSet(Waiting) /\ Waiting \subseteq Tid
  BY <1>1, LoopState, WaitingThreads DEF IInv, Waiting
<1>3. \A s \in Side : Packing(s)' = Packing(s) /\ Packed(s)' = Packed(s)
  BY <1>1, SameStages
<1>4. /\ InputOK' /\ Reserve' /\ Names' /\ Counter'
      /\ \A s \in Side : Layout(s)' /\ Data(s)'
  BY <1>1, <1>3, QuietKeeps
<1>5. TypeOK'
  BY <1>1, <1>2 DEF TypeOK, sumVars, matrixVars, counterVars
<1>6. Stages'
  <2>1. live' = {k \in Tid : released' <= k /\ k < prepared'}
    BY <1>1, LoopState DEF IInv, Stages
  <2> QED
    BY <1>1, <2>1, Fixed DEF IInv, Stages
<1>7. /\ SumFunctionOnSet(cardinalities, Waiting)
           = cardinalities[released] + SumFunctionOnSet(cardinalities, Waiting \ {released})
      /\ SumFunctionOnSet(cardinalities, Waiting \ {released}) \in Nat
      /\ cardinalities[released] \in Nat /\ new_cardinality \in Nat
  <2>1. \A k \in Waiting : cardinalities[k] \in Nat
    BY <1>2 DEF TypeOK
  <2>2. IsFiniteSet(Waiting \ {released})
    BY <1>2, FS_Subset
  <2> QED
    BY <1>2, <2>1, <2>2, SumRemove, SumType DEF TypeOK
<1>8. ASSUME NEW s \in Side
      PROVE  /\ SumFunctionOnSet(indices[s], Waiting)
                  = indices[s][released] + SumFunctionOnSet(indices[s], Waiting \ {released})
             /\ SumFunctionOnSet(indices[s], Waiting \ {released}) \in Nat
             /\ indices[s][released] \in Nat /\ total_bytes_used[s] \in Nat
  <2>1. PICK f : f = indices[s]
    OBVIOUS
  <2>2. \A k \in Waiting : f[k] \in Nat
    BY <1>2, <2>1 DEF TypeOK
  <2>3. IsFiniteSet(Waiting \ {released})
    BY <1>2, FS_Subset
  <2>4. /\ SumFunctionOnSet(f, Waiting)
             = f[released] + SumFunctionOnSet(f, Waiting \ {released})
        /\ SumFunctionOnSet(f, Waiting \ {released}) \in Nat
    BY <1>2, <2>2, <2>3, SumRemove, SumType
  <2> QED
    BY <1>2, <2>1, <2>2, <2>4 DEF TypeOK
<1>9. Totals'
  <2>1. \A k \in Tid : k >= prepared' =>
          cardinalities'[k] = 0
          /\ \A s \in Side : indices'[s][k] = 0 /\ tid_alloc_size'[s][k] = 0
    BY <1>1 DEF IInv, Totals, sumVars
  <2>2. new_cardinality' + SumFunctionOnSet(cardinalities', Waiting')
          = SumFunctionOnSet(lengths'["row"], Row) + SumFunctionOnSet(lengths'["column"], Row)
    <3>1. new_cardinality + SumFunctionOnSet(cardinalities, Waiting)
            = SumFunctionOnSet(lengths["row"], Row) + SumFunctionOnSet(lengths["column"], Row)
      BY DEF IInv, Totals
    <3>2. UNCHANGED <<cardinalities, lengths>>
      BY <1>1 DEF sumVars, matrixVars
    <3>3. new_cardinality' + SumFunctionOnSet(cardinalities, Waiting \ {released})
            = new_cardinality + SumFunctionOnSet(cardinalities, Waiting)
      BY <1>1, <1>7
    <3> QED
      BY <1>2, <3>1, <3>2, <3>3
  <2>3. ASSUME NEW s \in Side
        PROVE  total_bytes_used'[s] + SumFunctionOnSet(indices'[s], Waiting')
                 = sizeof_uint32 * SumFunctionOnSet(lengths'[s], Row)
    <3>1. total_bytes_used[s] + SumFunctionOnSet(indices[s], Waiting)
            = sizeof_uint32 * SumFunctionOnSet(lengths[s], Row)
      BY DEF IInv, Totals
    <3>2. UNCHANGED <<indices, lengths>>
      BY <1>1 DEF sumVars, matrixVars
    <3>3. total_bytes_used'[s] + SumFunctionOnSet(indices[s], Waiting \ {released})
            = total_bytes_used[s] + SumFunctionOnSet(indices[s], Waiting)
      <4>1. total_bytes_used'[s] = total_bytes_used[s] + indices[s][released]
        BY <1>1
      <4>2. /\ SumFunctionOnSet(indices[s], Waiting)
                  = indices[s][released] + SumFunctionOnSet(indices[s], Waiting \ {released})
            /\ SumFunctionOnSet(indices[s], Waiting \ {released}) \in Nat
            /\ indices[s][released] \in Nat /\ total_bytes_used[s] \in Nat
        BY <1>8
      <4> QED
        BY <4>1, <4>2
    <3> QED
      BY <1>2, <3>1, <3>2, <3>3
  <2> QED
    BY <2>1, <2>2, <2>3 DEF Totals
<1> QED
  BY <1>4, <1>5, <1>6, <1>9, LoopKept DEF IInv, Next

LEMMA NextIInv == IInv /\ [Next]_vars => IInv'
<1> SUFFICES ASSUME IInv, [Next]_vars PROVE IInv'
  OBVIOUS
<1>1. CASE UNCHANGED vars
  BY <1>1, StutterKeeps
<1>2. CASE SetUp
  BY <1>2, SetUpKeepsIInv
<1>3. ASSUME NEW k \in Tid, NEW i \in Row, Take(k, i) PROVE IInv'
  BY <1>3, TakeKeepsIInv
<1>4. ASSUME NEW k \in Tid, NEW i \in Row, Body(k, i) PROVE IInv'
  BY <1>4, BeginRowKeepsIInv, EndRowKeepsIInv, BeginColumnKeepsIInv, EndColumnKeepsIInv,
     SkippedKeepsIInv DEF Body
<1>5. CASE TearDown
  BY <1>5, TearDownKeepsIInv
<1> QED
  BY <1>1, <1>2, <1>3, <1>4, <1>5 DEF Next, Terminated
-----------------------------------------------------------------------------
LEMMA InitIInv == Init => IInv
<1> SUFFICES ASSUME Init PROVE IInv
  OBVIOUS
<1>1. /\ numThreads \in 1 .. MaxThreads /\ from = 0 /\ to \in 0 .. MaxRows /\ to \in Nat
      /\ prepared = 0 /\ unclaimed = 0 /\ pending = [k \in Tid |-> {}] /\ running = {}
      /\ completed = {} /\ released = 0 /\ numThreads \in Nat \ {0}
  BY BuildAssumption DEF Init, Loop!Init, Loop!Tid, Tid
<1>2. LoopFacts!LoopInv
  <2>1. /\ numThreads \in 1 .. MaxThreads /\ from \in 0 .. MaxRows /\ to \in from .. MaxRows
        /\ prepared = 0 /\ unclaimed = from /\ running = {} /\ completed = {} /\ released = 0
        /\ pending = [k \in LoopFacts!Tid |-> {}]
    BY <1>1 DEF Init, Loop!Init, LoopFacts!Tid, Tid
  <2>2. workers \in 1 .. numThreads
    <3>1. \A t \in Nat : t \div BlockSize \in Nat
      BY BuildAssumption
    <3> QED
      BY <1>1, <3>1 DEF Init, Loop!Init
  <2>3. LoopFacts!Init
    BY <2>1, <2>2 DEF LoopFacts!Init
  <2> QED
    BY <2>3, LoopBounds, LoopFacts!LoopInit
<1>3. TypeOK
  <2> USE DEF Init
  <2>1. \A r \in Row : r \in Row
    OBVIOUS
  <2>2. /\ stage \in [Tid -> {"idle", "row", "between", "column", "skipped"}]
        /\ live \subseteq Tid /\ tid_alloc_size \in [Side -> [Tid -> Nat]]
        /\ indices \in [Side -> [Tid -> Nat]] /\ cardinalities \in [Tid -> Nat]
    OBVIOUS
  <2>3. sealed \in [Side -> [Tid -> Seq(Nat)]]
    <3>1. << >> \in Seq(Nat)
      OBVIOUS
    <3> QED
      BY <3>1
  <2>4. arrays \in [Side -> [Row -> [tid : Tid, buf : Nat, at : Nat] \cup {NoRow}]]
    OBVIOUS
  <2>5. lengths \in [Side -> [Row -> 0 .. MaxRows]]
    BY BuildAssumption
  <2>6. /\ contents \in [Side -> [Row -> SUBSET Row]]
        /\ edge_attributes \in [Side -> [Row -> SUBSET Row]]
        /\ new_imap \in [Row -> Row] /\ num_uint \in Nat /\ counter_read \in [Tid -> Nat]
        /\ new_cardinality \in Nat /\ total_bytes_used \in [Side -> Nat]
    OBVIOUS
  <2> HIDE DEF Init
  <2> QED
    BY <2>2, <2>3, <2>4, <2>5, <2>6 DEF TypeOK
<1>4. InputOK
  BY DEF Init, InputOK
<1>5. Stages
  <2>1. {k \in Tid : 0 <= k /\ k < 0} = {}
    BY BuildAssumption DEF Tid
  <2> QED
    BY <1>1, <2>1 DEF Init, Stages
<1>6. \A s \in Side : Packing(s) = {} /\ Packed(s) = {}
  BY <1>1 DEF Packing, Packed
<1>7. ASSUME NEW s \in Side PROVE Layout(s) /\ Data(s)
  <2>1. /\ \A r \in Row : arrays[s][r] = NoRow /\ lengths[s][r] = 0 /\ contents[s][r] = {}
                         /\ edge_attributes[s][r] = {}
    BY DEF Init
  <2>2. \A i \in Row : Kept(i) => old2newids(i) \in Row
    BY <1>1, NewIds
  <2> QED
    BY <1>6, <2>1, <2>2 DEF Layout, Data, ArrayOf
<1>8. Reserve
  <2>1. \A s \in Side, k \in Tid : tid_alloc_size[s][k] = 0
    BY DEF Init
  <2>2. REALLOC_THRESHOLD * alloc_size \in Nat
    BY <1>1, <1>4, AllocSize, Threshold
  <2> QED
    BY <2>1, <2>2 DEF Reserve
<1>9. Names
  <2>1. \A i \in Row : Kept(i) => old2newids(i) \in Row
    BY <1>1, NewIds
  <2>2. "row" \in Side
    BY DEF Side
  <2>3. \A r \in Row : arrays["row"][r] = NoRow
    BY <2>2 DEF Init
  <2> QED
    BY <2>1, <2>3 DEF Names, ArrayOf
<1>10. Totals
  <2>1. IsFiniteSet(Waiting) /\ Waiting \subseteq Tid /\ IsFiniteSet(Row)
    <3>1. released \in Int /\ numThreads - 1 \in Int
      BY <1>1
    <3>2. IsFiniteSet(released .. numThreads - 1)
      BY <3>1, FS_Interval
    <3> QED
      BY <1>1, <3>2, RowsFinite, BuildAssumption DEF Waiting, Tid
  <2>2. SumFunctionOnSet(cardinalities, Waiting) = 0
    <3>1. \A k \in Waiting : cardinalities[k] = 0
      BY <2>1 DEF Init
    <3> QED
      BY <2>1, <3>1, SumZero
  <2>3. ASSUME NEW s \in Side
        PROVE  SumFunctionOnSet(indices[s], Waiting) = 0 /\ SumFunctionOnSet(lengths[s], Row) = 0
               /\ total_bytes_used[s] = 0
    <3>1. PICK f, g : f = indices[s] /\ g = lengths[s]
      OBVIOUS
    <3>2. (\A k \in Waiting : f[k] = 0) /\ (\A r \in Row : g[r] = 0) /\ total_bytes_used[s] = 0
      BY <2>1, <3>1 DEF Init
    <3> QED
      BY <2>1, <3>1, <3>2, SumZero
  <2>4. "row" \in Side /\ "column" \in Side /\ new_cardinality = 0
    BY DEF Side, Init
  <2>5. \A k \in Tid :
          cardinalities[k] = 0 /\ \A s \in Side : indices[s][k] = 0 /\ tid_alloc_size[s][k] = 0
    BY DEF Init
  <2> QED
    BY <2>2, <2>3, <2>4, <2>5 DEF Totals, sizeof_uint32
<1>11. Counter
  <2>1. Done = {}
    BY <1>6 DEF Done, Sides, Side
  <2>2. Cardinality(Done) = 0
    BY <2>1, FS_EmptySet
  <2> QED
    BY <2>1, <2>2 DEF Counter, Init
<1> QED
  BY <1>2, <1>3, <1>4, <1>5, <1>7, <1>8, <1>9, <1>10, <1>11 DEF IInv
-----------------------------------------------------------------------------
\* The invariant holds in every state the build can reach.
THEOREM BuildInvariance == SafeSpec => []IInv
<1>1. Init => IInv
  BY InitIInv
<1>2. IInv /\ [Next]_vars => IInv'
  BY NextIInv
<1> QED
  BY <1>1, <1>2, PTL DEF SafeSpec

\* Variables have their types.
THEOREM TypeCorrect == SafeSpec => []TypeOK
<1>1. IInv => TypeOK
  BY DEF IInv
<1> QED
  BY <1>1, BuildInvariance, PTL

\* A row that has been placed is packed or being packed.
LEMMA PlacedRows ==
  ASSUME IInv, NEW s \in Side, NEW i \in Placed(s)
  PROVE  /\ i \in Row /\ Kept(i)
         /\ i \in Packed(s) \/ <<ArrayOf(s, i).tid, i>> \in Packing(s)
         /\ ArrayOf(s, i).tid \in Tid /\ ArrayOf(s, i).buf \in Nat
         /\ Start(s, i) \in Nat /\ Size(s, i) \in Nat /\ End(s, i) = Start(s, i) + Size(s, i)
         /\ Bytes(s, i) = Start(s, i) .. End(s, i) - 1
<1>1. i \in Row /\ Kept(i) /\ ArrayOf(s, i) # NoRow /\ Layout(s) /\ TypeOK
  BY DEF Placed, ArrayOf, IInv
<1>2. i \in Packed(s) \/ <<ArrayOf(s, i).tid, i>> \in Packing(s)
  <2>1. i \in Packed(s) \/ \E r \in Packing(s) : r[2] = i
    BY <1>1 DEF Layout
  <2>2. ASSUME NEW r \in Packing(s), r[2] = i PROVE r = <<ArrayOf(s, i).tid, i>>
    <3>1. ArrayOf(s, i).tid = r[1]
      <4>1. ArrayOf(s, r[2]) =
              [tid |-> r[1], buf |-> Len(sealed[s][r[1]]), at |-> tid_alloc_size[s][r[1]]]
        BY <1>1 DEF Layout
      <4> QED
        BY <2>2, <4>1
    <3>2. r = <<r[1], r[2]>>
      BY LoopState DEF Packing
    <3> QED
      BY <2>2, <3>1, <3>2
  <2> QED
    BY <2>1, <2>2
<1>3. ArrayOf(s, i) \in [tid : Tid, buf : Nat, at : Nat]
  <2>1. old2newids(i) \in Row
    BY <1>1, LoopState, NewIds
  <2> QED
    BY <1>1, <2>1 DEF TypeOK, ArrayOf
<1>4. Size(s, i) \in Nat
  BY <1>1, SelectedNodes, LoopState DEF IInv
<1> QED
  BY <1>1, <1>2, <1>3, <1>4 DEF Start, End, Bytes, Size

\* A row being packed lies behind all that its thread has packed into the buffer.
LEMMA PackingBehindPacked ==
  ASSUME IInv, NEW s \in Side, NEW i \in Placed(s), NEW h \in Placed(s), SameBuffer(s, i, h),
         i \in Packed(s), <<ArrayOf(s, h).tid, h>> \in Packing(s)
  PROVE  End(s, i) <= Start(s, h)
<1>1. Layout(s)
  BY DEF IInv
<1> DEFINE r == <<ArrayOf(s, h).tid, h>>
<1>2. /\ r \in Packing(s) /\ r[1] = ArrayOf(s, h).tid /\ r[2] = h
  OBVIOUS
<1> HIDE DEF r
<1>3. ArrayOf(s, h) = [tid |-> ArrayOf(s, h).tid, buf |-> Len(sealed[s][ArrayOf(s, h).tid]),
                       at |-> tid_alloc_size[s][ArrayOf(s, h).tid]]
  BY <1>1, <1>2 DEF Layout
<1>4. PICK k \in Tid : k = ArrayOf(s, h).tid
  BY PlacedRows
<1>5. /\ ArrayOf(s, i).tid = k /\ ArrayOf(s, i).buf = Len(sealed[s][k])
      /\ Start(s, h) = tid_alloc_size[s][k]
  BY <1>3, <1>4 DEF SameBuffer, Start
<1>6. End(s, i) <= Used(s, ArrayOf(s, i).tid, ArrayOf(s, i).buf)
  BY <1>1 DEF Layout
<1>7. Used(s, k, Len(sealed[s][k])) = tid_alloc_size[s][k]
  <2>1. Len(sealed[s][k]) \in Nat
    BY DEF IInv, TypeOK
  <2> QED
    BY <2>1 DEF Used
<1> QED
  BY <1>5, <1>6, <1>7

\* No two rows, and no two columns, share a byte.
THEOREM RowsAreDisjoint == SafeSpec => []RowsDisjoint
<1>1. ASSUME IInv PROVE RowsDisjoint
  <2> SUFFICES ASSUME NEW s \in Side, NEW i \in Placed(s), NEW h \in Placed(s), i # h,
                      SameBuffer(s, i, h)
               PROVE  Bytes(s, i) \cap Bytes(s, h) = {}
    BY DEF RowsDisjoint
  <2>1. End(s, i) <= Start(s, h) \/ End(s, h) <= Start(s, i)
    <3>1. CASE i \in Packed(s) /\ h \in Packed(s)
      BY <1>1, <3>1 DEF IInv, Layout
    <3>2. CASE i \in Packed(s) /\ <<ArrayOf(s, h).tid, h>> \in Packing(s)
      BY <1>1, <3>2, PackingBehindPacked
    <3>3. CASE h \in Packed(s) /\ <<ArrayOf(s, i).tid, i>> \in Packing(s)
      <4>1. SameBuffer(s, h, i)
        BY DEF SameBuffer
      <4> QED
        BY <1>1, <3>3, <4>1, PackingBehindPacked
    <3>4. CASE <<ArrayOf(s, i).tid, i>> \in Packing(s) /\ <<ArrayOf(s, h).tid, h>> \in Packing(s)
      <4> DEFINE r == <<ArrayOf(s, i).tid, i>>
                 q == <<ArrayOf(s, h).tid, h>>
      <4>1. r \in running /\ q \in running /\ r[1] = q[1] /\ r[2] = i /\ q[2] = h
        BY <3>4 DEF Packing, SameBuffer
      <4> HIDE DEF r, q
      <4>2. r = q
        BY <1>1, <4>1, LoopState
      <4> QED
        BY <4>1, <4>2
    <3> QED
      BY <1>1, <3>1, <3>2, <3>3, <3>4, PlacedRows
  <2>2. /\ Start(s, i) \in Nat /\ Size(s, i) \in Nat /\ End(s, i) = Start(s, i) + Size(s, i)
        /\ Bytes(s, i) = Start(s, i) .. End(s, i) - 1
        /\ Start(s, h) \in Nat /\ Size(s, h) \in Nat /\ End(s, h) = Start(s, h) + Size(s, h)
        /\ Bytes(s, h) = Start(s, h) .. End(s, h) - 1
    BY <1>1, PlacedRows
  <2> QED
    BY <2>1, <2>2
<1> QED
  BY <1>1, BuildInvariance, PTL

\* In a graph without hubs every row lies in its buffer, however little space has been
\* estimated: the reserve below the threshold holds it.
THEOREM RowsStayInBounds == SafeSpec => []RowsInBounds
<1>1. ASSUME IInv PROVE RowsInBounds
  <2>1. \A r \in running : r[1] \in live
    <3> SUFFICES ASSUME NEW r \in running PROVE r[1] \in live
      OBVIOUS
    <3>1. <<r[1], r[2]>> \in running
      BY <1>1, LoopState
    <3> QED
      BY <1>1, <3>1, BodyState
  <2>2. ASSUME NoHubs, NEW s \in Side, NEW i \in Placed(s)
        PROVE  End(s, i) <= Capacity(s, i)
    <3>1. PICK k \in Tid, b \in Nat : k = ArrayOf(s, i).tid /\ b = ArrayOf(s, i).buf
      BY <1>1, PlacedRows
    <3>2. /\ i \in Row /\ Start(s, i) \in Nat /\ Size(s, i) \in Nat
          /\ End(s, i) = Start(s, i) + Size(s, i)
      BY <1>1, PlacedRows
    <3>3. /\ alloc_size \in Nat /\ tid_alloc_size[s][k] \in Nat /\ Len(sealed[s][k]) \in Nat
          /\ 10 * tid_alloc_size[s][k] <= REALLOC_THRESHOLD * alloc_size
      BY <1>1, LoopState, SMTT(30) DEF IInv, TypeOK, Reserve
    <3>4. /\ REALLOC_THRESHOLD * alloc_size \in Nat
          /\ REALLOC_THRESHOLD * alloc_size <= 10 * alloc_size
          /\ (10 - REALLOC_THRESHOLD) * alloc_size
               = 10 * alloc_size - REALLOC_THRESHOLD * alloc_size
      BY <3>3, Threshold
    <3>5. Capacity(s, i) = IF b < Len(sealed[s][k]) THEN sealed[s][k][b + 1] ELSE alloc_size
      BY <3>1 DEF Capacity
    <3>6. CASE i \in Packed(s)
      <4>1. b <= Len(sealed[s][k]) /\ End(s, i) <= Used(s, k, b)
        BY <1>1, <3>1, <3>6 DEF IInv, Layout
      <4>2. CASE b < Len(sealed[s][k])
        BY <3>5, <4>1, <4>2 DEF Used
      <4>3. CASE ~(b < Len(sealed[s][k]))
        <5>1. End(s, i) <= tid_alloc_size[s][k]
          BY <4>1, <4>3 DEF Used
        <5> QED
          BY <3>2, <3>3, <3>4, <3>5, <4>3, <5>1
      <4> QED
        BY <4>2, <4>3
    <3>7. CASE <<ArrayOf(s, i).tid, i>> \in Packing(s)
      <4>1. <<k, i>> \in Packing(s) /\ <<k, i>>[1] = k /\ <<k, i>>[2] = i
        BY <3>1, <3>7
      <4>2. ArrayOf(s, i) = [tid |-> k, buf |-> Len(sealed[s][k]), at |-> tid_alloc_size[s][k]]
        BY <1>1, <4>1 DEF IInv, Layout
      <4>3. b = Len(sealed[s][k]) /\ Start(s, i) = tid_alloc_size[s][k]
        BY <3>1, <4>2 DEF Start
      <4>4. 10 * Size(s, i) <= (10 - REALLOC_THRESHOLD) * alloc_size
        <5>1. Cardinality(Selected(s, i)) \in Nat
          BY <1>1, <3>2, SelectedNodes, LoopState, BuildAssumption DEF IInv
        <5>2. 10 * Size(s, i) = 10 * Cardinality(Selected(s, i)) * sizeof_uint32
          BY <5>1 DEF Size, sizeof_uint32
        <5> QED
          BY <2>2, <3>2, <5>2 DEF NoHubs
      <4> QED
        BY <3>2, <3>3, <3>4, <3>5, <4>3, <4>4, SMTT(30)
    <3> QED
      BY <1>1, <3>6, <3>7, PlacedRows
  <2>3. ASSUME NoHubs, NEW s \in Side, NEW i \in Placed(s), NEW x \in Bytes(s, i)
        PROVE  x < Capacity(s, i)
    <3>1. End(s, i) <= Capacity(s, i)
      BY <2>2, <2>3
    <3>2. x \in Int /\ x < End(s, i) /\ End(s, i) \in Int
      <4>1. /\ Bytes(s, i) = Start(s, i) .. End(s, i) - 1
            /\ Start(s, i) \in Nat /\ Size(s, i) \in Nat
            /\ End(s, i) = Start(s, i) + Size(s, i)
        BY <1>1, PlacedRows
      <4>2. Start(s, i) \in Int /\ End(s, i) \in Int
        BY <4>1
      <4>3. x \in Start(s, i) .. End(s, i) - 1
        BY <4>1
      <4> QED
        BY <4>2, <4>3
    <3>3. Capacity(s, i) \in Int
      <4>1. /\ alloc_size \in Nat
            /\ \E k \in Tid, b \in Nat : k = ArrayOf(s, i).tid /\ b = ArrayOf(s, i).buf
        BY <1>1, LoopState, PlacedRows
      <4>2. \A k \in Tid : sealed[s][k] \in Seq(Nat)
        BY <1>1 DEF IInv, TypeOK
      <4>3. \A k \in Tid, b \in Nat : b < Len(sealed[s][k]) => sealed[s][k][b + 1] \in Nat
        BY <4>2
      <4> QED
        BY <4>1, <4>3 DEF Capacity
    <3> QED
      BY <3>1, <3>2, <3>3
  <2> QED
    BY <1>1, <2>1, <2>3 DEF RowsInBounds, IInv
<1> QED
  BY <1>1, BuildInvariance, PTL

\* A set of new ids has as many elements as the set of nodes they stand for.
LEMMA NewIdsCount ==
  ASSUME to \in Nat, NEW S \in SUBSET Row, \A j \in S : Kept(j)
  PROVE  Cardinality({old2newids(j) : j \in S}) = Cardinality(S)
<1> DEFINE ids == {old2newids(j) : j \in S}
           f == [j \in S |-> old2newids(j)]
<1>1. \A i, h \in S : i # h => old2newids(i) # old2newids(h)
  BY NewIds
<1>2. f \in Injection(S, ids)
  BY <1>1 DEF Injection, IsInjective
<1>3. f \in Surjection(S, ids)
  BY DEF Surjection
<1>4. ExistsBijection(S, ids)
  BY <1>2, <1>3 DEF ExistsBijection, Bijection
<1> HIDE DEF ids
<1>5. Cardinality(ids) = Cardinality(S)
  BY <1>4, RowsFinite, FS_Bijection
<1> QED
  BY <1>5 DEF ids

\* When the build returns, every row and column has been packed and every thread torn
\* down.
LEMMA Returned ==
  ASSUME IInv, released = numThreads
  PROVE  /\ \A s \in Sides, i \in Row : Kept(i) => i \in Packed(s)
         /\ Waiting = {}
<1>1. completed = from .. to - 1
  BY LoopState DEF IInv, LoopFacts!LoopInv, LoopFacts!Brackets
<1>2. \A i \in Row : Kept(i) => i \in completed
  BY <1>1, LoopState, BuildAssumption DEF Kept, Row
<1>3. Waiting = {}
  BY LoopState DEF Waiting
<1> QED
  BY <1>2, <1>3 DEF Packed

\* The matrix is complete when the build returns.
THEOREM MatrixIsComplete == SafeSpec => []MatrixComplete
<1>1. ASSUME IInv PROVE MatrixComplete
  <2> SUFFICES ASSUME released = numThreads
               PROVE  /\ \A s \in Sides, i \in Row :
                           Kept(i) => /\ i \in Placed(s)
                                      /\ lengths[s][old2newids(i)]
                                           = Cardinality(contents[s][old2newids(i)])
                      /\ new_cardinality
                           = SumFunction(lengths["row"]) + SumFunction(lengths["column"])
                      /\ \A s \in Side :
                           total_bytes_used[s] = sizeof_uint32 * SumFunction(lengths[s])
    BY DEF MatrixComplete
  <2>1. ASSUME NEW s \in Sides, NEW i \in Row, Kept(i)
        PROVE  /\ i \in Placed(s)
               /\ lengths[s][old2newids(i)] = Cardinality(contents[s][old2newids(i)])
    <3>1. s \in Side /\ i \in Packed(s) /\ Layout(s) /\ Data(s)
      BY <1>1, <2>1, Returned DEF Sides, Side, IInv
    <3>2. i \in Placed(s)
      BY <2>1, <3>1 DEF Layout, Placed, ArrayOf
    <3>3. /\ lengths[s][old2newids(i)] = Cardinality(Selected(s, i))
          /\ contents[s][old2newids(i)] = {old2newids(j) : j \in Selected(s, i)}
      BY <2>1, <3>1 DEF Data
    <3>4. Selected(s, i) \in SUBSET Row /\ \A j \in Selected(s, i) : Kept(j)
      BY <1>1, <3>1, SelectedNodes, LoopState DEF IInv
    <3> QED
      BY <1>1, <3>2, <3>3, <3>4, NewIdsCount, LoopState
  <2>2. \A s \in Side : DOMAIN lengths[s] = Row
    BY <1>1 DEF IInv, TypeOK
  <2>3. \A s \in Side : SumFunction(lengths[s]) = SumFunctionOnSet(lengths[s], Row)
    BY <2>2 DEF SumFunction
  <2>4. /\ Waiting = {} /\ IsFiniteSet({}) /\ new_cardinality \in Nat
        /\ \A s \in Side : total_bytes_used[s] \in Nat
    BY <1>1, Returned, FS_EmptySet DEF IInv, TypeOK
  <2>5. \A f : SumFunctionOnSet(f, {}) = 0
    BY <2>4, SumZero
  <2>6. new_cardinality + SumFunctionOnSet(cardinalities, Waiting)
          = SumFunctionOnSet(lengths["row"], Row) + SumFunctionOnSet(lengths["column"], Row)
    BY <1>1 DEF IInv, Totals
  <2>7. new_cardinality = SumFunction(lengths["row"]) + SumFunction(lengths["column"])
    <3>1. "row" \in Side /\ "column" \in Side
      BY DEF Side
    <3>2. SumFunctionOnSet(cardinalities, Waiting) = 0
      BY <2>4, <2>5
    <3> QED
      BY <2>3, <2>4, <2>6, <3>1, <3>2
  <2>8. ASSUME NEW s \in Side
        PROVE  total_bytes_used[s] = sizeof_uint32 * SumFunction(lengths[s])
    <3>1. total_bytes_used[s] + SumFunctionOnSet(indices[s], Waiting)
            = sizeof_uint32 * SumFunctionOnSet(lengths[s], Row)
      BY <1>1 DEF IInv, Totals
    <3>2. SumFunctionOnSet(indices[s], Waiting) = 0
      BY <2>4, <2>5
    <3> QED
      BY <2>3, <2>4, <3>1, <3>2
  <2> QED
    BY <2>1, <2>7, <2>8
<1> QED
  BY <1>1, BuildInvariance, PTL

\* The matrix is what the caller selected of the graph.
THEOREM MatrixIsSelectedSubgraph == SafeSpec => []IsSelectedSubgraph
<1>1. ASSUME IInv, released = numThreads,
             NEW i \in {h \in input.node_selection : h < to},
             NEW j \in {h \in input.node_selection : h < to}
      PROVE  LET id(h) == old2newids(h)
                 edge == j \in Neighborhood("row", i)
                 InRow(s, x, y) == id(y) \in contents[s][id(x)]
             IN  /\ input.attributed => new_imap[id(i)] = i
                 /\ InRow("row", i, j) <=> edge /\ <<i, j>> \in input.edge_selection
                 /\ ~input.symmetric =>
                      (InRow("column", j, i) <=> edge /\ <<j, i>> \in input.edge_selection)
                 /\ input.attributed =>
                      \A s \in Side : j \in edge_attributes[s][id(i)] <=> InRow(s, i, j)
  <2>1. IsInput(input) /\ to \in Nat
    BY <1>1, BuildAssumption, LoopState DEF IInv, InputOK
  <2>2. i \in Row /\ j \in Row /\ Kept(i) /\ Kept(j)
        /\ i \in input.node_selection /\ j \in input.node_selection
    BY <2>1 DEF IsInput, Kept
  <2>3. ASSUME NEW s \in Sides, NEW x \in {i, j}, NEW y \in {i, j}
        PROVE  /\ old2newids(y) \in contents[s][old2newids(x)] <=> y \in Selected(s, x)
               /\ input.attributed => edge_attributes[s][old2newids(x)] = Selected(s, x)
    <3>1. s \in Side /\ x \in Row /\ Kept(x) /\ y \in Row /\ Kept(y)
      BY <2>2 DEF Sides, Side
    <3>2. x \in Packed(s) /\ Data(s)
      BY <1>1, <3>1, Returned DEF IInv
    <3>3. /\ contents[s][old2newids(x)] = {old2newids(h) : h \in Selected(s, x)}
          /\ input.attributed => edge_attributes[s][old2newids(x)] = Selected(s, x)
      BY <3>1, <3>2 DEF Data
    <3>4. \A h \in Selected(s, x) : h \in Row /\ Kept(h)
      BY <1>1, <3>1, SelectedNodes, LoopState DEF IInv
    <3>5. \A h \in Selected(s, x) : old2newids(h) = old2newids(y) => h = y
      BY <2>1, <3>1, <3>4, NewIds
    <3> QED
      BY <3>3, <3>5
  <2>4. "row" \in Sides /\ "row" \in Side
    BY DEF Sides, Side
  <2>5. new_imap[old2newids(i)] = i
    <3>1. i \in Packed("row") /\ Layout("row") /\ Names
      BY <1>1, <2>2, <2>4, Returned DEF IInv
    <3> QED
      BY <2>2, <3>1 DEF Layout, Names
  <2>6. old2newids(j) \in contents["row"][old2newids(i)]
          <=> j \in Neighborhood("row", i) /\ <<i, j>> \in input.edge_selection
    BY <2>2, <2>3, <2>4 DEF Selected
  <2>7. ASSUME ~input.symmetric
        PROVE  old2newids(i) \in contents["column"][old2newids(j)]
                 <=> j \in Neighborhood("row", i) /\ <<j, i>> \in input.edge_selection
    <3>1. "column" \in Sides
      BY <2>7 DEF Sides, Side
    <3>2. j \in Neighborhood("row", i) <=> i \in Neighborhood("column", j)
      BY <2>1, <2>2, <2>7 DEF IsInput, Neighborhood
    <3>3. old2newids(i) \in contents["column"][old2newids(j)] <=> i \in Selected("column", j)
      BY <2>3, <3>1
    <3> QED
      BY <2>2, <3>2, <3>3 DEF Selected
  <2>8. ASSUME input.attributed, NEW s \in Side
        PROVE  j \in edge_attributes[s][old2newids(i)]
                 <=> old2newids(j) \in contents[s][old2newids(i)]
    <3>1. CASE s \in Sides
      BY <2>3, <2>8, <3>1
    <3>2. CASE s \notin Sides
      <4>1. s # "row"
        BY <2>4, <3>2
      <4>2. i \notin Packed(s) /\ Data(s)
        BY <1>1, <3>2, <4>1 DEF Packed, IInv
      <4>3. edge_attributes[s][old2newids(i)] = {} /\ contents[s][old2newids(i)] = {}
        BY <2>2, <4>2 DEF Data
      <4> QED
        BY <4>3
    <3> QED
      BY <3>1, <3>2
  <2> QED
    BY <2>5, <2>6, <2>7, <2>8
<1>2. IInv => IsSelectedSubgraph
  BY <1>1 DEF IsSelectedSubgraph
<1> QED
  BY <1>2, BuildInvariance, PTL

\* The counter never exceeds the number of rows and columns packed, and counts one at
\* least, however many increments were lost.
THEOREM CounterEstimates == SafeSpec => []CounterIsEstimate
<1>1. ASSUME IInv PROVE CounterIsEstimate
  <2>1. ASSUME NEW s \in Sides, NEW i \in Row
        PROVE  i \in Packed(s)
                 <=> i \in Placed(s) /\ \A k \in Tid : stage[k] = s => <<k, i>> \notin running
    <3>1. s \in Side /\ Layout(s) /\ s # "between"
      BY <1>1 DEF Sides, Side, IInv
    <3>2. ASSUME i \in Packed(s) PROVE i \in Placed(s)
      BY <3>1, <3>2 DEF Packed, Layout, Placed, ArrayOf
    <3>3. ASSUME i \in Packed(s), NEW k \in Tid, stage[k] = s, <<k, i>> \in running PROVE FALSE
      <4>1. i \notin completed /\ \A r \in running : r[2] = i => r = <<k, i>>
        BY <1>1, <3>3, BodyState
      <4>2. s = "row" /\ \E r \in running : r[2] = i /\ stage[r[1]] \in {"between", "column"}
        BY <3>3, <4>1 DEF Packed
      <4>3. stage[<<k, i>>[1]] \in {"between", "column"}
        BY <4>1, <4>2
      <4> QED
        BY <3>3, <4>2, <4>3
    <3>4. ASSUME i \in Placed(s), \A k \in Tid : stage[k] = s => <<k, i>> \notin running
          PROVE  i \in Packed(s)
      <4>1. i \in Packed(s) \/ <<ArrayOf(s, i).tid, i>> \in Packing(s)
        BY <1>1, <3>1, <3>4, PlacedRows
      <4>2. ArrayOf(s, i).tid \in Tid
        BY <1>1, <3>1, <3>4, PlacedRows
      <4>3. <<ArrayOf(s, i).tid, i>> \in Packing(s) =>
              stage[ArrayOf(s, i).tid] = s /\ <<ArrayOf(s, i).tid, i>> \in running
        BY DEF Packing
      <4> QED
        BY <3>4, <4>1, <4>2, <4>3
    <3> QED
      BY <3>2, <3>3, <3>4
  <2> DEFINE done == {d \in Sides \X Row :
                        /\ d[2] \in Placed(d[1])
                        /\ \A k \in Tid : stage[k] = d[1] => <<k, d[2]>> \notin running}
  <2>2. done = Done
    BY <2>1 DEF Done
  <2> HIDE DEF done
  <2>3. num_uint <= Cardinality(done) /\ (done # {} => num_uint > 0)
    BY <1>1, <2>2 DEF IInv, Counter
  <2> QED
    BY <2>3 DEF CounterIsEstimate, done
<1> QED
  BY <1>1, BuildInvariance, PTL
===============================================================================
