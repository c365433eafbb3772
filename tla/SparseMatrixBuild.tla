-------------------------- MODULE SparseMatrixBuild --------------------------
(***************************************************************************)
(* SparseMatrix::build for rows in the uinteger layout: a parallel loop    *)
(* packs the selected neighbours of every node into byte buffers of the    *)
(* worker that handles the node, and for directed graphs its selected in   *)
(* neighbours into buffers for the columns.  The space is estimated,       *)
(* alloc_size bytes per thread; a buffer that is nearly full after a row   *)
(* has been written is cut to the size used and replaced.                  *)
(*                                                                         *)
(* The four builds differ in two ways.  Undirected graphs have no columns. *)
(* Graphs with attributes drop the nodes that are not selected and number  *)
(* the others anew; without attributes every node keeps its row and the    *)
(* node selection applies to neighbours only.                              *)
(*                                                                         *)
(* The loop is ParallelFor: each step of this module is a step of the loop *)
(* together with what the callbacks of the build do in it, or a step       *)
(* inside a body.                                                          *)
(***************************************************************************)
EXTENDS Integers, FiniteSets, Sequences, Functions

CONSTANTS MaxThreads,    \* largest num_threads considered
          MaxRows,       \* largest number of nodes considered
          BlockSize,     \* block size of the loop: 256, 128 or 100 in the code
          Inputs,        \* the graphs and selections considered
          ALLOCATOR,     \* factor of the space estimate, 4 in the code
          REALLOC_THRESHOLD  \* share of a buffer, in tenths, above which it is full;
                             \* 9 in the code

Tid == 0 .. MaxThreads - 1
Row == 0 .. MaxRows - 1
Side == {"row", "column"}

\* A graph and what the caller selects.  The rows and columns of a loaded graph
\* mirror each other; an undirected one has rows only.
IsInput(g) ==
  /\ g.symmetric \in BOOLEAN
  /\ g.attributed \in BOOLEAN
  /\ g.neighborhoods \in [Side -> [Row -> SUBSET Row]]
  /\ g.node_selection \in SUBSET Row
  /\ g.edge_selection \in SUBSET (Row \X Row)
  /\ \A i, j \in Row :
       j \in g.neighborhoods["row"][i] <=>
         i \in g.neighborhoods[IF g.symmetric THEN "row" ELSE "column"][j]

ASSUME BuildAssumption ==
  /\ MaxThreads \in Nat \ {0}
  /\ MaxRows \in Nat
  /\ BlockSize \in Nat \ {0}
  /\ ALLOCATOR \in Nat
  /\ REALLOC_THRESHOLD \in 0 .. 10
  /\ \A g \in Inputs : IsInput(g)

VARIABLES
  numThreads, from, to, workers, prepared, unclaimed, pending, running,
  completed, released,        \* the state of the loop
  input,                      \* the graph and the selections
  stage,                      \* per thread, how far it is in the body
  live,                       \* threads whose buffers are allocated
  sealed,                     \* per side and thread, sizes its earlier buffers were cut to
  tid_alloc_size, indices,    \* per side and thread
  cardinalities,              \* per thread
  arrays, lengths,            \* row_arrays, row_lengths and those of the columns
  contents,                   \* the elements packed into each row and column
  edge_attributes,            \* neighbours whose edge's attribute is in a vector of
                              \* attributes; rows and vectors are filled in one order
  new_imap,                   \* the node a new id stands for; node attributes alike
  num_uint,                   \* common::num_uint, incremented without a lock
  counter_read,               \* the value of it that each thread has loaded
  new_cardinality, total_bytes_used

loopVars == <<numThreads, from, to, workers, prepared, unclaimed, pending,
              running, completed, released>>
bufferVars == <<live, sealed, tid_alloc_size>>
sumVars == <<indices, cardinalities>>
matrixVars == <<arrays, lengths, contents, edge_attributes, new_imap>>
counterVars == <<num_uint, counter_read>>
resultVars == <<new_cardinality, total_bytes_used>>
vars == <<loopVars, input, stage, bufferVars, sumVars, matrixVars, counterVars,
          resultVars>>

Loop == INSTANCE ParallelFor WITH MaxIndex <- MaxRows

matrix_size == to
sizeof_uint32 == 4
Neighborhood(s, i) == input.neighborhoods[s][i]

num_edges == SumFunction([i \in Row |-> Cardinality(Neighborhood("row", i))])
alloc_size == (num_edges * sizeof_uint32 * ALLOCATOR) \div numThreads

\* Nodes that get a row.  Their new ids count them in the order of the old ones.
Kept(i) == i < to /\ (input.attributed => i \in input.node_selection)

old2newids(i) ==
  IF input.attributed THEN Cardinality({h \in Row : h < i /\ Kept(h)}) ELSE i

Sides == IF input.symmetric THEN {"row"} ELSE Side

\* The selected neighbours of node i, tested alike for rows and columns.
Selected(s, i) ==
  {j \in Neighborhood(s, i) :
     j \in input.node_selection /\ <<i, j>> \in input.edge_selection}

\* Fault: the attributes of all edges are pushed.
WithAttribute_All(s, i) == Neighborhood(s, i)

\* The neighbours whose edge's attribute is pushed with them.
WithAttribute(s, i) == Selected(s, i)

\* Where a row is: in the buffer number buf of thread tid, at offset at.
NoRow == [tid |-> 0, buf |-> 0, at |-> -1]

Init ==
  /\ Loop!Init
  /\ from = 0
  /\ workers = IF to \div BlockSize + 1 < numThreads
               THEN to \div BlockSize + 1 ELSE numThreads
  /\ input \in Inputs
  /\ \A i \in Row : i >= to => \A s \in Side : Neighborhood(s, i) = {}
  /\ stage = [k \in Tid |-> "idle"]
  /\ live = {}
  /\ sealed = [s \in Side |-> [k \in Tid |-> << >>]]
  /\ tid_alloc_size = [s \in Side |-> [k \in Tid |-> 0]]
  /\ indices = [s \in Side |-> [k \in Tid |-> 0]]
  /\ cardinalities = [k \in Tid |-> 0]
  /\ arrays = [s \in Side |-> [r \in Row |-> NoRow]]
  /\ lengths = [s \in Side |-> [r \in Row |-> 0]]
  /\ contents = [s \in Side |-> [r \in Row |-> {}]]
  /\ edge_attributes = [s \in Side |-> [r \in Row |-> {}]]
  /\ new_imap = [r \in Row |-> r]
  /\ num_uint = 0
  /\ counter_read = [k \in Tid |-> 0]
  /\ new_cardinality = 0
  /\ total_bytes_used = [s \in Side |-> 0]

-----------------------------------------------------------------------------
\* The setup callback of the next thread allocates its buffers and zeroes its
\* counters.
SetUp ==
  /\ Loop!SetUp
  /\ live' = live \cup {prepared}
  /\ indices' = [s \in Side |-> [indices[s] EXCEPT ![prepared] = 0]]
  /\ cardinalities' = [cardinalities EXCEPT ![prepared] = 0]
  /\ tid_alloc_size' = [s \in Side |-> [tid_alloc_size[s] EXCEPT ![prepared] = 0]]
  /\ UNCHANGED <<input, stage, sealed, matrixVars, counterVars, resultVars>>

Take(k, i) ==
  /\ Loop!Take(k, i)
  /\ UNCHANGED <<input, stage, bufferVars, sumVars, matrixVars, counterVars,
                 resultVars>>

Goto(k, from_stage, to_stage) ==
  stage[k] = from_stage /\ stage' = [stage EXCEPT ![k] = to_stage]

\* A row or column of node i is begun: it is placed and packed, up to the load of
\* the static counter that build_flattened increments.
Place(s, k, i) ==
  /\ arrays' = [arrays EXCEPT ![s][old2newids(i)] =
       [tid |-> k, buf |-> Len(sealed[s][k]), at |-> tid_alloc_size[s][k]]]
  /\ counter_read' = [counter_read EXCEPT ![k] = num_uint]
  /\ UNCHANGED <<input, bufferVars, sumVars, lengths, contents, edge_attributes,
                 num_uint, resultVars>>

BeginRow(k, i) ==
  /\ Loop!Begin(k, i)
  /\ Kept(i)
  /\ Goto(k, "idle", "row")
  /\ Place("row", k, i)
  /\ new_imap' = [new_imap EXCEPT ![old2newids(i)] = i]

BeginColumn(k, i) ==
  /\ <<k, i>> \in running
  /\ Goto(k, "between", "column")
  /\ Place("column", k, i)
  /\ UNCHANGED <<loopVars, new_imap>>

\* Faults of Reallocate: the new buffer is forgotten, or the old one is used to
\* its last byte.
Reallocate_SameBuffer(s, k, used) ==
  /\ tid_alloc_size' = [tid_alloc_size EXCEPT ![s][k] =
       IF 10 * used > REALLOC_THRESHOLD * alloc_size THEN 0 ELSE used]
  /\ UNCHANGED sealed

Reallocate_WhenFull(s, k, used) ==
  IF used > alloc_size
  THEN /\ sealed' = [sealed EXCEPT ![s][k] = Append(@, used)]
       /\ tid_alloc_size' = [tid_alloc_size EXCEPT ![s][k] = 0]
  ELSE /\ tid_alloc_size' = [tid_alloc_size EXCEPT ![s][k] = used]
       /\ UNCHANGED sealed

\* The buffer is cut to the bytes used and a new one is allocated when more than
\* the threshold is used.
Reallocate(s, k, used) ==
  IF 10 * used > REALLOC_THRESHOLD * alloc_size
  THEN /\ sealed' = [sealed EXCEPT ![s][k] = Append(@, used)]
       /\ tid_alloc_size' = [tid_alloc_size EXCEPT ![s][k] = 0]
  ELSE /\ tid_alloc_size' = [tid_alloc_size EXCEPT ![s][k] = used]
       /\ UNCHANGED sealed

\* The packed neighbourhood gets the given length, the thread the given sum of
\* lengths, and the static counter is stored back.
Pack(s, k, i, length, cardinality, counter) ==
  LET bytes == Cardinality(Selected(s, i)) * sizeof_uint32
      r == old2newids(i)
  IN  /\ num_uint' = counter
      /\ indices' = [indices EXCEPT ![s][k] = @ + bytes]
      /\ lengths' = [lengths EXCEPT ![s][r] = length]
      /\ contents' = [contents EXCEPT ![s][r] = {old2newids(j) : j \in Selected(s, i)}]
      /\ edge_attributes' = [edge_attributes EXCEPT ![s][r] =
           IF input.attributed THEN @ \cup WithAttribute(s, i) ELSE @]
      /\ cardinalities' = [cardinalities EXCEPT ![k] = cardinality]
      /\ Reallocate(s, k, tid_alloc_size[s][k] + bytes)
      /\ UNCHANGED <<input, live, arrays, new_imap, counter_read, resultVars>>

\* Faults of Finish: the sum is overwritten, or the counter counts neighbours.
Finish_SumOverwritten(s, k, i) ==
  LET n == Cardinality(Selected(s, i)) IN Pack(s, k, i, n, n, counter_read[k] + 1)

Finish_CountsNeighbors(s, k, i) ==
  LET n == Cardinality(Selected(s, i))
  IN  Pack(s, k, i, n, cardinalities[k] + n, counter_read[k] + n)

Finish(s, k, i) ==
  LET n == Cardinality(Selected(s, i))
  IN  Pack(s, k, i, n, cardinalities[k] + n, counter_read[k] + 1)

\* The rest of the body, or its first half in a directed graph.
EndRow(k, i) ==
  /\ <<k, i>> \in running
  /\ Finish("row", k, i)
  /\ IF input.symmetric
     THEN Loop!End(k, i) /\ Goto(k, "row", "idle")
     ELSE UNCHANGED loopVars /\ Goto(k, "row", "between")

EndColumn(k, i) ==
  /\ Loop!End(k, i)
  /\ Finish("column", k, i)
  /\ Goto(k, "column", "idle")

\* A node that is not selected has no row.
BeginSkipped(k, i) ==
  /\ Loop!Begin(k, i)
  /\ ~Kept(i)
  /\ Goto(k, "idle", "skipped")
  /\ UNCHANGED <<input, bufferVars, sumVars, matrixVars, counterVars, resultVars>>

EndSkipped(k, i) ==
  /\ Loop!End(k, i)
  /\ Goto(k, "skipped", "idle")
  /\ UNCHANGED <<input, bufferVars, sumVars, matrixVars, counterVars, resultVars>>

Body(k, i) ==
  \/ BeginRow(k, i) \/ EndRow(k, i)
  \/ BeginColumn(k, i) \/ EndColumn(k, i)
  \/ BeginSkipped(k, i) \/ EndSkipped(k, i)

\* The teardown callback of the next thread frees its selection buffer and adds
\* its counters to the totals.
TearDown ==
  /\ Loop!TearDown
  /\ live' = live \ {released}
  /\ new_cardinality' = new_cardinality + cardinalities[released]
  /\ total_bytes_used' =
       [s \in Side |-> total_bytes_used[s] + indices[s][released]]
  /\ UNCHANGED <<input, stage, sealed, tid_alloc_size, sumVars, matrixVars,
                 counterVars>>

Terminated == released = numThreads /\ UNCHANGED vars

Next ==
  \/ SetUp
  \/ \E k \in Tid, i \in Row : Take(k, i) \/ Body(k, i)
  \/ TearDown
  \/ Terminated

SafeSpec == Init /\ [][Next]_vars
-----------------------------------------------------------------------------
\* The nodes whose row, or column, has been placed.
Placed(s) == {i \in Row : Kept(i) /\ arrays[s][old2newids(i)] # NoRow}

ArrayOf(s, i) == arrays[s][old2newids(i)]

\* The bytes of node i's row or column in its buffer.
Bytes(s, i) ==
  LET at == ArrayOf(s, i).at
  IN  at .. at + Cardinality(Selected(s, i)) * sizeof_uint32 - 1

SameBuffer(s, i, h) ==
  /\ ArrayOf(s, i).tid = ArrayOf(s, h).tid
  /\ ArrayOf(s, i).buf = ArrayOf(s, h).buf

\* The size of the buffer that node i's row is in, after it may have been cut.
Capacity(s, i) ==
  LET a == ArrayOf(s, i)
  IN  IF a.buf < Len(sealed[s][a.tid]) THEN sealed[s][a.tid][a.buf + 1] ELSE alloc_size

\* Graphs without hubs: what is left of a buffer that is not yet full holds any row.
NoHubs ==
  \A s \in Side, i \in Row :
    10 * Cardinality(Selected(s, i)) * sizeof_uint32
      <= (10 - REALLOC_THRESHOLD) * alloc_size

TypeOK ==
  /\ stage \in [Tid -> {"idle", "row", "between", "column", "skipped"}]
  /\ live \subseteq Tid
  /\ sealed \in [Side -> [Tid -> Seq(Nat)]]
  /\ tid_alloc_size \in [Side -> [Tid -> Nat]]
  /\ indices \in [Side -> [Tid -> Nat]]
  /\ cardinalities \in [Tid -> Nat]
  /\ arrays \in [Side -> [Row -> [tid : Tid, buf : Nat, at : Nat] \cup {NoRow}]]
  /\ lengths \in [Side -> [Row -> 0 .. MaxRows]]
  /\ contents \in [Side -> [Row -> SUBSET Row]]
  /\ edge_attributes \in [Side -> [Row -> SUBSET Row]]
  /\ new_imap \in [Row -> Row]
  /\ num_uint \in Nat
  /\ counter_read \in [Tid -> Nat]
  /\ new_cardinality \in Nat
  /\ total_bytes_used \in [Side -> Nat]

\* No two rows, and no two columns, share a byte, through reallocations and
\* whatever worker handles which node.
RowsDisjoint ==
  \A s \in Side : \A i, h \in Placed(s) :
    i # h /\ SameBuffer(s, i, h) => Bytes(s, i) \cap Bytes(s, h) = {}

\* The variables have their types.  In a graph without hubs every row lies inside its
\* buffer, also after the buffer has been cut.  The code tests a buffer after it has
\* written a row, so a row that is larger than the reserve is written past the end.
\* A worker packs rows only while it owns its buffers.
RowsInBounds ==
  /\ TypeOK
  /\ NoHubs => \A s \in Side : \A i \in Placed(s) :
                 \A x \in Bytes(s, i) : x < Capacity(s, i)
  /\ \A r \in running : r[1] \in live

\* The matrix is complete when the build returns: rows and columns have the
\* lengths of what they hold, and the totals reduced over the threads are the
\* sums over both, so that a directed graph counts every edge twice.
MatrixComplete ==
  released = numThreads =>
    /\ \A s \in Sides, i \in Row :
         Kept(i) => /\ i \in Placed(s)
                    /\ lengths[s][old2newids(i)]
                         = Cardinality(contents[s][old2newids(i)])
    /\ new_cardinality = SumFunction(lengths["row"]) + SumFunction(lengths["column"])
    /\ \A s \in Side :
         total_bytes_used[s] = sizeof_uint32 * SumFunction(lengths[s])

\* What the caller of the build sees, by the old ids of the nodes selected: the
\* rows are the selected edges of the graph between them, ids and attributes
\* alike.  A column of j is tested as (j, i) although the edge leads from i to j:
\* the columns are the rows transposed only for a selection that does not tell
\* the ends of an edge apart; for another they belong to the opposite selection.
IsSelectedSubgraph ==
  released = numThreads =>
    \A i, j \in {h \in input.node_selection : h < to} :
      LET id(h) == old2newids(h)
          edge == j \in Neighborhood("row", i)
          InRow(s, x, y) == id(y) \in contents[s][id(x)]
      IN  /\ input.attributed => new_imap[id(i)] = i
          /\ InRow("row", i, j) <=> edge /\ <<i, j>> \in input.edge_selection
          /\ ~input.symmetric =>
               (InRow("column", j, i) <=> edge /\ <<j, i>> \in input.edge_selection)
          /\ input.attributed =>
               \A s \in Side : j \in edge_attributes[s][id(i)] <=> InRow(s, i, j)

\* Increments of the static counter may be lost, so it is only an estimate: it
\* never exceeds the number of rows and columns, and it is positive as soon as
\* one is done.
CounterIsEstimate ==
  LET done == {d \in Sides \X Row :
                 /\ d[2] \in Placed(d[1])
                 /\ \A k \in Tid : stage[k] = d[1] => <<k, d[2]>> \notin running}
  IN  num_uint <= Cardinality(done) /\ (done # {} => num_uint > 0)
==============================================================================
