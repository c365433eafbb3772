# Verification of SIMDGraphProcessing

TLA+ models of the graph engine in this repository, checked with TLC and, for
the parts that carry the rest, proved with TLAPS.

## The system

The engine loads a graph (`MutableGraph`), packs every neighbourhood into a set
layout (`SparseMatrix`), and runs an application over the rows of that matrix
with intersections, unions and differences of sets (`set/ops`), in parallel
loops (`common::par_for_range`).

| Component | State | Operations | Talks to | What is hard |
|---|---|---|---|---|
| parallel loop, `common.hpp` | shared counter, threads, a block per thread | `par_for_range`, with and without setup and teardown | every parallel part, by callbacks | claims in competition, the end of the range, lifetime of the threads |
| `n_path`, `apps/n_path.cpp` | `visited`, `old_visited`, frontier, a bitset per worker | one round: expand, merge, difference, stop test | the loop, rows of the matrix, union and difference | bitsets that are never cleared, odd numbers of workers in the merge tree, the depth test |
| matrix construction, `SparseMatrix.hpp` | a data buffer, offset and counters per thread; rows shared | setup, pack a row, reallocate, teardown | the loop, the layouts, `ParallelBuffer` | rows placed in buffers that are replaced, buffers tested after the write, counters without a lock |
| intersection, `set/ops/intersection.hpp` | two cursors and the result | merge by blocks or spans, searches by strides, one routine per pair of layouts | layouts, applications | ends of the arrays, matches on the edge of a block, vector stores past the end |
| union and difference, `set/ops` | words of a bitset, another set | clipped union, union by iteration, shifted difference | `n_path` | sets with different first words |
| layouts, `set/layouts` | the bytes of a set | build, iterate, decode one element | matrix, applications | header and tail of each encoding, early exit of an iteration |
| `MutableGraph` | neighbourhoods, `id_map`, attributes | loaders, reorderings, binary round trip | matrix | one permutation applied to rows and `id_map`, and to nothing else |
| `n_clique`, `apps/n_clique.cpp` | a slot per thread and depth, a counter per thread | one search per node: intersect into the next slot, iterate it, recurse | the loop, rows, intersection | a set that is iterated while deeper slots are written, slots of a size that forgets the layout |
| scratch space, `common.hpp` | an area per thread | `alloc_scratch_space` | intersections of `bitset_new` | every thread uses area 0 |
| counting applications, `apps` | a counter per thread | an intersection per edge | all of the above | sums over threads, symmetric matches counted once |
| parser, clocks, hardware counters, tables, tools, experiments | none that matters here | input, output | | |

The properties that make the components correct, in a sentence each: the loop
gives every index to one worker once and ends with all its workers; the search
computes the levels of the graph; the rows of a matrix never share a byte and
the totals are sums over the rows; an operation on sets returns the set its
name says, whatever the layouts; a loader keeps every edge of its file with
its attributes, and a reordering renames rows and `id_map` by one permutation
(attributes, in rows and the table of external ids stay in the old order); the
slots of a clique search that are in use are never written, as long as common
neighbourhoods fit in a slot.

## Modules

`A <- B` reads: B is what A promises.

| Module | Models | Built on |
|---|---|---|
| `ParallelFor` | the contract of a parallel loop | |
| `Threads` | the threads by number, 0 the calling one | |
| `ParForRange` | `par_for_range` with its counter, blocks and threads | `<- ParallelFor` |
| `BreadthFirst` | sequential breadth-first search | |
| `NPath` | the loop of `n_path::run` | `<- BreadthFirst` |
| `SparseMatrixBuild` | the four builds of `SparseMatrix`, uinteger rows and columns | composed with `ParallelFor` |
| `SortedIntersect` | intersections of two uinteger sets: `set_intersect` with the block merge and the galloping search, `v1`, `v3`, `ibm` | `SortedSets` |
| `SortedSets` | a set as an increasing array, what every layout is built from | |
| `BitsetOps` | the bitset and hybrid layouts and their operations | `SortedSets` |
| `PShort` | the pshort layout and its operations | `BitsetOps` |
| `PackedSets` | the variant and bitpacked layouts, their iteration and unions | `BitsetOps` |
| `BlockSets` | the bitset_new and new_type layouts, their intersections, the scratch space | `SortedSets` |
| `SetOps` | one call of any of the four modules before | all of them |
| `GraphLoad` | the four text loaders of `MutableGraph`, the binary file written and read | `SortedSets` |
| `Reorder` | the reorderings of `MutableGraph` with `reassign_ids` | `SortedSets` |
| `NodeLoop` | the state of a `ParallelFor` over the nodes of a graph | `ParallelFor`; `SortedSets` |
| `NClique` | `n_clique::run` on uinteger rows, with its slots | composed with `NodeLoop` |
| `Counting` | triangles, lollipops, similar nodes, symbiosity | composed with `NodeLoop` |
| `Parallel_proofs` | theorems | `ParForRange`, `NPath` |
| `Applications_proofs` | theorems | `Counting`, `NClique` |
| `MutableGraph_proofs` | theorems | `GraphLoad`, `Reorder` |
| `SetOps_proofs` | theorems | `BitsetOps`, `PShort`, `SetOps` |
| `*_proofs` | theorems | the module they are named after |
| `FiniteFacts` | lemmas about finite sets, sums and increasing sequences that the proofs share | |
| `MC*` | values of the constants for TLC | the module they are named after |

An operator whose name ends in a phrase after an underscore, such as
`Build_NotCleared`, is the operator before the underscore with a plausible bug,
for the checks of the properties. No specification uses it.

### ParallelFor and ParForRange

`ParForRange` has one program counter for the caller (`phase`) and one per
worker (`pc`). The caller's actions are the statements of the outer overload in
their order: `SetUp` for each thread, either `RunSequentially` and
`SequentialDone` or `StartSpawning`, `Spawn`, `StartJoining`, `Join`,
`AllJoined`, then `TearDown` and `Return`. A worker claims with a fetch-and-add
(`Claim`), enters and leaves the body for each index of its block (`BeginBody`,
`EndBody`: two steps, since bodies of different workers overlap) and goes back
to claim (`BlockDone`). Workers run as soon as they are spawned, beside the
spawn loop. The relaxed memory order of the fetch-and-add does not matter to
the model: read-modify-writes of one atomic are totally ordered anyway.

`ParallelFor` says the same without counter, blocks or threads being created:
indices are handed out in order in pieces of any length, bodies run one at a
time per thread in increasing order, between the last setup and the first
teardown. Modules with a loop in them join their own steps to its actions.

### BreadthFirst and NPath

A set is its elements. The parallel loop of a round is one step per node of the
frontier, by any of the workers, in any order, as `ParallelFor` allows; the
number of workers is computed as `par_foreach` does it. The merge tree is one
step per pair. The bitsets of the workers are kept from round to round. A step
of `BreadthFirst` is a whole round. `workers_used` is the code's
`real_num_threads` of the last merge, `merge_i` its `i`; the names that begin
with `Path` keep those of `ParForRange` apart where both are proved about.

### SparseMatrixBuild

Its state contains the state of a `ParallelFor`, and each of its steps is a
step of the loop and what the callback does in it, or a step inside a body. A
row or column is where it was placed (thread, number of the buffer, offset), its
length and the neighbours it holds. `sealed[s][k]` holds the sizes to which the
earlier buffers of thread k were cut, for `s` the rows or the columns. One
module stands for the four builds, which differ in two ways: a directed graph
packs columns after rows, and counts both; a graph with attributes gives new ids
to the selected nodes, and filters neighbours and attributes by one test. The
body is several steps: a row, in a directed graph the column, and the static
counter that `build_flattened` increments, loaded in one step and stored in
another. An input is a graph, a selection of nodes and one of edges.

### SortedIntersect

One step per iteration of the loops: a block compare of the merge, a span
skipped or compared, an element of the smaller array, a doubling and a halving
of the search, a compare of a quarter, an iteration of the scalar loop.
`callee` names the function called. The vector compare is what it computes: the
elements that occur in both operands, for `ibm` the elements whose halves both
do; the shuffle moves them to the front in their order (`Compress`).
`stored` is how far into the result a step has written, matches or not;
`readRare` and `readFreq` are how far the inputs have been read, whether the
values are used or not. `v1` reads the next element of `rare`
(`intersection.hpp:168`) and the maximum of the next span of `freq` (`199`)
before it tests whether there is one: up to one cell behind `rare` and one span
behind `freq`, which `StaysInBounds` allows it and no other function.
`VEC`, `QUARTER` and `RATIO` are the widths and the ratio at which the
dispatcher changes the algorithm.

### The operations on sets

`op` names the operation called, and a behaviour of `SetOps` is one call of it.
The four modules share `op`, the operands, the result and a position; each has
the variables of its own loops.

`BitsetOps`: a word is the set of its ones, a bitset the index of its first word
and its words. One step combines `VEC` words or one, probes or adds one element
of an array, or visits one word. `Build` is given what the memory held before
(all ones, the worst), since the code clears only part of it. Operands are those
the operations meet: rows for intersections, and results of earlier ones; a
zeroed bitset that starts at word 0 as the first operand of a union or
difference, as `n_path` has them. For a hybrid set, `get_type` is the choice of
array or bitset by density, `DispatchIntersect` and `DispatchUnion` are the
switches; afterwards the call is that of the two layouts. The result's type is
kept, since its `foreach` goes by it.

`PShort`: a set is its 16-bit cells. A step is a round of the loop over
partitions or of a loop inside one.

`PackedSets`: the data is a sequence of bytes and registers. Encoding is
computed, decoding is one step per number or register, with the position inside
a register and the state in which a number split over two registers leaves it.

`BlockSets`: several workers each run one intersection; `scratch` and `scratch1`
are shared, as they are in the code, where `common::tid` is never set. An
intersection stores positions of common blocks, then reads them back. A
`new_type` intersection is four of them, and a merge of three arrays.

### GraphLoad

One step per line of the edge file (`ReadEdge`: both ends looked up and
numbered, the edge pushed), one per line of the file of node attributes, one
per row for the sort, the removal of duplicates and the counts, and one per
node for the binary file. An unstable sort of pairs that compares only ids is
any of the orders it may give. Ids are compared modulo `Words` where the code
stores them in 32 bits. `phase` is where the loader is; `Kept` names the lines
that count, which are all of them except for the loader that keeps a set of edges.

### Reorder

`reorder_bfs` and `reorder_strong_run` are loops of one step per node; the other
reorderings are one step, with every shuffle and every outcome of an unstable
sort. Each ends in `ReassignIds`, which renumbers rows and `id_map`.
`reorder_strong_run` on a graph with a node in nobody's row would throw; loaders
give no such undirected graph, which is the assumption on `Graphs`.

### Counting

A body of the first two applications iterates a row, and the second a result as
well: a step passes one element. Rows are read where they lie or decoded into
the thread's `y` and `z` buffers, results are in `r`; an iteration reads what is
in its buffer then. Counts move from the body to the thread and to the total in
the steps in which the code moves them. An intersection is one step, what
`SortedIntersect` shows of it.

### NClique

`common_buffer` is an array of bytes, a byte being the j-th of some element, in
which the slots are laid out as in the code: a slot has as many bytes as the
graph has nodes, whatever that number is, so that it may end, and the next
begin, inside a word. `Intersection` is the call that the application makes,
dispatched by the lengths (`Gallops`): the block loop of
`set_intersect_standard` (`Blocks`, `Round`), which stores a register of `VEC`
elements at `C[count]` whatever matched (`intersection.hpp:745`), then the
scalar merge (`Scan`); galloping stores matches one by one. Elements are read
from the buffer as it is being written. `SizeOf`, `VEC` and `RATIO` are 4, 4
and 32 in the code.

A register may thus be stored up to `VEC` elements behind a slot: in the slots
of greater depths, in those of the next thread, and for the last thread past the
end of the allocation (`BufferEnd`), which `Byte` includes. `OnlySlotsWritten`
says that writes reach no further. They meet no set that is iterated, because
greater depths are dead while a set is computed, and slots 0 and 1 of the next
thread hold no set: the first set of a search is a row of the matrix. `Room`
states the condition: what two adjacent nodes have in common below them fits in
a slot, and a register is no longer than two slots where blocks are compared at
all. The second part follows from the first for the constants of the code
(`RoomOfCode`).

Each thread has a stack of calls; iterating a set reads its elements from the
buffer, one step each, so that a set overwritten while it is iterated gives what
is then there. A word of which a part was never written or was written over is
no element; `Legible` leaves out what the program does with such a word, which
`Room` excludes (`SetsIntact`; the run `n_clique` would deadlock there). The
loop's blocks are `ParallelFor`'s. An intersection is one step: no other thread
reads what it writes.

## Runs

| Run | Module | Question | Bounds |
|---|---|---|---|
| `par_for_range` | `MCParForRange` | every interleaving of the workers: each index once, nobody outlives the call, `ParallelFor` is implemented, so that the call returns | 3 threads, ranges in 0..4, blocks of 1..3 |
| `n_path` | `MCNPath` | nothing is lost in the merge, leftovers are harmless, frontiers are levels, the answer is the distance, `BreadthFirst` is implemented, so that the search ends | all directed graphs on 3 nodes, all undirected loop-free ones on 4; 4 threads, depth up to 3 |
| `sparse_matrix_build` | `MCSparseMatrixBuild` | rows and columns disjoint and inside their buffers, which live as long as a worker runs; totals right; the matrix is the selected subgraph; lost counts bounded | 3 nodes, undirected and directed, with and without attributes, every selection of nodes, two of edges; 2 threads, blocks of 2 |
| `sorted_intersect` | `MCSortedIntersect` | in bounds, misses nothing, finds nothing twice, ends, for all four functions; what `v1` reads behind its arrays | all pairs of subsets of 0..6 (0..5 for `v1`, `v3`, `ibm`), two-wide blocks; spans against arrays of 8 within 0..9; arrays of 0 to 29 elements against every set of up to 3 |
| `set_ops` | `MCSetOps` | reads inside both operands; the result is the set the name says; encoded sets are decoded | pairs of sets over 3 words of 2 bits; 3 partitions of 4 cells; numbers of 5 bits in registers of 2 lanes; 4 blocks of 2 numbers |
| `foreach_until` | `MCSetOps` | the comment on `foreach_until`, refuted | the same |
| `shared_scratch` | `MCSharedScratch` | that a worker reads the positions it wrote, refuted | 2 workers, blocks of 2 numbers |
| `counting` | `MCCounting` | what has been counted is what has been passed, no row or result changes while it is iterated | every undirected graph on 4 nodes, with loops on 3, every directed one on 3; 2 threads |
| `graph_load` | `MCGraphLoad` | ids and their table inverse, edges, years and node attributes those of the file, in rows transposed out rows, counts that suffice for the matrix, binary file read back | files of up to 3 lines over 3 ids, two of them equal modulo `Words` |
| `reorder` | `MCReorder` | each node numbered once, the graph the same by external ids, orders as named, the loops end | every graph of up to 3 nodes, loop-free ones of 4, paths of 5 |
| `n_clique` | `MCNClique` | slots in use never written, registers stored behind slots harmless, sets intact, cliques counted | every graph on 4 nodes, graphs on 5 with one node adjacent to all, 2 threads, cliques of 3, 4 and 5, registers of 2 elements of 2 bytes |
| `slots` | `MCNClique` | that the cliques of size n are found, refuted for large neighbourhoods | 8 nodes, elements of 4 bytes |

Why the bounds are enough. The loop: three workers race for one counter; ranges
of 0 to 4 with blocks of 1 to 3 contain the empty range, exact multiples, a
last short block, a range shorter than a block and more threads than blocks.
The search: four workers give the merge tree two rounds and an odd one; with
three nodes every combination of edges, loops and directions occurs, with four
there is a path of length three. The build: two threads and three rows with a
factor and a threshold reduced in proportion fill and replace buffers, with
rows handled by either thread; a column and a row of one node lie in different
buffers, and the selections of edges are the two that applications make, one
that tells the ends apart and one that does not. The intersections: widths of 2
and 1 in place of 4 and 8 keep the number of blocks per array (whole blocks,
and each length of tail), and the lengths of the arrays searched lie on both
sides of one, two and four strides. Bitsets of up to three words starting at
word 0, 1 or 2 overlap in no word, in one, in a whole vector and in a vector
and a tail; with `Sparsity` 1 both types of hybrid sets occur, beside results
of either. Partitions of pshort are empty, single, partial and full, and longer
and shorter than a vector. The numbers of 5 bits take from one byte of two bits
to three, and from one bit to all of a lane, split over registers or not; sets
of up to eight numbers fill registers in part or whole and leave tails. Blocks
are absent, sparse or dense on each side. Three lines contain an edge repeated,
reversed, a self-loop, and ids that collide in `edge_set`; `Words` 4 stands for
2^32. Two nodes of one level that each find a node of their own take five
nodes, hence the paths of five in `reorder`. In `n_clique` elements of two
bytes and four nodes make a common neighbourhood of two nodes fill its slot to
the last byte; with five nodes a slot is two and a half elements, so that slots
begin inside words, and a second block stores a register behind its slot, behind
the last thread's past the end of the buffer. `RATIO` 2 sends sets of two
against rows of four through the block loop. In `slots`, with the code's four
bytes and eight nodes, a neighbourhood of three elements overflows its slot.

Each module with several properties has its type invariant as one of them, or as
a conjunct of one of the others.

Fairness. `ParForRange` and `NPath` assume that a step of the caller that stays
possible is taken, and likewise for each worker: the operating system schedules
every thread and no body blocks. `SortedIntersect` is sequential: it goes on.
`Reorder` is sequential as well: its loops go on (`WF_vars(Loops)`), a new
reordering need not come. `SparseMatrixBuild`, `NClique`, `Counting`,
`GraphLoad` and `SetOps` claim no liveness; that a parallel loop ends is
`ImplementsParallelFor`, checked for `ParForRange`.

## Where the code departs from what it promises

Three runs show it. `foreach_until`: `Set.hpp:108` says that the function is
applied "until the function returns true", the bitset layout leaves only the
loop over one word (`bitset.hpp:139`), and the hybrid layout never stops, since
its `foreach_until` calls `foreach` (`hybrid.hpp:213-219`); nothing calls either
yet. `slots`:
`n_clique.cpp:64` gives a slot a byte per node of the graph, a uinteger set needs
four per element, and a set of three elements in a graph of eight nodes is
overwritten by the next depth while it is iterated. `shared_scratch`: a scratch
space is allocated for every thread (`emptyheaded.hpp:43`), but
`common::tid` (`common.hpp:75`) is set by nobody, so that all workers write
positions to the first, and one combines blocks at the positions of another.

Other places are stated as exceptions in the properties that would fail without
them, or kept out of their inputs:

* the comment at `SparseMatrix.hpp:464` says that a buffer is reallocated "to
  larger size if within 95%"; the code cuts it to the size used, above 90%, and
  starts another. It does so after a row has been written, so that a row longer
  than the reserve is written past the end: `RowsInBounds` is about graphs
  without hubs (`NoHubs`);
* the columns of a directed graph are filtered by the selection of the opposite
  edge: `IsSelectedSubgraph` states them so;
* pshort: a partition of a result with 65536 elements counts as none
  (`intersection.hpp:857`, `1080`); with a bitset, the header of a partition is
  written when nothing was found, and not otherwise (`996`), so only the count
  is right; with an array, `C[count]` is overwritten after a vector compare
  (`1135`), again only the count is right; a decoder that leaves a partition goes
  one cell too little (`pshort.hpp:181`). `PShortOperation` names each of these;
* `foreach_until` of variant calls its function again after the first element
  and goes on (`variant.hpp:154`); `foreach` of an empty bitpacked set decodes
  bytes that were not written (`bitpacked.hpp:281`);
* loaders take two ids that are equal modulo 2^32 for one when they look for
  duplicates: `EdgesKept` states which edges stay.

## Proofs

For every value of the constants, from the named assumptions only (which TLC
evaluates in the runs): any number of threads, any graph, arrays of any length.
Each theorem `Spec => []Property` comes from an inductive invariant `IInv` that
says what the property leaves unsaid. TLC finds each of them
to be an invariant of the module's run as well.

* `Parallel_proofs`, the loop. `IInv` says, beside the types: which states of the
  workers go with which phase of the caller (`Phases`), what a worker in its
  block knows of it (`Blocks`: it starts on a multiple of the block size, below
  the counter, no two workers hold the same block), and for each index how often
  the body has been entered and left in terms of the counter and of the block
  that contains it (`Counts`); `Order` places the last index of a worker below
  its current one. `ExactlyOnce` alone is not inductive, since it does not say
  that unclaimed indices have not begun. From it follow `TypeOK`, `ExactlyOnce`,
  `NoWorkerOutlivesCall` and the action property `PerThreadOrder`. `CounterBound`
  needs another invariant, `Counter`: the counter is a number of blocks, and the
  blocks beyond the range are no more than the workers that have left.
  `Refinement`, `SafeSpec => Loop!SafeSpec`: every step of the loop with threads
  is a step of `ParallelFor` or changes nothing in it. A claim is a `Take`,
  unless the block is empty; the start of the sequential loop takes the whole
  range.
* `ParallelFor_proofs`. `LoopInvariance`: an index has been handed out or not,
  is pending with at most one worker, and has been finished at most once; workers
  are idle before the last setup and after the first teardown. The modules composed
  with `ParallelFor` instantiate this module and get the loop's part of their own
  invariants from its step lemma.
* `SparseMatrixBuild_proofs`. That rows are disjoint says nothing of where the
  next row goes. `IInv` adds that the rows of the buffer in use lie below the
  thread's offset, those of earlier buffers below the size they were cut to
  (`Layout`), that a buffer is used up to the threshold at most when a body begins
  (`Reserve`), what each row
  holds (`Data`), which bodies are at which statement (`Stages`), and the sums
  over threads (`Totals`). Proved: `TypeOK`, `RowsDisjoint`, `RowsInBounds`,
  `MatrixComplete`, `IsSelectedSubgraph`, `CounterIsEstimate`, every invariant of
  the run.
* `Parallel_proofs`, the search. `NothingLost` and `OnlyNeighborsFound` with the
  types and the bounds of the merge tree's indices (`PathInv`) are inductive for
  every number of workers:
  what was found by the frontier's expansion is in the bitsets not yet merged.
  `SafePathSpec => Sequential!SafeSpec` follows: the round ends with the frontier's
  neighbours in `visited`. `Levels` adds what has been reached after
  `path_length` rounds; with the recursion that defines distances it is
  inductive, and gives `FrontierIsLevel` and `PathLengthIsDistance`.
* `MutableGraph_proofs`, loading. That the rows hold the edges does not say how
  often, nor what the loader knows of lines it has passed over, so that no
  property is inductive. `LoadInv` says for any set of years how often a node
  stands in a row with one of them beside it: as often as a line that counts
  leads there (`Counts`, `Members` where there are no years; `Named`: ids and
  their table are inverses; `SeenInv`: the keys in `edge_set` are those of the
  lines read). A line adds one place at the end of each row it belongs to
  (`ReadEdge` enters at most two nodes, then the edge). A sort with any outcome is
  a permutation of the places and erasing duplicates keeps the members
  (`Recleaned`), so a row holds what it held. `CountsInv` adds the rows measured so
  far, their order and what `num_edges` counts. `BinaryInv`: the file is the
  concatenation of the nodes' records, the cursor stands at the end of those that
  have been read, and the copy has their rows; that the next row is found at the
  cursor rests on where a concatenation places its parts (`FlattenPlaces` and the
  lemmas before it, by induction over the number of records). Hence `IdsInverse`,
  `EdgesKept`, `Transposed`, `AttributesFollow`, `ReadyToBuild` and `RoundTrip`, for
  every file of edges and nodes and every `Words`. TLC checked `LoadInv` with the
  numbers cut off at 9, since it ranges over sets of numbers.
* `MutableGraph_proofs`, reordering. What is numbered is what has been visited, without
  repetition; in `reorder_bfs` the level is the end of what is numbered and the
  neighbours of what has been expanded have been visited (`BfsState`); in
  `reorder_strong_run` each head has the largest neighbourhood of what was left
  (`StrongState`). A numbering without repetition that numbers every node is a
  permutation, and `Renumbered` is the lemma that `ReassignIds` applies it to rows
  and `id_map` alike. Hence `SameGraph`, `NumberedOnce`, `NumberingOrder`, and
  `NeverThrows`: both loops number every node of a graph that can be loaded,
  connected or not, and never look for a start past the end of the array.
* `Applications_proofs`, counting. What the buffers hold (`Shapes`), that a body
  reads in them what it decoded or wrote (`Bodies`), and that each counter is the
  sum of what its bodies have passed (`Counts`). Hence `CountedSoFar`,
  `RowsIntact`, and `CountIsNumberOfFigures`: the number printed is that of the
  figures in the graph. The intersection is one step here; that the real one
  computes what the step does is proved in `SortedIntersect_proofs`.
* `Applications_proofs`, `n_clique`. `SetsIntact` alone does not say why a set
  that is iterated is not written: `CliqueInv` adds how the calls of a stack
  follow from each other (`Nested`: each set is what the nodes chosen have in
  common, and each node is the element that the set before it passed last), and
  that only the slots, and a register behind them, are written. The argument for
  the stores behind a slot: a set that is iterated lies before the slot written,
  or at least three slots behind it (`NumbersApart`), and a result with the rest
  of its last register takes no more than three slots when `Room` holds
  (`ResultFits`, `SpillFits`), so that the sets of smaller depths and of other
  threads are kept (`SetKept`). `Merged` is the invariant of one
  intersection under the conditions that `MergeSetting` names, kept by a round of
  the block loop (`RoundMerges`) and a step of the scalar merge (`ScanMerges`):
  the result so far is exactly what the parts passed of the two sets have in
  common, even though a register covers more than that and the sets are read
  from the same buffer.
  For the count, `Searched` says which cliques a stack has passed: those
  whose largest nodes are the nodes chosen down to some depth and an element
  passed there. Every step of a search passes either nothing new (a push and a
  return: `PushPasses`, `ReturnPasses`) or, at the last depth, the cliques that
  the elements of the result complete, none of which another thread has passed
  or will pass (`LastPasses`, `CompletedAreNew`). Hence `OnlySlotsWritten`,
  `SetsIntact` and `CliquesCounted`, for any number of nodes and threads, sizes
  of cliques from 3, sizes of elements and registers, and for the graphs for
  which `Room` holds, not for every graph: the run `slots` shows what happens
  without it. `RoomOfCode` is a count: in a graph so small that a register
  exceeds two slots, two adjacent nodes with a block of neighbours each would
  have too many in common.
* `SortedIntersect_proofs`. `IInv` says where each function stands and what it
  knows. The merges stand on whole blocks, and what has been passed of `freq` is
  below the maximum of the next block of `rare` (`MergeState`). A search knows
  that what it has passed of `freq` is smaller than the next element of `rare`
  (`Passed`), which strides end below the element and which do not
  (`SearchState`), and, for `v1`, on which side the span ends (`SpanState`).
  `ExactSoFar` alone would let a search stand past the place it is looking for.
  Proved: `StaysInBounds`, with what it allows `v1`, and `ExactSoFar`, for all
  four functions, any `VEC`,
  `QUARTER`, `RATIO` and `HALF`.
* `SetOps_proofs`, bitsets and hybrid sets. `IsOperation` speaks of the result
  at the end only. `BitsetInv` says what each operation has put into its result
  so far: the shared words combined (`IntersectInv`, `UnionInv`), the words of a
  difference decoded in their order (`DifferenceInv`), the elements probed or
  added (`ProbeInv`, `AddInv`), the words visited (`UntilInv`); `HybridInv`
  says what a hybrid call returns at once, and `LayoutInv` how the result of one
  that goes on will be read. `Holds` relates a bitset to the set it
  stands for; `BuildIsSpan`: over any memory, a build leaves no bit it did not
  set. What two bitsets share lies in the words both have, wherever they start
  (`SharedWords`, `SharedBits`), and decoding words in order gives the one
  increasing array of the set (`ListsFlattened`, `ListsUnique`). Hence
  `ReadsSharedWords` and `IsOperation`, for every width of a word and of a vector
  and every number of words.
* `SetOps_proofs`, prefix shorts. The layout is a concatenation of partitions,
  written and read by folds; the proof restates it as positions. `Stands(S, D, X, n)`:
  `D` is the layout of `S` and position `n` is where the layout of `X` ends, a
  part of `S` whose prefixes are below all others. A position that stands before
  the end is at the header of the next partition, reads that partition and no
  other cell, and stands again when it is skipped (`StandsNext`, `StandsOn`).
  `PShortInv` then says for each operation that it stands in its operands and what
  the parts passed have given: the elements visited, the union so far, the
  common elements of two sets (`MergeInv`: what is left behind in one operand
  has been met in the other). The intersection with an array also stands inside
  a partition: on a multiple of `Shorts`, and what is found is what the array
  passed, the partitions passed and the blocks begun have in common
  (`ArrayInv`). Hence `PShortOperation`, for every set, every `Cell` that a word
  divides (65536 is a multiple of 64 and of 256) and every `Shorts`, with the
  exceptions the property names. TLC found `PShortInv` to be an invariant, with
  the part passed computed from the position in place of the quantifier.
* `SetOps_proofs`, all layouts. `SetsInv`: the operation called belongs to one
  module, whose invariant holds, and a step of one module is not a step of
  another (`CallsDiffer`). The theorems about bitsets and prefix shorts are thus
  about `Spec` of `SetOps`, which the run checks; `BitsetInvariance` and
  `PShortInvariance` are the same for one module by itself.
* `FiniteFacts`. The library's induction theorems take an operator as a
  parameter and the installed provers cannot instantiate them. Where a proof
  needs induction, over numbers or finite subsets, the statement is a set of
  numbers and the lemma is proved from a least element (`NatSetInduction`,
  `SubsetInduction`). The recursive functions of the models (distances, sums) are
  shown to satisfy their equations the same way (`Iteration`, `Recursion`,
  `FlattenStep` for a concatenation). Then
  facts about ranks in a set of numbers, for arrays that list a set in
  increasing order, and about sums changed at one place.

Only model-checked:

* what needs fairness: `Terminates` of `SortedIntersect`, `ReorderingEnds`, the
  liveness half of `ImplementsParallelFor` and `ImplementsBreadthFirst`;
* `PackedRoundTrip` and `BlockIntersection`. `PackedSets` and `BlockSets` encode
  and decode by folds that carry a state from one number to the next, so that
  what they compute for every set is an induction over data.

## Not modelled

* Of the layouts: `kunle.hpp`, included nowhere; hybrid sets with bitset_new in
  place of bitset, and new_type with pshort (compile-time variants that no build
  file chooses); the variants with `WRITE_VECTOR` 0, which only count;
  `foreach_until` and `par_foreach` of bitset_new and new_type, which read blocks
  as a bitset with a header they do not have and which nothing calls;
  `par_foreach` of hybrid, which does not compile if it is used; `repackage.hpp`,
  whose functions nothing calls, and of which `repackage_as_bitset` keeps the
  wrong index (line 52). Densities: no result depends on them but the choice made
  by `get_type`, which is modelled.
* Of the matrix: `clone_on_node` and `parallel_constructor`, declared only;
  `print_data`; `row_ranges`, read by an experiment only, as a hint; the
  destructor, which deletes rows that lie inside shared buffers and which no
  program reaches. `realloc` of memory from `new[]` may move a block to which
  rows already point; whether it does when it shrinks the block is up to the
  allocator.
* Of the graph: `writeDirectedToLigra`, the destructor, how text is split.
* Of the applications: two that call functions which no longer exist
  (`undirected_tadpole_counting`, `undirected_fish_counting`); `Table` and the
  tuples written with `WRITE_TABLE`; in `NClique` the layouts other than uinteger
  and the decode buffers of `COMPRESSION`.
* The parser, clocks, hardware counters, tools, experiments and the vendored
  test framework under `lib/`, which is most of the repository's lines: none has
  a state that the engine depends on.

## Plan

Modelled and checked: every component above that has a state. Proved: the loop,
the search, the matrix, the graph's loaders and reorderings, the counting
applications, the clique search, the intersections of sorted arrays and the
operations on bitsets, hybrid sets and prefix shorts. What is left is the packed
layouts and the blocks. An encoding has an invariant of the kind of `PShortInv`
only once its folds are restated as functions on positions; for bitpacked that
needs the position of a number inside a register as a function of its index.
