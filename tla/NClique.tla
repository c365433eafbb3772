------------------------------- MODULE NClique -------------------------------
(***************************************************************************)
(* The application n_clique on rows stored in the uinteger layout: for     *)
(* every node a depth-first search over common neighbourhoods, in a        *)
(* parallel loop.  The neighbourhood common to the nodes chosen so far is  *)
(* computed into a slot of common_buffer, one per thread and depth, and is *)
(* iterated there while the deeper slots are written.  A slot has as many  *)
(* bytes as the graph has nodes, an element takes sizeof(uint32_t), and    *)
(* the intersection stores whole blocks however few of their elements      *)
(* match, so that it may write behind a slot.                              *)
(*                                                                         *)
(* The buffer is addressed by bytes, and a byte is written as the j-th of  *)
(* an element.  The loop is ParallelFor, each step of this module is a     *)
(* step of the loop or of a body.  Tables of tuples, written only with     *)
(* WRITE_TABLE, are left out.                                              *)
(***************************************************************************)
EXTENDS NodeLoop

CONSTANTS Graphs,           \* the graphs considered: sets of edges {u, v} over each
                            \* number of nodes, as pairs <<number, edges>>
          QueryDepths,      \* the sizes of cliques considered, n of the command line
          SizeOf,           \* sizeof(uint32_t), 4 in the code
          VEC,              \* elements of a vector register, 4 in the code
          RATIO             \* of the lengths from which on it gallops, 32 in the code

ASSUME CliqueAssumption ==
  /\ \A g \in Graphs : g[1] \in 1 .. MaxNodes
  /\ QueryDepths \subseteq Nat \ 0 .. 2
  /\ SizeOf \in Nat \ {0}
  /\ VEC \in Nat \ {0}
  /\ RATIO \in Nat

VARIABLES
  edges,                      \* of the input graph
  query_depth,
  common_buffer,              \* byte -> <<element, number of the byte in it>>
  stack,                      \* per thread, the calls of its search
  found,                      \* per thread, the cliques it has counted
  num_cliques

inputVars == <<edges, query_depth>>
cliqueVars == <<loopVars, inputVars, common_buffer, stack, found, num_cliques>>

num_nodes == to
NoElement == -1
Unwritten == <<NoElement, 0>>

\* The matrix is built from the edges to smaller nodes.
Row(u) == {v \in 0 .. u - 1 : {u, v} \in edges}

\* Fault of Slot: the slots of the threads coincide.
Slot_Shared(k, depth) == depth * num_nodes

\* The first byte of the slot of a thread for a depth.
Slot(k, depth) == (k * query_depth + depth) * num_nodes

\* The bytes of the buffer, and those past its end that a set could reach.
BufferEnd == numThreads * query_depth * num_nodes
Byte == 0 .. BufferEnd + SizeOf * (num_nodes + VEC)

CliqueInit ==
  /\ Loop!Init
  /\ from = 0
  /\ \E g \in Graphs : to = g[1] /\ edges = g[2]
  /\ workers = Min({numThreads, num_nodes})
  /\ query_depth \in QueryDepths
  /\ common_buffer = [b \in Byte |-> Unwritten]
  /\ stack = [k \in Tid |-> << >>]
  /\ found = [k \in Tid |-> 0]
  /\ num_cliques = 0

-----------------------------------------------------------------------------
CliqueSetUp ==
  /\ Loop!SetUp
  /\ found' = [found EXCEPT ![prepared] = 0]
  /\ UNCHANGED <<inputVars, common_buffer, stack, num_cliques>>

CliqueTake(k, u) ==
  /\ Loop!Take(k, u)
  /\ UNCHANGED <<inputVars, common_buffer, stack, found, num_cliques>>

\* A set being iterated: the node it was entered for, its number of elements, the
\* next position.
Call(u, n) == [node |-> u, cardinality |-> n, pos |-> 0]

\* The body iterates the row of its node.
CliqueBegin(k, u) ==
  /\ Loop!Begin(k, u)
  /\ stack' = [stack EXCEPT ![k] = <<Call(u, Cardinality(Row(u)))>>]
  /\ UNCHANGED <<inputVars, common_buffer, found, num_cliques>>

Depth(k) == Len(stack[k])
Top(k) == stack[k][Depth(k)]

\* The element read at a byte.  Where nothing was written or a part was written over
\* there is none: the value of such a word is not followed.
WordAt(buffer, b) ==
  LET x == buffer[b][1]
  IN  IF x \in Node /\ \A j \in 0 .. SizeOf - 1 : buffer[b + j] = <<x, j>>
      THEN x ELSE NoElement

\* Elements are stored from a byte on.
Store(buffer, first, elements) ==
  [b \in Byte |->
     IF first <= b /\ b < first + SizeOf * Len(elements)
     THEN <<elements[((b - first) \div SizeOf) + 1], (b - first) % SizeOf>>
     ELSE buffer[b]]

\* An element of the set of a thread at a depth, the first set being a row of the
\* matrix, the others being read from the given buffer.
Element(k, depth, p, buffer) ==
  IF depth = 1 THEN Increasing(Row(stack[k][1].node))[p + 1]
  ELSE WordAt(buffer, Slot(k, depth) + SizeOf * p)

\* Fault of ResultSlot: the result goes to the slot of the set that is read.
ResultSlot_InPlace(k) == Slot(k, Depth(k))

ResultSlot(k) == Slot(k, Depth(k) + 1)

\* A register with the elements of the given lanes in front; the lanes behind them
\* keep their elements.
Shuffle(register, lanes) ==
  [q \in 1 .. VEC |-> IF q <= Cardinality(lanes) THEN register[Increasing(lanes)[q]]
                                                 ELSE register[q]]

\* Sets of very different sizes are intersected by galloping, which stores matches
\* one by one.
Gallops(n, m) == Max({n, m}) \div Max({1, Min({n, m})}) > RATIO

\* Both still have a whole block.
BlocksLeft(acc, n, m) == acc.i < (n \div VEC) * VEC /\ acc.j < (m \div VEC) * VEC

\* The blocks of the set at the top of the stack and of the row of u that come next.
SetBlock(k, acc) ==
  [q \in 1 .. VEC |-> Element(k, Depth(k), acc.i + q - 1, acc.buffer)]
RowBlock(u, acc) == [q \in 1 .. VEC |-> Increasing(Row(u))[acc.j + q]]

\* The lanes of a whose elements are in b.
Matching(a, b) == {q \in 1 .. VEC : \E t \in 1 .. VEC : a[q] = b[t]}

\* Two blocks are compared.  The register of the shorter operand is stored, whatever
\* matched, and the block with the smaller last element is passed, or both.
Round(k, u, acc) ==
  LET inSet == SetBlock(k, acc)
      inRow == RowBlock(u, acc)
      rowIsRare == Top(k).cardinality > Cardinality(Row(u))
      rare == IF rowIsRare THEN inRow ELSE inSet
      freq == IF rowIsRare THEN inSet ELSE inRow
      lanes == Matching(rare, freq)
  IN  [buffer |-> Store(acc.buffer, ResultSlot(k) + SizeOf * acc.count,
                        Shuffle(rare, lanes)),
       count |-> acc.count + Cardinality(lanes),
       i |-> IF inSet[VEC] <= inRow[VEC] THEN acc.i + VEC ELSE acc.i,
       j |-> IF inSet[VEC] >= inRow[VEC] THEN acc.j + VEC ELSE acc.j,
       high |-> acc.high]

\* The block loop.
Blocks(k, u) ==
  LET n == Top(k).cardinality
      m == Cardinality(Row(u))
      round[r \in 0 .. n + m] ==
        IF r = 0
        THEN [buffer |-> common_buffer, count |-> 0, i |-> 0, j |-> 0, high |-> -1]
        ELSE IF BlocksLeft(round[r - 1], n, m) /\ ~ Gallops(n, m)
             THEN Round(k, u, round[r - 1]) ELSE round[r - 1]
  IN  round[n + m]

\* One element of the set is merged with what the blocks have left of the row: it is
\* written if it is there and larger than those before it.
Scan(k, u, acc, p) ==
  LET row == Increasing(Row(u))
      x == Element(k, Depth(k), p, acc.buffer)
      high == Max({x, acc.high})
  IN  IF x > acc.high /\ \E t \in acc.j + 1 .. Len(row) : x = row[t]
      THEN [acc EXCEPT !.buffer = Store(@, ResultSlot(k) + SizeOf * acc.count, <<x>>),
                       !.count = @ + 1, !.high = high]
      ELSE [acc EXCEPT !.high = high]

\* The block loop and the scalar merge of what is left.  The elements are read while
\* the result is written to the next slot.
Intersection(k, u) ==
  LET n == Top(k).cardinality
      scan[p \in 0 .. n] == IF p <= Blocks(k, u).i THEN Blocks(k, u)
                            ELSE Scan(k, u, scan[p - 1], p - 1)
  IN  scan[n]

\* The set at the top can be read from the given buffer.
Legible(k, buffer) ==
  \A p \in 0 .. Top(k).cardinality - 1 : Element(k, Depth(k), p, buffer) # NoElement

AtLastDepth(k) == Depth(k) + 2 = query_depth

\* One call of apply_function, for the next element of the set at the top: at the
\* last depth the elements of the result are counted, before it they are iterated.
Search(k) ==
  LET u == Element(k, Depth(k), Top(k).pos, common_buffer)
      result == Intersection(k, u)
      advanced == [stack[k] EXCEPT ![Depth(k)].pos = @ + 1]
  IN  /\ Depth(k) > 0
      /\ Top(k).pos < Top(k).cardinality
      /\ Legible(k, common_buffer) /\ Legible(k, result.buffer)
      /\ common_buffer' = result.buffer
      /\ IF AtLastDepth(k)
         THEN /\ found' = [found EXCEPT ![k] = @ + result.count]
              /\ stack' = [stack EXCEPT ![k] = advanced]
         ELSE /\ stack' = [stack EXCEPT ![k] = Append(advanced, Call(u, result.count))]
              /\ UNCHANGED found
      /\ UNCHANGED <<loopVars, inputVars, num_cliques>>

\* apply_function returns from an iteration.
Return(k) ==
  /\ Depth(k) > 1
  /\ Top(k).pos = Top(k).cardinality
  /\ stack' = [stack EXCEPT ![k] = Front(@)]
  /\ UNCHANGED <<loopVars, inputVars, common_buffer, found, num_cliques>>

CliqueEnd(k, u) ==
  /\ Depth(k) = 1
  /\ Top(k).pos = Top(k).cardinality
  /\ Loop!End(k, u)
  /\ stack' = [stack EXCEPT ![k] = << >>]
  /\ UNCHANGED <<inputVars, common_buffer, found, num_cliques>>

\* Fault of CliqueTearDown: the total is overwritten.
CliqueTearDown_Overwrites ==
  /\ Loop!TearDown
  /\ num_cliques' = found[released]
  /\ UNCHANGED <<inputVars, common_buffer, stack, found>>

\* The teardown callback adds the thread's count to the total.
CliqueTearDown ==
  /\ Loop!TearDown
  /\ num_cliques' = num_cliques + found[released]
  /\ UNCHANGED <<inputVars, common_buffer, stack, found>>

CliqueTerminated == released = numThreads /\ UNCHANGED cliqueVars

CliqueNext ==
  \/ CliqueSetUp
  \/ \E k \in Tid, u \in AllNodes :
       CliqueTake(k, u) \/ CliqueBegin(k, u) \/ CliqueEnd(k, u)
  \/ \E k \in Tid : Search(k) \/ Return(k)
  \/ CliqueTearDown
  \/ CliqueTerminated

CliqueSpec == CliqueInit /\ [][CliqueNext]_cliqueVars
-----------------------------------------------------------------------------
\* The neighbourhood common to a set of nodes.
Common(S) == {v \in Node : \A u \in S : v \in Row(u)}

\* The room a slot offers suffices: no two adjacent nodes have more neighbours below
\* them in common than fit in a slot.  And a register stored behind the last slot of
\* a thread ends in the slots 0 and 1 of the next, which hold no set; with the
\* constants of the code this follows.
Room ==
  \A u \in Node : \A v \in Row(u) :
    /\ SizeOf * Cardinality(Common({u, v})) <= num_nodes
    /\ \/ SizeOf * VEC <= 2 * num_nodes
       \/ Cardinality(Row(u)) < VEC \/ Cardinality(Row(v)) < VEC

CliqueTypeOK ==
  /\ query_depth \in QueryDepths
  /\ common_buffer \in [Byte -> (Node \cup {NoElement}) \X (0 .. SizeOf - 1)]
  /\ DOMAIN stack = Tid
  /\ \A k \in Tid :
       /\ Depth(k) <= query_depth - 2
       /\ \A d \in 1 .. Depth(k) : /\ stack[k][d].node \in Node
                                   /\ stack[k][d].cardinality \in Nat
                                   /\ stack[k][d].pos \in 0 .. stack[k][d].cardinality
  /\ found \in [Tid -> Nat]
  /\ num_cliques \in Nat

\* While a set is iterated it is the neighbourhood common to the nodes chosen down
\* to it, whatever has been written to deeper slots, behind them, or by other
\* threads since.
SetsIntact ==
  Room =>
    \A k \in Tid : \A d \in 1 .. Depth(k) :
      LET common == Increasing(Common({stack[k][c].node : c \in 1 .. d}))
      IN  /\ stack[k][d].cardinality = Len(common)
          /\ \A p \in 0 .. Len(common) - 1 :
               Element(k, d, p, common_buffer) = common[p + 1]

\* The variables have their types, and nothing is written outside the slots from 2
\* on but within a register behind one of them; behind the last slot of the last
\* thread that is past the end of the buffer.
OnlySlotsWritten ==
  /\ CliqueTypeOK
  /\ Room =>
       \A b \in Byte :
         common_buffer[b] # Unwritten =>
           \E k \in 0 .. numThreads - 1, d \in 2 .. query_depth - 1 :
             Slot(k, d) <= b /\ b < Slot(k, d + 1) + SizeOf * VEC

Cliques ==
  {S \in kSubset(query_depth, Node) : \A u, v \in S : u < v => {u, v} \in edges}

\* The number printed is the number of cliques of the given size.
CliquesCounted == Room /\ released = numThreads => num_cliques = Cardinality(Cliques)

\* The usage of n_clique says that n is the size of the cliques to find, for every
\* graph.
FindsCliquesOfSizeN == released = numThreads => num_cliques = Cardinality(Cliques)
==============================================================================
