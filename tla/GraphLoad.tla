------------------------------ MODULE GraphLoad ------------------------------
(***************************************************************************)
(* The four loaders of MutableGraph that read a text file, with or without *)
(* attributes, undirected or directed, and the binary file that a loaded   *)
(* graph is written to and read from.                                      *)
(*                                                                         *)
(* A line of the text file is <<src, dst, year>>; parsing it is left out.  *)
(* Of the loops over the rows that come after the lines, those over the out*)
(* and the in rows are taken together, row by row.                         *)
(***************************************************************************)
EXTENDS SortedSets

CONSTANTS Files,          \* the edge files considered
          NodeFiles,      \* the files of node attributes considered
          Words           \* how many ids a uint32_t distinguishes, 2^32 in the code

Loaders == [symmetric : BOOLEAN, attributes : BOOLEAN]

ASSUME LoadAssumption ==
  /\ \A f \in Files : f \in Seq(Nat \X Nat \X Nat)
  /\ \A f \in NodeFiles : f \in Seq(Nat \X Nat)
  /\ Words \in Nat \ {0}

VARIABLES
  loader, file, node_file,     \* what is loaded, and how
  phase,                       \* "edges", "nodes", "rows", "loaded", "written", "copied"
  pos,                         \* lines read, or rows done
  edge_set,                    \* of the undirected loader with attributes
  graph,                       \* the graph so far
  num_edges, max_nbrhood_size,
  binary, cursor,              \* the binary file and how much of it is read
  copy, copy_num_edges, copy_max_nbrhood_size    \* the graph read from it

inputVars == <<loader, file, node_file>>
countVars == <<num_edges, max_nbrhood_size>>
binaryVars == <<binary, cursor, copy, copy_num_edges, copy_max_nbrhood_size>>
loadVars == <<inputVars, phase, pos, edge_set, graph, countVars, binaryVars>>

Size(g) == Len(g.id_map)
Larger(a, b) == IF a < b THEN b ELSE a

\* A map or a vector in which y stands at x.
Entered(f, x, y) == [z \in DOMAIN f \cup {x} |-> IF z = x THEN y ELSE f[z]]

\* The vectors of a graph: one row per node, attributes beside the rows.  An
\* undirected graph has its rows in out; in is the same vector in the code.
EmptyGraph ==
  [extern_ids |-> << >>, id_map |-> << >>, node_attr |-> << >>,
   out |-> << >>, in |-> << >>, out_attr |-> << >>, in_attr |-> << >>]

LoadInit ==
  /\ loader \in Loaders
  /\ file \in Files
  /\ IF loader.attributes
     THEN node_file \in NodeFiles
     ELSE node_file = << >> /\ \A k \in 1 .. Len(file) : file[k][3] = 0
  /\ phase = "edges"
  /\ pos = 0
  /\ edge_set = {}
  /\ graph = EmptyGraph
  /\ num_edges = 0
  /\ max_nbrhood_size = 0
  /\ binary = << >>
  /\ cursor = 0
  /\ copy = EmptyGraph
  /\ copy_num_edges = 0
  /\ copy_max_nbrhood_size = 0

-----------------------------------------------------------------------------
\* Fault of AddNode: an end that is known already is numbered again.
AddNode_Again(g, id) ==
  [g EXCEPT !.extern_ids = Entered(@, id, Size(g)), !.id_map = Append(@, id),
            !.out = Entered(@, Size(g), << >>), !.in = Entered(@, Size(g), << >>),
            !.out_attr = Entered(@, Size(g), << >>),
            !.in_attr = Entered(@, Size(g), << >>)]

\* A new end of an edge gets the next internal id and empty rows.
AddNode(g, id) ==
  IF id \in DOMAIN g.extern_ids THEN g
  ELSE [g EXCEPT !.extern_ids = Entered(@, id, Size(g)), !.id_map = Append(@, id),
                 !.out = Entered(@, Size(g), << >>), !.in = Entered(@, Size(g), << >>),
                 !.out_attr = Entered(@, Size(g), << >>),
                 !.in_attr = Entered(@, Size(g), << >>)]

\* An entry at the end of a row, and of each of two rows of one vector, which may be
\* the same row.
Push(rows, u, x) == [rows EXCEPT ![u] = Append(@, x)]
PushBoth(rows, u, x, v, y) == Push(Push(rows, u, x), v, y)

\* Faults of PushEdge: the year, or the edge itself, is entered at the source only.
PushEdge_YearOnce(g, u, v, year) ==
  IF loader.symmetric
  THEN [g EXCEPT !.out = PushBoth(@, u, v, v, u), !.out_attr = PushBoth(@, u, year, v, 0)]
  ELSE [g EXCEPT !.out = Push(@, u, v), !.in = Push(@, v, u),
                 !.out_attr = Push(@, u, year), !.in_attr = Push(@, v, year)]

PushEdge_OneWay(g, u, v, year) ==
  [g EXCEPT !.out = Push(@, u, v), !.out_attr = Push(@, u, year)]

\* The edge is entered at both ends, its year beside it.
PushEdge(g, u, v, year) ==
  LET edge == IF loader.symmetric
              THEN [g EXCEPT !.out = PushBoth(@, u, v, v, u)]
              ELSE [g EXCEPT !.out = Push(@, u, v), !.in = Push(@, v, u)]
  IN  IF ~loader.attributes THEN edge
      ELSE IF loader.symmetric
           THEN [edge EXCEPT !.out_attr = PushBoth(@, u, year, v, year)]
           ELSE [edge EXCEPT !.out_attr = Push(@, u, year), !.in_attr = Push(@, v, year)]

\* What an edge leaves in edge_set, a set of pairs of uint32_t.
Key(src, dst) == {<<src % Words, dst % Words>>, <<dst % Words, src % Words>>}

\* One line of the edge file.  Only the undirected loader with attributes passes
\* over edges it has seen; only the directed ones count lines.
ReadEdge ==
  LET src == file[pos + 1][1]
      dst == file[pos + 1][2]
      named == AddNode(AddNode(graph, src), dst)
      dedupe == loader.symmetric /\ loader.attributes
      seen == dedupe /\ <<src % Words, dst % Words>> \in edge_set
  IN  /\ phase = "edges"
      /\ pos < Len(file)
      /\ pos' = pos + 1
      /\ edge_set' = IF dedupe /\ ~seen THEN edge_set \cup Key(src, dst) ELSE edge_set
      /\ graph' = IF seen THEN graph
                  ELSE PushEdge(named, named.extern_ids[src], named.extern_ids[dst],
                                file[pos + 1][3])
      /\ num_edges' = IF loader.symmetric THEN num_edges ELSE num_edges + 1
      /\ UNCHANGED <<inputVars, phase, max_nbrhood_size, binaryVars>>

EdgesRead ==
  /\ phase = "edges"
  /\ pos = Len(file)
  /\ pos' = 0
  /\ phase' = IF loader.attributes THEN "nodes" ELSE "rows"
  /\ graph' = [graph EXCEPT !.node_attr =
       IF loader.attributes THEN [u \in 0 .. Size(graph) - 1 |-> 0] ELSE << >>]
  /\ UNCHANGED <<inputVars, edge_set, countVars, binaryVars>>

\* One line of the node file; nodes without an edge are passed over.
ReadNodeAttribute ==
  /\ phase = "nodes"
  /\ pos < Len(node_file)
  /\ pos' = pos + 1
  /\ graph' = IF node_file[pos + 1][1] \in DOMAIN graph.extern_ids
              THEN [graph EXCEPT !.node_attr[graph.extern_ids[node_file[pos + 1][1]]] =
                      node_file[pos + 1][2]]
              ELSE graph
  /\ UNCHANGED <<inputVars, phase, edge_set, countVars, binaryVars>>

NodesRead ==
  /\ phase = "nodes"
  /\ pos = Len(node_file)
  /\ pos' = 0
  /\ phase' = "rows"
  /\ UNCHANGED <<inputVars, edge_set, graph, countVars, binaryVars>>

-----------------------------------------------------------------------------
\* The permutations std::sort may apply to a row with OrderByID, which looks at the
\* ids only; it is not stable.
SortOrders(row) ==
  {p \in [1 .. Len(row) -> 1 .. Len(row)] :
     /\ \A i, j \in 1 .. Len(row) : i # j => p[i] # p[j]
     /\ \A i, j \in 1 .. Len(row) : i < j => row[p[i]] <= row[p[j]]}

Permuted(s, p) == [k \in 1 .. Len(s) |-> s[p[k]]]

\* Fault of CleanAttributeRows: the attributes stay where they are.
CleanAttributeRows_IdsOnly(i) ==
  \E p \in SortOrders(graph.out[i]), q \in SortOrders(graph.in[i]) :
    graph' = [graph EXCEPT !.out[i] = Permuted(@, p), !.in[i] = Permuted(@, q)]

\* Rows are sorted together with their attributes.  Duplicates stay.
CleanAttributeRows(i) ==
  \E p \in SortOrders(graph.out[i]), q \in SortOrders(graph.in[i]) :
    graph' = [graph EXCEPT !.out[i] = Permuted(@, p), !.out_attr[i] = Permuted(@, p),
                           !.in[i] = Permuted(@, q), !.in_attr[i] = Permuted(@, q)]

\* Rows without attributes are sorted and their duplicates erased.
CleanPlainRows(i) ==
  graph' = [graph EXCEPT !.out[i] = Increasing(ToSet(@)),
                         !.in[i] = Increasing(ToSet(@))]

\* Fault of Measure: of a directed graph, only the out rows are measured.
Measure_OutOnly(i) == Larger(max_nbrhood_size, Len(graph.out[i]))

\* The rows are measured before duplicates are erased.
Measure(i) == Larger(max_nbrhood_size, Larger(Len(graph.out[i]), Len(graph.in[i])))

CleanRow ==
  /\ phase = "rows"
  /\ pos < Size(graph)
  /\ max_nbrhood_size' = Measure(pos)
  /\ IF loader.attributes THEN CleanAttributeRows(pos) ELSE CleanPlainRows(pos)
  /\ num_edges' = IF loader.symmetric THEN num_edges + Len(graph'.out[pos]) ELSE num_edges
  /\ pos' = pos + 1
  /\ UNCHANGED <<inputVars, phase, edge_set, binaryVars>>

Loaded ==
  /\ phase = "rows"
  /\ pos = Size(graph)
  /\ phase' = "loaded"
  /\ UNCHANGED <<inputVars, pos, edge_set, graph, countVars, binaryVars>>

-----------------------------------------------------------------------------
Counted(row) == <<Len(row)>> \o row

\* A node in the binary file.
NodeRecord(u) ==
  <<graph.id_map[u + 1]>> \o Counted(graph.out[u])
    \o (IF loader.symmetric THEN << >> ELSE Counted(graph.in[u]))

\* writeUndirectedToBinary, writeDirectedToBinary: attributes are not written.
WriteBinary ==
  /\ phase = "loaded"
  /\ binary' = <<Size(graph)>> \o
       FlattenSeq([k \in 1 .. Size(graph) |-> NodeRecord(k - 1)])
  /\ cursor' = 1
  /\ phase' = "written"
  /\ UNCHANGED <<inputVars, pos, edge_set, graph, countVars, copy, copy_num_edges,
                 copy_max_nbrhood_size>>

\* Fault of RowAt: the count is taken for the first element.
RowAt_WithCount(at) == SubSeq(binary, at + 1, at + binary[at + 1])

\* The counted row that starts at a position of the file.
RowAt(at) == SubSeq(binary, at + 2, at + 1 + binary[at + 1])

\* One node of undirectedFromBinary or directedFromBinary.
ReadNode ==
  LET u == Size(copy)
      row == RowAt(cursor + 1)
      col == IF loader.symmetric THEN << >> ELSE RowAt(cursor + 2 + Len(row))
  IN  /\ phase = "written"
      /\ u < binary[1]
      /\ copy' = [copy EXCEPT !.id_map = Append(@, binary[cursor + 1]),
                              !.out = Entered(@, u, row), !.in = Entered(@, u, col)]
      /\ cursor' = cursor + 2 + Len(row) + (IF loader.symmetric THEN 0 ELSE 1 + Len(col))
      /\ copy_num_edges' = copy_num_edges + Len(row) + Len(col)
      /\ copy_max_nbrhood_size' =
           Larger(copy_max_nbrhood_size, Larger(Len(row), Len(col)))
      /\ UNCHANGED <<inputVars, phase, pos, edge_set, graph, countVars, binary>>

BinaryRead ==
  /\ phase = "written"
  /\ Size(copy) = binary[1]
  /\ phase' = "copied"
  /\ UNCHANGED <<inputVars, pos, edge_set, graph, countVars, binaryVars>>

Terminated == phase = "copied" /\ UNCHANGED loadVars

LoadNext ==
  \/ ReadEdge \/ EdgesRead \/ ReadNodeAttribute \/ NodesRead
  \/ CleanRow \/ Loaded
  \/ WriteBinary \/ ReadNode \/ BinaryRead
  \/ Terminated

LoadSpec == LoadInit /\ [][LoadNext]_loadVars
-----------------------------------------------------------------------------
Nodes == 0 .. Size(graph) - 1
In == IF loader.symmetric THEN graph.out ELSE graph.in
InAttr == IF loader.symmetric THEN graph.out_attr ELSE graph.in_attr

\* The edge file is read to its end.
Complete == phase \in {"loaded", "written", "copied"}

\* How often node v stands in a row, with an attribute in the row beside it.
Occurrences(row, attr, v, year) ==
  Cardinality({j \in 1 .. Len(row) : row[j] = v /\ attr[j] = year})

Years == {file[k][3] : k \in 1 .. Len(file)}

\* The lines that count: all that have been read, except that the undirected loader
\* with attributes takes the first of those it cannot tell apart.
Kept ==
  LET n == IF phase = "edges" THEN pos ELSE Len(file)
      Ends(k) == {file[k][1] % Words, file[k][2] % Words}
  IN  {k \in 1 .. n : loader.symmetric /\ loader.attributes =>
                        \A j \in 1 .. k - 1 : Ends(j) # Ends(k)}

From(u, v) ==
  {k \in Kept : <<file[k][1], file[k][2]>> = <<graph.id_map[u + 1], graph.id_map[v + 1]>>}

LoadTypeOK ==
  /\ loader \in Loaders
  /\ phase \in {"edges", "nodes", "rows", "loaded", "written", "copied"}
  /\ pos \in Nat
  /\ \A rows \in {graph.out, graph.in, graph.out_attr, graph.in_attr} :
       DOMAIN rows = Nodes
  /\ \A u \in Nodes : ToSet(graph.out[u]) \cup ToSet(graph.in[u]) \subseteq Nodes
  /\ loader.attributes =>
       \A u \in Nodes : /\ Len(graph.out_attr[u]) = Len(graph.out[u])
                       /\ Len(graph.in_attr[u]) = Len(graph.in[u])
  /\ num_edges \in Nat /\ max_nbrhood_size \in Nat
  /\ cursor \in 0 .. Len(binary)

\* At every moment every vector has a row for each node, the table of external ids
\* and id_map are inverses, and the nodes are the ends of the lines that count,
\* numbered without a gap.
IdsInverse ==
  /\ LoadTypeOK
  /\ DOMAIN graph.extern_ids = UNION {{file[k][1], file[k][2]} : k \in Kept}
  /\ Cardinality(DOMAIN graph.extern_ids) = Size(graph)
  /\ \A x \in DOMAIN graph.extern_ids : graph.id_map[graph.extern_ids[x] + 1] = x

\* By external ids the out rows hold the edges of the file, and those reversed when
\* the graph is undirected.
EdgesKept ==
  \A u, v \in Nodes :
    v \in ToSet(graph.out[u]) <=>
      From(u, v) # {} \/ (loader.symmetric /\ From(v, u) # {})

\* The in rows are the out rows transposed, edge for edge when there are attributes.
\* In an undirected graph they are the same rows: every edge is in both its ends.
Transposed ==
  \A u, v \in Nodes :
    /\ v \in ToSet(graph.out[u]) <=> u \in ToSet(In[v])
    /\ loader.attributes =>
         \A year \in Years : Occurrences(graph.out[u], graph.out_attr[u], v, year)
                               = Occurrences(In[v], InAttr[v], u, year)

\* An edge has the year of its line, through the sorting of its row; repeated lines
\* of a directed graph are edges of their own.  A node has the last attribute given
\* for it, 0 if there is none.
AttributesFollow ==
  loader.attributes =>
    /\ \A u, v \in Nodes : \A year \in Years :
         Occurrences(graph.out[u], graph.out_attr[u], v, year) =
           LET Of(s) == {k \in s : file[k][3] = year}
           IN  Cardinality(Of(From(u, v)))
                 + (IF loader.symmetric THEN Cardinality(Of(From(v, u))) ELSE 0)
    /\ Complete => \A u \in Nodes :
         LET given == {k \in 1 .. Len(node_file) : node_file[k][1] = graph.id_map[u + 1]}
         IN  graph.node_attr[u] = IF given = {} THEN 0 ELSE node_file[Max(given)][2]

Strict(row) == \A i, j \in 1 .. Len(row) : i < j => row[i] < row[j]

\* The set layouts need rows that increase.  They do, except where the loaders with
\* attributes keep duplicates: repeated lines of a directed graph, and self-loops of
\* an undirected one, which are entered at both ends.
RowsAreSets ==
  LET selfLoop == \E k \in 1 .. Len(file) : file[k][1] = file[k][2]
      repeated == \E j, k \in 1 .. Len(file) :
                    j # k /\ file[j][1] = file[k][1] /\ file[j][2] = file[k][2]
  IN  Complete /\ (loader.attributes => IF loader.symmetric THEN ~selfLoop ELSE ~repeated)
        => \A u \in Nodes : Strict(graph.out[u]) /\ Strict(In[u])

Total(rows) == SumFunctionOnSet([u \in Nodes |-> Len(rows[u])], Nodes)

\* The space that is reserved by max_nbrhood_size and num_edges suffices: no row is
\* longer than the one, and neither the out rows nor the in rows hold more edges
\* than the other.
CountsSuffice ==
  Complete => /\ \A u \in Nodes : Len(graph.out[u]) <= max_nbrhood_size
                                   /\ Len(In[u]) <= max_nbrhood_size
              /\ Total(graph.out) <= num_edges
              /\ Total(In) <= num_edges

\* What the construction of a matrix takes for granted.
ReadyToBuild == RowsAreSets /\ CountsSuffice

\* A graph that is written and read has the same ids and rows, and its counts suffice.
RoundTrip ==
  phase = "copied" =>
    /\ cursor = Len(binary)
    /\ copy.id_map = graph.id_map
    /\ copy.out = graph.out
    /\ loader.symmetric \/ copy.in = graph.in
    /\ copy_num_edges >= Total(graph.out)
    /\ \A u \in Nodes : /\ Len(graph.out[u]) <= copy_max_nbrhood_size
                       /\ Len(In[u]) <= copy_max_nbrhood_size
==============================================================================
