CONSTANTS
  a = a  b = b  c = c  d = d
  Node <- MCNode
  Graphs <- MCGraphs
  MaxThreads = 4
  MaxDepth = 3
SPECIFICATION PathSpec
INVARIANTS PathTypeOK NothingLost OnlyNeighborsFound FrontierIsLevel PathLengthIsDistance
PROPERTIES ImplementsBreadthFirst
