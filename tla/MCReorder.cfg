CONSTANTS
  MaxNodes = 4
  Graphs <- MCGraphs
  MaxReorderings = 1
SPECIFICATION Spec
INVARIANTS NumberedOnce SameGraph NumberingOrder
PROPERTIES ReorderingEnds
