CONSTANTS
  MaxThreads = 2
  MaxRows = 3
  BlockSize = 2
  Inputs <- MCInputs
  ALLOCATOR = 1
  REALLOC_THRESHOLD = 5
SPECIFICATION SafeSpec
INVARIANTS RowsDisjoint RowsInBounds MatrixComplete IsSelectedSubgraph CounterIsEstimate
