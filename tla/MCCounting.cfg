CONSTANTS
  MaxThreads = 2
  MaxNodes = 4
  N = 1
  Inputs <- MCInputs
SPECIFICATION Spec
INVARIANTS CountedSoFar RowsIntact
