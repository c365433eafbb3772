CONSTANTS
  Ids = {1, 2, 5}
  MaxLines = 3
  Words = 4
  Files <- MCFiles
  NodeFiles <- MCNodeFiles
SPECIFICATION LoadSpec
INVARIANTS IdsInverse EdgesKept Transposed AttributesFollow ReadyToBuild RoundTrip
