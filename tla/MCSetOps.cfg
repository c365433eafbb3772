CONSTANTS
  Words = 3
  WordBits = 2
  VEC = 2
  Sparsity = 1
  Cell = 4
  Shorts = 2
  PShortSets <- MCPShortSets
  Payload = 4
  Width = 5
  Lanes = 2
  CompressedSets <- MCCompressedSets
  Accumulated <- MCAccumulated
  Worker = {w1}
  BlockSize = 2
  Sparse = 1
  Positions = 2
  BlockCalls <- MCBlockCalls
SPECIFICATION Spec
INVARIANTS ReadsSharedWords IsOperation PShortOperation PackedRoundTrip BlockIntersection
