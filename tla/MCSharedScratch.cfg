CONSTANTS
  Worker = {w1, w2}
  BlockSize = 2
  Sparse = 1
  Positions = 4
  BlockCalls <- MCBlockCalls
SPECIFICATION BlockSpec
INVARIANTS ReadsOwnOffsets
