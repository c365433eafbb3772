CONSTANTS
  MaxThreads = 1
  MaxNodes = 8
  QueryDepths = {4}
  SizeOf = 4
  VEC = 4
  RATIO = 32
  Graphs <- CliqueInEight
SPECIFICATION CliqueSpec
INVARIANTS FindsCliquesOfSizeN
