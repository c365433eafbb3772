CONSTANTS
  MaxThreads = 2
  MaxNodes = 5
  QueryDepths = {3, 4, 5}
  SizeOf = 2
  VEC = 2
  RATIO = 2
  Graphs <- OfFourOrFive
SPECIFICATION CliqueSpec
INVARIANTS OnlySlotsWritten SetsIntact CliquesCounted
