CONSTANTS
  Universe = 6
  Lengths = {0, 3, 4, 13, 16, 29}
  Shorter = {7, 8, 13}
  Inputs <- MCInputs
  VEC = 2
  QUARTER = 1
  RATIO = 2
  HALF = 3
SPECIFICATION Spec
INVARIANTS StaysInBounds ExactSoFar
PROPERTIES Terminates
