SPECIFICATION Spec
CONSTANTS
  CodeGraphs <- MCCodeGraphs
  Modulus = 128
  MinDistance = 16
  MinDepth = 4
  BlockSize = 8
INVARIANTS ShortestPaths MatchExact
CHECK_DEADLOCK FALSE
