SPECIFICATION Spec
CONSTANTS
  vertices <- MCVertices
  DistanceFuncs <- MCDistanceFuncs
  Static <- MCStatic
  k = 3
  backTracingSteps = 1
  maxCandidates = 2
  maxSize = 3
  Garbage <- MCGarbage
  Inf = 99
INVARIANTS  WalksAreEnough
 
CHECK_DEADLOCK FALSE
