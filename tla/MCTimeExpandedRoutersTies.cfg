SPECIFICATION RoutersSpec
CONSTANTS
  Inf = 999
  Size = 2
  Root = "r"
  NoEdge <- MCNoEdge
  TimedVertices <- MCTimedVertices
  TimedEdges <- MCTimedEdges
  CostFuncs <- MCCostFuncs
  Requests <- MCRequests
  Simple <- MCSimple
  Acyclic <- MCTies
INVARIANTS
  HoleFreeIsExact
CHECK_DEADLOCK FALSE
