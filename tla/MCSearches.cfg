CONSTANTS
  Vertices <- MCVertices
  Edges <- MCEdges
  NoEdge = NoEdge
  Inf <- MCInf
  Source <- MCSource
  Target <- MCTarget
  Horizon <- MCHorizon
  CostFuncs <- MCCostFuncs
  Queries <- MCQueries
  Static <- MCStatic
SPECIFICATION SearchesSpec
INVARIANTS HeapCoherent PathRealisesCost EarliestArrival NotFoundIsRight AnswerIsRight
PROPERTY Terminates
CHECK_DEADLOCK FALSE
