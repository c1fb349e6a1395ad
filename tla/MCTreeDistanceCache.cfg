CONSTANTS
  Vertices <- MCVertices
  Departures <- MCDepartures
  Arrival <- MCArrival
  Horizon <- MCHorizon
  Inf <- MCInf
  Requests <- MCRequests
  VertexLists <- MCVertexLists
  Capacities <- MCCapacities
SPECIFICATION Spec
INVARIANTS Coherent Exact
PROPERTY ImplementsOracle
