SPECIFICATION Spec
CONSTANTS
  Root = "r"
  Vertices <- MCVertices
  Arcs <- MCArcs
  Distance <- MCDistance
  Horizon = 8
  TimedVertices <- MCTimedVertices
  TimedEdges <- MCTimedEdges
  Inf = 99
  InitialTour <- MCInitialTour
  numPaths = 1
  maxRounds = 1
  maxCutsPerRound = 1
  LowerBounds <- MCLowerBounds
  Settings <- MCCyclesOnly
INVARIANT CutsKeepTours
