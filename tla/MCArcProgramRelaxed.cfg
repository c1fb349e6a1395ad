SPECIFICATION RSpec
CONSTANTS
  Root = 0
  Vertices <- MCVertices
  Arcs <- MCArcs
  MaxTime = 9
  DistanceFuncs <- MCDistanceFuncs
  Tours <- MCTours
  LowerBounds <- MCLowerBounds
  Units = 2
  separators <- MCseparators
  MaxRounds = 1
  maxIterations = 4
  Scale = 12
INVARIANTS ReturnedTourIsBest
CHECK_DEADLOCK FALSE
