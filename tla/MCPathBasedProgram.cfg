SPECIFICATION Spec
CONSTANTS
  Vertices <- MCVertices
  Root = "r"
  Paths <- MCPaths
  Edges <- MCEdges
  Cost <- MCCost
  Class <- MCClass
  Settings <- MCSettings
  InitialTour = "rcdab"
  maxNumPaths = 2
  Explore = 4
  Threshold = 100
  ProveGap <- MCProveGap
  Eps = 1
  Nodes <- MCNodes
  ReducedCosts <- MCReducedCosts
  Inf = 1000000000
INVARIANTS BoundIsValid CenterIsValid NoDuplicates PricingIsExact SolutionIsTour
PROPERTIES MispriceMovesCenter PricingEnds
