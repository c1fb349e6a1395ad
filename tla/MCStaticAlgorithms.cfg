SPECIFICATION StaticSpec
CONSTANTS
  NumVertices = 5
  Inf = 999
  Units = 2
  CostFuncs <- MCCostFuncs
  Graphs <- MCGraphs
INVARIANTS CutIsMinimum SolutionIsTour AnswerIsOptimal ArborescenceIsLeast
CHECK_DEADLOCK FALSE
