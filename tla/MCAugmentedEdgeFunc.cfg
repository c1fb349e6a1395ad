CONSTANTS
  BaseCosts <- MCBaseCosts
  Scales <- MCScales
  TimeHorizon <- MCTimeHorizon
  Steps <- MCSteps
SPECIFICATION Spec
INVARIANTS FIFO Complete
CHECK_DEADLOCK FALSE
