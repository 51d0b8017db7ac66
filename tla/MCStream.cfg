SPECIFICATION Spec
CONSTANTS
  Programs <- MCPrograms
  Modes <- MCModes
  Cores = 3
  MaxDepth = 4
  MAX_PTS_SET = 3
  MAX_NODES = 60
CHECK_DEADLOCK FALSE
INVARIANTS PointsToRight ContractsRight SummariesRight
PROPERTIES ImplementsLinked FactsFinalised
