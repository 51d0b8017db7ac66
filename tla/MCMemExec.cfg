SPECIFICATION MemSpec
CONSTANTS
  Vals <- MCVals
  SizeMax = 7
  FitMax = 4
  Callees <- MCCallees
  Programs <- AllPrograms
  Modes <- MCModes
INVARIANTS PassSound FailReal
CHECK_DEADLOCK FALSE
