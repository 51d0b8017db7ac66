CONSTANTS
    NumVars = 5
    Formulas <- MCInputs
    Budget = 7
    RestartUnit = 1
    MinLearntLimit = 1
SPECIFICATION Spec
INVARIANTS AnswersSound LemmasRight WatchesRight ReasonForces
PROPERTIES DeletionSafe Termination
