CONSTANTS
    Programs <- MCShortCircuit
    NumInputs = 2
    MaxFresh = 2
    max_visits = 20
    HasDeadline = FALSE
SPECIFICATION Spec
INVARIANTS PassSound
CHECK_DEADLOCK FALSE
