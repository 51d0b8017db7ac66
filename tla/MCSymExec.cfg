CONSTANTS
    Programs <- MCStructured
    NumInputs = 2
    MaxFresh = 3
    max_visits = 7
    HasDeadline = TRUE
SPECIFICATION Spec
INVARIANTS PassSound FailSound BlocksCovered DominatorsExact
