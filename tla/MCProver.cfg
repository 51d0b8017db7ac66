SPECIFICATION Spec
CONSTANTS
    Scripts <- AllScripts
    MaxWidth = 4
    IntMax = 7
    ConstraintLimit = 6
    MaxClauses = 400
CHECK_DEADLOCK FALSE
INVARIANTS TermsExact AnswersRight
