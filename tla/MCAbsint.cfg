SPECIFICATION Spec
CONSTANTS
    Programs <- MCPrograms
    MAX_VARS = 8
    FORCE_WIDEN_AFTER = 3
    Width = 4
    Lim = 100
    Overflow = "stop"
INVARIANTS DomainsCover  WorkBounded
