SPECIFICATION Spec
CONSTANT Programs <- StoredImmediates
INVARIANTS EffectsKept
CHECK_DEADLOCK FALSE
