SPECIFICATION Spec
CONSTANT Programs <- AllCode
INVARIANTS PathsKept EffectsKept 
CHECK_DEADLOCK FALSE
