CONSTANTS
    NumUnits = 4
    w1 = w1
    w2 = w2
    Workers = {w1, w2}
    Content <- MCContent
    Unreadable = {4}
    Slow = {"a", "b"}
    Finds <- MCFinds
    Keys = {"k1", "k2"}
    Cost <- MCCost
    BudgetMb = 3
    CkptEvery = 2
    MaxCrashes = 2
    MaxPanics = 1
SPECIFICATION Spec
INVARIANTS TypeOK MemoryKept UnitsDisjoint NoUnitTwice CoverageRight FindingsExact
PROPERTIES CheckpointGrows ScanEnds
