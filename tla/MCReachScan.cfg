CONSTANTS
    NumFiles = 6
    Unlowerable = {6}
    w1 = w1
    w2 = w2
    Workers = {w1, w2}
    Functions <- MCFunctions
    Calls <- MCCalls
    Spawns <- MCSpawns
    EntryNames <- MCEntryNames
    TotalMb = 3
    FloorMb = 1
    ReserveMb = 2
    UseMb = 2
SPECIFICATION Spec
INVARIANTS GroupsRight
PROPERTIES ScanEnds
