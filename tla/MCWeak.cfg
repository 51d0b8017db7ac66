CONSTANTS
  Programs <- MCPrograms
  SearchCeiling = 500000
  Searched <- MCSearched
  Globals <- MCGlobals
  ScOnly <- MCScOnly
  Entries <- MCEntries
  MaxCalls = 3
SPECIFICATION DSpec
CHECK_DEADLOCK FALSE
INVARIANTS MemoryModelRight StaticDetectorsRight SearchExact LostUpdatesExact CrossEntryExact
