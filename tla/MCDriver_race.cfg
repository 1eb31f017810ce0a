SPECIFICATION Spec
CONSTANTS
    Conns = {"c1", "c2"}
    Programs <- RacePrograms
    MissingFunctions <- MCMissingFunctions
    MaxCalls = 2
    MaxFaults = 0
    MaxRestarts = 1
INVARIANTS RowsMatchCatalog
CHECK_DEADLOCK FALSE
