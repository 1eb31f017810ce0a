SPECIFICATION Spec
CONSTANTS
    Conns = {"c1"}
    Programs <- TornPrograms
    MissingFunctions <- MCMissingFunctions
    MaxCalls = 3
    MaxFaults = 1
    MaxRestarts = 1
INVARIANTS TornTablesBounded
CHECK_DEADLOCK FALSE
