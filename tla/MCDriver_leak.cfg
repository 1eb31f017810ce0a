SPECIFICATION Spec
CONSTANTS
    Conns = {"c1"}
    Programs <- LeakPrograms
    MissingFunctions <- MCMissingFunctions
    MaxCalls = 1
    MaxFaults = 0
    MaxRestarts = 0
INVARIANTS TempObjectsGone
CHECK_DEADLOCK FALSE
