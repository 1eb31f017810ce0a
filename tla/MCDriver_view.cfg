SPECIFICATION Spec
CONSTANTS
    Conns = {"c1"}
    Programs <- ViewPrograms
    MissingFunctions <- MCMissingFunctions
    MaxCalls = 1
    MaxFaults = 0
    MaxRestarts = 0
INVARIANTS ReportedAdditionsExist
CHECK_DEADLOCK FALSE
