SPECIFICATION FairSpec
CONSTANTS
    Conns = {"c1", "c2"}
    Programs <- LivePrograms
    MissingFunctions <- MCMissingFunctions
    MaxCalls = 1
    MaxFaults = 0
    MaxRestarts = 0
PROPERTIES TempEventuallyGone CallsEnd
CHECK_DEADLOCK FALSE
