SPECIFICATION Spec
CONSTANTS
    Conns = {"c1"}
    Programs <- ExecPrograms
    MissingFunctions <- MCMissingFunctions
    MaxCalls = 2
    MaxFaults = 0
    MaxRestarts = 0
INVARIANTS TypeOK QuiescentAgreement TempObjectsGone ChangesReported
CHECK_DEADLOCK FALSE
