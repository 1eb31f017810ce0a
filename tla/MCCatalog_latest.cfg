SPECIFICATION Spec
CONSTANTS
    TableSpecs <- MCTableSpecs
    FunctionSpecs <- MCFunctionSpecs
    MissingFunctions <- MCMissingFunctions
INVARIANTS CurrentSpecUpdated
