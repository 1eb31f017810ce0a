SPECIFICATION Spec
CONSTANTS
    TableSpecs <- MCTableSpecs
    FunctionSpecs <- MCFunctionSpecs
    MissingFunctions <- MCMissingFunctions
INVARIANTS TypeOK CatalogConsistent RebuildAsCode
PROPERTIES NamesNeverRedirected ImplementsDictionary
