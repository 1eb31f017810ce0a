SPECIFICATION StatementsSpec
CONSTANTS
  Bits = {0, 1, 2}
  MaxRows = 3
  MaxGroup = 4
  Calls <- MCCalls
  Inputs <- MCInputs
  MaxInt = 1023
  Exact = 512
  NumericScale = 2
  BigScale = 3
  Hole = Hole
  Expressions <- MCExprs
  MergeInputs <- MCMergeInputs
  ArgumentInputs <- MCArgumentInputs
INVARIANT PopulationCovariance
CHECK_DEADLOCK FALSE
