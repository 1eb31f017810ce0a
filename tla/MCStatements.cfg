SPECIFICATION StatementsSpec
CONSTANTS
  Bits = {0, 1, 2}
  MaxRows = 3
  MaxGroup = 4
  Calls <- MCCalls
  Inputs <- MCInputs
  MaxInt = 1023
  Exact = 512
  NumericScale = 2
  BigScale = 3
  Hole = Hole
  Expressions <- MCExprs
  MergeInputs <- MCMergeInputs
  ArgumentInputs <- MCArgumentInputs
INVARIANTS
  FrameKept
  FrameResults
  WindowResults
  GroupResults
  AggregateOrder
  ExtremesChosen
  ThreeValuedLogic
  OrdersTotal
  SameElements
  ValuesReturn
  ArithmeticExact
  ArraysMean
  TextsMean
  PeriodsAgree
  AddingMeans
  TimesReturn
  SafeNeverFails
  MergesMean
  MergedTableOwned
  ArgumentsReach
CHECK_DEADLOCK FALSE
