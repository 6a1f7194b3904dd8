SPECIFICATION Spec
CONSTANTS
  Parameters <- Params
  Calls <- AllCalls
  Columns <- ColumnNames
  IntHalf = 8
  ShortSize = 8
  MaxCalls = 2
INVARIANTS
  BoundAsAddressed MapTakesColumns
CHECK_DEADLOCK FALSE
