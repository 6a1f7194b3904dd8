SPECIFICATION FairSpec
CONSTANTS
  MaxRows = 4
  MayThrow = TRUE
INVARIANTS
  RowsConserved RowsInOrder AsyncOutlivesRows
PROPERTIES
  NothingAfterCompletion EachEnds
CHECK_DEADLOCK FALSE
