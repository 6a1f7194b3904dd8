SPECIFICATION Spec
CONSTANTS
  MaxRows = 3
  MayThrow = FALSE
INVARIANTS
  AllRetrieved
CHECK_DEADLOCK FALSE
