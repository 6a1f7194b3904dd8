SPECIFICATION Spec
CONSTANTS
  Files = {"a.db", "b.db"}
  MaxRequests = 3
  MayThrow = TRUE
INVARIANTS
  CalledMeansOpen InRequestOrder
PROPERTIES
  CallbackCalled
