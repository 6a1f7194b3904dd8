SPECIFICATION FairSpec
CONSTANTS
  MaxEvents = 3
  MaxOps = 3
  MaxCloses = 1
  MaxDepth = 5
  MayThrow = TRUE
INVARIANTS
  TypeOK CrashHasCause HookMatchesListener NothingLost
PROPERTIES
  EventsArrive
CHECK_DEADLOCK FALSE
