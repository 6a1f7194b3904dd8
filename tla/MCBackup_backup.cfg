CONSTANTS
  step1 = step1  step2 = step2  finish1 = finish1  finish2 = finish2
  NoOp = NoOp
  Ops = {step1, step2, finish1, finish2}
  KindOf <- MCKindOf
  Silent = {finish1}
  RetrySets <- MCRetrySets
  MaxDepth = 3
  MayThrow = TRUE
SPECIFICATION Spec
INVARIANTS
  TypeOK WorkFindsBackup ReleasedOnce OutcomeAgrees FinishesItself
  IdleHonest AnsweredInOrder
PROPERTIES RetryContinues
CHECK_DEADLOCK FALSE
