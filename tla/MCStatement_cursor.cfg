CONSTANTS
  get = get  run = run  bind = bind  finalize = finalize  finalize2 = finalize2
  get2 = get2 all = all each = each reset = reset
  NoOp = NoOp
  Ops = {get, get2, all, bind, each, finalize}
  KindOf <- MCKindOf
  Params <- MCParams
  Silent = {}
  MaxRows = 2
  MaxDepth = 2
  MayThrow = TRUE
SPECIFICATION Spec
INVARIANTS GetContinues AnsweredOnce
PROPERTIES ErrorsAreOwn
CHECK_DEADLOCK FALSE
