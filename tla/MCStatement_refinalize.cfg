CONSTANTS
  get = get  run = run  bind = bind  finalize = finalize  finalize2 = finalize2
  get2 = get2 all = all each = each reset = reset
  NoOp = NoOp
  Ops = {run, finalize, finalize2}
  KindOf <- MCKindOf
  Params <- MCParams
  Silent = {}
  MaxRows = 1
  MaxDepth = 3
  MayThrow = TRUE
SPECIFICATION Spec
INVARIANTS FinalizedOnce
