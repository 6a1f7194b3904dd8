SPECIFICATION Spec
CONSTANTS
  e1 = e1  p1 = p1  p2 = p2  w1 = w1  c1 = c1  f1 = f1  f2 = f2
  Calls <- ConfigureCalls
  KindOf <- ConfigureKinds
  NoCall = NoCall
  MaxOps = 1
  MaxDepth = 2
  MayThrow = FALSE
INVARIANTS
  NoStall
