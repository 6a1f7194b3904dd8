SPECIFICATION Spec
CONSTANTS
  e1 = e1  p1 = p1  p2 = p2  w1 = w1  c1 = c1  f1 = f1  f2 = f2
  Calls <- MixCalls
  KindOf <- MixKinds
  NoCall = NoCall
  MaxOps = 1
  MaxDepth = 4
  MayThrow = TRUE
SYMMETRY MixSymmetry
CONSTRAINT MixBound
INVARIANTS
  TypeOK PendingAccurate HandleSafe Isolation QueueFaithful StallHasCause
PROPERTIES
  BeginAsserts SerializeBarrier
