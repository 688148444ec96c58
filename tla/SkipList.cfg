SPECIFICATION Spec
CONSTANTS
  NumKeys = 3
  kMaxHeight = 3
  Reader = {r1}
  Writer = w
  Garbage = Garbage
INVARIANTS
  NoGarbageRead
  MissesNothing
