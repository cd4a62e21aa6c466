SPECIFICATION FairSpec
CONSTANTS
  o1 = o1
  o2 = o2
  o3 = o3
  Obj = {o1, o2, o3}
  Imm = imm
  Nodes <- AllKinds
  StackSize = 1
INVARIANTS CollectsExactly RecursionBounded
PROPERTIES Terminates
CHECK_DEADLOCK FALSE
