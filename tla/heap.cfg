SPECIFICATION Spec
CONSTANTS
  Obj = {1, 2, 3, 4, 5, 6, 7}
  Slab = {11, 12}
  Imm = 0
  Text = {"", "x", "long"}
  Size <- MCSize
  Hosts <- MCHosts
INVARIANTS NoDangling SlabsOwned MarksClear SymbolsWhole
CHECK_DEADLOCK FALSE
