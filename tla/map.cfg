SPECIFICATION Spec
CONSTANTS
  Name = {a, b, c}
  Value = {u, v}
  Nil = nil
  Hashes <- MCHashes
  MinCapacity = 2
  MaxCapacity = 8
INVARIANTS TableOK
PROPERTIES KeepsPromise
CHECK_DEADLOCK FALSE
SYMMETRY MCSymmetry
