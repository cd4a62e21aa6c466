SPECIFICATION Spec
CONSTANTS
  Sources <- MCSources
  Garbage <- MCGarbage
INVARIANTS Partition TokensExact ColumnsTrue
