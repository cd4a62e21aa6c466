SPECIFICATION Spec
CONSTANTS
  Block = {1, 2, 3, 4, 5, 6, 7, 8}
  Base = 3
  Limits = {0, 8, 12}
  Sizes <- MCSizes
  FirstItems = 1
  Workload = {"map", "resize", "span", "file"}
CONSTRAINT Apart
INVARIANTS Accounting OneOwner ErrorsNamed
PROPERTIES CeilingRespected
CHECK_DEADLOCK FALSE
