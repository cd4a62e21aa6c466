SPECIFICATION MainSpec
CONSTANTS
  m1 = m1
  m2 = m2
  None = None
  Module = {m1, m2}
  StepLimit = 4
  MaxDepth = 4
  NativeBound = 9
  Scripts <- MCScripts
  CommandLines <- MCCommandLines
INVARIANTS  CallListLive  BudgetKept ExitTrue
PROPERTIES Terminates
