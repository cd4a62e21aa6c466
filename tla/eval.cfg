SPECIFICATION Spec
CONSTANTS
  Symbol <- MCSymbol
  Programs <- MCPrograms
  PeakBound = 9
INVARIANTS ConstantStack Lexical
