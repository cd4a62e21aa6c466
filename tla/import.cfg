SPECIFICATION Spec
CONSTANTS
  Name <- MCName
  ImportPaths <- Lib
  Scripts <- MCScripts
  RunBound = 5
INVARIANTS
  
  
  Complete

  
