SPECIFICATION Spec
CONSTANTS
  PipeSize = 2
  Chunk = 2
  OutputBound = 2
  Calls <- MCCalls
INVARIANTS  OutputComplete
 
CHECK_DEADLOCK FALSE
