SPECIFICATION Spec
CONSTANTS
    Parse <- ParseText
    Render <- json_write_value
    Byte <- MCByte
    Starts <- MCStarts
    NoFile = NoFile
    MaxSize = 4
    ChunkSize = 2
INVARIANTS
    Released
    WholeOrError
    TreeMade
    PathsSplit
    
    
CHECK_DEADLOCK FALSE
