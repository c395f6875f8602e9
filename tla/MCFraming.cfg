SPECIFICATION Spec
CONSTANTS
    MAX_FRAME_DATA = 2
    MAX_PAYLOAD_SIZE = 3
    IO_TIMEOUT = 1
    Ids <- MCIds
    BadIds <- MCBadIds
    Errors <- MCErrors
    MaxSize = 4
    MaxFrames = 3
    MaxWrites = 2
    None = None
CHECK_DEADLOCK FALSE
INVARIANTS
    ReadersAgree
    DeliveredAreWhole
    
