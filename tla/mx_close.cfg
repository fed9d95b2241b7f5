SPECIFICATION Spec
CONSTANTS
    MaxStreams = 1
    MaxData <- OneEach
    StreamCap = 1
    IntoCap = 1
    HighWater = 2
    LowWater = 1
    MaxFaults = 0
    MayClose <- AnySocket
    Stuck = {}
INVARIANT CloseKeepsData
CHECK_DEADLOCK FALSE
