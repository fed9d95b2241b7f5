SPECIFICATION FairSpec
CONSTANTS
    MaxStreams = 2
    MaxData <- PausedAndBusy
    StreamCap = 1
    IntoCap = 1
    HighWater = 2
    LowWater = 1
    MaxFaults = 0
    MayClose <- NoSocket
    Stuck = {1}
INVARIANT InOrder
PROPERTY DataGetsThrough
PROPERTY PausedIsRemembered
CHECK_DEADLOCK FALSE
