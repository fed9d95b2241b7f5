SPECIFICATION FairSpec
CONSTANTS
    MaxStreams = 1
    MaxData <- TwoUp
    StreamCap = 1
    IntoCap = 1
    HighWater = 2
    LowWater = 1
    MaxFaults = 1
    MayClose <- AnySocket
    Stuck = {}
INVARIANT MuxInv
INVARIANT TypeOK
INVARIANT ConnectedFirst
PROPERTY StaysEnded
PROPERTY PipesSpec
PROPERTY CancelledEnds
CHECK_DEADLOCK FALSE
