SPECIFICATION FairSpec
CONSTANTS
    HighWater = 3
    LowWater = 1
    UsizeMod = 16
    OverflowChecks = {FALSE}
    MayBeFull = FALSE
    MaxData = 6
PROPERTY DrainedIsResumed
CHECK_DEADLOCK FALSE
