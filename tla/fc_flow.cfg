SPECIFICATION FairSpec
CONSTANTS
    HighWater = 3
    LowWater = 1
    UsizeMod = 16
    OverflowChecks = {TRUE, FALSE}
    MayBeFull = TRUE
    MaxData = 8
INVARIANT TypeOK
INVARIANT PendingAgrees
INVARIANT PausedIsKnown
INVARIANT NoLostWakeup
PROPERTY ResumeWakes
CHECK_DEADLOCK FALSE
