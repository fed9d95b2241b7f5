SPECIFICATION FairSpec
CONSTANTS
    MaxPolls = 2
    MaxLines = 2
    MaxFaults = 3
INVARIANT TypeOK
INVARIANT NoFalseTermination
PROPERTY HalfServerEnds
PROPERTY MainEnds
PROPERTY DeathNoticed
PROPERTY Reconnects
CHECK_DEADLOCK FALSE
