SPECIFICATION Spec
CONSTANTS
    MaxPolls = 2
    MaxLines = 1
    MaxFaults = 0
INVARIANT DeadIfGivenUp
CHECK_DEADLOCK FALSE
