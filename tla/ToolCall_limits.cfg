\* Output and time limits of a call; a call that is over stops.
CONSTANTS
    Tools = {"bash", "find", "grep", "read", "write"}
    MaxLines = 2
    MaxBytes = 3
    RowLimits = {0, 1, 2}
    MaxOutput = 5
    MaxChildren = 2
SPECIFICATION FairSpec
CHECK_DEADLOCK FALSE
INVARIANTS TypeOK  TimeoutIsNoSuccess 
PROPERTY CallReturns
