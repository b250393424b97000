\* milestone-4: each tool call has a forced time-out.
CONSTANTS
    Tools = {"bash"}
    MaxLines = 2
    MaxBytes = 3
    RowLimits = {0}
    MaxOutput = 3
    MaxChildren = 1
SPECIFICATION FairSpec
CHECK_DEADLOCK FALSE
PROPERTY CallTimesOut
