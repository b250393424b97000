\* A run ends, and replies only within its budget; a finished run stops.
CONSTANTS
    MaxTurns = 4
    MaxTokens = 5
    Usage <- SomeUsage
SPECIFICATION FairSpec
CHECK_DEADLOCK FALSE
INVARIANTS TypeOK ReplyWithinBudget RoundsBounded OneCallOverTime
PROPERTY RunEnds
