\* Runs within the loop: repeated effects, the end of a run, a worker that is the queue.
CONSTANTS
    Classes <- TwoClasses
    Threshold = 2
    Kinds = {"text", "command"}
    MaxUpdates = 1
    MaxRetries = 1
    NoProgressK = 3
    ScanLimit = 2
    EventWindow = 3
    DropPending = FALSE
    PendingMax = 1
    HistoryWindow = 2
    IntWidth = 3
    MaxFaults = 1
    MaxTurns = 3
    MaxTokens = 1
    Usage = {0}
SPECIFICATION FairSpec
INVARIANTS TypeOK
PROPERTIES EffectsBounded RunsEnd ImplementsQueue
