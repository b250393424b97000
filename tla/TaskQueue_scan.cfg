\* milestone-3: a failed task is retried after its back-off.
CONSTANTS
    Classes <- TwoClasses
    Threshold = 2
    Kinds = {"text", "command"}
    MaxUpdates = 2
    MaxRetries = 1
    NoProgressK = 2
    ScanLimit = 1
    EventWindow = 3
    DropPending = FALSE
    PendingMax = 1
    HistoryWindow = 3
    IntWidth = 3
    MaxFaults = 0
SPECIFICATION FairSpec
PROPERTY ScheduledRetryHappens
