\* project.md: the queue recovers from crashes.
CONSTANTS
    Classes <- TwoClasses
    Threshold = 2
    Kinds = {"text", "command"}
    MaxUpdates = 1
    MaxRetries = 1
    NoProgressK = 2
    ScanLimit = 2
    EventWindow = 3
    DropPending = FALSE
    PendingMax = 1
    HistoryWindow = 3
    IntWidth = 3
    MaxFaults = 1
SPECIFICATION FairSpec
PROPERTY InterruptedTaskResumes
