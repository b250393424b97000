\* Messages are neither lost nor answered twice; two crashes or failed inserts.
CONSTANTS
    Classes <- TwoClasses
    Threshold = 2
    Kinds = {"text", "command", "other", "unread"}
    MaxUpdates = 2
    MaxRetries = 1
    NoProgressK = 2
    ScanLimit = 2
    EventWindow = 3
    DropPending = TRUE
    PendingMax = 1
    HistoryWindow = 1
    IntWidth = 3
    MaxFaults = 2
SPECIFICATION Spec
INVARIANTS TypeOK  FailureBurst  ContextIsConversation
PROPERTIES AnsweredOnce  ImplementsInbox
