\* One or two processes write the log; one insert fails.
CONSTANTS
    NULL = NULL
    MaxEvents = 7
    MaxNotes = 1
    MaxFaults = 1
    Depths = {0, 1, 2, 4}
SPECIFICATION Spec
INVARIANTS TypeOK NoStaleScope TreeIsWhole PrintedIsTree JSONIsListing
