\* milestone-5: promoted means found stable.
CONSTANTS
    boot = boot
    a = a
    b = b
    TxIds <- TwoUpdates
    Bootstrap = boot
    None = None
    WorkspaceBuild = WorkspaceBuild
    Watchers = {w1}
    CrashThreshold = 2
    AutoRollback = FALSE
    MaxFaults = 1
SPECIFICATION Spec
INVARIANT PromotedIsProven
