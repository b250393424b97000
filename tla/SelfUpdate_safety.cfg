\* Two updates on top of the baseline; two faults; one promotion in flight;
\* git rollback off (it is on in SelfUpdate_recovery and in the proofs).
CONSTANTS
    boot = boot
    a = a
    b = b
    TxIds <- TwoUpdates
    Bootstrap = boot
    None = None
    WorkspaceBuild = WorkspaceBuild
    Watchers = {w1}
    CrashThreshold = 2
    AutoRollback = FALSE
    MaxFaults = 2
SPECIFICATION Spec
SYMMETRY Symmetry
INVARIANTS
    TypeOK
    ActiveIsDeployed
    DeployingIsOwned
    RollbackTargetExists
PROPERTIES
    RolledBackAfterSwitch
    OnlyUserRetiresPromoted
    ImplementsLifecycle
