SPECIFICATION Spec
CONSTANTS
    e1 = e1
    Execs <- MCOne
    MaxExecutions = 1
    PrimaryExitLimit = 6
    FailedLimit = 8
    ProbeLimit = 6
    ReadQuantum = 2
    MaxUnread = 3
    MaxInput = 2
    GoneAtRegistration = FALSE
    Faults <- AllFaults
INVARIANT TypeOK
INVARIANT ReapedBeforeRelease
INVARIANT NoLostExit
INVARIANT DrainRearmedAtMostOnce
PROPERTY LifecycleOrder
PROPERTY OwnedSignalsOnly
CHECK_DEADLOCK FALSE
