SPECIFICATION FairSpec
CONSTANTS
    e1 = e1
    Execs <- MCOne
    MaxExecutions = 1
    PrimaryExitLimit = 2
    FailedLimit = 2
    ProbeLimit = 2
    ReadQuantum = 2
    MaxUnread = 2
    MaxInput = 1
    GoneAtRegistration = FALSE
    Faults <- NoFaults
PROPERTY TerminationCompletes
PROPERTY ExitIsFinalized
PROPERTY ShutdownCompletes
CHECK_DEADLOCK FALSE
