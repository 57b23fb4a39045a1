SPECIFICATION LiveSpec
CONSTANTS
    rt = rt
    t1 = t1
    e1 = e1
    Threads <- MCTwoThreads
    RuntimeThread = rt
    Execs <- MCOneExec
    MaxBytes = 2
    SubmitKinds = {"Direct", "Bootstrap"}
    GlobalLimit = 3
    ExecLimit = 3
    QueueCapacity = 2
    DrainQuantum = 1
    WriteQuantum = 2
    WakeMayFail = TRUE
INVARIANTS TypeOK LimitsHold AccountsBalance PendingIsActive
INVARIANT NoStrandedMessage
PROPERTY QueueIsDrained
