SPECIFICATION Spec
CONSTANTS
    a1 = a1
    a2 = a2
    None = None
    Atts <- MCOne
    MaxGeneration = 3
    MaxSequence = 1
    MaxQueueBytes = 6
    MaxIdBytes = 4
    MaxCredit = 3
    MaxRequests = 8
    LineIds = TRUE
    BudgetSpent = FALSE
CHECK_DEADLOCK FALSE
INVARIANT FramesAreNotInterleaved
