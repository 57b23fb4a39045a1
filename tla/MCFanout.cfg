SPECIFICATION Spec
CONSTANTS
    v1 = v1
    v2 = v2
    e1 = e1
    e2 = e2
    NoExec = NoExec
    Viewers <- MCViewers
    Execs <- MCExecs
    Budget = 1
    MaxOutputs = 2
    MaxRequests = 4
    MaxFailures = 1
SYMMETRY MCSymmetry
CHECK_DEADLOCK FALSE
INVARIANTS
    TypeOK
    RequirementsWake
    DeltasApplyOrAreRepaired
    QuietMeansCurrent
