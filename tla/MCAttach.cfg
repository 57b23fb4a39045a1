SPECIFICATION Spec
CONSTANTS
    c1 = c1
    c2 = c2
    e1 = e1
    e2 = e2
    a1 = a1
    a2 = a2
    a3 = a3
    None = None
    Conns <- MCConns
    Execs <- MCExecs
    Ids <- MCThreeIds
    MaxLive = 2
    MaxPerConn = 2
    MaxSequence = 2
    MaxRequest = 1
INVARIANTS TypeOK LeaseMatchesRecords EntriesMatchRegistry ConnectionsMatchRegistry ViewsAreDistinguishable
SYMMETRY Symmetry
PROPERTIES ResizeIdsSpentByControllers 
