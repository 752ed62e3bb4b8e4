\* The body of a refused stream breaks off.
CONSTANTS
    t1 = t1
    t2 = t2
    c1 = c1
    Nobody = Nobody
    NoCode = NoCode
    Tasks <- OneTask
    Conns <- OneConn
    MaxRetries = 1
    Kinds <- AllKinds
    Statuses <- FewStatuses
    Codes <- MCCodes
SPECIFICATION Spec
INVARIANTS
    DropsAreRetried
