\* Two tasks compete for one connection; two retries each, two kinds of provider.
CONSTANTS
    t1 = t1
    t2 = t2
    c1 = c1
    Nobody = Nobody
    NoCode = NoCode
    Tasks <- MCTasks
    Conns <- OneConn
    MaxRetries = 2
    Kinds <- TwoKinds
    Statuses <- FewStatuses
    Codes <- MCCodes
SPECIFICATION FairSpec
INVARIANTS
    TypeOK
    RequestsBounded
    ConnectionsAccounted
    RetryVerdict
    RefusedAsReported
PROPERTIES
    BoundedRetrySpec
    Settles
