CONSTANTS
    Node = {a, b}
    Sender = {a}
    MaxSeq = 2
    MaxPublishers = 2
    MaxReceivers = 2
    MaxRetries = 2
SPECIFICATION FairSpec
INVARIANTS TypeOK HandledOnce CopiesBounded
PROPERTIES ImplementsAbstract TrackingEnds
CHECK_DEADLOCK FALSE
