SPECIFICATION FairSpec
CONSTANTS
    ann = ann
    bob = bob
    Caller <- MCCaller
    EventLogCap = 3
    NextEventBatch = 2
    MaxEvents = 4
INVARIANTS
    TypeOK
    LogInOrder
    OwedStaysAhead
PROPERTIES
    HeardOnceInOrder
    WaitingEnds
CHECK_DEADLOCK FALSE
