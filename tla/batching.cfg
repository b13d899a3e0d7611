SPECIFICATION FairSpec
CONSTANTS
    Call = {c1, c2, c3, c4}
    Key = {k1, k2}
    None = None
CHECK_DEADLOCK FALSE
INVARIANTS
    TypeOK
    QueuesHaveTimers
PROPERTIES
    DeliveryHolds
    EveryCallIsSent
