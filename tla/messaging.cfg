SPECIFICATION FairSpec
CONSTANTS
    e1 = e1
    e2 = e2
    t1 = t1
    t2 = t2
    p0 = p0
    p1 = p1
    r1 = r1
    r2 = r2
    End = {e1, e2}
    Type = {t1, t2}
    Payload = {p0, p1}
    Falsy = {p0}
    EmptyObject = EmptyObject
    Call = {r1, r2}
    Asked <- MCAsked
    ChannelStateTimeout = 2
    MaxSends = 2
    NetworkMayFail = TRUE
    None = None
INVARIANTS
    HandlersAreWaitingCalls
PROPERTIES
    MessagesKeepOrder
    ReceivesEnd
CHECK_DEADLOCK FALSE
