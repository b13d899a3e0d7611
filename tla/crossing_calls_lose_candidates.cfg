SPECIFICATION HandshakeSpec
CONSTANTS
    n1 = n1
    n2 = n2
    c1 = c1
    c2 = c2
    c3 = c3
    c4 = c4
    Node = {n1, n2}
    Channel = {c1, c2, c3, c4}
    Openers = {c1, c2}
    Calls <- CrossingCalls
    Handlers = {n1, n2}
    MaxRestarts = 0
    None = None
INVARIANT CandidatesReachTheirChannel
CHECK_DEADLOCK FALSE
