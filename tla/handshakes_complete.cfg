SPECIFICATION FairHandshakeSpec
CONSTANTS
    n1 = n1
    n2 = n2
    c1 = c1
    c2 = c2
    c3 = c3
    c4 = c4
    Node = {n1, n2}
    Channel = {c1, c3}
    Openers = {c1}
    Calls <- CrossingCalls
    Handlers = {n1, n2}
    MaxRestarts = 1
    None = None
PROPERTIES HandshakesComplete WaitsEnd
CHECK_DEADLOCK FALSE
