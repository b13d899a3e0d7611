SPECIFICATION FairSpec
CONSTANTS
    bad = bad
    Server = {s1, s2, s3, bad}
    PreferredNumbers = {1, 2}
    BadServers <- OneBad
    StorageMayThrow = TRUE
INVARIANTS
    TypeOK
    SocketsWithinPreferred
    MonitoredByOneInterval
    StoredServersAreOpen
PROPERTIES
    AffinityOutlivesUnload
    ReloadsReconnect
    ClientsStayReachable
    RegistrationsCatchUp
    ServersAreTriedRoundRobin
