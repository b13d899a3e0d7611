SPECIFICATION FairSpec
CONSTANTS
    bad = bad
    Server = {s1, s2, bad}
    PreferredNumbers = {1}
    BadServers <- OneBad
    StorageMayThrow = FALSE
PROPERTY ConnectionsAreMaintained
