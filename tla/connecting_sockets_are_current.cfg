SPECIFICATION Spec
CONSTANTS
    bad = bad
    Server = {s1, s2, s3, bad}
    PreferredNumbers = {2}
    BadServers <- OneBad
    StorageMayThrow = FALSE
SYMMETRY Symmetry
INVARIANTS
    CurrentServersAreListenedOn
