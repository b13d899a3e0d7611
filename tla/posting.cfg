SPECIFICATION FairSpec
CONSTANTS
    Message = {m1, m2}
    Server = {s1, s2, s3}
    None = None
INVARIANTS
    ResolvedMeansRelayed
    UnreachableMeansNotRelayed
    RelayedOnce
PROPERTIES
    PostsEndOnSoundConnections
