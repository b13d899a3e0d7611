SPECIFICATION FairSpec
CONSTANTS
    Candidate = {i1, i2}
    Rejected = {i1}
    Run = {r1, r2, r3}
    Call = {s1, s2}
    Session = {k}
    None = None
CHECK_DEADLOCK FALSE
INVARIANT NoCandidateVanishes
PROPERTY EveryCandidateIsAdded
