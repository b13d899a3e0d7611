SPECIFICATION FairSpec
CONSTANTS
    Local = {l1, l2}
    Remote = {m1, m2, bad}
    Rejected = {bad}
    Run = {r1, r2, r3}
    None = None
CHECK_DEADLOCK FALSE
INVARIANTS
    TypeOK
    RemoteCandidatesAreKept
    ReadyAfterEarlyCandidates
    LocalCandidatesAreEmittedOnce
PROPERTIES
    AnswersAreHandled
