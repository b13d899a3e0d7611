SPECIFICATION Spec
CONSTANTS
    MaxPages = 3
    MaxSeq = 4
    None = None
INVARIANTS SequenceNumbersGrow OneIdentity NextNumberIsAbove
CHECK_DEADLOCK FALSE
