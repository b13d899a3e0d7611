SPECIFICATION Spec
CONSTANTS
    a = a
    b = b
    Node = {a, b}
    Channel = {c1, c2, c3}
    Calls <- BothWays
    Handlers = {a, b}
    MaxRestarts = 0
    None = None
SYMMETRY Symmetry
CHECK_DEADLOCK FALSE
PROPERTIES
    CloseReleasesOnlyItsOwn
