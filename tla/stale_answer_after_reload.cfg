SPECIFICATION Spec
CONSTANTS
    a = a
    b = b
    Node = {a, b}
    Channel = {c1, c2, c3}
    Calls <- OneWay
    Handlers = {b}
    MaxRestarts = 1
    None = None
SYMMETRY Symmetry
CHECK_DEADLOCK FALSE
INVARIANTS
    AnswersCorrelate
