SPECIFICATION Spec
CONSTANTS
    c1 = c1
    c2 = c2
    c3 = c3
    Client = {c1, c2, c3}
    MaxConnections = 2
    Topic <- SafetyTopic
    MaxReassign = 1
SYMMETRY Interchangeable
INVARIANTS
    TypeOK
    NoGapWhileListed
    ReleasedWhenDown
CHECK_DEADLOCK FALSE
