SPECIFICATION Spec
CONSTANTS
    c1 = c1
    c2 = c2
    c3 = c3
    Client = {c1, c2}
    MaxConnections = 2
    Topic <- LivenessTopic
    MaxReassign = 1
PROPERTIES
    StreamKeepsUp
    DeadConnectionLeaves
    ShutdownEnds
CHECK_DEADLOCK FALSE
