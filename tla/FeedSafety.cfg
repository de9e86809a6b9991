SPECIFICATION Spec
CONSTANTS
    MaxWhales = 2
    Limit = 3
    OfflineAfter = 1
    MaxFaults = 3
    MaxRemounts = 1
INVARIANTS
    TypeOK
    OneConnection
    NothingForgotten
PROPERTIES
    FeedRecovers
CHECK_DEADLOCK FALSE
