SPECIFICATION Spec
CONSTANTS
    t1 = t1
    t2 = t2
    t3 = t3
    g1 = g1
    g2 = g2
    p1 = p1
    Request = {t1, t2, t3, g1, p1}
    Kind <- MCKind
    Key <- MCKind
    PoolSize = 2
    MaxVersion = 1
INVARIANTS
    TypeOK
    NoStampede
    MonotoneAnswers
PROPERTIES
    EveryRequestAnswered
CHECK_DEADLOCK FALSE
