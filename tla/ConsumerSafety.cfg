SPECIFICATION Spec
CONSTANTS
    pb = pb
    pt = pt
    pk = pk
    b1 = b1
    w1 = w1
    w2 = w2
    kb = kb
    t1 = t1
    t2 = t2
    k1 = k1
    k2 = k2
    Partition = {pb, pt, pk}
    Topic <- MCTopic
    Log <- SafetyLog
    Id = {kb, t1, t2, k1, k2}
    Block = {b1}
    WallClock = {w1, w2}
    BatchSize = 2
    WhaleThreshold = 2
    MaxRetries = 1
    QueueCap = 2
    BufferCap = 3
INVARIANTS
    TypeOK
    CommittedIsStored
    CommittedIsAlerted
    AlertIsStored
    ConsumedIsSafe
    RetryIsFutile
    IInv
PROPERTIES
    OffsetsNeverRegress
    ImplementsSink
