SPECIFICATION Spec
CONSTANTS
    Transactions <- MCTransactions
    LabelRows <- MCLabelRows
    Threshold = 1
    HighCount = 2
    HighSum = 3
    SilverTiers <- MCSilverTiers
    GoldTiers <- MCGoldTiers
    MaxRows = 3
INVARIANTS
    TypeOK
    EachTransferOnce
    FlowsCancel
    FlagWhateverTheTies
    PressureFollowsFlow
    TierNotBelow
CHECK_DEADLOCK FALSE
