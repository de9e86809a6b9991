SPECIFICATION Spec
CONSTANTS
    Variant = "k8s"
    Days = 3
    PerDay = 2
    Retries = 1
    MaxFaults = 5
INVARIANTS
    TypeOK
    PublishedDayIsExact
    PublishedInOrder
    RetryFindsInput
PROPERTIES
    EveryDayPublished
CHECK_DEADLOCK FALSE
