SPECIFICATION Spec
CONSTANTS
    Variants = {"k8s", "gke", "local"}
    Days = 2
    Retries = 1
    MaxEvents = 2
    MaxFaults = 1
INVARIANTS
    TypeOK
    BigQueryKeepsUp
PROPERTIES
    PublishedIsRebuilt
    EveryDayArrives
CHECK_DEADLOCK FALSE
