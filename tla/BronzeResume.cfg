SPECIFICATION Spec
CONSTANTS
    Variant = "local"
    Days = 3
    PerDay = 2
    Retries = 1
    MaxFaults = 3
INVARIANTS
    RetryFindsInput
CHECK_DEADLOCK FALSE
