SPECIFICATION Spec
CONSTANTS
    Deliveries = 5
    Attempts = 3
    BackoffFactor = 1
    BackoffMax = 1
    FailureThreshold = 2
    RecoveryTime = 2
    DeadLetters = TRUE
    DiskFaults = TRUE
    MaxElapsed = 1
INVARIANTS
    BreakerOpensAtThreshold
    NothingSentInRecovery
    KeysIdentifyDeliveries
    FailedCanBeReplayed
\* The hooks end.
CHECK_DEADLOCK FALSE
