SPECIFICATION Spec
CONSTANTS
    Requests = {p1, p2, p3}
    Runs = {run1, run2}
    Decisions = {approved, rejected}
    NoDecision = none
    AuditLimit = 2
    ActivityLimit = 2
    MaxInFlight = 1
    MaxCrashes = 0
    DiskFaults = FALSE
PROPERTY ImplementsLedger
\* The clients may have nothing more to ask.
CHECK_DEADLOCK FALSE
