SPECIFICATION Spec
CONSTANTS
    Requests = {p1, p2, p3}
    Runs = {run1}
    Decisions = {approved, rejected}
    NoDecision = none
    AuditLimit = 2
    ActivityLimit = 1
    MaxInFlight = 2
    MaxCrashes = 1
    DiskFaults = TRUE
INVARIANT AuditIsTruthful
PROPERTIES
    BrokenStaysBroken
    EveryPostAnswered
\* The clients may have nothing more to ask.
CHECK_DEADLOCK FALSE
