\* Two flows with one run in common, in any overlap; the slots are enough for
\* one replay at a time.
SPECIFICATION FairSpec
CONSTANTS
    f1 = f1 f2 = f2
    r1 = r1 r2 = r2 r3 = r3
    Flows = {f1, f2}
    Runs = {r1, r2, r3}
    Plan <- PlanCrossing
    Archived = {r1, r3}
    Members = {m1, m2}
    Leftover = stale
    Prefect = TRUE
    Occupy = 2
    Limit = 3
    Retries = 1
    ServiceFaults = TRUE
    DiskFaults = TRUE
    RunFaults = TRUE
    MaxKills = 1
INVARIANTS
    InputsWhole
    ReportMatchesOutput
PROPERTY
    EveryInvocationEnds
CHECK_DEADLOCK FALSE
