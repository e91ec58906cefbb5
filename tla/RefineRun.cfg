SPECIFICATION Spec
CONSTANTS
    TaskRetries = 2
    Features = {"entity_resolution", "enrichment", "compliance"}
INVARIANTS
    SuccessMeansWhole
    LineageTellsTheOutcome
    AuditTellsTheStory
\* An answered request is over.
CHECK_DEADLOCK FALSE
