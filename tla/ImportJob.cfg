SPECIFICATION ImportSpec
CONSTANTS
    MaxLog = 1
    MaxChunks = 1
    MetaKeys = {"stage", "artifacts"}
    Topics = {"file-accepted", "artifact-ready"}
    ActivityLimit = 2
    DiskFaults = TRUE
INVARIANTS
    ImportTypeOK
    TempDirReclaimed
    AcceptedWorkspaceKept
    ArtifactsBacked
PROPERTIES
    ListenerReleased
    EveryRequestAnswered
\* A request is answered once and its job ends once.
CHECK_DEADLOCK FALSE
