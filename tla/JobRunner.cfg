SPECIFICATION FairSpec
CONSTANTS
    MaxLog = 2
    MaxChunks = 4
    MetaKeys = {stage, artifacts}
    Topics = {accepted}
INVARIANTS
    LogIsRecentOutput
    NothingAfterTheEnd
PROPERTIES
    EverySpawnedJobConcludes
    ImplementsLifecycle
\* A job ends, and the process may have nothing left to do.
CHECK_DEADLOCK FALSE
