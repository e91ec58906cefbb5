SPECIFICATION FairStreamSpec
CONSTANTS
    MaxLog = 1
    MaxChunks = 2
    MaxDrops = 2
    MetaKeys = {"artifacts"}
    Topics = {"upload-complete", "artifact-ready"}
INVARIANTS
    PanelLogsInOrder
    ShownEndIsTheJobs
    LogViewIsComplete
PROPERTIES
    PanelLearnsTheEnd
\* A job ends, its pages have shown it, and nothing is left to do.
CHECK_DEADLOCK FALSE
