SPECIFICATION Spec
CONSTANTS
    Names = {"operator", "observer", "researcher"}
    Tools = {"refine", "provenance", "extra"}
    NoOverride = NoOverride
    Builtin = {"refine", "provenance"}
    KindOf <- SomeKinds
    Policies <- SomePolicies
    PluginTools <- SomePlugins
    PluginRoles <- SomeRoles
    HostRoles = {"none", "observer"}
    Requests <- SomeRequests
    None = "none"
    MaxPlugins = 2
    MaxRequests = 2
INVARIANTS
    PolicyIsItsReference
    OneAnswerEach
PROPERTIES
    LinesAreAnswered
\* The server stops.
CHECK_DEADLOCK FALSE
