SPECIFICATION Spec
CONSTANTS
    Interval = 2
    Burst = 2
    TTL = 3
    MaxResults = 1
    Terms = 2
    Urls = {"a", "a/", "b"}
    Key <- KeyOf
    Answers <- SomeAnswers
    Attempts = 2
    Delays = {1}
    Pauses = {0, 3}
    PlansOf <- RunPlans
    HostSet <- SomeHosts
    SettingsSet <- SomeSettings
    MaxRuns = 2
INVARIANTS
    GateHolds
CHECK_DEADLOCK FALSE
