SPECIFICATION LiveSpec
CONSTANTS
    MaxUpdates = 3
    MaxRuns = 3
    MaxConvs = 4
    SentKinds <- AllKinds
    CancelLimit = 3
    Faults = {"stop", "download", "redelivery"}
    MaxFaults = 1
    MaxCrashes = 1
INVARIANTS
    OneRunPerUpdate
    NothingSkipped
PROPERTIES
    StopTakesEffect
CHECK_DEADLOCK FALSE
