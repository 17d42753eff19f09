SPECIFICATION ContextSpec
CONSTANTS
    MaxRuns = 4
    Threshold = 2
    Recent = 1
    Keep = {1, 3}
    Cap = 2
    MaxCompactions = 2
    MaxCrashes = 1
INVARIANTS
    HistoryComplete
    NothingTwice
    ResumedKnows
VIEW Told
CHECK_DEADLOCK FALSE
