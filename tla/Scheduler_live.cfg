SPECIFICATION LiveSpec
CONSTANTS
    q1 = q1
    MaxSchedules = 1
    Configs <- Lively
    Requests = {}
    Interval = 1
    Grace = 1
    OccurrenceLimit = 1000
    NotifyLimit = 1000
    Endings = {"completed"}
    Faults = {}
    MaxTime = 1
    MaxRuns = 2
    MaxGenerations = 2
    MaxCrashes = 1
INVARIANTS
    OpenIsCurrent
PROPERTIES
    EveryOccurrenceDecided
    EveryResultNotified
CHECK_DEADLOCK FALSE
