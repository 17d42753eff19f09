SPECIFICATION Spec
CONSTANTS
    q1 = q1
    MaxSchedules = 1
    Configs <- Policies
    Requests = {q1}
    Interval = 1
    Grace = 1
    OccurrenceLimit = 2
    NotifyLimit = 1000
    Endings = {"completed"}
    Faults = {"stop", "dispatch"}
    MaxTime = 3
    MaxRuns = 3
    MaxGenerations = 1
    MaxCrashes = 1
INVARIANTS
    NoOverlap
    DecisionMatchesRun
    NoOccurrenceLost
PROPERTIES
    NotificationKept
CHECK_DEADLOCK FALSE
