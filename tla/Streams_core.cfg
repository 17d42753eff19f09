SPECIFICATION Spec
CONSTANTS
    Printed = {"tool.started", "tool.finished"}
    MaxOutput = 2
    MaxPolls = 1
    ListLimit = 3
    MaxCalls = 2
    MaxCrashes = 1
INVARIANTS
    WakeupsArrive
    ProgressKeepsUp
CHECK_DEADLOCK FALSE
