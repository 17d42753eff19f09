SPECIFICATION LiveSpec
CONSTANTS
    MaxTasks = 2
    MaxFlows = 1
    MaxRuns = 3
    MaxAttempts = 2
    Workers = 1
    Endings = {"completed", "failed"}
    Edits = {"depend", "release", "block", "unblock", "retry", "set task", "set flow", "delete task", "delete flow", "cancel run"}
    MaxTrouble = 1
INVARIANTS
    Acyclic
    ParentsFirst
    DoneIsEarned
    RunsAccounted
PROPERTIES
    EveryTaskSettles
CHECK_DEADLOCK FALSE
