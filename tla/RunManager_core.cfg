SPECIFICATION Spec
CONSTANTS
    ListLimit = 1000
    c1 = c1
    c2 = c2
    s1 = s1
    Conversations = {c1}
    MaxRuns = 2
    Strays = {s1}
    Outputs = {"message.delta", "agent.completed"}
    MaxOutput = 2
    Faults = {"torn", "start"}
    MaxRestarts = 2
    MaxCancels = 2
INVARIANTS
    RunningIsWatched
    OneLiveWorker
    IngestedExactlyOnce
    CompletedIsEarned
CHECK_DEADLOCK FALSE
