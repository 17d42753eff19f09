SPECIFICATION LiveSpec
CONSTANTS
    ListLimit = 1000
    c1 = c1
    c2 = c2
    s1 = s1
    Conversations = {c1}
    MaxRuns = 2
    Strays = {s1}
    Outputs = {}
    MaxOutput = 0
    Faults = {"start", "lost start", "logs", "stop", "inspect", "vanish", "torn"}
    MaxRestarts = 1
    MaxCancels = 1
PROPERTIES
    ImplementsLifecycle
    EveryRunSettles
CHECK_DEADLOCK FALSE
