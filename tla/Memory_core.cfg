SPECIFICATION MemorySpec
CONSTANTS
    Contents = {use, avoid}
    Repeats <- Same
    Opposes <- Opposite
    SearchLimit = 2
    Nothing = Nothing
    MaxMemories = 2
    MaxEvents = 2
    MaxRuns = 1
    MaxVersions = 2
    MaxRevisions = 1
    MaxCrashes = 1
    MaxRetries = 2
    Approval = FALSE
INVARIANTS
    LinesSpeakTrue
    NoContradiction
PROPERTIES
    NothingForgotten
    EditorSeesAll
SYMMETRY Symmetry
CONSTRAINT Bounded
VIEW Effects
CHECK_DEADLOCK FALSE
