SPECIFICATION LiveSpec
CONSTANTS
    MaxGoals = 2
    MaxRuns = 4
    MaxMessages = 1
    MaxResumes = 1
    Turns = 2
    MaxCrashes = 1
INVARIANTS
    TurnsWithinBudget
PROPERTIES
    EndedGoalsRest
    GoalKeepsGoing
CHECK_DEADLOCK FALSE
