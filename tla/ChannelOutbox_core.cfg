SPECIFICATION LiveSpec
CONSTANTS
    MaxRows = 2
    Live = {1}
    MaxText = 3
    BatchLimit = 20
    RetryLimit = 3
    Faults <- HonestFaults
    MaxFaults = 3
    MaxCrashes = 2
INVARIANTS
    AtMostOneMessage
    DeliveredIsCurrent
PROPERTIES
    FinalTextShown
CHECK_DEADLOCK FALSE
