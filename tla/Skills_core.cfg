SPECIFICATION Spec
CONSTANTS
    Names = {n1}
    Contents = {c1, c2}
    NoContent = NoContent
    MaxProposals = 2
    MaxRevision = 3
    MaxCrashes = 1
    CreateApproval = TRUE
    ModifyApproval = FALSE
    TrustMode = "balanced"
INVARIANTS
    FileIsRecorded
    OneApprovalPerBase
PROPERTIES
    PastIsKept
    AutonomyKeepsOut
SYMMETRY Symmetry
CONSTRAINT Bounded
CHECK_DEADLOCK FALSE
