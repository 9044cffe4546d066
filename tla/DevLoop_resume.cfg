SPECIFICATION Spec
CONSTANTS
    MaxLoops = 1
    ResumeGrant = 1
    WithRw2 = TRUE
    Fps = {"f1"}
    WithExplorer = FALSE
    Risks = {"low"}
    InvariantCodes <- NoCodes
    StopCodes <- NoCodes
    MaxCode = 2
    Budget <- Resumed
INVARIANTS
    GuaranteesHold
    AutoMergeEarnedUndisturbed
PROPERTIES
    RecordKept
CHECK_DEADLOCK FALSE
