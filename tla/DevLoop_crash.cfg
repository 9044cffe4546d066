SPECIFICATION Spec
CONSTANTS
    MaxLoops = 1
    ResumeGrant = 1
    WithRw2 = TRUE
    Fps = {"f1"}
    WithExplorer = FALSE
    Risks = {"low"}
    InvariantCodes <- SecondCode
    StopCodes <- NoCodes
    MaxCode = 2
    Budget <- Interrupted
INVARIANTS
    ApprovalsBindCode
    PushFullyGated
    NoLostNotification
    ReturnsReported
    PushedIsPublished
CHECK_DEADLOCK FALSE
