SPECIFICATION FairSpec
CONSTANTS
    MaxLoops = 1
    ResumeGrant = 1
    WithRw2 = TRUE
    Fps = {"f1"}
    WithExplorer = TRUE
    Risks = {"low"}
    InvariantCodes <- BaseCode
    StopCodes <- NoCodes
    MaxCode = 0
    Budget <- OneOfEach
PROPERTIES
    EventuallyFinished
CHECK_DEADLOCK FALSE
