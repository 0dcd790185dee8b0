\* A reviewer approves what an ApprovalPolicy referred to one.
SPECIFICATION FairSpec
CONSTANTS
    w1 = w1
    w2 = w2
    c1 = c1
    c2 = c2
    NoID = NoID
    Workers = {w1}
    Contents = {c1, c2}
    PlanContents <- ByDecision
    Backend <- SimulationOnly
    TargetChanges = {}
    PolicyObjects = {TRUE}
    PlanDeletable = FALSE
    NotifierConfigured = FALSE
    ApprovalTimeoutSeconds = 0
    TTLSeconds = 0
    SettlingPeriod = 0
    ObservationWindow = 0
    MaxDecisions = 1
    MaxGeneration = 2
    MaxAttempts = 0
    MaxCrashes = 0
    MaxTime = 0
PROPERTIES
    ReviewerIsHeard
CHECK_DEADLOCK FALSE
