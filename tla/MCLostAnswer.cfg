\* The answer to a patch is lost.
SPECIFICATION Spec
CONSTANTS
    w1 = w1
    w2 = w2
    c1 = c1
    c2 = c2
    NoID = NoID
    Workers = {w1}
    Contents = {c1, c2}
    PlanContents <- ByDecision
    Backend <- RestartOnly
    TargetChanges = {}
    PolicyObjects = {FALSE}
    PlanDeletable = FALSE
    NotifierConfigured = FALSE
    ApprovalTimeoutSeconds = 0
    TTLSeconds = 0
    SettlingPeriod = 0
    ObservationWindow = 0
    MaxDecisions = 1
    MaxGeneration = 1
    MaxAttempts = 0
    MaxCrashes = 0
    MaxTime = 0
INVARIANTS
    FailedMeansNoEffect
CHECK_DEADLOCK FALSE
