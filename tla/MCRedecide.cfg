\* A plan is reconciled again before its phase is seen.
SPECIFICATION PipelineSpec
CONSTANTS
    w1 = w1
    c1 = c1
    c2 = c2
    NoID = NoID
    Workers = {w1}
    Contents = {c1, c2}
    PlanContents <- ByDecision
    Backend <- WebhookOnly
    TargetChanges = {}
    PolicyObjects = {FALSE}
    PlanDeletable = FALSE
    NotifierConfigured = FALSE
    ApprovalTimeoutSeconds = 0
    TTLSeconds = 0
    SettlingPeriod = 0
    ObservationWindow = 0
    MaxDecisions = 2
    MaxGeneration = 1
    MaxAttempts = 0
    MaxCrashes = 0
    ThresholdEnforced = FALSE
    ThresholdDefaults = FALSE
    PolicyResults <- AutoOnly
    MaxFailures = 0
    MaxTime = 0
INVARIANTS
    AtMostOncePerIdentity
CHECK_DEADLOCK FALSE
