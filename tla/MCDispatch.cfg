\* Two replicas, an edit, a crash, a repeated decision: dispatch of a webhook call.
SPECIFICATION Spec
CONSTANTS
    w1 = w1
    w2 = w2
    c1 = c1
    c2 = c2
    NoID = NoID
    Workers = {w1, w2}
    Contents = {c1, c2}
    PlanContents <- ByDecision
    Backend <- WebhookOnly
    TargetChanges = {}
    PolicyObjects = {FALSE}
    PlanDeletable = FALSE
    NotifierConfigured = FALSE
    ApprovalTimeoutSeconds = 0
    TTLSeconds = 0
    SettlingPeriod = 0
    ObservationWindow = 0
    MaxDecisions = 2
    MaxGeneration = 2
    MaxAttempts = 0
    MaxCrashes = 1
    MaxTime = 0
SYMMETRY Replicas
INVARIANTS
    TypeOK
    DispatchOncePerDecision
    DispatchAuthorised
    DispatchInv
CHECK_DEADLOCK FALSE
