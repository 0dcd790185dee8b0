\* One replica: approvals are acted on, waits are bounded, notices are accounted for.
SPECIFICATION FairSpec
CONSTANTS
    w1 = w1
    w2 = w2
    c1 = c1
    c2 = c2
    NoID = NoID
    Workers = {w1}
    Contents = {c1, c2}
    PlanContents <- ByDecision
    Backend <- WebhookOnly
    TargetChanges = {}
    PolicyObjects = {FALSE}
    PlanDeletable = TRUE
    NotifierConfigured = TRUE
    ApprovalTimeoutSeconds = 1
    TTLSeconds = 0
    SettlingPeriod = 0
    ObservationWindow = 0
    MaxDecisions = 1
    MaxGeneration = 2
    MaxAttempts = 2
    MaxCrashes = 1
    MaxTime = 2
INVARIANTS
    NoticesAccounted
PROPERTIES
    EscalatedOnlyWhenOverdue
    ApprovedIsActedOn
    OverdueIsEscalated
CHECK_DEADLOCK FALSE
