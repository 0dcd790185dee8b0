\* One replica: a restart from decision to verdict and deletion.
SPECIFICATION FairSpec
CONSTANTS
    w1 = w1
    w2 = w2
    c1 = c1
    c2 = c2
    NoID = NoID
    Workers = {w1}
    Contents = {c1, c2}
    PlanContents <- ByDecision
    Backend <- RestartOnly
    TargetChanges = {"replaced"}
    PolicyObjects = {FALSE}
    PlanDeletable = FALSE
    NotifierConfigured = FALSE
    ApprovalTimeoutSeconds = 1
    TTLSeconds = 1
    SettlingPeriod = 1
    ObservationWindow = 0
    MaxDecisions = 1
    MaxGeneration = 1
    MaxAttempts = 0
    MaxCrashes = 1
    MaxTime = 2
INVARIANTS
    SucceededMeansEffect
    VerdictSound
PROPERTIES
    TerminalStable
    DeletedOnlyWhenExpired
    InDoubtIsResolved
    VerifyingCompletes
    ExpiredIsDeleted
CHECK_DEADLOCK FALSE
