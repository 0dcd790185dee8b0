\* One replica: a plan is decided while policies change and users edit.
SPECIFICATION FairPipelineSpec
CONSTANTS
    w1 = w1
    c1 = c1
    c2 = c2
    NoID = NoID
    Workers = {w1}
    Contents = {c1, c2}
    PlanContents <- ByDecision
    Backend <- SimulationOnly
    TargetChanges = {}
    PolicyObjects = {FALSE}
    PlanDeletable = FALSE
    NotifierConfigured = FALSE
    ApprovalTimeoutSeconds = 0
    TTLSeconds = 0
    SettlingPeriod = 0
    ObservationWindow = 0
    MaxDecisions = 2
    MaxGeneration = 2
    MaxAttempts = 0
    MaxCrashes = 0
    ThresholdEnforced = TRUE
    ThresholdDefaults = TRUE
    PolicyResults <- AnyDecision
    MaxFailures = 1
    MaxTime = 0
INVARIANTS
    PlanFollowsAction
PROPERTIES
    ImplementsAction
    PlanIsDecided
CHECK_DEADLOCK FALSE
