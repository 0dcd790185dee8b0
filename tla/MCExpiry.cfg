\* One replica: a plan and its action expire.
SPECIFICATION PipelineSpec
CONSTANTS
    w1 = w1
    c1 = c1
    c2 = c2
    NoID = NoID
    Workers = {w1}
    Contents = {c1, c2}
    PlanContents <- ByDecision
    Backend <- SimulationOnly
    TargetChanges = {}
    PolicyObjects = {FALSE}
    PlanDeletable = TRUE
    NotifierConfigured = FALSE
    ApprovalTimeoutSeconds = 0
    TTLSeconds = 1
    SettlingPeriod = 0
    ObservationWindow = 0
    MaxDecisions = 1
    MaxGeneration = 1
    MaxAttempts = 0
    MaxCrashes = 0
    ThresholdEnforced = TRUE
    ThresholdDefaults = FALSE
    PolicyResults <- AnyDecision
    MaxFailures = 1
    MaxTime = 1
PROPERTIES
    LiveActionKept
CHECK_DEADLOCK FALSE
