\* The components from detection to diagnosis, one at a time.
SPECIFICATION DetectionSpec
CONSTANTS
    Parts = {"signal", "rule", "guardrails", "admission", "planner", "collection",
             "evidence", "diagnosis", "gateway"}
    Origins = {"rule", "investigation", "deployment"}
    Enabled = TRUE
    MaxFaults <- MCMaxFaults
    Rules <- MCRules
    Workloads <- MCWorkloads
    Pods <- MCPods
    Events <- MCEvents
    MaxRefs = 2
    MaxRuleSteps = 3
    PolicyLists <- MCPolicyLists
    ThresholdLists <- MCThresholdLists
    ChainLists <- MCChainLists
    PolicyInputs <- MCPolicyInputs
    Plans = {"p1", "p2"}
    ActiveLimit = 1
    PendingLimit = 1
    Names <- MCNames
    Sources <- MCSources
    Requests <- MCRequests
    Answers <- MCAnswers
    Budgets <- MCBudgets
    PlanSize = 3
    MaxConcurrents = {0, 2}
    EvidenceQueries <- MCQueries
    RequestsFor <- MCInquiries
    MaxAttempts = 2
    MaxPods = 2
    MaxContainers = 2
    MaxEvidence = 2
    MaxStatusRefs = 2
    MaxStatusSize = 3
    Worlds <- MCWorlds
    MaxReplicaSets = 2
    MaxScopePods = 2
    MaxSchedulingEvents = 3
    MaxPages = 2
    ProviderKeys <- MCProviderKeys
    ProviderSpecs <- MCProviderSpecs
    Bundles <- MCBundles
    SystemNamespace = "system"
    MaxTraceAttempts = 2
    MaxProviderTries = 2
    MaxEdits = 1
INVARIANTS
    AnnotatedWasAnnounced
    OneRequestPerIncident
    AdmittedWithinLimit
    QueriesWithinBudget
    TruncationShown
    NoIssueIsSound
    SupportedClaimsAreGrounded
    SentUnderOwnPolicy
PROPERTIES
    SignalIsAnnounced
    ExpiredSignalGoes
    SignalIsPlanned
    DecisionIgnoresListOrder
    CollectsSequentially
    ReasoningEnds
CHECK_DEADLOCK FALSE
