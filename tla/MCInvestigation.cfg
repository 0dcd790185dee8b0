\* One replica, edits of everything, failures at every call.
SPECIFICATION FairSpec
CONSTANTS
    k1 = k1
    k2 = k2
    w1 = w1
    Claims = {k1, k2}
    Workers = {w1}
    Observations <- AllObservations
    Specs <- AllSpecs
    Annotations <- AllAnnotations
    Answers <- AllAnswers
    TTLSeconds = 1
    MaxGeneration = 2
    MaxTouches = 1
    MaxFailures = 1
    MaxTime = 1
INVARIANTS
    InvestigationTypeOK
    VerdictRestsOnEvidence
    LegalStatus
    ConfirmedIsLinked
PROPERTIES
    FinishedIsStable
    BlockedIsNeverAsked
    InvestigationFinishes
CHECK_DEADLOCK FALSE
