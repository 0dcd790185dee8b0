\* A Reconcile that fails after its checkpoint is run again later.
SPECIFICATION Spec
CONSTANTS
    k1 = k1
    k2 = k2
    w1 = w1
    Claims = {k1, k2}
    Workers = {w1}
    Observations <- OneObservation
    Specs <- OneSpec
    Annotations <- NoAnnotations
    Answers <- AllAnswers
    TTLSeconds = 1
    MaxGeneration = 1
    MaxTouches = 0
    MaxFailures = 1
    MaxTime = 1
PROPERTIES
    PersistedResultIsReused
CHECK_DEADLOCK FALSE
