\* Every kind of caller, lost outcomes and readiness polling.
SPECIFICATION FairSpec
CONSTANTS
    c1 = c1  c2 = c2  c3 = c3
    Routed = {c1, c2}
    Pinned = {c3}
    HealthChecks = TRUE
    Losses = TRUE
    Refusals = TRUE
    ModelRetries = TRUE
    MaxAttempts = 2
    FailureThreshold = 2
    MinRequests = 3
    RatePercent = 50
    OpenSeconds = 2
    WindowSeconds = 2
    HalfOpenMaxCalls = 2
    MaxEvents = 4
INVARIANTS TypeOK ProbeBound ClosedBelowThreshold OpenCallsBounded
PROPERTIES RecoversOrStarves
