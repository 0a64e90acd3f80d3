\* One routed caller: the routing check and the dispatch check each take a probe.
SPECIFICATION FairSpec
CONSTANTS
    c1 = c1  c2 = c2  c3 = c3
    Routed = {c1}
    Pinned = {}
    HealthChecks = FALSE
    Losses = FALSE
    Refusals = FALSE
    ModelRetries = FALSE
    MaxAttempts = 2
    FailureThreshold = 2
    MinRequests = 3
    RatePercent = 50
    OpenSeconds = 2
    WindowSeconds = 2
    HalfOpenMaxCalls = 3
    MaxEvents = 4

PROPERTIES Recovers
