CONSTANTS
    s = s
    c = c
    Requests = {s, c}
    Projected <- MCProjected
    Streams = {s}
    Usages <- MCUsages
    MaxRequests = 1
    MaxTokens = 3
    MaxCost = 2
    Policies = {"reject", "downgrade"}
    MostTokens = 4
    MostCost = 4
    MaxRpm = 2
    MaxTpm = 4
    MaxConcurrency = 1
    Queueing = TRUE
    MaxPolls = 1
    Attempts = 2
    Price = 1
    Mishaps = {"crash", "lose_gauge", "background"}
SPECIFICATION AccountingSpec
INVARIANTS
    QuotaOvershoot
    GaugeHonest
    LoadOvershoot
    LedgersAgree
CHECK_DEADLOCK FALSE
