\* Two turns at a time, of any kind; the default model is above the ceiling.
SPECIFICATION Spec
CONSTANTS
    lo = lo  mid = mid  top = top  t1 = t1  t2 = t2
    NoModel = NoModel
    Models <- MCModels
    Tier <- MCTier
    Window <- MCWindow
    AllowedModels = {}
    DeniedModels = {}
    MaxTier = 1
    DefaultModel = top
    AllowDowngrade = TRUE
    AllowUpgrade = TRUE
    RejectOverflow = FALSE
    MaxAttempts = 2
    MaxDrift = 0
    AffinityTtl = 1
    CacheTtl = 2
    Turns = {t1, t2}
    MaxBooked = 2
    Asks <- MCAsks
SYMMETRY Symmetry
INVARIANTS TypeOK TenantPolicy PrefixNotInflated CacheOutlivesByDelay
PROPERTIES SessionStays PrefixAccumulates
\* The tokens that are booked are bounded: the session ends.
CHECK_DEADLOCK FALSE
