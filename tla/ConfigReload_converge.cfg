\* A deployment whose writes and loads overlap, and one where they do not.
SPECIFICATION FairSpec
CONSTANTS
    a = a
    b = b
    models = models
    tenants = tenants
    Sections <- MCSections
    Replicas <- MCReplicas
    Settings <- MCSettings
INVARIANT TypeOK
PROPERTIES VersionsConverge ConfigsConverge ReloadFetchesAnnounced OnlyGivenReplaced
