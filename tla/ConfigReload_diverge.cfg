\* One update and the tasks of two replicas, no faults.
SPECIFICATION FairSpec
CONSTANTS
    a = a
    b = b
    models = models
    tenants = tenants
    Sections <- MCSections
    Replicas <- MCReplicas
    Settings <- MCUndisturbed
PROPERTY ReplicasConverge
