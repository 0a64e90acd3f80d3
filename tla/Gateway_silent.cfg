\* The upstream connection breaks in the middle of a stream.
SPECIFICATION FairGateway
CONSTANTS
    r1 = r1  r2 = r2  r3 = r3  m1 = m1  m2 = m2
    Requests = {r1, r2}
    Streams = {r1}
    MaxConcurrency = 1
    Rpm = 0
    Tpm = 3
    Projected <- MCProjected
    Actual <- MCActual
    MaxWindow = 1
    Models = {m1, m2}
    ModelLimit = 1
    Chains <- MCChains
    MaxAttempts = 2
    RetryStreams = TRUE
    Settings <- MCBroken
INVARIANTS StreamNeverSilent
\* The requests are finitely many: the system stops when all are answered.
CHECK_DEADLOCK FALSE
