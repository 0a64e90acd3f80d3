\* Two requests over two minutes, three within one, and two whose every await
\* may raise.
SPECIFICATION FairGateway
CONSTANTS
    r1 = r1  r2 = r2  r3 = r3  m1 = m1  m2 = m2
    Requests = {r1, r2, r3}
    Streams = {r1}
    MaxConcurrency = 2
    Rpm = 0
    Tpm = 5
    Projected <- MCProjected
    Actual = {3}
    MaxWindow = 2
    Models = {m1, m2}
    ModelLimit = 1
    Chains <- MCChains
    MaxAttempts = 2
    RetryStreams = TRUE
    Settings <- MCSettings
INVARIANTS ModelGaugeExact SlotHeldWhileServing
PROPERTIES FirstByteCommits UsesLimiterOnce DispatchSettles ImplementsReservation
\* The requests are finitely many: the system stops when all are answered.
CHECK_DEADLOCK FALSE
