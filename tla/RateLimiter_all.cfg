\* All three limits on, across one minute boundary.
SPECIFICATION Spec
CONSTANTS
    r1 = r1  r2 = r2  r3 = r3  r4 = r4
    Requests = {r1, r2, r3}
    MaxConcurrency = 2
    Rpm = 2
    Tpm = 5
    Projected <- MCProjected
    Actual <- MCActual
    MaxWindow = 2
INVARIANTS TypeOK ConcurrencyLimit GaugeExact RpmBudget RpmCorrected TpmAccurate
PROPERTIES TpmBudget
\* The requests are finitely many: the system stops when all are decided.
CHECK_DEADLOCK FALSE
