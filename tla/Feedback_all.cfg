\* Four active jobs and three attempts: retries run out, and any job may fail.
SPECIFICATION Spec
CONSTANTS
    q1 = q1  q2 = q2  q3 = q3  f1 = f1  f2 = f2  f3 = f3  low = low
    Requests = {q1, q2, q3}
    Earlier = {q1, q2}
    Ratings = {f1, f2, f3}
    Bands = {low}
    BandOf <- MCBandOf
    MaxTries = 3
    Failures = TRUE
INVARIANTS TypeOK RatedOnce NoSampleLost AcceptedCounts
\* The jobs are finitely many: the system stops when all have ended.
CHECK_DEADLOCK FALSE
