\* Two jobs, two worker processes that may be alive at the same time, one
\* automatic retry, every disturbance until a job is in its third attempt.
CONSTANTS
    Null = Null
    Jobs = {j1, j2}
    Requests = {push, manual}
    WithCommit = {push}
    Workers = {w1, w2}
    RetryDelays = 1
    AttemptBound = 3
SPECIFICATION FairSpec
PROPERTIES ImplementsLease SettledOrStranded
