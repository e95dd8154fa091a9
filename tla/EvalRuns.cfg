\* Two workers, two cases, two runs.
CONSTANTS
    w1 = w1
    w2 = w2
    c1 = c1
    c2 = c2
    Workers = {w1, w2}
    Cases = {c1, c2}
    RunBound = 2
SPECIFICATION BoundedSpec
INVARIANTS OneWorkerEach CompletedIsJudged
PROPERTIES EndedIsFinal RunsEnd
CHECK_DEADLOCK FALSE
