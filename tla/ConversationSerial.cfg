\* Three requests of one conversation on two pods, the second of which may start at any time.
CONSTANTS
    r1 = r1
    r2 = r2
    r3 = r3
    p1 = p1
    p2 = p2
    e1 = e1
    alice = alice
    bob = bob
    nobody = nobody
    space = space
    other = other
    Runs = {r1, r2, r3}
    Pods = {p1, p2}
    Events = {e1}
    Fields = {"environment", "trace_id"}
    Nobody = nobody
    Default = space
    Mixes <- SomeMixes
    MaxAttempts = 2
    MaxStarts = 1
SPECIFICATION Spec
INVARIANT RequestsRunInTurn
CHECK_DEADLOCK FALSE
