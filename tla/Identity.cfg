CONSTANTS
    r1 = r1  r2 = r2  r3 = r3  r4 = r4  r5 = r5  r6 = r6  r7 = r7
    d1 = d1  d2 = d2  u1 = u1  u2 = u2  c1 = c1  c2 = c2
    Requests = {r1, r2, r3, r4, r5, r6, r7}
    Devices = {d1, d2}
    Users = {u1, u2}
    Conversations = {c1, c2}
    Nobody = Nobody
    Mixes <- MCMixes
    MaxInFlight = 2
    MaxStops = 1
SPECIFICATION Spec
INVARIANTS HandedOver FactsSurvive WithinReach
CHECK_DEADLOCK FALSE
