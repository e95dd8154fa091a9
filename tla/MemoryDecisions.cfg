\* Two requests and the maintenance, one candidate.
CONSTANTS
    h1 = h1
    h2 = h2
    Worker = Worker
    Device = Device
    Person = Person
    Domain = Domain
    Handlers = {h1, h2}
    ItemBound = 1
SPECIFICATION Spec
INVARIANTS RejectionsStand
CHECK_DEADLOCK FALSE
