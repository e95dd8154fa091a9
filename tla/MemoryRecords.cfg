\* One request at a time and the maintenance, two candidates.
CONSTANTS
    h1 = h1
    h2 = h2
    Worker = Worker
    Device = Device
    Person = Person
    Domain = Domain
    Handlers = {h1}
    ItemBound = 2
SPECIFICATION Spec
INVARIANTS OneFactPerSlot RecordsFollowDecisions
PROPERTIES DecisionsAreFinal
CHECK_DEADLOCK FALSE
