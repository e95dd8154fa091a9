\* One request, a memory and its promotion.
CONSTANTS
    h1 = h1
    h2 = h2
    Worker = Worker
    Device = Device
    Person = Person
    Domain = Domain
    Handlers = {h1}
    ItemBound = 2
SPECIFICATION Spec
INVARIANTS FailuresAreRepaired
CHECK_DEADLOCK FALSE
