\* One administrator at a time, two versions, two jobs.
CONSTANTS
    h1 = h1
    v1 = v1
    v2 = v2
    Null = Null
    Handlers = {h1}
    Versions = {v1, v2}
    JobBound = 2
SPECIFICATION SerialSpec
INVARIANTS FilesAreKept PurgedStaysEmpty
PROPERTIES DeletionCompletes
CHECK_DEADLOCK FALSE
