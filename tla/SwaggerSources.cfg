\* Two sources, two runs that inspect both, two documents.
CONSTANTS
    orders = orders  stock = stock
    r1 = r1  r2 = r2  r3 = r3
    Sources <- MCSources
    Auth <- MCAuth
    Tagged = {orders}
    Runs = {r1, r2}
    MaxDocs = 2
    Steady = {stock}
SPECIFICATION SwaggerSpec
SYMMETRY AnyRun
INVARIANTS AnswersAreCurrent DeletionIsClean CredentialsComplete
CHECK_DEADLOCK FALSE
