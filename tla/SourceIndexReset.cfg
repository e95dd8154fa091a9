\* A branch that is reset to a commit indexed before.
CONSTANTS
    c1 = c1
    c2 = c2
    c3 = c3
    p = p
    q = q
    x = x
    y = y
    Null = Null
    Commits = {c1, c2, c3}
    Paths = {p, q}
    Contents = {x, y}
    Tree <- SmallTree
    Ancestor <- Linear
SPECIFICATION ReliableSpec
INVARIANTS FailureRestoresLiveChunks
