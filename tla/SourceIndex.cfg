\* Three commits, two files; pushes forward and forced pushes, failures and
\* crashes at every step.
CONSTANTS
    c1 = c1
    c2 = c2
    c3 = c3
    p = p
    q = q
    x = x
    y = y
    Null = Null
    Commits = {c1, c2, c3}
    Paths = {p, q}
    Contents = {x, y}
    Tree <- SmallTree
    Ancestor <- Linear
SPECIFICATION BoundedSpec
INVARIANTS IndexMatchesTree UntouchedStaySearchable CatalogIsWhole
