SPECIFICATION Spec
CONSTANTS
    e1 = e1
    k1 = k1
    k2 = k2
    lp1 = lp1
    lp2 = lp2
    a1 = a1
    a2 = a2
    Packages = {lp1}
    Titles = {t1}
    Entities = {e1}
    Codes = {k1, k2}
    PackageOf <- MCPackageOf
    Callers = {a1, a2}
    Workers = {w}
    Ordered = TRUE
    MaxTasks = 1
    MaxOutbox = 2
    None = None
INVARIANTS SubscribersFollow
SYMMETRY MCSymmetry
CONSTRAINT WithinBounds
