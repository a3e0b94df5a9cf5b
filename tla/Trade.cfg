\* Two calls at a time, two queries, one listing, two search ids.
SPECIFICATION Spec
SYMMETRY Symmetry
CONSTANTS
    c1 = c1 c2 = c2 c3 = c3 q1 = q1 q2 = q2 l1 = l1 l2 = l2 s1 = s1 s2 = s2 s3 = s3
    Clients = {c1, c2}
    Queries = {q1, q2}
    Listings = {l1}
    SearchIds = {s1, s2}
    None = None
    Cap <- SmallCap
    Window <- SmallWindow
    Waits = {2}
    MaxWait = 1
    Interval = 1
    BadWait = 2
    FailLife = 2
    FailLimit = 2
    CacheLife = 1
    RetainLife = 1
    MetaLife = 1
    MaxKept = 1
    GroupSize = 1
INVARIANTS TypeOK LocksMove
PROPERTIES SendsPermitted SearchesSpared
