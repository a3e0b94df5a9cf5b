\* Two price calls over two keys; two assertions and two key identifiers; one
\* character, an import and an attachment against a quota of two builds.
SPECIFICATION Spec
SYMMETRY Symmetry
CONSTANTS
    v1 = v1 v2 = v2 d1 = d1 d2 = d2 b1 = b1 b2 = b2 b3 = b3 t1 = t1 t2 = t2
    None = None
    ScoutCalls = {v1, v2}
    ScoutKeys = {t1, t2}
    ttl = 1 stale_limit = 3 interval = 2
    Backoffs = {1}
    RetryAfters = {2}
    MaxRows = 1 MaxScoutNow = 5
    Verifications = {v1, v2}
    Kids = {d1, d2}
    KeyLife = 3 RetryFloor = 2 FetchTime = 1 MaxClock = 4
    Characters = {v1}
    Contents = {d1, d2}
    Attached = {d2}
    BuildIds = {b1, b2, b3}
    Floor = 2
    Waits = {1, 3}
    MaxBuilds = 2 MaxBytes = 5 MaxNow = 4
INVARIANTS
    PricesSound
    AssertionsSound
    ImportsSound
PROPERTIES
    RequestsSpaced
CHECK_DEADLOCK FALSE
