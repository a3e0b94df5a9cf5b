\* Two accounts, two UUIDs and two names: registration, login, disconnect, re-link.
SPECIFICATION Spec
CONSTANTS
    p1 = p1 p2 = p2 a1 = a1 a2 = a2 n1 = n1 n2 = n2 u1 = u1 u2 = u2
    b1 = b1 b2 = b2 s1 = s1 s2 = s2 i1 = i1 i2 = i2 i3 = i3
    Principals = {p1, p2}
    AccountIds = {a1, a2}
    Names = {n1, n2}
    Subjects = {u1, u2}
    Providers = {"ggg", "kakao"}
    Browsers = {b1}
    States = {s1, s2}
    IntentIds = {}
    None = None
    MaxAccounts = 2 MaxAttempts = 1 MaxIntents = 1 EvictLimit = 1
    AttemptLife = 1 IntentLife = 1 IntentKeep = 2 RefreshLife = 1
    MaxMargin = 1 MaxJitter = 1
    AccessLives = {1}
    RetryWaits = {1}
    MaxClock = 1 MaxEpoch = 3 MaxVersion = 3 MaxTokens = 2 MaxRestarts = 1
SYMMETRY Symmetry
INVARIANTS TypeOK TablesSound
PROPERTIES NotRevived
CHECK_DEADLOCK FALSE
