\* One account through crashes, re-links and late answers, and what must happen.
SPECIFICATION FairSpec
CONSTANTS
    p1 = p1 p2 = p2 a1 = a1 a2 = a2 n1 = n1 n2 = n2 u1 = u1 u2 = u2
    b1 = b1 b2 = b2 s1 = s1 s2 = s2 i1 = i1 i2 = i2 i3 = i3
    Principals = {p1}
    AccountIds = {a1}
    Names = {n1}
    Subjects = {u1}
    Providers = {}
    Browsers = {b1}
    States = {s1}
    IntentIds = {}
    None = None
    MaxAccounts = 2 MaxAttempts = 1 MaxIntents = 1 EvictLimit = 1
    AttemptLife = 1 IntentLife = 1 IntentKeep = 1 RefreshLife = 3
    MaxMargin = 1 MaxJitter = 1
    AccessLives = {1, 2}
    RetryWaits = {1}
    MaxClock = 3 MaxEpoch = 4 MaxVersion = 3 MaxTokens = 3 MaxRestarts = 1
INVARIANTS CredentialUsable
PROPERTIES RefreshProgress
CHECK_DEADLOCK FALSE
