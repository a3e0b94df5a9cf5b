\* Two requests at a time over one portfolio; three holdings, of which two may
\* be held, at most three events; the other instances are set in the module.
SPECIFICATION AloneSpec
CONSTANTS
    c1 = c1
    c2 = c2
    divine = divine
    chaos = chaos
    ex = ex
    k1 = k1 k2 = k2 sa = sa sb = sb
    None = None
    Clients = {c1, c2}
    Currencies = {divine, chaos, ex}
    Requests <- SomeRequests
    Openings <- SomeOpenings
    MaxBalance = 2
    MaxEvents = 3
    MaxHoldings = 2
    MaxRevision = 5
    Calls = {"c1", "c2"}
    Owners = {"alice"}
    ServerConfigs <- SomeConfigs
    Raised <- SomeRaised
    ChainLimit = 6
    Capacity = 2 SizeLimit = 2 Sizes = {1, 2}
    ReceiptLife = 1
    TraceLimit = 1
    Listings = {"l1"}
    MaxIssued = 2 MaxFailures = 2 MaxServerTime = 1
    DataFiles = {"a", "b"}
    MaxAttempts = 2
    DriftFiles = {"ModParser", "CalcPerform", "ModCache"}
    MaxHand = 2
    Scenarios = {sa, sb}
    Profiles <- SomeProfiles
    Keys = {k1, k2}
    Budgets = {2}
    Golds <- SomeGolds
    Rates = {2}
    Reports <- SomeReports MaxReports = 2
    Reserve = 1 MaxAge = 1 MaxTime = 2
    Tables <- SomeTables
    Contents <- SomeContents
    Parts = {"plan", "result"}
    Envelope = 1 PageBytes = 4 TextBytes = 3
    FragmentRows = 2
    Limits = {1, 2, 3}
    MaxRevised = 2
    Operators = {"o"}
    MemberIds = {"alice", "bob"}
    Emails = {"a", "b"}
    Ports = {1, 2}
    Services = {"server", "broker"}
    MaxActive = 1
    MaxTokens = 2
INVARIANTS
    BookSound
    AckedKept
    PurchaseSound
    PagesSound
    AnswersSound
    InstallSound
    DeploymentSound
PROPERTIES
    KeepsBook
    InstalledKept
CHECK_DEADLOCK FALSE
