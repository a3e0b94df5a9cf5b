\* Two requests at a time over one trace of at most three calls and five units
\* of output, where a step must leave room for two; three documents of up to
\* four units in a cache of three.
SPECIFICATION CallsSpec
CONSTANTS
    c1 = c1 c2 = c2
    s1 = s1 s2 = s2 s3 = s3
    i1 = i1 i2 = i2
    Clients = {c1, c2}
    StepIds = {s1, s2, s3}
    Inputs = {i1, i2}
    GoalInputs = {i2}
    NoOne = NoOne
    Workers = {c1, c2}
    EngineCalls = {s1, s2, s3}
    HomeOf <- SomeHomes
    Sizes = {1, 2}
    None = None
    MaxCalls = 3
    MaxOutput = 5
    Reserve = 2
    MaxRevision = 5
    Documents = {s1, s2, s3}
    ResultSizes = {1, 2, 4}
    CACHE_BYTES = 3
    CACHE_TTL = 2
    MaxTime = 4
INVARIANTS
    CallsTypeOK
    StepsSound
    OneCalculation
    InspectorSound
PROPERTIES
    ClosedStays
    CancelReturns
    EngineReturns
    EvictsOldest
CHECK_DEADLOCK FALSE
