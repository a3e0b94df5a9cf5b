\* Three plans, three observations and one route; five passives; two listings.
SPECIFICATION PlanningSpec
CONSTANTS
    p1 = p1 p2 = p2 p3 = p3 o1 = o1 o2 = o2 o3 = o3 r1 = r1 c1 = c1 w1 = w1 l1 = l1 l2 = l2
    Plans = {p1, p2, p3}
    Owner <- OneOwner
    Edits = {1, 2}
    Traits <- AllTraits
    Reports = {o1, o2, o3}
    Contents <- SomeContents
    Routes = {r1}
    Clients = {c1}
    None = None
    MaxRecords = 2
    MaxBytes = 3
    MaxRecordBytes = 3
    ReportLimit = 2
    MaxRevision = 4
    Trees <- SomeTrees
    Targets <- SomeTargets
    Refunds <- SomeRefunds
    Clicks <- SomeClicks
    Hops = 3
    Points <- SomePoints
    Advices <- SomeAdvices
    Markets <- SomeMarkets
    Verdicts <- SomeVerdicts
    Worn <- SomeWorn
    MaxPlans = 8
    MaxAdviceTime = 1
INVARIANTS
    TypeOK
    RoutesSound
    StoreSound
    TreeAnswersRight
    AdviceRight
PROPERTIES
    PlanHistory
CHECK_DEADLOCK FALSE
