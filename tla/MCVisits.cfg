SPECIFICATION MCSpec
SYMMETRY Symmetry
CONSTANTS
    Worker = {w1, w2}
    Field = {f1, f2}
    Handler = {h1, h2}
    AgentLoop = TRUE
    MaxMessages = 4
    MaxCrashes = 1
    MaxFaults = 1
    Employee = {w1, w2}
    Visit = {f1, f2}
    Caller = {h1, h2}
    Task = {t1}
    MaxCalls = 4
    MaxMishaps = 1
CHECK_DEADLOCK FALSE
INVARIANTS
    ClosedIsLeftAlone
    OwnerKnows
    TripEndsWithVisit
    OneOpenSession
    DisagreementsPaidFor
    CustomerToldOnce
