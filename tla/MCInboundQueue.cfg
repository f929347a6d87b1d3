SPECIFICATION FairSpec
CONSTANTS
    Msg = {m1, m2, g1}
    GreenMsg = {g1}
    Post = {p1, p2}
    FallbackCap = 1
    ClaimLimit = 1
    PromptHandlers = TRUE
    MaxPosts = 2
    MaxCrashes = 1
    MaxFaults = 2
CHECK_DEADLOCK FALSE
INVARIANTS
    SingleOwner
    RepetitionsArePaidFor
    OneFailureIsRecovered
PROPERTIES
    PendingSettles
