SPECIFICATION MCSpec
CONSTANTS
    Lifetime = 2
    LongPause = 2
    Request = {q1, q2}
    Visit = {v1, v2}
    MaxTime = 3
    MaxFixes = 2
    MaxTimeouts = 1
    MaxReturns = 1
    MaxFailures = 1
    Road <- MCRoad
    Line <- MCLine
    LoadAt <- MCLoadAt
    Speed = 10
    Minutes = {20}
    Window = 2
    SampleAge = 4
    MaxSamples = 2
    StaleAfter = 1
    RouteAge = 2
    Lag = 2
    Caller = {c1, c2}
    Horizon = 3
    MaxErrors = 1
    MaxReboots = 1
CHECK_DEADLOCK FALSE
INVARIANTS
    BacksPaidFor
    PollsPaidFor
PROPERTIES
    EtaFallsExplained
    EndIsShown
