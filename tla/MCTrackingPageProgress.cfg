SPECIFICATION MCSpec
CONSTANTS
    Lifetime = 1
    LongPause = 1
    Request = {}
    Visit = {v1}
    MaxTime = 1
    MaxFixes = 0
    MaxTimeouts = 0
    MaxReturns = 0
    MaxFailures = 0
    Road <- OnePlace
    Line <- OnePlace
    LoadAt <- MCLoadAt
    Speed = 10
    Minutes = {}
    Window = 10
    SampleAge = 20
    MaxSamples = 8
    StaleAfter = 10
    RouteAge = 50
    Lag = 100
    Caller = {c1}
    Horizon = 10
    MaxErrors = 0
    MaxReboots = 0
CHECK_DEADLOCK FALSE
INVARIANT
    ProgressIsSeen
