SPECIFICATION Spec
CONSTANTS
    Worker = {w1}
    Field = {f1}
    Handler = {h1}
    AgentLoop = TRUE
    MaxMessages = 2
    MaxCrashes = 0
    MaxFaults = 0
CHECK_DEADLOCK FALSE
INVARIANT
    FinishedIsClosed
