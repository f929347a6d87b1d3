SPECIFICATION MCSpec
SYMMETRY MCSymmetry
CONSTANTS
    i1 = i1
    i2 = i2
    s1 = s1
    s2 = s2
    p1 = p1
    p2 = p2
    Instance = {i1, i2}
    Subject = {s1, s2}
    Job = {"morning", "equipment", "leads", "dueReminder", "preReminder", "assignmentCard", "exceeded", "completion", "approaching", "summary"}
    Limit = {1, 2}
    Cadence = 2
    Lead = 3
    Minute = {1, 3, 5}
    LastTick = 2
    MaxFailures = 1
    MaxDrops = 1
    MaxCrashes = 1
    MaxMoves = 1
    Prompt = {p1, p2}
    None = None
    MaxChanges = 1
    MaxFaults = 3
    MaxRepeats = 1
    MaxExpiries = 1
    MaxMisses = 2
    MaxRestarts = 1
CHECK_DEADLOCK FALSE
INVARIANTS
    SendsPaidFor
    NothingLost
    RecordedWasSent
    CopiesPaidFor
    AnswersResolve
PROPERTIES
    AnnouncedBeforeRecovered
    LastingOutageIsTold
