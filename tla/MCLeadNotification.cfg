SPECIFICATION FairSpec
CONSTANTS
    Lead = {l1, l2}
    User = {u1, u2}
    NoPhone = {u2}
    None = None
    Hook = {h1, h2}
    PromptSenders = TRUE
    MaxCrashes = 1
    MaxFaults = 1
    MaxDrops = 1
INVARIANTS
    AlertsPaidFor
    SentWasSent
PROPERTIES
    AssignedIsSettled
