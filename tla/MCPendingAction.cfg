SPECIFICATION FairSpec
CONSTANTS
    User = {emp, mgr}
    Elevated = {mgr}
    Action = {a1, a2}
    ActionType = {"EDIT_FIELD", "EDIT_DUEDATE"}
    Slot = {s1, s2}
    None = None
    MaxFailures = 1
CHECK_DEADLOCK FALSE
INVARIANTS
    TwoPersonApproval
    WrittenIsNotConfirmable
PROPERTIES
    PendingResolves
    KeepsPromise
