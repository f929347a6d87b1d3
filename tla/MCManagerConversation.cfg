CONSTANTS
    Lead = {l1}
    Visit = {v1}
    Event = {e1}
    Value = {a, b}
    Handler = {h1, h2}
    MaxMessages = 3
    MaxEvents = 1
SPECIFICATION Spec
SYMMETRY Symmetry
CHECK_DEADLOCK FALSE
INVARIANTS
    TypeOK
    RepetitionsPaidFor
PROPERTIES
    WrittenAsOffered
    LeadAssignedOnce
