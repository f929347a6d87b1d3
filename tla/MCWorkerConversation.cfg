CONSTANTS
    Visit = {A, B}
    First = {A}
    Handler = {h1, h2}
    MaxMessages = 3
    MaxEvents = 1
SPECIFICATION Spec
SYMMETRY Symmetry
CHECK_DEADLOCK FALSE
INVARIANTS
    TypeOK
    CurrentPointer
    EntersOnce
PROPERTIES
    OnlyHisVisits
