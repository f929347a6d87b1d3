CONSTANTS
    Lead = {l1}
    Visit = {v1}
    Event = {e1}
    Value = {a, b}
    Handler = {h1}
    MaxMessages = 3
    MaxEvents = 0
SPECIFICATION Spec
CHECK_DEADLOCK FALSE
PROPERTIES
    YesDeletes
