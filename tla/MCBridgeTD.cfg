\* One request made before the adapter has answered is enough.
SPECIFICATION Spec
CONSTANTS
    Adapters = {a1, a2}
    Clients = {c1}
    Timeout = 3
    Day = 8
    MaxTurn = 2
    MaxTime = 16
INVARIANT ThingDescriptionOfAllAdapters
CHECK_DEADLOCK FALSE
