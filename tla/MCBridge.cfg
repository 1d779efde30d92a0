\* Two requests to two adapters; a day of five units, of which two are the
\* timeout and two the longest round of the loop. Time begins anywhere on the
\* first day and ends on the second.
SPECIFICATION FairSpec
CONSTANTS
    Adapters = {a1, a2}
    Clients = {c1, c2}
    Timeout = 2
    Day = 5
    MaxTurn = 2
    MaxTime = 7
INVARIANTS
    TypeOK
    ThingDescriptionExact
    ReplyReachesCaller
    OnlyMidnightProlongs
PROPERTIES
    OnlyMidnightShortens
    EveryRequestEnds
    ImplementsNested
CHECK_DEADLOCK FALSE
