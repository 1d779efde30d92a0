SPECIFICATION FairSpec
CONSTANTS
    Requests = {r1, r2, r3}
    x1 = x1
    x2 = x2
    s1 = s1
    s2 = s2
    Sources = {x1, x2}
    Services = {s1, s2}
    ServiceOf <- MCServiceOf
    KeysForNoObject = {s1, s2}
    ListenPort = 13
    MaxFaults = 1
INVARIANTS TypeOK SumUnderFetchedKey
PROPERTIES EveryFetchEnds ImplementsNested
CHECK_DEADLOCK FALSE
