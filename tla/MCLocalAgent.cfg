SPECIFICATION Spec
CONSTANTS
    Requests = {r1}
    x1 = x1
    x2 = x2
    s1 = s1
    s2 = s2
    Sources = {x1, x2}
    Services = {s1, s2}
    ServiceOf <- MCServiceOf
    KeysForNoObject = {}
    ListenPort = 9997
    MaxFaults = 0
INVARIANTS AgentIsReached
CHECK_DEADLOCK FALSE
