SPECIFICATION Spec
CONSTANTS
    Initiators = {i1}
    Participants = {p1}
    Values = {7}
    Units = {1}
    MaxFaults = 0
INVARIANT OwnRoundComplete
