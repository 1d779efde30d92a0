SPECIFICATION Spec
CONSTANTS
    Initiators = {i1, i2}
    Participants = {p1, p2}
    Values <- MCValues
    Units = {1, 10}
    MaxFaults = 1
SYMMETRY Symmetry
INVARIANTS TypeOK AllReceivedMeansAllSent SumUpToRounding
