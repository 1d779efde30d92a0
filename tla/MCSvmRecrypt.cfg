SPECIFICATION AnsweringSpec
CONSTANTS
    TaskIds = {i1, i2}
    Parts = {parms, alg, keys}
    Parms = parms
    Settings = {alg}
    MaxWorkers = 1
    MaxRounds = 1
    MaxTasks = 1
PROPERTY
    RecryptWaitEnds
