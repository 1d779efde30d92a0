SPECIFICATION Spec
CONSTANTS
    TaskIds = {i1, i2}
    Parts = {parms, alg, keys}
    Parms = parms
    Settings = {alg}
    MaxWorkers = 2
    MaxRounds = 1
    MaxTasks = 3
INVARIANTS
    TypeOK
    CounterAccounts
    WorkersBounded
    StartedComplete
    FrontSafe
    UniqueIds
    StartedInOrder
    StrayPartsAreResent
PROPERTIES
    NoTaskDropped
    ImplementsPool
    TasksKeepContract
