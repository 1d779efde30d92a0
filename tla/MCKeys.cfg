\* Up to two database failures and two crashes during start.
SPECIFICATION Spec
CONSTANTS
    MaxFaults = 2
    MaxCrashes = 2
INVARIANTS
    TypeOK
    NoKeyLoss
    PairSplitNeedsTwoFailures
    GenerationsAccounted
