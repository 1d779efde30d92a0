\* Every kind of part; two lists that the worker reads.  A message leaves none, one
\* or two entries; three rounds are more than one message can be good for, and 0
\* rounds stand for a negative number, too.  A task needs six requests: two more.
SPECIFICATION Spec
CONSTANTS
    Objects = {"long_x"}
    Lists = {"C_li", "d_li"}
    Operands = {"C_li", "d_li"}
    Contexts = {c1, c2}
    Null = null
    Lengths = {0, 1, 2}
    Rounds = {0, 1, 3}
    MaxMessages = 8
INVARIANTS
    TypeOK
    NoReadPastEnd
    OperandsInOrder
    ContextsMixOnlyOnNewParms
    OnlyResentPartsRace
PROPERTY
    ImplementsFlags
CHECK_DEADLOCK FALSE
