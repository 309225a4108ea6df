SPECIFICATION FairSpec
CONSTANTS
    Writer = {w1, w2, w3}
    Reader = {r1}
    Foreign = Foreign
    Free = Free
    MaxLocks = 2
INVARIANTS
    TypeOK
    UpdatesCounted
PROPERTIES
    ExecReturns
CHECK_DEADLOCK FALSE
