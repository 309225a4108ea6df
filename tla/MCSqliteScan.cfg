SPECIFICATION FairSpec
CONSTANTS
    Writer = {w1}
    Reader = {r1}
    Foreign = Foreign
    Free = Free
    MaxLocks = 1
PROPERTIES
    ScanReturns
CHECK_DEADLOCK FALSE
