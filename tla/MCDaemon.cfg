SPECIFICATION Spec
CONSTANTS
    Signal = {sigint, sigterm}
    Nil = Nil
INVARIANTS
    TypeOK
    CleanExit
    
PROPERTIES
    CaughtEnds
    UnmountedEnds
