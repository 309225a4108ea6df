SPECIFICATION Spec
CONSTANTS
    Signal = {sigint, sigterm}
    Nil = Nil
PROPERTIES
    UnmountEnds
