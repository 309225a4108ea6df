SPECIFICATION Spec
CONSTANTS
    Request = {r1, r2}
    Release = release
    Session = {s1, s2}
    Length = 1
    Range <- MCRange
INVARIANTS
    TypeOK
    HitsAreBacked
    ShortOnlyAtEnd
PROPERTIES
    ClearedPage
SYMMETRY MCSymmetry
