SPECIFICATION Spec
CONSTANTS
    root = root
    a = a
    b = b
    word = word
    version = version
    i1 = i1
    Path <- MCPath
    Root = root
    Parent <- MCParent
    Info = {i1}
    Text = {word}
    Affinity <- MCAffinity
    Nil = Nil
    NoRow = NoRow
    Client = {c1, c2}
    Directs <- MCDirects
    Updated = {a}
    Kind = {"file", "other"}
INVARIANTS
    TypeOK
    EntriesResolve
PROPERTIES
    EntriesWhole
    RowsGrow
    AffectsOneRow
SYMMETRY MCSymmetry
