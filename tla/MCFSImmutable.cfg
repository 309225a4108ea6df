SPECIFICATION Spec
CONSTANTS
    root = root
    a = a
    b = b
    t1 = t1
    t2 = t2
    t3 = t3
    i0 = i0
    i1 = i1
    i2 = i2
    Path <- MCPath
    Root = root
    Parent <- MCDeepParent
    Info = {i0, i1, i2}
    Text = {t1, t2}
    Affinity <- MCAffinity
    Nil = Nil
    NoRow = NoRow
    Node = {n0, n1, n2}
    RootNode = n0
    NoNode = NoNode
    Direct = {}
    States <- MCAnyDeepTree
    Mutable = {}
    Missing = Missing
    Err = Err
    BadRead = BadRead
    Requests <- MCRequestsBelow
    MaxCalls = 2
    Forgets = TRUE
    LocalErrors = TRUE
INVARIANTS
    TypeOK
    ServedIsRemote
    HashesResolve
SYMMETRY MCSymmetry
