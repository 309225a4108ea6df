SPECIFICATION Spec
CONSTANTS
    root = root
    a = a
    b = b
    t1 = t1
    t2 = t2
    t3 = t3
    i0 = i0
    i1 = i1
    i2 = i2
    Path <- MCFlatPath
    Root = root
    Parent <- MCFlatParent
    Info = {i0, i1, i2}
    Text = {t1, t2}
    Affinity <- MCAffinity
    Nil = Nil
    NoRow = NoRow
    Node = {n0, n1}
    RootNode = n0
    NoNode = NoNode
    Direct = {}
    States <- MCFlatTree
    Mutable = {}
    Missing = Missing
    Err = Err
    BadRead = BadRead
    Requests <- MCRequests
    MaxCalls = 2
    Forgets = TRUE
    LocalErrors = FALSE
INVARIANTS
    OfflineAvailable
