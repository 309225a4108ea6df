SPECIFICATION Spec
CONSTANTS
    root = root
    a = a
    b = b
    word = word
    version = version
    i1 = i1
    Path <- MCPath
    Root = root
    Parent <- MCParent
    Info = {}
    Text = {word, version}
    Affinity <- MCAffinity
    Nil = Nil
    NoRow = NoRow
    Client = {c1}
    Directs <- MCDirects
    Updated = {a, b}
    Kind = {"symlink"}
PROPERTIES
    TargetRoundTrip
