---------------------------- MODULE MCSourcacheFS ----------------------------
(***************************************************************************)
(* Small instances of SourcacheFS: the root and one more path, or a second *)
(* one below it.                                                           *)
(***************************************************************************)
EXTENDS SourcacheFS, TLC

CONSTANTS root, a, b, t1, t2, t3, i0, i1, i2

MCPath == {root, a, b}
MCFlatPath == {root, a}
MCDeepParent == a :> root @@ b :> a
MCFlatParent == a :> root
MCAffinity == [t \in Text |-> t]

Dir == [type |-> "directory", info |-> i0, data |-> Nil]
Other == [type |-> "other", info |-> i1, data |-> Nil]
FileWith(t, i) == [type |-> "file", info |-> i, data |-> t]
LinkTo(t, i) == [type |-> "symlink", info |-> i, data |-> t]

\* An entry that may be anything, and if it is a directory a link in it.
MCAnyDeepTree ==
    root :> {Dir}
    @@ a :> {Missing, Dir, Other, FileWith(t1, i1)}
    @@ b :> {Missing, LinkTo(t1, i1)}

\* An entry that may be anything, and become anything else.
MCAnyTree ==
    root :> {Dir}
    @@ a :> {Missing, Dir, Other, FileWith(t1, i1), FileWith(t2, i2), LinkTo(t2, i2)}

\* A file in the root that is edited or removed.
MCFlatTree ==
    root :> {Dir}
    @@ a :> {Missing, FileWith(t1, i1), FileWith(t2, i2)}

\* A directory with a file that is edited or removed.
MCDeepTree ==
    root :> {Dir}
    @@ a :> {Dir}
    @@ b :> {Missing, FileWith(t1, i1), FileWith(t2, i1)}

\* Every operation; all but the attributes of the root; and those that read a
\* directory and a file in it.
MCRequests == {"attr", "open", "readlink", "readdir"} \X Path
MCRequestsBelow == MCRequests \ {<<"attr", root>>}
MCRequestsToRead == {<<"readdir", a>>, <<"open", b>>}

MCSymmetry == Permutations(Node \ {RootNode})

\* The two contents of the file of MCDeepTree are interchangeable as well.
MCDeepSymmetry == MCSymmetry \union Permutations({t1, t2})

=============================================================================
