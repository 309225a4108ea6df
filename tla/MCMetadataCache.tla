--------------------------- MODULE MCMetadataCache ---------------------------
(***************************************************************************)
(* Small instances of MetadataCache: a root directory with two entries.    *)
(***************************************************************************)
EXTENDS MetadataCache, FiniteSets, TLC

CONSTANTS root, a, b, word, version, i1

MCPath == {root, a, b}
MCParent == a :> root @@ b :> root

\* A regular expression that matches everything, and one that matches nothing.
MCDirects == {{}, {root}}

\* Texts that do not look like numbers come back as they were stored; one
\* such as "1.10" comes back as the number it denotes.
MCAffinity == [t \in Text |-> IF t = version THEN word ELSE t]

MCSymmetry == Permutations(Client)

=============================================================================
