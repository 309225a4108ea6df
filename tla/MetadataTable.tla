---------------------------- MODULE MetadataTable ----------------------------
(***************************************************************************)
(* The SQLite table "paths" of internal/cache/metadata.go and the          *)
(* statements that the metadata cache prepares on it, as operators from a  *)
(* table to a table.  SQLite runs each statement indivisibly.              *)
(*                                                                         *)
(* Abstractions.  A path is an element of Path; a directory entry is named *)
(* by the path of the child it stands for, so that filepath.Join(path,     *)
(* name) is the entry's own name.  Mode, size and mtime_nsec are written   *)
(* and read together, hence one column "info".  Nil is SQL's NULL.         *)
(***************************************************************************)
EXTENDS Naturals

CONSTANTS
    Path,      \* paths of the file system
    Root,      \* the path "/"
    Parent,    \* the directory that holds each path but the root
    Info,      \* what os.FileInfo says of a file besides its type
    Text,      \* digests and symlink targets
    Affinity,  \* the text that SQLite gives back for each text stored in a column
    Nil,       \* NULL
    NoRow      \* the path is not in the table

\* Names of the types of a row.
TypeName == {"directory", "file", "symlink", "noentry"}

\* The types that os.FileMode can tell: sqlTypeName panics on "other".
ModeType == {"directory", "file", "symlink", "other"}

OneDirEntry == [inode : Nat, type : TypeName]

\* A set of entries gives each path its entry, or Nil if it is not in the set.
DirEntries == [Path -> OneDirEntry \union {Nil}]

CachedRow ==
    [inode : Nat, type : TypeName, info : Info \union {Nil}, hash : Text \union {Nil},
     target : Text \union {Nil}, entries : DirEntries \union {Nil}]

\* rows[p] is the row of p; last is the greatest ROWID in use.
Table == [rows : [Path -> CachedRow \union {NoRow}], last : Nat]

ASSUME TableAssumption ==
    /\ Root \in Path
    /\ Parent \in [Path \ {Root} -> Path]
    /\ Affinity \in [Text -> Text]
    /\ Nil \notin Info \union Text \union ModeType \union TypeName
    /\ Nil \notin OneDirEntry
    /\ Nil \notin DirEntries
    /\ NoRow \notin CachedRow

EmptyTable == [rows |-> [p \in Path |-> NoRow], last |-> 0]

NoEntries == [x \in Path |-> Nil]

Children(d) == {p \in Path \ {Root} : Parent[p] = d}
-----------------------------------------------------------------------------
\* SELECT ... WHERE path = ?: the row of p, or NoRow.
GetFullEntry(db, p) == db.rows[p]

Has(db, p) == db.rows[p] # NoRow

\* The rows of a table among which a ROWID is looked for.
WithInode(db, inode) == {p \in Path : Has(db, p) /\ db.rows[p].inode = inode}

\* SELECT dirEntries ... WHERE ROWID = ?: NULL reads as no entries.
GetDirEntries(db, inode) ==
    LET p == CHOOSE p \in WithInode(db, inode) : TRUE
    IN  IF db.rows[p].entries = Nil THEN NoEntries ELSE db.rows[p].entries

\* No type makes sqlTypeName panic.
sqlTypeNameTotal(type) == TRUE

\* sqlTypeName is defined for these types only, and panics on the others.
sqlTypeNameOK(type) == type # "other"

\* INSERT OR REPLACE never violates the primary key.
CanReplace(db, p) == TRUE

\* INSERT INTO paths (path, type): violates the primary key if p has a row.
CanInsert(db, p) == ~Has(db, p)

\* The new row takes the next ROWID.
Insert(db, p, type) ==
    [rows |-> [db.rows EXCEPT ![p] =
                  [inode |-> db.last + 1, type |-> type, info |-> Nil, hash |-> Nil,
                   target |-> Nil, entries |-> Nil]],
     last |-> db.last + 1]

\* INSERT OR REPLACE: the other columns of the row are lost.
ReplaceRow(db, p, type) == Insert(db, p, type)

\* UPDATE paths SET type = ? WHERE path = ?
UpdateType(db, p, type) == [db EXCEPT !.rows[p].type = type]

\* The WHERE clause is missing.
SetFileInfoOfAll(db, inode, v) ==
    [db EXCEPT !.rows = [p \in Path |->
        IF Has(db, p) THEN [db.rows[p] EXCEPT !.info = v] ELSE db.rows[p]]]

\* UPDATE paths SET mode = ?, size = ?, mtime_nsec = ? WHERE ROWID = ?
SetFileInfo(db, inode, v) ==
    [db EXCEPT !.rows = [p \in Path |->
        IF p \in WithInode(db, inode) THEN [db.rows[p] EXCEPT !.info = v] ELSE db.rows[p]]]

\* UPDATE paths SET contentHash = ? WHERE ROWID = ?  A column declared STRING
\* has numeric affinity: what it holds is Affinity[v].
SetContentHash(db, inode, v) ==
    [db EXCEPT !.rows = [p \in Path |->
        IF p \in WithInode(db, inode)
        THEN [db.rows[p] EXCEPT !.hash = Affinity[v]] ELSE db.rows[p]]]

\* UPDATE paths SET target = ? WHERE ROWID = ?  A STRING column, too.
SetSymlinkTarget(db, inode, v) ==
    [db EXCEPT !.rows = [p \in Path |->
        IF p \in WithInode(db, inode)
        THEN [db.rows[p] EXCEPT !.target = Affinity[v]] ELSE db.rows[p]]]

\* UPDATE paths SET dirEntries = ? WHERE ROWID = ?  (The text of a listing
\* never looks like a number.)
SetDirEntries(db, inode, v) ==
    [db EXCEPT !.rows = [p \in Path |->
        IF p \in WithInode(db, inode) THEN [db.rows[p] EXCEPT !.entries = v] ELSE db.rows[p]]]

=============================================================================
