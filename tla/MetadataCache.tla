---------------------------- MODULE MetadataCache ----------------------------
(***************************************************************************)
(* The methods of MetadataCache (internal/cache/metadata.go), run by       *)
(* several clients at once on one database.                                *)
(*                                                                         *)
(* A client is a handler of one file system node.  Two nodes may stand for *)
(* the same path (a kernel entry that expired is looked up again and gets  *)
(* a new node, while the old one is still in use), so two clients may      *)
(* store the same path at the same time.  A step is one SQL statement;     *)
(* between two statements of a method anything else may happen, a kill of  *)
(* the process included.  Any statement may fail with an error other than  *)
(* contention, which only delays it (see SqliteRetry.tla).                 *)
(*                                                                         *)
(* A completed statement is taken to survive a kill of the process.        *)
(* "PRAGMA journal_mode = OFF" and "synchronous = OFF" make that untrue of *)
(* a kill in the middle of a statement and of a power failure.             *)
(***************************************************************************)
EXTENDS MetadataTable

CONSTANTS
    Client,  \* handlers that call the metadata cache
    Directs, \* the sets of directories that a cachedPathRegex may not match
    Kind,    \* the types met in the remote file system
    Updated  \* bound: the paths whose columns other than the listing are updated

ASSUME KindAssumption ==
    /\ Kind \subseteq ModeType
    /\ Directs \subseteq SUBSET Path
    /\ Updated \subseteq Path

VARIABLES
    db,       \* the table
    direct,   \* the directories that the running process accesses directly
    pc,       \* the next statement of each client's method
    path,     \* the path each client's method was called with
    type,     \* the type name its next INSERT stores
    entries,  \* PutDirEntries: the entries it was called with, with their types
    next,     \* PutDirEntries: the entry whose row was not found
    formatted \* PutDirEntries: the entries visited so far

callVars == <<pc, path, type, entries, next, formatted>>
vars == <<db, direct, callVars>>

\* What Readdir returns for a directory: its entries with their types.
Listing == [Path -> Kind \union {Nil}]

Names(f) == {x \in Path : f[x] # Nil}

\* The entries that the loop of PutDirEntries has still to visit.
Todo(c) == Names(entries[c]) \ Names(formatted[c])

\* The types of the table and of the locals of the methods.
DataOK ==
    /\ db \in Table
    /\ pc \in [Client -> {"idle", "insert", "entries", "entryinsert"}]
    /\ path \in [Client -> Path]
    /\ type \in [Client -> TypeName]
    /\ entries \in [Client -> Listing]
    /\ next \in [Client -> Path]
    /\ formatted \in [Client -> DirEntries]

TypeOK == DataOK /\ direct \in Directs

\* putAndGetRow has stored the root before the first handler runs.
Init ==
    /\ db = Insert(EmptyTable, Root, "directory")
    /\ direct \in Directs
    /\ pc = [c \in Client |-> "idle"]
    /\ path = [c \in Client |-> Root]
    /\ type = [c \in Client |-> "noentry"]
    /\ entries = [c \in Client |-> NoEntries]
    /\ next = [c \in Client |-> Root]
    /\ formatted = [c \in Client |-> NoEntries]

\* The method returns, and its locals are gone.
Return(c) ==
    /\ pc' = [pc EXCEPT ![c] = "idle"]
    /\ path' = [path EXCEPT ![c] = Root]
    /\ type' = [type EXCEPT ![c] = "noentry"]
    /\ entries' = [entries EXCEPT ![c] = NoEntries]
    /\ next' = [next EXCEPT ![c] = Root]
    /\ formatted' = [formatted EXCEPT ![c] = NoEntries]

\* The type name a path can be given: the one of its mode, or a whiteout.
TypeNames == {t \in Kind : sqlTypeNameOK(t)} \union {"noentry"}
-----------------------------------------------------------------------------
\* PutNewWithType and PutNewNoEntry, which Lookup calls in a directory that is
\* not accessed directly: one INSERT.  (These and the other methods
\* of one statement change nothing when the statement fails.)
putNew(c, p, t) ==
    /\ pc[c] = "idle"
    /\ Parent[p] \notin direct
    /\ CanInsert(db, p)
    /\ db' = Insert(db, p, t)
    /\ UNCHANGED callVars

\* PutNewOrUpdateWithType and PutNewOrUpdateNoEntry, which Lookup calls in a
\* directory that is accessed directly: an UPDATE first.
putNewOrUpdate(c, p, t) ==
    /\ pc[c] = "idle"
    /\ Parent[p] \in direct
    /\ \/ /\ Has(db, p)
          /\ db' = UpdateType(db, p, t)
          /\ UNCHANGED callVars
       \/ /\ ~Has(db, p)
          /\ pc' = [pc EXCEPT ![c] = "insert"]
          /\ path' = [path EXCEPT ![c] = p]
          /\ type' = [type EXCEPT ![c] = t]
          /\ UNCHANGED <<db, entries, next, formatted>>

\* putNewOrUpdate: the UPDATE found no row, so an INSERT follows.  It fails
\* if somebody else has inserted the row since.
putNewOrUpdateInsert(c) ==
    /\ pc[c] = "insert"
    /\ \/ CanInsert(db, path[c]) /\ db' = Insert(db, path[c], type[c])
       \/ UNCHANGED db
    /\ Return(c)

\* The paths that a node can stand for: a whiteout never gets one.
HasNode(p) == Has(db, p) /\ db.rows[p].type # "noentry"

\* The paths that a directory node can stand for: the root, and others only if
\* the remote file system has other directories.
DirPaths == IF "directory" \in Kind THEN Path ELSE {Root}

\* PutFileInfo on the inode of a node: one UPDATE.
PutFileInfo(c, p, v) ==
    /\ pc[c] = "idle"
    /\ HasNode(p)
    /\ db' = SetFileInfo(db, db.rows[p].inode, v)
    /\ UNCHANGED callVars

\* PutContentHash: likewise.
PutContentHash(c, p, v) ==
    /\ pc[c] = "idle"
    /\ HasNode(p)
    /\ db' = SetContentHash(db, db.rows[p].inode, v)
    /\ UNCHANGED callVars

\* PutSymlinkTarget: likewise.
PutSymlinkTarget(c, p, v) ==
    /\ pc[c] = "idle"
    /\ HasNode(p)
    /\ db' = SetSymlinkTarget(db, db.rows[p].inode, v)
    /\ UNCHANGED callVars

\* PutDirEntries is called with what Readdir returned for the directory p.
PutDirEntries(c, p, listing) ==
    /\ pc[c] = "idle"
    /\ HasNode(p)
    /\ pc' = [pc EXCEPT ![c] = "entries"]
    /\ path' = [path EXCEPT ![c] = p]
    /\ entries' = [entries EXCEPT ![c] = listing]
    /\ UNCHANGED <<db, type, next, formatted>>

\* The row that the SELECT did not find is not inserted.
SelectEntryNoInsert(c, x) ==
    /\ pc[c] = "entries"
    /\ x \in Todo(c)
    /\ sqlTypeNameOK(entries[c][x])
    /\ formatted' = [formatted EXCEPT ![c][x] =
                        [inode |-> db.last, type |-> entries[c][x]]]
    /\ UNCHANGED <<db, pc, path, type, entries, next>>

\* PutDirEntries, one turn of the loop: SELECT ROWID of the entry x.  An entry
\* of another type makes sqlTypeName panic, which ends the call.
SelectEntry(c, x) ==
    /\ pc[c] = "entries"
    /\ x \in Todo(c)
    /\ \/ /\ sqlTypeNameOK(entries[c][x])
          /\ Has(db, x)
          /\ formatted' = [formatted EXCEPT ![c][x] =
                              [inode |-> db.rows[x].inode, type |-> entries[c][x]]]
          /\ UNCHANGED <<pc, path, type, entries, next>>
       \/ /\ sqlTypeNameOK(entries[c][x])
          /\ ~Has(db, x)
          /\ pc' = [pc EXCEPT ![c] = "entryinsert"]
          /\ next' = [next EXCEPT ![c] = x]
          /\ UNCHANGED <<path, type, entries, formatted>>
       \/ Return(c)
    /\ UNCHANGED db

\* PutDirEntries, the rest of the turn: INSERT the entry that has no row.  It
\* fails if somebody else has inserted it since.
InsertEntry(c) ==
    /\ pc[c] = "entryinsert"
    /\ \/ /\ CanInsert(db, next[c])
          /\ db' = Insert(db, next[c], entries[c][next[c]])
          /\ formatted' = [formatted EXCEPT ![c][next[c]] =
                              [inode |-> db'.last, type |-> entries[c][next[c]]]]
          /\ pc' = [pc EXCEPT ![c] = "entries"]
          /\ UNCHANGED <<path, type, entries, next>>
       \/ UNCHANGED db /\ Return(c)

\* The directory is updated while entries are still missing.
UpdateDirEarly(c) ==
    /\ pc[c] = "entries"
    /\ db' = SetDirEntries(db, db.rows[path[c]].inode, formatted[c])
    /\ Return(c)

\* PutDirEntries, after the loop: UPDATE the directory's own row.
UpdateDir(c) ==
    /\ pc[c] = "entries"
    /\ Todo(c) = {}
    /\ \/ db' = SetDirEntries(db, db.rows[path[c]].inode, formatted[c])
       \/ UNCHANGED db
    /\ Return(c)

\* The process is killed and started again on the same database, with the same
\* --cached_path_regex or with another one.
Crash ==
    /\ direct' \in Directs
    /\ pc' = [c \in Client |-> "idle"]
    /\ path' = [c \in Client |-> Root]
    /\ type' = [c \in Client |-> "noentry"]
    /\ entries' = [c \in Client |-> NoEntries]
    /\ next' = [c \in Client |-> Root]
    /\ formatted' = [c \in Client |-> NoEntries]
    /\ UNCHANGED db

\* A step of one client's method.
Method(c) ==
    \/ \E p \in Path \ {Root}, t \in TypeNames : putNew(c, p, t) \/ putNewOrUpdate(c, p, t)
    \/ putNewOrUpdateInsert(c)
    \/ \E p \in Updated, v \in Info : PutFileInfo(c, p, v)
    \/ \E p \in Updated \ {Root}, v \in Text : PutContentHash(c, p, v) \/ PutSymlinkTarget(c, p, v)
    \/ \E p \in DirPaths, listing \in Listing :
          Names(listing) \subseteq Children(p) /\ PutDirEntries(c, p, listing)
    \/ \E x \in Path : SelectEntry(c, x)
    \/ InsertEntry(c)
    \/ UpdateDir(c)

Next ==
    \/ \E c \in Client : Method(c) /\ UNCHANGED direct
    \/ Crash

Spec == Init /\ [][Next]_vars
-----------------------------------------------------------------------------
\* The inode number that a stored directory lists for an entry is the one that
\* looking that entry up gives: PutDirEntries stores rows before the listing
\* that refers to them, whoever inserts them and wherever it is interrupted.
EntriesResolve ==
    \A d \in Path : Has(db, d) /\ db.rows[d].entries # Nil =>
        \A x \in Names(db.rows[d].entries) :
            Has(db, x) /\ db.rows[x].inode = db.rows[d].entries[x].inode

\* A directory that is cached is cached whole: the only entries it is ever given
\* are all those of one listing, whatever fails or is killed on the way.
EntriesWhole ==
    [][\A d \in Path :
          Has(db, d) /\ db'.rows[d].entries # db.rows[d].entries =>
             \E c \in Client :
                /\ path[c] = d
                /\ Names(db'.rows[d].entries) = Names(entries[c])
                /\ \A x \in Names(entries[c]) :
                      db'.rows[d].entries[x].type = entries[c][x]]_vars

\* Nothing that was cached is lost: no statement removes a row, gives a path
\* another inode number or sets a column back to NULL.
RowsGrow ==
    [][\A p \in Path : Has(db, p) =>
          /\ Has(db', p)
          /\ db'.rows[p].inode = db.rows[p].inode
          /\ \A col \in {"info", "hash", "target", "entries"} :
                db.rows[p][col] # Nil => db'.rows[p][col] # Nil]_db

\* Every statement concerns one path: an UPDATE by inode number never affects
\* more than one row, which checkUpdateAffectedOneRow would only warn about.
AffectsOneRow ==
    [][\A p, q \in Path :
          db'.rows[p] # db.rows[p] /\ db'.rows[q] # db.rows[q] => p = q]_db

\* PutSymlinkTarget "stores a new symlink target for an existing inode": reading
\* the row gives the target that was stored, as TestPutSymlinkTargetAndGet of
\* metadata_test.go expects.
TargetRoundTrip ==
    [][\A c \in Client, p \in Path, v \in Text :
          PutSymlinkTarget(c, p, v) => GetFullEntry(db', p).target = v]_vars

=============================================================================
