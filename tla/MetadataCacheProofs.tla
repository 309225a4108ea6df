------------------------ MODULE MetadataCacheProofs ------------------------
(***************************************************************************)
(* TLAPS proofs about MetadataCache: for any number of clients and paths,  *)
(* any tree and any affinity.                                              *)
(***************************************************************************)
EXTENDS MetadataCache, MetadataTableProofs

\* ROWIDs in use are never greater than the last one given.
InodesBounded ==
    \A p \in Path : Has(db, p) => db.rows[p].inode <= db.last

\* A running PutDirEntries works on a directory that has a row, and inserts
\* an entry of the listing whose type has a name.
CallsHaveRows ==
    \A c \in Client :
        /\ pc[c] \in {"entries", "entryinsert"} => Has(db, path[c])
        /\ pc[c] = "entryinsert" => next[c] \in Todo(c) /\ sqlTypeNameOK(entries[c][next[c]])

\* Nothing is formatted outside PutDirEntries.
IdleFormatted ==
    \A c \in Client : pc[c] = "idle" => Names(formatted[c]) = {}

\* What PutDirEntries has formatted so far refers to existing rows, and to the
\* entries it was called with.
FormattedResolves ==
    \A c \in Client : \A x \in Names(formatted[c]) :
        /\ Has(db, x)
        /\ db.rows[x].inode = formatted[c][x].inode
        /\ x \in Names(entries[c])
        /\ formatted[c][x].type = entries[c][x]

\* No two paths have the same ROWID, so that an UPDATE by inode number finds the
\* row it is meant for.
InodesUnique ==
    \A p, q \in Path :
        Has(db, p) /\ Has(db, q) /\ db.rows[p].inode = db.rows[q].inode => p = q

\* The inductive invariant of the metadata cache.
IInv ==
    /\ DataOK
    /\ InodesBounded
    /\ InodesUnique
    /\ CallsHaveRows
    /\ FormattedResolves
    /\ IdleFormatted
    /\ EntriesResolve
-----------------------------------------------------------------------------
\* What the invariant says of the table alone.
TableInv ==
    /\ db \in Table
    /\ InodesBounded
    /\ InodesUnique
    /\ EntriesResolve

\* The types of the locals of the calls.
LocalsOK ==
    /\ pc \in [Client -> {"idle", "insert", "entries", "entryinsert"}]
    /\ path \in [Client -> Path]
    /\ type \in [Client -> TypeName]
    /\ entries \in [Client -> Listing]
    /\ next \in [Client -> Path]
    /\ formatted \in [Client -> DirEntries]

\* What the invariant says of the calls.
CallsInv ==
    /\ LocalsOK
    /\ CallsHaveRows
    /\ FormattedResolves
    /\ IdleFormatted

\* The invariant is the one of the table and the one of the calls.
LEMMA IInvParts ==
    /\ IInv <=> TableInv /\ CallsInv
    /\ IInv' <=> TableInv' /\ CallsInv'
  BY DEF IInv, DataOK, TableInv, CallsInv, LocalsOK

\* The empty listing is a listing and a set of entries.
LEMMA NoEntriesType ==
    NoEntries \in Listing /\ NoEntries \in DirEntries /\ Names(NoEntries) = {}
  BY DEF NoEntries, Listing, DirEntries, Names

\* A type that has a name is the name of a type.
LEMMA KindName ==
    ASSUME NEW t \in Kind, sqlTypeNameOK(t)
    PROVE  t \in TypeName
  BY KindAssumption DEF ModeType, TypeName, sqlTypeNameOK
-----------------------------------------------------------------------------
\* An INSERT keeps the table consistent: its ROWID is new.
LEMMA InsertKeeps ==
    ASSUME TableInv, NEW p \in Path, NEW t \in TypeName, CanInsert(db, p),
           db' = Insert(db, p, t)
    PROVE  TableInv' /\ Extends(db, db')
  <1>1. ~Has(db, p) /\ db \in Table
    BY DEF CanInsert, TableInv
  <1>2. /\ db' \in Table
        /\ db'.last = db.last + 1
        /\ Has(db', p) /\ db'.rows[p].inode = db.last + 1 /\ db'.rows[p].entries = Nil
        /\ \A q \in Path : q # p => db'.rows[q] = db.rows[q]
        /\ Extends(db, db')
    BY <1>1, InsertLemma
  <1>3. db.last \in Nat /\ \A q \in Path : Has(db, q) => db.rows[q].inode \in Nat
    BY <1>1 DEF Table, Has, CachedRow
  <1>4. \A q \in Path : Has(db', q) /\ q # p => Has(db, q) /\ db'.rows[q] = db.rows[q]
    BY <1>2 DEF Has
  <1>5. InodesBounded'
    BY <1>2, <1>3, <1>4 DEF TableInv, InodesBounded
  <1>6. InodesUnique'
    BY <1>2, <1>3, <1>4 DEF TableInv, InodesUnique, InodesBounded
  <1>7. EntriesResolve'
    <2> SUFFICES ASSUME NEW d \in Path, Has(db', d), db'.rows[d].entries # Nil,
                        NEW x \in Names(db'.rows[d].entries)
                 PROVE  Has(db', x) /\ db'.rows[x].inode = db'.rows[d].entries[x].inode
      BY DEF EntriesResolve
    <2>1. d # p /\ Has(db, d) /\ db'.rows[d] = db.rows[d]
      BY <1>2, <1>4
    <2>2. x \in Path /\ Has(db, x) /\ db.rows[x].inode = db.rows[d].entries[x].inode
      BY <2>1 DEF TableInv, EntriesResolve, Names
    <2> QED
      BY <1>2, <2>1, <2>2 DEF Extends
  <1> QED
    BY <1>2, <1>5, <1>6, <1>7 DEF TableInv

\* A statement that leaves ROWIDs and listings alone keeps the table
\* consistent.
LEMMA OtherColumnsKeep ==
    ASSUME TableInv, db' \in Table, db'.last = db.last,
           \A q \in Path : Has(db', q) <=> Has(db, q),
           \A q \in Path : Has(db, q) =>
               /\ db'.rows[q].inode = db.rows[q].inode
               /\ db'.rows[q].entries = db.rows[q].entries
    PROVE  TableInv' /\ Extends(db, db')
  <1>1. InodesBounded' /\ InodesUnique'
    BY DEF TableInv, InodesBounded, InodesUnique
  <1>2. EntriesResolve'
    BY DEF TableInv, EntriesResolve, Names
  <1>3. Extends(db, db')
    BY DEF Extends
  <1> QED
    BY <1>1, <1>2, <1>3 DEF TableInv

\* The calls stay consistent with a table that has kept its rows, if nothing
\* happens to them.
LEMMA CallsSame ==
    ASSUME CallsInv, Extends(db, db'), UNCHANGED callVars
    PROVE  CallsInv'
  <1> USE DEF CallsInv, callVars
  <1>1. LocalsOK'
    BY DEF LocalsOK
  <1>2. CallsHaveRows'
    BY DEF CallsHaveRows, Extends, LocalsOK, Todo
  <1>3. FormattedResolves' /\ IdleFormatted'
    BY DEF FormattedResolves, IdleFormatted, Extends, Names
  <1> QED
    BY <1>1, <1>2, <1>3

\* Likewise if one of them returns.
LEMMA CallsReturn ==
    ASSUME CallsInv, Extends(db, db'), NEW c \in Client, Return(c)
    PROVE  CallsInv'
  <1> USE DEF CallsInv, Return
  <1>1. LocalsOK'
    BY NoEntriesType, TableAssumption DEF LocalsOK, TypeName
  <1>2. CallsHaveRows'
    <2> SUFFICES ASSUME NEW u \in Client
                 PROVE  /\ pc'[u] \in {"entries", "entryinsert"} => Has(db', path'[u])
                        /\ pc'[u] = "entryinsert" =>
                              /\ next'[u] \in Todo(u)'
                              /\ sqlTypeNameOK(entries'[u][next'[u]])
      BY DEF CallsHaveRows
    <2>1. CASE u = c
      BY <2>1 DEF LocalsOK
    <2>2. CASE u # c
      BY <2>2 DEF LocalsOK, CallsHaveRows, Extends, Todo
    <2> QED
      BY <2>1, <2>2
  <1>3. FormattedResolves'
    <2> SUFFICES ASSUME NEW u \in Client, NEW x \in Names(formatted'[u])
                 PROVE  /\ Has(db', x)
                        /\ db'.rows[x].inode = formatted'[u][x].inode
                        /\ x \in Names(entries'[u])
                        /\ formatted'[u][x].type = entries'[u][x]
      BY DEF FormattedResolves
    <2>1. u # c
      BY NoEntriesType DEF LocalsOK
    <2>2. formatted'[u] = formatted[u] /\ entries'[u] = entries[u] /\ x \in Path
      BY <2>1 DEF LocalsOK, Names
    <2> QED
      BY <2>2 DEF FormattedResolves, Extends
  <1>4. IdleFormatted'
    BY NoEntriesType DEF LocalsOK, IdleFormatted
  <1> QED
    BY <1>1, <1>2, <1>3, <1>4
-----------------------------------------------------------------------------
\* The table with the root alone satisfies the invariant.
LEMMA InitIInv == Init => IInv
  <1> SUFFICES ASSUME Init PROVE IInv
    OBVIOUS
  <1>1. EmptyTable \in Table /\ \A q \in Path : ~Has(EmptyTable, q)
    BY DEF EmptyTable, Table, Has
  <1>2. Root \in Path /\ "directory" \in TypeName
    BY TableAssumption DEF TypeName
  <1>3. /\ db \in Table
        /\ db.last = 1
        /\ Has(db, Root) /\ db.rows[Root].inode = 1 /\ db.rows[Root].entries = Nil
        /\ \A q \in Path : q # Root => ~Has(db, q)
    <2>1. EmptyTable.last = 0
      BY DEF EmptyTable
    <2>2. \A q \in Path : q # Root => db.rows[q] = EmptyTable.rows[q]
      BY <1>1, <1>2, InsertLemma DEF Init
    <2> QED
      BY <1>1, <1>2, <2>1, <2>2, InsertLemma DEF Init, Has
  <1>4. TableInv
    BY <1>3 DEF TableInv, InodesBounded, InodesUnique, EntriesResolve
  <1>5. CallsInv
    BY <1>2, NoEntriesType
    DEF Init, CallsInv, LocalsOK, CallsHaveRows, FormattedResolves, IdleFormatted, TypeName
  <1> QED
    BY <1>4, <1>5, IInvParts

\* A type name that a call stores is the name of a type.
LEMMA TypeNamesAreNames == TypeNames \subseteq TypeName
  BY KindName DEF TypeNames, TypeName

\* putNew inserts one row.
LEMMA putNewIInv ==
    ASSUME IInv, NEW c \in Client, NEW p \in Path, NEW t \in TypeNames, putNew(c, p, t)
    PROVE  IInv'
  BY IInvParts, TypeNamesAreNames, InsertKeeps, CallsSame DEF putNew

\* putNewOrUpdate changes a type, or remembers what to insert.
LEMMA putNewOrUpdateIInv ==
    ASSUME IInv, NEW c \in Client, NEW p \in Path, NEW t \in TypeNames,
           putNewOrUpdate(c, p, t)
    PROVE  IInv'
  <1>1. TableInv /\ CallsInv /\ t \in TypeName /\ db \in Table
    BY IInvParts, TypeNamesAreNames DEF TableInv
  <1>2. CASE Has(db, p) /\ db' = UpdateType(db, p, t) /\ UNCHANGED callVars
    <2>1. TableInv' /\ Extends(db, db')
      BY <1>1, <1>2, UpdateTypeLemma, OtherColumnsKeep
    <2> QED
      BY <1>1, <1>2, <2>1, CallsSame, IInvParts
  <1>3. CASE /\ pc' = [pc EXCEPT ![c] = "insert"]
             /\ path' = [path EXCEPT ![c] = p]
             /\ type' = [type EXCEPT ![c] = t]
             /\ UNCHANGED <<db, entries, next, formatted>>
    <2>1. TableInv'
      BY <1>1, <1>3
      DEF TableInv, InodesBounded, InodesUnique, EntriesResolve
    <2>2. LocalsOK' /\ FormattedResolves' /\ IdleFormatted'
      BY <1>1, <1>3 DEF CallsInv, LocalsOK, FormattedResolves, IdleFormatted
    <2>3. CallsHaveRows'
      BY <1>1, <1>3 DEF CallsInv, LocalsOK, CallsHaveRows, Todo
    <2> QED
      BY <2>1, <2>2, <2>3, IInvParts DEF CallsInv
  <1> QED
    BY <1>2, <1>3 DEF putNewOrUpdate

\* A call that returns without touching the table.
LEMMA ReturnIInv ==
    ASSUME IInv, NEW c \in Client, Return(c), UNCHANGED db
    PROVE  IInv'
  <1>1. TableInv' /\ Extends(db, db')
    BY IInvParts
    DEF TableInv, InodesBounded, InodesUnique, EntriesResolve, Extends
  <1> QED
    BY <1>1, IInvParts, CallsReturn

\* putNewOrUpdateInsert inserts one row or returns.
LEMMA putNewOrUpdateInsertIInv ==
    ASSUME IInv, NEW c \in Client, putNewOrUpdateInsert(c)
    PROVE  IInv'
  <1>1. TableInv /\ CallsInv /\ path[c] \in Path /\ type[c] \in TypeName
    BY IInvParts DEF CallsInv, LocalsOK
  <1>2. Return(c)
    BY DEF putNewOrUpdateInsert
  <1>3. CASE CanInsert(db, path[c]) /\ db' = Insert(db, path[c], type[c])
    BY <1>1, <1>2, <1>3, InsertKeeps, CallsReturn, IInvParts
  <1>4. CASE UNCHANGED db
    BY <1>2, <1>4, ReturnIInv
  <1> QED
    BY <1>3, <1>4 DEF putNewOrUpdateInsert

\* PutFileInfo only changes a column of one row.
LEMMA PutFileInfoIInv ==
    ASSUME IInv, NEW c \in Client, NEW p \in Path, NEW v \in Info, PutFileInfo(c, p, v)
    PROVE  IInv'
  <1>1. TableInv /\ CallsInv /\ db \in Table
    BY IInvParts DEF TableInv
  <1>2. db' = SetFileInfo(db, db.rows[p].inode, v) /\ UNCHANGED callVars
    BY DEF PutFileInfo
  <1>3. TableInv' /\ Extends(db, db')
    BY <1>1, <1>2, SetFileInfoLemma, OtherColumnsKeep
  <1> QED
    BY <1>1, <1>2, <1>3, CallsSame, IInvParts

\* PutContentHash only changes a column of one row.
LEMMA PutContentHashIInv ==
    ASSUME IInv, NEW c \in Client, NEW p \in Path, NEW v \in Text, PutContentHash(c, p, v)
    PROVE  IInv'
  <1>1. TableInv /\ CallsInv /\ db \in Table
    BY IInvParts DEF TableInv
  <1>2. db' = SetContentHash(db, db.rows[p].inode, v) /\ UNCHANGED callVars
    BY DEF PutContentHash
  <1>3. TableInv' /\ Extends(db, db')
    BY <1>1, <1>2, SetContentHashLemma, OtherColumnsKeep
  <1> QED
    BY <1>1, <1>2, <1>3, CallsSame, IInvParts

\* PutSymlinkTarget only changes a column of one row.
LEMMA PutSymlinkTargetIInv ==
    ASSUME IInv, NEW c \in Client, NEW p \in Path, NEW v \in Text, PutSymlinkTarget(c, p, v)
    PROVE  IInv'
  <1>1. TableInv /\ CallsInv /\ db \in Table
    BY IInvParts DEF TableInv
  <1>2. db' = SetSymlinkTarget(db, db.rows[p].inode, v) /\ UNCHANGED callVars
    BY DEF PutSymlinkTarget
  <1>3. TableInv' /\ Extends(db, db')
    BY <1>1, <1>2, SetSymlinkTargetLemma, OtherColumnsKeep
  <1> QED
    BY <1>1, <1>2, <1>3, CallsSame, IInvParts

\* PutDirEntries starts with nothing formatted.
LEMMA PutDirEntriesIInv ==
    ASSUME IInv, NEW c \in Client, NEW p \in Path, NEW listing \in Listing,
           PutDirEntries(c, p, listing)
    PROVE  IInv'
  <1>1. TableInv /\ CallsInv /\ Has(db, p)
    BY IInvParts DEF PutDirEntries, HasNode
  <1>2. /\ pc[c] = "idle"
        /\ pc' = [pc EXCEPT ![c] = "entries"]
        /\ path' = [path EXCEPT ![c] = p]
        /\ entries' = [entries EXCEPT ![c] = listing]
        /\ UNCHANGED <<db, type, next, formatted>>
    BY DEF PutDirEntries
  <1>3. TableInv'
    BY <1>1, <1>2 DEF TableInv, InodesBounded, InodesUnique, EntriesResolve
  <1>4. LocalsOK'
    BY <1>1, <1>2 DEF CallsInv, LocalsOK
  <1>5. CallsHaveRows'
    BY <1>1, <1>2 DEF CallsInv, LocalsOK, CallsHaveRows, Todo
  <1>6. Names(formatted[c]) = {}
    BY <1>1, <1>2 DEF CallsInv, IdleFormatted
  <1>7. FormattedResolves'
    BY <1>1, <1>2, <1>6 DEF CallsInv, LocalsOK, FormattedResolves
  <1>8. IdleFormatted'
    BY <1>1, <1>2 DEF CallsInv, LocalsOK, IdleFormatted
  <1> QED
    BY <1>3, <1>4, <1>5, <1>7, <1>8, IInvParts DEF CallsInv

\* SelectEntry formats an entry whose row exists.
LEMMA SelectEntryIInv ==
    ASSUME IInv, NEW c \in Client, NEW x \in Path, SelectEntry(c, x)
    PROVE  IInv'
  <1>1. /\ TableInv /\ CallsInv /\ db \in Table
        /\ pc[c] = "entries" /\ x \in Todo(c) /\ UNCHANGED db
    BY IInvParts DEF SelectEntry, TableInv
  <1>2. TableInv'
    BY <1>1 DEF TableInv, InodesBounded, InodesUnique, EntriesResolve
  <1>3. entries[c][x] \in Kind /\ x \in Names(entries[c])
    BY <1>1 DEF CallsInv, LocalsOK, Listing, Todo, Names
  <1>4. CASE /\ sqlTypeNameOK(entries[c][x]) /\ Has(db, x)
             /\ formatted' = [formatted EXCEPT ![c][x] =
                               [inode |-> db.rows[x].inode, type |-> entries[c][x]]]
             /\ UNCHANGED <<pc, path, type, entries, next>>
    <2> DEFINE e == [inode |-> db.rows[x].inode, type |-> entries[c][x]]
    <2>1. e \in OneDirEntry /\ e # Nil /\ e.inode = db.rows[x].inode /\ e.type = entries[c][x]
      <3>1. db.rows[x].inode \in Nat
        BY <1>1, <1>4 DEF Table, Has, CachedRow
      <3>2. entries[c][x] \in TypeName
        BY <1>3, <1>4, KindName
      <3> QED
        BY <3>1, <3>2, TableAssumption DEF OneDirEntry
    <2> HIDE DEF e
    <2>2. formatted' = [formatted EXCEPT ![c][x] = e]
      BY <1>4 DEF e
    <2>3. /\ formatted'[c] = [formatted[c] EXCEPT ![x] = e]
          /\ \A u \in Client : u # c => formatted'[u] = formatted[u]
          /\ formatted[c] \in DirEntries
      BY <1>1, <2>2 DEF CallsInv, LocalsOK
    <2>4. /\ formatted'[c][x] = e
          /\ \A y \in Path : y # x => formatted'[c][y] = formatted[c][y]
      BY <2>3 DEF DirEntries
    <2>5. LocalsOK'
      BY <1>1, <1>4, <2>1, <2>2 DEF CallsInv, LocalsOK, DirEntries
    <2>6. CallsHaveRows'
      <3> SUFFICES ASSUME NEW u \in Client, pc[u] = "entryinsert"
                   PROVE  next[u] \in Todo(u)'
        BY <1>1, <1>4 DEF CallsInv, CallsHaveRows
      <3>1. u # c
        BY <1>1
      <3> QED
        BY <1>1, <1>4, <2>3, <3>1 DEF CallsInv, CallsHaveRows, Todo
    <2>7. FormattedResolves'
      <3> SUFFICES ASSUME NEW u \in Client, NEW y \in Names(formatted'[u])
                   PROVE  /\ Has(db, y)
                          /\ db.rows[y].inode = formatted'[u][y].inode
                          /\ y \in Names(entries[u])
                          /\ formatted'[u][y].type = entries[u][y]
        BY <1>1, <1>4 DEF FormattedResolves
      <3>1. CASE u = c /\ y = x
        BY <1>3, <1>4, <2>1, <2>4, <3>1
      <3>2. CASE u # c
        BY <1>1, <2>3, <3>2 DEF CallsInv, FormattedResolves
      <3>3. CASE u = c /\ y # x
        BY <1>1, <2>4, <3>3 DEF CallsInv, FormattedResolves, Names
      <3> QED
        BY <3>1, <3>2, <3>3
    <2>8. IdleFormatted'
      BY <1>1, <1>4, <2>3 DEF CallsInv, IdleFormatted
    <2> QED
      BY <1>2, <2>5, <2>6, <2>7, <2>8, IInvParts DEF CallsInv
  <1>5. CASE /\ sqlTypeNameOK(entries[c][x])
             /\ pc' = [pc EXCEPT ![c] = "entryinsert"]
             /\ next' = [next EXCEPT ![c] = x]
             /\ UNCHANGED <<path, type, entries, formatted>>
    <2>1. LocalsOK' /\ FormattedResolves' /\ IdleFormatted'
      BY <1>1, <1>5 DEF CallsInv, LocalsOK, FormattedResolves, IdleFormatted
    <2>2. CallsHaveRows'
      BY <1>1, <1>5 DEF CallsInv, LocalsOK, CallsHaveRows, Todo
    <2> QED
      BY <1>2, <2>1, <2>2, IInvParts DEF CallsInv
  <1>6. CASE Return(c)
    BY <1>1, <1>6, ReturnIInv
  <1> QED
    BY <1>4, <1>5, <1>6 DEF SelectEntry

\* InsertEntry formats the row that it inserts.
LEMMA InsertEntryIInv ==
    ASSUME IInv, NEW c \in Client, InsertEntry(c)
    PROVE  IInv'
  <1> DEFINE x == next[c]
  <1>1. /\ TableInv /\ CallsInv /\ db \in Table
        /\ pc[c] = "entryinsert" /\ x \in Path /\ x \in Names(entries[c])
        /\ sqlTypeNameOK(entries[c][x])
    BY IInvParts DEF InsertEntry, TableInv, CallsInv, LocalsOK, CallsHaveRows, Todo
  <1>2. entries[c][x] \in TypeName
    <2>1. entries[c][x] \in Kind
      BY <1>1 DEF CallsInv, LocalsOK, Listing, Names
    <2> QED
      BY <1>1, <2>1, KindName
  <1>3. CASE /\ CanInsert(db, x)
             /\ db' = Insert(db, x, entries[c][x])
             /\ formatted' = [formatted EXCEPT ![c][x] =
                                [inode |-> db'.last, type |-> entries[c][x]]]
             /\ pc' = [pc EXCEPT ![c] = "entries"]
             /\ UNCHANGED <<path, type, entries, next>>
    <2> DEFINE e == [inode |-> db'.last, type |-> entries[c][x]]
    <2>1. TableInv' /\ Extends(db, db')
      BY <1>1, <1>2, <1>3, InsertKeeps
    <2>2. Has(db', x) /\ db'.rows[x].inode = db'.last /\ db'.last \in Nat
      BY <1>1, <1>2, <1>3, InsertLemma DEF CanInsert, Table
    <2>3. e \in OneDirEntry /\ e # Nil /\ e.inode = db'.last /\ e.type = entries[c][x]
      BY <1>2, <2>2, TableAssumption DEF OneDirEntry
    <2>4. formatted' = [formatted EXCEPT ![c][x] = e]
      BY <1>3
    <2> HIDE DEF e, x
    <2>5. /\ formatted'[c] = [formatted[c] EXCEPT ![x] = e]
          /\ \A u \in Client : u # c => formatted'[u] = formatted[u]
          /\ formatted[c] \in DirEntries
      BY <1>1, <2>4 DEF CallsInv, LocalsOK
    <2>6. /\ formatted'[c][x] = e
          /\ \A y \in Path : y # x => formatted'[c][y] = formatted[c][y]
      BY <1>1, <2>5 DEF DirEntries
    <2>7. LocalsOK'
      BY <1>1, <1>3, <2>3, <2>4 DEF CallsInv, LocalsOK, DirEntries
    <2>8. CallsHaveRows'
      <3> SUFFICES ASSUME NEW u \in Client
                   PROVE  /\ pc'[u] \in {"entries", "entryinsert"} => Has(db', path[u])
                          /\ pc'[u] = "entryinsert" =>
                                /\ next[u] \in Todo(u)'
                                /\ sqlTypeNameOK(entries[u][next[u]])
        BY <1>3 DEF CallsHaveRows
      <3>1. path[u] \in Path
        BY <1>1 DEF CallsInv, LocalsOK
      <3>2. CASE u = c
        BY <1>1, <1>3, <2>1, <3>1, <3>2 DEF CallsInv, LocalsOK, CallsHaveRows, Extends
      <3>3. CASE u # c
        BY <1>1, <1>3, <2>1, <2>5, <3>1, <3>3
        DEF CallsInv, LocalsOK, CallsHaveRows, Extends, Todo
      <3> QED
        BY <3>2, <3>3
    <2>9. FormattedResolves'
      <3> SUFFICES ASSUME NEW u \in Client, NEW y \in Names(formatted'[u])
                   PROVE  /\ Has(db', y)
                          /\ db'.rows[y].inode = formatted'[u][y].inode
                          /\ y \in Names(entries[u])
                          /\ formatted'[u][y].type = entries[u][y]
        BY <1>3 DEF FormattedResolves
      <3>0. y \in Path
        BY DEF Names
      <3>1. CASE u = c /\ y = x
        BY <1>1, <2>2, <2>3, <2>6, <3>1
      <3>2. CASE u # c
        BY <1>1, <2>1, <2>5, <3>0, <3>2 DEF CallsInv, FormattedResolves, Extends
      <3>3. CASE u = c /\ y # x
        BY <1>1, <2>1, <2>6, <3>0, <3>3 DEF CallsInv, FormattedResolves, Extends, Names
      <3> QED
        BY <3>1, <3>2, <3>3
    <2>10. IdleFormatted'
      BY <1>1, <1>3, <2>5 DEF CallsInv, LocalsOK, IdleFormatted
    <2> QED
      BY <2>1, <2>7, <2>8, <2>9, <2>10, IInvParts DEF CallsInv
  <1>4. CASE UNCHANGED db /\ Return(c)
    BY <1>4, ReturnIInv
  <1> QED
    BY <1>3, <1>4 DEF InsertEntry

\* UpdateDir stores a listing whose entries all have rows.
LEMMA UpdateDirIInv ==
    ASSUME IInv, NEW c \in Client, UpdateDir(c)
    PROVE  IInv'
  <1>1. /\ TableInv /\ CallsInv /\ db \in Table /\ Return(c)
        /\ pc[c] = "entries" /\ path[c] \in Path /\ formatted[c] \in DirEntries
    BY IInvParts DEF UpdateDir, TableInv, CallsInv, LocalsOK
  <1> DEFINE i == db.rows[path[c]].inode
  <1>2. CASE db' = SetDirEntries(db, i, formatted[c])
    <2>1. /\ db' \in Table
          /\ db'.last = db.last
          /\ \A q \in Path : Has(db', q) <=> Has(db, q)
          /\ \A q \in Path : q \notin WithInode(db, i) => db'.rows[q] = db.rows[q]
          /\ \A q \in WithInode(db, i) :
                db'.rows[q].entries = formatted[c] /\ db'.rows[q].inode = db.rows[q].inode
      BY <1>1, <1>2, SetDirEntriesLemma
    <2>2. \A q \in Path : Has(db, q) => db'.rows[q].inode = db.rows[q].inode
      BY <2>1
    <2>3. Extends(db, db')
      BY <2>1, <2>2 DEF Extends
    <2>4. InodesBounded' /\ InodesUnique'
      BY <1>1, <2>1, <2>2 DEF TableInv, InodesBounded, InodesUnique
    <2>5. EntriesResolve'
      <3> SUFFICES ASSUME NEW d \in Path, Has(db', d), db'.rows[d].entries # Nil,
                          NEW x \in Names(db'.rows[d].entries)
                   PROVE  Has(db', x) /\ db'.rows[x].inode = db'.rows[d].entries[x].inode
        BY DEF EntriesResolve
      <3>0. x \in Path
        BY DEF Names
      <3>1. CASE d \in WithInode(db, i)
        BY <1>1, <2>1, <2>2, <3>0, <3>1 DEF CallsInv, FormattedResolves
      <3>2. CASE d \notin WithInode(db, i)
        BY <1>1, <2>1, <2>2, <3>0, <3>2 DEF TableInv, EntriesResolve
      <3> QED
        BY <3>1, <3>2
    <2> QED
      BY <1>1, <2>1, <2>3, <2>4, <2>5, CallsReturn, IInvParts DEF TableInv
  <1>3. CASE UNCHANGED db
    BY <1>1, <1>3, ReturnIInv
  <1> QED
    BY <1>2, <1>3 DEF UpdateDir

\* Crash: all calls are gone, the table stays.
LEMMA CrashIInv ==
    ASSUME IInv, Crash
    PROVE  IInv'
  <1>1. TableInv'
    BY IInvParts DEF Crash, TableInv, InodesBounded, InodesUnique, EntriesResolve
  <1>2. CallsInv'
    BY NoEntriesType, TableAssumption
    DEF Crash, CallsInv, LocalsOK, CallsHaveRows, FormattedResolves, IdleFormatted, TypeName
  <1> QED
    BY <1>1, <1>2, IInvParts

\* Every step preserves the invariant.
LEMMA NextIInv == IInv /\ [Next]_vars => IInv'
  <1> SUFFICES ASSUME IInv, [Next]_vars PROVE IInv'
    OBVIOUS
  <1>1. ASSUME NEW c \in Client, NEW p \in Path, NEW t \in TypeNames,
               putNew(c, p, t) \/ putNewOrUpdate(c, p, t)
        PROVE  IInv'
    BY <1>1, putNewIInv, putNewOrUpdateIInv
  <1>2. ASSUME NEW c \in Client, putNewOrUpdateInsert(c) \/ InsertEntry(c) \/ UpdateDir(c)
        PROVE  IInv'
    BY <1>2, putNewOrUpdateInsertIInv, InsertEntryIInv, UpdateDirIInv
  <1>3. ASSUME NEW c \in Client, NEW p \in Path, NEW v \in Info, PutFileInfo(c, p, v)
        PROVE  IInv'
    BY <1>3, PutFileInfoIInv
  <1>4. ASSUME NEW c \in Client, NEW p \in Path, NEW v \in Text,
               PutContentHash(c, p, v) \/ PutSymlinkTarget(c, p, v)
        PROVE  IInv'
    BY <1>4, PutContentHashIInv, PutSymlinkTargetIInv
  <1>5. ASSUME NEW c \in Client, NEW p \in Path, NEW listing \in Listing,
               PutDirEntries(c, p, listing)
        PROVE  IInv'
    BY <1>5, PutDirEntriesIInv
  <1>6. ASSUME NEW c \in Client, NEW x \in Path, SelectEntry(c, x)
        PROVE  IInv'
    BY <1>6, SelectEntryIInv
  <1>7. CASE Crash
    BY <1>7, CrashIInv
  <1>8. CASE UNCHANGED vars
    BY <1>8 DEF IInv, vars, callVars, DataOK, InodesBounded, InodesUnique, CallsHaveRows,
                FormattedResolves, IdleFormatted, EntriesResolve, Todo
  <1>9. DirPaths \subseteq Path
    BY TableAssumption DEF DirPaths
  <1> QED
    BY <1>1, <1>2, <1>3, <1>4, <1>5, <1>6, <1>7, <1>8, <1>9, KindAssumption DEF Next, Method

\* The invariant holds in every reachable state.
LEMMA SpecIInv == Spec => []IInv
  BY InitIInv, NextIInv, PTL DEF Spec
-----------------------------------------------------------------------------
\* The table and the locals of every call are well typed: no row is ever given
\* a type that sqlTypeName does not name.
THEOREM TypeCorrect == Spec => []TypeOK
  <1>1. Init => direct \in Directs
    BY DEF Init
  <1>2. direct \in Directs /\ [Next]_vars => (direct \in Directs)'
    BY DEF Next, Crash, vars
  <1>3. IInv /\ direct \in Directs => TypeOK
    BY DEF IInv, TypeOK
  <1> QED
    BY <1>1, <1>2, <1>3, SpecIInv, PTL DEF Spec

\* Every entry of a stored directory refers to the row of that entry, whatever
\* the interleaving of PutDirEntries with other calls and with kills.
THEOREM ListingsResolve == Spec => []EntriesResolve
  <1>1. IInv => EntriesResolve
    BY DEF IInv
  <1> QED
    BY <1>1, SpecIInv, PTL
-----------------------------------------------------------------------------
\* What a step can do to the table: one INSERT or UPDATE, or nothing.
LEMMA DbStep ==
    ASSUME IInv, [Next]_vars
    PROVE  \/ UNCHANGED db
           \/ \E p \in Path, t \in TypeName : ~Has(db, p) /\ db' = Insert(db, p, t)
           \/ \E p \in Path, t \in TypeName : Has(db, p) /\ db' = UpdateType(db, p, t)
           \/ \E p \in Path, v \in Info :
                 Has(db, p) /\ db' = SetFileInfo(db, db.rows[p].inode, v)
           \/ \E p \in Path, v \in Text :
                 Has(db, p) /\ db' = SetContentHash(db, db.rows[p].inode, v)
           \/ \E p \in Path, v \in Text :
                 Has(db, p) /\ db' = SetSymlinkTarget(db, db.rows[p].inode, v)
           \/ \E c \in Client :
                 /\ Has(db, path[c]) /\ path[c] \in Path /\ formatted[c] \in DirEntries
                 /\ Todo(c) = {}
                 /\ db' = SetDirEntries(db, db.rows[path[c]].inode, formatted[c])
  <1>1. ASSUME NEW c \in Client, NEW p \in Path, NEW t \in TypeNames,
               putNew(c, p, t) \/ putNewOrUpdate(c, p, t)
        PROVE  \/ UNCHANGED db
               \/ ~Has(db, p) /\ t \in TypeName /\ db' = Insert(db, p, t)
               \/ Has(db, p) /\ t \in TypeName /\ db' = UpdateType(db, p, t)
    BY <1>1, TypeNamesAreNames DEF putNew, putNewOrUpdate, CanInsert
  <1>2. ASSUME NEW c \in Client, putNewOrUpdateInsert(c)
        PROVE  \/ UNCHANGED db
               \/ \E p \in Path, t \in TypeName : ~Has(db, p) /\ db' = Insert(db, p, t)
    BY <1>2 DEF putNewOrUpdateInsert, CanInsert, IInv, DataOK
  <1>3. ASSUME NEW c \in Client, InsertEntry(c)
        PROVE  \/ UNCHANGED db
               \/ \E p \in Path, t \in TypeName : ~Has(db, p) /\ db' = Insert(db, p, t)
    <2>1. next[c] \in Path /\ next[c] \in Names(entries[c])
          /\ sqlTypeNameOK(entries[c][next[c]])
      BY <1>3 DEF InsertEntry, IInv, DataOK, CallsHaveRows, Todo
    <2>2. entries[c][next[c]] \in Kind
      BY <2>1 DEF IInv, DataOK, Listing, Names
    <2>3. entries[c][next[c]] \in TypeName
      BY <2>1, <2>2, KindName
    <2> QED
      BY <1>3, <2>1, <2>3 DEF InsertEntry, CanInsert
  <1>4. ASSUME NEW c \in Client, UpdateDir(c)
        PROVE  \/ UNCHANGED db
               \/ /\ Has(db, path[c]) /\ path[c] \in Path /\ formatted[c] \in DirEntries
                  /\ Todo(c) = {}
                  /\ db' = SetDirEntries(db, db.rows[path[c]].inode, formatted[c])
    BY <1>4 DEF UpdateDir, IInv, DataOK, CallsHaveRows
  <1>5. ASSUME NEW c \in Client, NEW p \in Path, NEW v \in Info, PutFileInfo(c, p, v)
        PROVE  Has(db, p) /\ db' = SetFileInfo(db, db.rows[p].inode, v)
    BY <1>5 DEF PutFileInfo, HasNode
  <1>6. ASSUME NEW c \in Client, NEW p \in Path, NEW v \in Text, PutContentHash(c, p, v)
        PROVE  Has(db, p) /\ db' = SetContentHash(db, db.rows[p].inode, v)
    BY <1>6 DEF PutContentHash, HasNode
  <1>7. ASSUME NEW c \in Client, NEW p \in Path, NEW v \in Text, PutSymlinkTarget(c, p, v)
        PROVE  Has(db, p) /\ db' = SetSymlinkTarget(db, db.rows[p].inode, v)
    BY <1>7 DEF PutSymlinkTarget, HasNode
  <1>8. ASSUME \/ \E c \in Client, p \in Path, listing \in Listing : PutDirEntries(c, p, listing)
               \/ \E c \in Client, x \in Path : SelectEntry(c, x)
               \/ Crash
               \/ UNCHANGED vars
        PROVE  UNCHANGED db
    BY <1>8 DEF PutDirEntries, SelectEntry, Crash, vars
  <1>9. DirPaths \subseteq Path
    BY TableAssumption DEF DirPaths
  <1> QED
    BY <1>1, <1>2, <1>3, <1>4, <1>5, <1>6, <1>7, <1>8, <1>9, KindAssumption DEF Next, Method

\* Nothing that was cached is lost: rows stay, keep their inode numbers, and
\* no column goes back to NULL.
THEOREM RowsNeverLost == Spec => RowsGrow
  <1> DEFINE Kept(p) ==
        /\ Has(db', p)
        /\ db'.rows[p].inode = db.rows[p].inode
        /\ \A col \in {"info", "hash", "target", "entries"} :
              db.rows[p][col] # Nil => db'.rows[p][col] # Nil
  <1>1. ASSUME IInv, [Next]_vars, NEW p \in Path, Has(db, p)
        PROVE  Kept(p)
    <2>0. db \in Table
      BY <1>1 DEF IInv, DataOK
    <2>1. CASE UNCHANGED db
      BY <1>1, <2>1
    <2>2. ASSUME NEW q \in Path, NEW t \in TypeName, ~Has(db, q), db' = Insert(db, q, t)
          PROVE  Kept(p)
      <3>1. q # p
        BY <1>1, <2>2
      <3>2. db'.rows[p] = db.rows[p] /\ Has(db', p)
        BY <1>1, <2>0, <2>2, <3>1, InsertLemma DEF Has
      <3> QED
        BY <3>2
    <2>3. ASSUME NEW q \in Path, NEW t \in TypeName, Has(db, q), db' = UpdateType(db, q, t)
          PROVE  Kept(p)
      BY <1>1, <2>0, <2>3, UpdateTypeLemma
    <2>4. ASSUME NEW q \in Path, NEW v \in Info,
                 db' = SetFileInfo(db, db.rows[q].inode, v)
          PROVE  Kept(p)
      <3>1. v # Nil
        BY TableAssumption
      <3> QED
        BY <1>1, <2>0, <2>4, <3>1, SetFileInfoLemma
    <2>5. ASSUME NEW q \in Path, NEW v \in Text,
                 db' = SetContentHash(db, db.rows[q].inode, v)
          PROVE  Kept(p)
      <3>1. Affinity[v] # Nil
        BY TableAssumption
      <3> QED
        BY <1>1, <2>0, <2>5, <3>1, SetContentHashLemma
    <2>6. ASSUME NEW q \in Path, NEW v \in Text,
                 db' = SetSymlinkTarget(db, db.rows[q].inode, v)
          PROVE  Kept(p)
      <3>1. Affinity[v] # Nil
        BY TableAssumption
      <3> QED
        BY <1>1, <2>0, <2>6, <3>1, SetSymlinkTargetLemma
    <2>7. ASSUME NEW c \in Client, formatted[c] \in DirEntries,
                 db' = SetDirEntries(db, db.rows[path[c]].inode, formatted[c])
          PROVE  Kept(p)
      <3>1. formatted[c] # Nil
        BY <2>7, TableAssumption
      <3> QED
        BY <1>1, <2>0, <2>7, <3>1, SetDirEntriesLemma
    <2> QED
      BY <1>1, <2>1, <2>2, <2>3, <2>4, <2>5, <2>6, <2>7, DbStep
  <1>2. IInv /\ [Next]_vars => [\A p \in Path : Has(db, p) => Kept(p)]_db
    BY <1>1
  <1> QED
    BY <1>2, SpecIInv, PTL DEF Spec, RowsGrow

\* Every statement changes at most one row: an UPDATE by ROWID cannot touch the
\* row of another path, because inode numbers are unique.
THEOREM OneRowPerStatement == Spec => AffectsOneRow
  <1>1. ASSUME IInv, [Next]_vars
        PROVE  \/ UNCHANGED db
               \/ \E p \in Path : \A q \in Path : q # p => db'.rows[q] = db.rows[q]
    <2>0. db \in Table
      BY <1>1 DEF IInv, DataOK
    <2>1. \A p, q \in Path : Has(db, p) /\ q \in WithInode(db, db.rows[p].inode) => q = p
      BY <1>1 DEF IInv, InodesUnique, WithInode
    <2>2. ASSUME NEW p \in Path, NEW t \in TypeName, ~Has(db, p), db' = Insert(db, p, t)
          PROVE  \A q \in Path : q # p => db'.rows[q] = db.rows[q]
      BY <2>0, <2>2, InsertLemma
    <2>3. ASSUME NEW p \in Path, NEW t \in TypeName, Has(db, p), db' = UpdateType(db, p, t)
          PROVE  \A q \in Path : q # p => db'.rows[q] = db.rows[q]
      BY <2>0, <2>3, UpdateTypeLemma
    <2>4. ASSUME NEW p \in Path, NEW v \in Info, Has(db, p),
                 db' = SetFileInfo(db, db.rows[p].inode, v)
          PROVE  \A q \in Path : q # p => db'.rows[q] = db.rows[q]
      BY <2>0, <2>1, <2>4, SetFileInfoLemma
    <2>5. ASSUME NEW p \in Path, NEW v \in Text, Has(db, p),
                 db' = SetContentHash(db, db.rows[p].inode, v)
          PROVE  \A q \in Path : q # p => db'.rows[q] = db.rows[q]
      BY <2>0, <2>1, <2>5, SetContentHashLemma
    <2>6. ASSUME NEW p \in Path, NEW v \in Text, Has(db, p),
                 db' = SetSymlinkTarget(db, db.rows[p].inode, v)
          PROVE  \A q \in Path : q # p => db'.rows[q] = db.rows[q]
      BY <2>0, <2>1, <2>6, SetSymlinkTargetLemma
    <2>7. ASSUME NEW c \in Client, Has(db, path[c]), path[c] \in Path,
                 formatted[c] \in DirEntries,
                 db' = SetDirEntries(db, db.rows[path[c]].inode, formatted[c])
          PROVE  \A q \in Path : q # path[c] => db'.rows[q] = db.rows[q]
      BY <2>0, <2>1, <2>7, SetDirEntriesLemma
    <2> QED
      BY <1>1, <2>2, <2>3, <2>4, <2>5, <2>6, <2>7, DbStep
  <1>2. IInv /\ [Next]_vars =>
           [\A p, q \in Path :
               db'.rows[p] # db.rows[p] /\ db'.rows[q] # db.rows[q] => p = q]_db
    BY <1>1
  <1> QED
    BY <1>2, SpecIInv, PTL DEF Spec, AffectsOneRow

\* A directory is only ever given all the entries of one listing: a call to
\* PutDirEntries that fails, panics or is killed stores no part of it.
THEOREM ListingsWhole == Spec => EntriesWhole
  <1> DEFINE Whole(d) ==
        \E c \in Client :
            /\ path[c] = d
            /\ Names(db'.rows[d].entries) = Names(entries[c])
            /\ \A x \in Names(entries[c]) : db'.rows[d].entries[x].type = entries[c][x]
  <1>1. ASSUME IInv, [Next]_vars, NEW d \in Path, Has(db, d),
               db'.rows[d].entries # db.rows[d].entries
        PROVE  Whole(d)
    <2>0. db \in Table
      BY <1>1 DEF IInv, DataOK
    <2>1. ASSUME NEW c \in Client, Has(db, path[c]), path[c] \in Path,
                 formatted[c] \in DirEntries, Todo(c) = {},
                 db' = SetDirEntries(db, db.rows[path[c]].inode, formatted[c])
          PROVE  Whole(d)
      <3>1. d \in WithInode(db, db.rows[path[c]].inode)
        BY <1>1, <2>0, <2>1, SetDirEntriesLemma
      <3>2. path[c] = d
        BY <1>1, <2>1, <3>1 DEF IInv, InodesUnique, WithInode
      <3>3. db'.rows[d].entries = formatted[c]
        BY <2>0, <2>1, <3>1, SetDirEntriesLemma
      <3>4. Names(formatted[c]) = Names(entries[c])
        BY <1>1, <2>1 DEF IInv, FormattedResolves, Todo
      <3>5. \A x \in Names(entries[c]) : formatted[c][x].type = entries[c][x]
        BY <1>1, <3>4 DEF IInv, FormattedResolves
      <3> QED
        BY <3>2, <3>3, <3>4, <3>5
    <2>2. ASSUME NEW q \in Path, NEW t \in TypeName, ~Has(db, q), db' = Insert(db, q, t)
          PROVE  FALSE
      <3>1. q # d
        BY <1>1, <2>2
      <3> QED
        BY <1>1, <2>0, <2>2, <3>1, InsertLemma
    <2>3. ASSUME NEW q \in Path, NEW t \in TypeName, Has(db, q), db' = UpdateType(db, q, t)
          PROVE  FALSE
      BY <1>1, <2>0, <2>3, UpdateTypeLemma
    <2>4. ASSUME NEW q \in Path, NEW v \in Info,
                 db' = SetFileInfo(db, db.rows[q].inode, v)
          PROVE  FALSE
      BY <1>1, <2>0, <2>4, SetFileInfoLemma
    <2>5. ASSUME NEW q \in Path, NEW v \in Text,
                 db' = SetContentHash(db, db.rows[q].inode, v)
          PROVE  FALSE
      BY <1>1, <2>0, <2>5, SetContentHashLemma
    <2>6. ASSUME NEW q \in Path, NEW v \in Text,
                 db' = SetSymlinkTarget(db, db.rows[q].inode, v)
          PROVE  FALSE
      BY <1>1, <2>0, <2>6, SetSymlinkTargetLemma
    <2> QED
      BY <1>1, <2>1, <2>2, <2>3, <2>4, <2>5, <2>6, DbStep
  <1>2. IInv /\ [Next]_vars =>
           [\A d \in Path : Has(db, d) /\ db'.rows[d].entries # db.rows[d].entries
               => Whole(d)]_vars
    BY <1>1
  <1> QED
    BY <1>2, SpecIInv, PTL DEF Spec, EntriesWhole
=============================================================================
