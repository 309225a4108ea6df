------------------------ MODULE MetadataTableProofs ------------------------
(***************************************************************************)
(* Lemmas about the statements of MetadataTable, for any table: what each  *)
(* of them does to every row.  The proofs about the metadata cache and     *)
(* about the file system rest on them.                                     *)
(***************************************************************************)
EXTENDS MetadataTable, TLAPS

\* d2 has all the rows of d1, with the same ROWIDs.
Extends(d1, d2) ==
    \A p \in Path : Has(d1, p) =>
        /\ Has(d2, p)
        /\ d2.rows[p].inode = d1.rows[p].inode
-----------------------------------------------------------------------------
\* What an INSERT of a path without a row does to the table.
LEMMA InsertLemma ==
    ASSUME NEW d \in Table, NEW p \in Path, NEW t \in TypeName, ~Has(d, p)
    PROVE  LET e == Insert(d, p, t) IN
           /\ e \in Table
           /\ e.last = d.last + 1
           /\ Has(e, p) /\ e.rows[p].inode = d.last + 1 /\ e.rows[p].entries = Nil
           /\ \A q \in Path : q # p => e.rows[q] = d.rows[q]
           /\ Extends(d, e)
  <1> DEFINE row == [inode |-> d.last + 1, type |-> t, info |-> Nil, hash |-> Nil,
                     target |-> Nil, entries |-> Nil]
  <1> DEFINE e == Insert(d, p, t)
  <1>1. d.last \in Nat /\ d.rows \in [Path -> CachedRow \union {NoRow}]
    BY DEF Table
  <1>2. row \in CachedRow /\ row # NoRow
    BY <1>1, TableAssumption DEF CachedRow
  <1>3. e.rows = [d.rows EXCEPT ![p] = row] /\ e.last = d.last + 1
    BY DEF Insert
  <1>4. e \in Table
    BY <1>1, <1>2 DEF Insert, Table
  <1>5. e.rows[p] = row /\ \A q \in Path : q # p => e.rows[q] = d.rows[q]
    BY <1>1, <1>3
  <1>6. Has(e, p)
    BY <1>2, <1>5 DEF Has
  <1>7. Extends(d, e)
    BY <1>5 DEF Extends, Has
  <1> QED
    BY <1>3, <1>4, <1>5, <1>6, <1>7

\* What the UPDATE of a type does to the table.
LEMMA UpdateTypeLemma ==
    ASSUME NEW d \in Table, NEW p \in Path, NEW t \in TypeName, Has(d, p)
    PROVE  LET e == UpdateType(d, p, t) IN
           /\ e \in Table
           /\ e.last = d.last
           /\ \A q \in Path : q # p => e.rows[q] = d.rows[q]
           /\ \A q \in Path : Has(e, q) <=> Has(d, q)
           /\ \A q \in Path : Has(d, q) =>
                 \A col \in {"inode", "info", "hash", "target", "entries"} :
                    e.rows[q][col] = d.rows[q][col]
           /\ e.rows[p].type = t
           /\ Extends(d, e)
  <1> DEFINE e == UpdateType(d, p, t)
  <1> DEFINE row == [d.rows[p] EXCEPT !.type = t]
  <1>1. d.last \in Nat /\ d.rows \in [Path -> CachedRow \union {NoRow}]
    BY DEF Table
  <1>2. d.rows[p] \in CachedRow
    BY <1>1 DEF Has
  <1>3. row \in CachedRow /\ row # NoRow
    BY <1>2, TableAssumption DEF CachedRow
  <1>4. e = [d EXCEPT !.rows = [d.rows EXCEPT ![p] = row]]
    BY <1>1, <1>2 DEF UpdateType, Table
  <1>5. e.last = d.last /\ e.rows = [d.rows EXCEPT ![p] = row]
    BY <1>4 DEF Table
  <1>6. e \in Table
    BY <1>1, <1>3, <1>4 DEF Table
  <1>7. e.rows[p] = row /\ \A q \in Path : q # p => e.rows[q] = d.rows[q]
    BY <1>1, <1>5
  <1>8. /\ row.type = t
        /\ \A col \in {"inode", "info", "hash", "target", "entries"} :
              row[col] = d.rows[p][col]
    BY <1>2 DEF CachedRow
  <1>9. \A q \in Path : Has(e, q) <=> Has(d, q)
    BY <1>3, <1>7 DEF Has
  <1>10. \A q \in Path : Has(d, q) =>
             \A col \in {"inode", "info", "hash", "target", "entries"} :
                e.rows[q][col] = d.rows[q][col]
    BY <1>7, <1>8
  <1>11. Extends(d, e)
    BY <1>9, <1>10 DEF Extends
  <1>12. e.rows[p].type = t
    BY <1>7, <1>8
  <1> QED
    BY <1>5, <1>6, <1>7, <1>9, <1>10, <1>11, <1>12

\* What SetFileInfo does to the table: one column of the rows with that ROWID changes.
LEMMA SetFileInfoLemma ==
    ASSUME NEW d \in Table, NEW i, NEW v \in Info
    PROVE  LET e == SetFileInfo(d, i, v) IN
           /\ e \in Table
           /\ e.last = d.last
           /\ \A q \in Path : Has(e, q) <=> Has(d, q)
           /\ \A q \in Path : q \notin WithInode(d, i) => e.rows[q] = d.rows[q]
           /\ \A q \in WithInode(d, i) :
                 /\ e.rows[q].info = v
                 /\ \A col \in {"inode", "type", "info", "hash", "target", "entries"} :
                       col # "info" => e.rows[q][col] = d.rows[q][col]
  <1> DEFINE e == SetFileInfo(d, i, v)
  <1> DEFINE row(q) == [d.rows[q] EXCEPT !.info = v]
  <1>1. d.last \in Nat /\ d.rows \in [Path -> CachedRow \union {NoRow}]
    BY DEF Table
  <1>2. \A q \in WithInode(d, i) : d.rows[q] \in CachedRow
    BY <1>1 DEF WithInode, Has
  <1>3. \A q \in WithInode(d, i) : row(q) \in CachedRow /\ row(q) # NoRow
    BY <1>2, TableAssumption DEF CachedRow
  <1>4. \A q \in WithInode(d, i) :
           /\ row(q).info = v
           /\ \A col \in {"inode", "type", "info", "hash", "target", "entries"} :
                 col # "info" => row(q)[col] = d.rows[q][col]
    BY <1>2 DEF CachedRow
  <1>5. /\ e.last = d.last
        /\ e.rows = [p \in Path |-> IF p \in WithInode(d, i) THEN row(p) ELSE d.rows[p]]
    BY DEF SetFileInfo, Table
  <1>6. e \in Table
    <2>1. e = [rows |-> e.rows, last |-> e.last]
      BY DEF SetFileInfo, Table
    <2>2. e.rows \in [Path -> CachedRow \union {NoRow}]
      BY <1>1, <1>3, <1>5
    <2> QED
      BY <1>1, <1>5, <2>1, <2>2 DEF Table
  <1>7. /\ \A q \in Path : q \notin WithInode(d, i) => e.rows[q] = d.rows[q]
        /\ \A q \in WithInode(d, i) : e.rows[q] = row(q)
    BY <1>5 DEF WithInode
  <1>8. \A q \in Path : Has(e, q) <=> Has(d, q)
    BY <1>3, <1>7 DEF Has, WithInode
  <1> HIDE DEF e, row
  <1>9. \A q \in WithInode(d, i) :
           /\ e.rows[q].info = v
           /\ \A col \in {"inode", "type", "info", "hash", "target", "entries"} :
                 col # "info" => e.rows[q][col] = d.rows[q][col]
    BY <1>4, <1>7
  <1>10. e.last = d.last
    BY <1>5
  <1> QED
    BY <1>6, <1>7, <1>8, <1>9, <1>10 DEF e

\* What SetContentHash does to the table: one column of the rows with that ROWID changes.
LEMMA SetContentHashLemma ==
    ASSUME NEW d \in Table, NEW i, NEW v \in Text
    PROVE  LET e == SetContentHash(d, i, v) IN
           /\ e \in Table
           /\ e.last = d.last
           /\ \A q \in Path : Has(e, q) <=> Has(d, q)
           /\ \A q \in Path : q \notin WithInode(d, i) => e.rows[q] = d.rows[q]
           /\ \A q \in WithInode(d, i) :
                 /\ e.rows[q].hash = Affinity[v]
                 /\ \A col \in {"inode", "type", "info", "hash", "target", "entries"} :
                       col # "hash" => e.rows[q][col] = d.rows[q][col]
  <1> DEFINE e == SetContentHash(d, i, v)
  <1> DEFINE row(q) == [d.rows[q] EXCEPT !.hash = Affinity[v]]
  <1>1. d.last \in Nat /\ d.rows \in [Path -> CachedRow \union {NoRow}]
    BY DEF Table
  <1>2. \A q \in WithInode(d, i) : d.rows[q] \in CachedRow
    BY <1>1 DEF WithInode, Has
  <1>3. \A q \in WithInode(d, i) : row(q) \in CachedRow /\ row(q) # NoRow
    BY <1>2, TableAssumption DEF CachedRow
  <1>4. \A q \in WithInode(d, i) :
           /\ row(q).hash = Affinity[v]
           /\ \A col \in {"inode", "type", "info", "hash", "target", "entries"} :
                 col # "hash" => row(q)[col] = d.rows[q][col]
    BY <1>2 DEF CachedRow
  <1>5. /\ e.last = d.last
        /\ e.rows = [p \in Path |-> IF p \in WithInode(d, i) THEN row(p) ELSE d.rows[p]]
    BY DEF SetContentHash, Table
  <1>6. e \in Table
    <2>1. e = [rows |-> e.rows, last |-> e.last]
      BY DEF SetContentHash, Table
    <2>2. e.rows \in [Path -> CachedRow \union {NoRow}]
      BY <1>1, <1>3, <1>5
    <2> QED
      BY <1>1, <1>5, <2>1, <2>2 DEF Table
  <1>7. /\ \A q \in Path : q \notin WithInode(d, i) => e.rows[q] = d.rows[q]
        /\ \A q \in WithInode(d, i) : e.rows[q] = row(q)
    BY <1>5 DEF WithInode
  <1>8. \A q \in Path : Has(e, q) <=> Has(d, q)
    BY <1>3, <1>7 DEF Has, WithInode
  <1> HIDE DEF e, row
  <1>9. \A q \in WithInode(d, i) :
           /\ e.rows[q].hash = Affinity[v]
           /\ \A col \in {"inode", "type", "info", "hash", "target", "entries"} :
                 col # "hash" => e.rows[q][col] = d.rows[q][col]
    BY <1>4, <1>7
  <1>10. e.last = d.last
    BY <1>5
  <1> QED
    BY <1>6, <1>7, <1>8, <1>9, <1>10 DEF e

\* What SetSymlinkTarget does to the table: one column of the rows with that ROWID changes.
LEMMA SetSymlinkTargetLemma ==
    ASSUME NEW d \in Table, NEW i, NEW v \in Text
    PROVE  LET e == SetSymlinkTarget(d, i, v) IN
           /\ e \in Table
           /\ e.last = d.last
           /\ \A q \in Path : Has(e, q) <=> Has(d, q)
           /\ \A q \in Path : q \notin WithInode(d, i) => e.rows[q] = d.rows[q]
           /\ \A q \in WithInode(d, i) :
                 /\ e.rows[q].target = Affinity[v]
                 /\ \A col \in {"inode", "type", "info", "hash", "target", "entries"} :
                       col # "target" => e.rows[q][col] = d.rows[q][col]
  <1> DEFINE e == SetSymlinkTarget(d, i, v)
  <1> DEFINE row(q) == [d.rows[q] EXCEPT !.target = Affinity[v]]
  <1>1. d.last \in Nat /\ d.rows \in [Path -> CachedRow \union {NoRow}]
    BY DEF Table
  <1>2. \A q \in WithInode(d, i) : d.rows[q] \in CachedRow
    BY <1>1 DEF WithInode, Has
  <1>3. \A q \in WithInode(d, i) : row(q) \in CachedRow /\ row(q) # NoRow
    BY <1>2, TableAssumption DEF CachedRow
  <1>4. \A q \in WithInode(d, i) :
           /\ row(q).target = Affinity[v]
           /\ \A col \in {"inode", "type", "info", "hash", "target", "entries"} :
                 col # "target" => row(q)[col] = d.rows[q][col]
    BY <1>2 DEF CachedRow
  <1>5. /\ e.last = d.last
        /\ e.rows = [p \in Path |-> IF p \in WithInode(d, i) THEN row(p) ELSE d.rows[p]]
    BY DEF SetSymlinkTarget, Table
  <1>6. e \in Table
    <2>1. e = [rows |-> e.rows, last |-> e.last]
      BY DEF SetSymlinkTarget, Table
    <2>2. e.rows \in [Path -> CachedRow \union {NoRow}]
      BY <1>1, <1>3, <1>5
    <2> QED
      BY <1>1, <1>5, <2>1, <2>2 DEF Table
  <1>7. /\ \A q \in Path : q \notin WithInode(d, i) => e.rows[q] = d.rows[q]
        /\ \A q \in WithInode(d, i) : e.rows[q] = row(q)
    BY <1>5 DEF WithInode
  <1>8. \A q \in Path : Has(e, q) <=> Has(d, q)
    BY <1>3, <1>7 DEF Has, WithInode
  <1> HIDE DEF e, row
  <1>9. \A q \in WithInode(d, i) :
           /\ e.rows[q].target = Affinity[v]
           /\ \A col \in {"inode", "type", "info", "hash", "target", "entries"} :
                 col # "target" => e.rows[q][col] = d.rows[q][col]
    BY <1>4, <1>7
  <1>10. e.last = d.last
    BY <1>5
  <1> QED
    BY <1>6, <1>7, <1>8, <1>9, <1>10 DEF e

\* What SetDirEntries does to the table: one column of the rows with that ROWID changes.
LEMMA SetDirEntriesLemma ==
    ASSUME NEW d \in Table, NEW i, NEW v \in DirEntries
    PROVE  LET e == SetDirEntries(d, i, v) IN
           /\ e \in Table
           /\ e.last = d.last
           /\ \A q \in Path : Has(e, q) <=> Has(d, q)
           /\ \A q \in Path : q \notin WithInode(d, i) => e.rows[q] = d.rows[q]
           /\ \A q \in WithInode(d, i) :
                 /\ e.rows[q].entries = v
                 /\ \A col \in {"inode", "type", "info", "hash", "target", "entries"} :
                       col # "entries" => e.rows[q][col] = d.rows[q][col]
  <1> DEFINE e == SetDirEntries(d, i, v)
  <1> DEFINE row(q) == [d.rows[q] EXCEPT !.entries = v]
  <1>1. d.last \in Nat /\ d.rows \in [Path -> CachedRow \union {NoRow}]
    BY DEF Table
  <1>2. \A q \in WithInode(d, i) : d.rows[q] \in CachedRow
    BY <1>1 DEF WithInode, Has
  <1>3. \A q \in WithInode(d, i) : row(q) \in CachedRow /\ row(q) # NoRow
    BY <1>2, TableAssumption DEF CachedRow
  <1>4. \A q \in WithInode(d, i) :
           /\ row(q).entries = v
           /\ \A col \in {"inode", "type", "info", "hash", "target", "entries"} :
                 col # "entries" => row(q)[col] = d.rows[q][col]
    BY <1>2 DEF CachedRow
  <1>5. /\ e.last = d.last
        /\ e.rows = [p \in Path |-> IF p \in WithInode(d, i) THEN row(p) ELSE d.rows[p]]
    BY DEF SetDirEntries, Table
  <1>6. e \in Table
    <2>1. e = [rows |-> e.rows, last |-> e.last]
      BY DEF SetDirEntries, Table
    <2>2. e.rows \in [Path -> CachedRow \union {NoRow}]
      BY <1>1, <1>3, <1>5
    <2> QED
      BY <1>1, <1>5, <2>1, <2>2 DEF Table
  <1>7. /\ \A q \in Path : q \notin WithInode(d, i) => e.rows[q] = d.rows[q]
        /\ \A q \in WithInode(d, i) : e.rows[q] = row(q)
    BY <1>5 DEF WithInode
  <1>8. \A q \in Path : Has(e, q) <=> Has(d, q)
    BY <1>3, <1>7 DEF Has, WithInode
  <1> HIDE DEF e, row
  <1>9. \A q \in WithInode(d, i) :
           /\ e.rows[q].entries = v
           /\ \A col \in {"inode", "type", "info", "hash", "target", "entries"} :
                 col # "entries" => e.rows[q][col] = d.rows[q][col]
    BY <1>4, <1>7
  <1>10. e.last = d.last
    BY <1>5
  <1> QED
    BY <1>6, <1>7, <1>8, <1>9, <1>10 DEF e

-----------------------------------------------------------------------------
\* No two rows have the same ROWID, and none is greater than the last one given.
DistinctInodes(d) ==
    \A p, q \in Path : Has(d, p) /\ Has(d, q) /\ d.rows[p].inode = d.rows[q].inode => p = q

BoundedInodes(d) == \A p \in Path : Has(d, p) => d.rows[p].inode <= d.last

Columns == {"inode", "type", "info", "hash", "target", "entries"}

\* e is the table d with the value v in one column of the row of p.
Updates(d, e, p, col, v) ==
    /\ e \in Table
    /\ e.last = d.last
    /\ \A q \in Path : q # p => e.rows[q] = d.rows[q]
    /\ Has(d, p) /\ Has(e, p)
    /\ e.rows[p][col] = v
    /\ \A c \in Columns \ {col} : e.rows[p][c] = d.rows[p][c]

\* A table has the ROWID of one path in the row of that path only.
LEMMA OwnRow ==
    ASSUME NEW d \in Table, DistinctInodes(d), NEW p \in Path, Has(d, p)
    PROVE  WithInode(d, d.rows[p].inode) = {p}
  BY DEF WithInode, DistinctInodes

\* An UPDATE by ROWID changes the row of one path.
LEMMA OwnUpdates ==
    ASSUME NEW d \in Table, DistinctInodes(d), NEW p \in Path, Has(d, p)
    PROVE  LET i == d.rows[p].inode IN
           /\ \A v \in Info : Updates(d, SetFileInfo(d, i, v), p, "info", v)
           /\ \A v \in Text : Updates(d, SetContentHash(d, i, v), p, "hash", Affinity[v])
           /\ \A v \in Text : Updates(d, SetSymlinkTarget(d, i, v), p, "target", Affinity[v])
           /\ \A v \in DirEntries : Updates(d, SetDirEntries(d, i, v), p, "entries", v)
  <1> DEFINE i == d.rows[p].inode
  <1>1. WithInode(d, i) = {p}
    BY OwnRow
  <1> HIDE DEF i
  <1>2. \A v \in Info : Updates(d, SetFileInfo(d, i, v), p, "info", v)
    BY <1>1, SetFileInfoLemma DEF Updates, Columns
  <1>3. \A v \in Text : Updates(d, SetContentHash(d, i, v), p, "hash", Affinity[v])
    BY <1>1, SetContentHashLemma DEF Updates, Columns
  <1>4. \A v \in Text : Updates(d, SetSymlinkTarget(d, i, v), p, "target", Affinity[v])
    BY <1>1, SetSymlinkTargetLemma DEF Updates, Columns
  <1>5. \A v \in DirEntries : Updates(d, SetDirEntries(d, i, v), p, "entries", v)
    BY <1>1, SetDirEntriesLemma DEF Updates, Columns
  <1> QED
    BY <1>2, <1>3, <1>4, <1>5 DEF i

\* The listing read by ROWID is the one in the row of that path.
LEMMA OwnDirEntries ==
    ASSUME NEW d \in Table, DistinctInodes(d), NEW p \in Path, Has(d, p)
    PROVE  /\ d.rows[p].entries # Nil => GetDirEntries(d, d.rows[p].inode) = d.rows[p].entries
           /\ GetDirEntries(d, d.rows[p].inode) \in DirEntries
  <1> DEFINE i == d.rows[p].inode
  <1> DEFINE c == CHOOSE q \in WithInode(d, i) : TRUE
  <1>1. c = p
    BY OwnRow
  <1>2. GetDirEntries(d, i) = IF d.rows[c].entries = Nil THEN NoEntries ELSE d.rows[c].entries
    BY Zenon DEF GetDirEntries
  <1> HIDE DEF c
  <1>3. GetDirEntries(d, i) = IF d.rows[p].entries = Nil THEN NoEntries ELSE d.rows[p].entries
    BY <1>1, <1>2
  <1>4. d.rows[p].entries \in DirEntries \union {Nil}
    BY DEF Table, Has, CachedRow
  <1>5. NoEntries \in DirEntries
    BY DEF NoEntries, DirEntries
  <1> QED
    BY <1>3, <1>4, <1>5

\* The UPDATE of a type changes the row of one path.
LEMMA TypeUpdates ==
    ASSUME NEW d \in Table, NEW p \in Path, NEW t \in TypeName, Has(d, p)
    PROVE  Updates(d, UpdateType(d, p, t), p, "type", t)
  BY UpdateTypeLemma DEF Updates, Columns

\* An UPDATE of a column other than the ROWID keeps every ROWID.
LEMMA UpdatesInodes ==
    ASSUME NEW d \in Table, NEW e, NEW p \in Path, NEW col \in Columns \ {"inode"}, NEW v,
           Updates(d, e, p, col, v)
    PROVE  /\ Extends(d, e)
           /\ \A q \in Path : Has(e, q) <=> Has(d, q)
           /\ DistinctInodes(d) => DistinctInodes(e)
           /\ BoundedInodes(d) => BoundedInodes(e)
  <1>1. \A q \in Path : Has(e, q) <=> Has(d, q)
    BY DEF Updates, Has
  <1>2. \A q \in Path : Has(d, q) => e.rows[q].inode = d.rows[q].inode
    BY DEF Updates, Columns
  <1> QED
    BY <1>1, <1>2 DEF Extends, DistinctInodes, BoundedInodes, Updates

=============================================================================
