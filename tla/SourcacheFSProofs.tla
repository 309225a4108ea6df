------------------------- MODULE SourcacheFSProofs -------------------------
(***************************************************************************)
(* TLAPS proofs about SourcacheFS: for any tree of paths, any remote file  *)
(* system, any number of nodes and any choice of the paths that are        *)
(* accessed directly.                                                      *)
(***************************************************************************)
EXTENDS SourcacheFS, MetadataTableProofs, FiniteSetTheorems

\* The remote file system is one that the constants allow.
EnvInv ==
    /\ remote \in [Path -> UNION {States[p] : p \in Path}]
    /\ \A p \in Path : remote[p] \in States[p]
    /\ online \in BOOLEAN

\* Entries, rows and nodes that refer to the rows of the table d.
EntriesAgree(es, d) ==
    es # Nil => \A x \in Path : es[x] # Nil => Has(d, x) /\ es[x].inode = d.rows[x].inode

RowAgrees(row, p, d) ==
    /\ Has(d, p)
    /\ row.inode = d.rows[p].inode
    /\ EntriesAgree(row.entries, d)
    /\ row.entries # Nil => d.rows[p].entries # Nil

NodeAgrees(o, d) ==
    /\ Has(d, o.path)
    /\ o.inode = d.rows[o.path].inode
    /\ EntriesAgree(o.entries, d)
    /\ o.entries # Nil => d.rows[o.path].entries # Nil
    /\ \A x \in Path : o.rows[x] # NoRow => RowAgrees(o.rows[x], x, d)

\* The table identifies rows by their ROWIDs, its listings refer to rows, and the
\* root stays a directory.
TableInv(d) ==
    /\ d \in Table
    /\ DistinctInodes(d)
    /\ BoundedInodes(d)
    /\ Has(d, Root) /\ d.rows[Root].type = "directory"
    /\ \A p \in Path : Has(d, p) => RowAgrees(d.rows[p], p, d)

NodesInv(objects, d) ==
    /\ objects \in [Node -> NodeObject \union {NoNode}]
    /\ \A n \in Node : objects[n] # NoNode => NodeAgrees(objects[n], d)

\* A call is about the path of its node, or about one of its children, a listing
\* names only children, and what has been stored is no failure.
CallFits(c, o) ==
    /\ o # NoNode
    /\ c.op \in Op
    /\ c \in PendingCall(c.op)
    /\ c.op = "lookup" => c.path \in Children(o.path)
    /\ c.op # "lookup" => c.path = o.path
    /\ c.op = "readdir" /\ c.got \notin {Err, BadRead} =>
          \A x \in Path : c.got[x] # Nil => x \in Children(c.path)
    /\ c.phase = "local" => c.got \notin {Err, BadRead}

\* The calls of TypeOK, with the domain that it leaves open.
Calls == UNION {PendingCall(op) : op \in Op}

CallsInv ==
    /\ calls \in [Node -> Calls \union {Nil}]
    /\ \A n \in Node : calls[n] # Nil => CallFits(calls[n], nodes[n])

\* A lookup that found a row before it asked will find it afterwards, and what a
\* call has stored stays there until it is read back.
CallKnown(c, d) ==
    /\ c.op = "lookup" /\ (c.known \/ c.phase = "local") => Has(d, c.path)
    /\ c.op = "readdir" /\ c.phase = "local" => d.rows[c.path].entries # Nil

KnownInv == \A n \in Node : calls[n] # Nil => CallKnown(calls[n], db)

ReplyInv == reply # Nil => reply.op \in Op /\ reply \in GivenReply(reply.op)

\* The inductive invariant of types and inode numbers.
IInv ==
    /\ EnvInv
    /\ contents \subseteq Text
    /\ TableInv(db)
    /\ NodesInv(nodes, db)
    /\ CallsInv
    /\ KnownInv
    /\ ReplyInv
-----------------------------------------------------------------------------
\* The answers of the remote system, operation by operation.
LEMMA TruthCases ==
    ASSUME NEW r, NEW p
    PROVE  /\ Truth(r, "lookup", p) = IF r[p] = Missing THEN Missing ELSE r[p].type
           /\ Truth(r, "attr", p) = IF r[p] = Missing THEN Err ELSE r[p].info
           /\ Truth(r, "open", p) = IF r[p] # Missing /\ r[p].type = "file"
                                    THEN r[p].data ELSE Err
           /\ Truth(r, "readlink", p) = IF r[p] # Missing /\ r[p].type = "symlink"
                                        THEN r[p].data ELSE Err
  <1>1. Truth(r, "lookup", p) = IF r[p] = Missing THEN Missing ELSE r[p].type
    BY DEF Truth
  <1>2. Truth(r, "attr", p) = IF r[p] = Missing THEN Err ELSE r[p].info
    BY DEF Truth
  <1>3. Truth(r, "open", p) = IF r[p] # Missing /\ r[p].type = "file" THEN r[p].data ELSE Err
    BY DEF Truth
  <1>4. Truth(r, "readlink", p) = IF r[p] # Missing /\ r[p].type = "symlink"
                                  THEN r[p].data ELSE Err
    BY DEF Truth
  <1> QED
    BY <1>1, <1>2, <1>3, <1>4

\* The listing of a directory names its children that exist, with their types.
LEMMA TruthListing ==
    ASSUME NEW r, NEW p
    PROVE  Truth(r, "readdir", p) \in
              {Err, BadRead, [x \in Path |-> IF x \in Children(p) /\ r[x] # Missing
                                             THEN r[x].type ELSE Nil]}
  BY DEF Truth

\* The answers are of the type of the operation.
LEMMA TruthType ==
    ASSUME NEW r, \A p \in Path : r[p] \in States[p], NEW op \in Op, NEW p \in Path
    PROVE  Truth(r, op, p) \in Value[op] \union Failure(op)
  <1>1. r[p] = Missing \/ r[p] \in RemoteObject
    BY FSAssumption
  <1>2. r[p] # Missing => /\ r[p].type \in ModeType
                          /\ r[p].info \in Info
                          /\ r[p].type \in {"file", "symlink"} => r[p].data \in Text
    BY <1>1 DEF RemoteObject
  <1>3. Err \in Failure(op)
    BY DEF Failure
  <1>4. CASE op = "lookup"
    BY <1>2, <1>4, TruthCases DEF Value
  <1>5. CASE op = "attr"
    BY <1>2, <1>3, <1>5, TruthCases DEF Value
  <1>6. CASE op = "open"
    BY <1>2, <1>3, <1>6, TruthCases DEF Value
  <1>7. CASE op = "readlink"
    BY <1>2, <1>3, <1>7, TruthCases DEF Value
  <1>8. CASE op = "readdir"
    <2> DEFINE listing == [x \in Path |-> IF x \in Children(p) /\ r[x] # Missing
                                          THEN r[x].type ELSE Nil]
    <2>1. \A x \in Path : r[x] # Missing => r[x].type \in ModeType
      BY FSAssumption DEF RemoteObject
    <2>2. listing \in Listing
      BY <2>1 DEF Listing
    <2>3. Value[op] = Listing /\ Failure(op) = {Err, BadRead}
      BY <1>8 DEF Value, Failure
    <2> HIDE DEF listing
    <2>4. Truth(r, op, p) \in {Err, BadRead, listing}
      BY <1>8, TruthListing DEF listing
    <2> QED
      BY <2>2, <2>3, <2>4
  <1> QED
    BY <1>4, <1>5, <1>6, <1>7, <1>8 DEF Op

LEMMA SeenType ==
    ASSUME NEW r, \A p \in Path : r[p] \in States[p], NEW up, NEW op \in Op, NEW p \in Path
    PROVE  /\ Ask(r, up, op, p) \in Value[op] \union Failure(op)
           /\ Seen(r, up, op, p) \subseteq Value[op] \union Failure(op)
  <1>1. Err \in Failure(op)
    BY DEF Failure
  <1>2. Ask(r, up, op, p) \in Value[op] \union Failure(op)
    BY <1>1, TruthType DEF Ask
  <1> QED
    BY <1>2 DEF Seen

\* The answers to a call are of the type of the operation, and a listing names
\* only children.
LEMMA AnswersType ==
    ASSUME EnvInv, NEW op \in Op, NEW p \in Path, NEW v \in Answers(op, p)
    PROVE  /\ v \in Value[op] \union Failure(op)
           /\ op = "readdir" /\ v \notin {Err, BadRead} =>
                 \A x \in Path : v[x] # Nil => x \in Children(p)
           /\ v \in {Truth(remote, op, p), Err, BadRead}
           /\ v = Ask(remote, online, op, p) \/ ~online \/ LocalErrors
  <1>1. Ask(remote, online, op, p) \in Value[op] \union Failure(op)
    BY SeenType DEF EnvInv
  <1>2. v \in Value[op] \union Failure(op)
    BY <1>1 DEF Answers, Failure
  <1>3. v \in {Truth(remote, op, p), Err, BadRead}
    BY DEF Answers, Ask
  <1>4. v = Ask(remote, online, op, p) \/ ~online \/ LocalErrors
    BY DEF Answers
  <1>5. ASSUME op = "readdir", v \notin {Err, BadRead}, NEW x \in Path, v[x] # Nil
        PROVE  x \in Children(p)
    <2>1. v = Truth(remote, "readdir", p)
      BY <1>3, <1>5
    <2>2. v = [y \in Path |-> IF y \in Children(p) /\ remote[y] # Missing
                              THEN remote[y].type ELSE Nil]
      BY <1>5, <2>1, TruthListing
    <2> QED
      BY <1>5, <2>2
  <1> QED
    BY <1>2, <1>3, <1>4, <1>5

\* An answer that is put together from two has the type of both, a listing names
\* what one of them names, and it is a failure only if the later one is.
LEMMA MixType ==
    ASSUME NEW op \in Op, NEW v \in Value[op] \union Failure(op),
           NEW w \in Value[op] \union Failure(op), NEW u \in Mix(op, v, w)
    PROVE  /\ u \in Value[op] \union Failure(op)
           /\ op = "readdir" /\ u \notin {Err, BadRead} =>
                 /\ w \notin {Err, BadRead}
                 /\ \A x \in Path : u[x] = w[x] \/ (v \notin {Err, BadRead} /\ u[x] = v[x])
           /\ u = w \/ {v, w, u} \cap {Err, BadRead} = {}
  <1>1. CASE op = "open" /\ v # w /\ {v, w} \subseteq Text
    <2>1. Value["open"] = Text /\ "open" \in Op
      BY DEF Value, Op
    <2>2. u \in Text
      BY <1>1 DEF Mix
    <2>3. {Err, BadRead} \cap Text = {}
      BY <2>1, ValueAssumption
    <2> QED
      BY <1>1, <2>1, <2>2, <2>3
  <1>2. CASE op = "readdir" /\ {v, w} \cap {Err, BadRead} = {}
    <2>1. Value["readdir"] = Listing /\ Failure("readdir") = {Err, BadRead} /\ "readdir" \in Op
      BY DEF Value, Failure, Op
    <2>2. v \in Listing /\ w \in Listing
      BY <1>2, <2>1
    <2>3. PICK S \in SUBSET Path : u = [x \in Path |-> IF x \in S THEN w[x] ELSE v[x]]
      BY <1>2 DEF Mix
    <2>4. u \in Listing
      BY <2>2, <2>3 DEF Listing
    <2>5. u \notin {Err, BadRead}
      BY <2>1, <2>4, ValueAssumption
    <2>6. \A x \in Path : u[x] = w[x] \/ u[x] = v[x]
      BY <2>3
    <2> QED
      BY <1>2, <2>1, <2>4, <2>5, <2>6
  <1>3. CASE u = w
    BY <1>3
  <1> QED
    BY <1>1, <1>2, <1>3 DEF Mix

-----------------------------------------------------------------------------
\* e has kept the rows of d, with their ROWIDs, and still has a listing where d
\* had one.
Keeps(d, e) ==
    /\ Extends(d, e)
    /\ \A p \in Path : Has(d, p) /\ d.rows[p].entries # Nil => e.rows[p].entries # Nil

\* What refers to the rows of a table refers to those of a table that has kept
\* them.
LEMMA AgreeMono ==
    ASSUME NEW d, NEW e, Keeps(d, e)
    PROVE  /\ \A es : EntriesAgree(es, d) => EntriesAgree(es, e)
           /\ \A row : \A p \in Path : RowAgrees(row, p, d) => RowAgrees(row, p, e)
           /\ \A o : o.path \in Path /\ NodeAgrees(o, d) => NodeAgrees(o, e)
  <1>1. \A es : EntriesAgree(es, d) => EntriesAgree(es, e)
    BY DEF EntriesAgree, Keeps, Extends
  <1>2. ASSUME NEW row, NEW p \in Path, RowAgrees(row, p, d)
        PROVE  RowAgrees(row, p, e)
    BY <1>1, <1>2 DEF RowAgrees, Keeps, Extends
  <1>3. ASSUME NEW o, o.path \in Path, NodeAgrees(o, d)
        PROVE  NodeAgrees(o, e)
    BY <1>1, <1>2, <1>3 DEF NodeAgrees, Keeps, Extends
  <1> QED
    BY <1>1, <1>2, <1>3

\* A row as INSERT makes it.
NewRow(i, t) == [inode |-> i, type |-> t, info |-> Nil, hash |-> Nil, target |-> Nil,
                 entries |-> Nil]

LEMMA NewRowType ==
    ASSUME NEW i \in Nat, NEW t \in TypeName
    PROVE  /\ NewRow(i, t) \in CachedRow /\ NewRow(i, t) # NoRow
           /\ NewRow(i, t).inode = i /\ NewRow(i, t).type = t
           /\ NewRow(i, t).info = Nil /\ NewRow(i, t).hash = Nil
           /\ NewRow(i, t).target = Nil /\ NewRow(i, t).entries = Nil
  BY TableAssumption DEF NewRow, CachedRow

\* e is the table d with new rows for the paths S, which had none.
Inserts(d, e, S) ==
    /\ e \in Table
    /\ d.last <= e.last
    /\ \A q \in Path \ S : e.rows[q] = d.rows[q]
    /\ \A q \in S : /\ q \in Path /\ ~Has(d, q)
                    /\ \E i \in d.last + 1 .. e.last, t \in TypeName : e.rows[q] = NewRow(i, t)
    /\ \A q, x \in S : e.rows[q].inode = e.rows[x].inode => q = x

\* New rows keep what the table promises.
LEMMA InsertsTable ==
    ASSUME NEW d, TableInv(d), NEW e, NEW S, Inserts(d, e, S)
    PROVE  TableInv(e) /\ Keeps(d, e) /\ \A q \in S : Has(e, q)
  <1>1. /\ d \in Table /\ e \in Table
        /\ d.last \in Nat /\ e.last \in Nat
        /\ \A q \in Path : Has(d, q) => d.rows[q].inode \in Nat
        /\ \A q \in Path : Has(e, q) => e.rows[q].inode \in Nat
    BY DEF TableInv, Inserts, Table, Has, CachedRow
  <1>2. ASSUME NEW q \in S
        PROVE  /\ Has(e, q) /\ e.rows[q].entries = Nil
               /\ d.last < e.rows[q].inode /\ e.rows[q].inode <= e.last
    <2>1. PICK i \in d.last + 1 .. e.last, t \in TypeName : e.rows[q] = NewRow(i, t)
      BY DEF Inserts
    <2>2. i \in Nat /\ d.last < i /\ i <= e.last
      BY <1>1
    <2> QED
      BY <2>1, <2>2, NewRowType DEF Has
  <1>3. \A q \in Path : Has(d, q) => q \notin S /\ e.rows[q] = d.rows[q] /\ Has(e, q)
    BY DEF Inserts, Has
  <1>4. \A q \in Path \ S : Has(e, q) => Has(d, q) /\ e.rows[q] = d.rows[q]
    BY DEF Inserts, Has
  <1>5. Keeps(d, e)
    BY <1>3 DEF Keeps, Extends
  <1>6. BoundedInodes(e)
    BY <1>1, <1>2, <1>4 DEF BoundedInodes, Inserts, TableInv
  <1>7. DistinctInodes(e)
    BY <1>1, <1>2, <1>4 DEF BoundedInodes, DistinctInodes, Inserts, TableInv
  <1>8. Has(e, Root) /\ e.rows[Root].type = "directory"
    BY <1>3, TableAssumption DEF TableInv
  <1>9. ASSUME NEW p \in Path, Has(e, p)
        PROVE  RowAgrees(e.rows[p], p, e)
    <2>1. CASE p \in S
      BY <1>2, <1>9, <2>1 DEF RowAgrees, EntriesAgree
    <2>2. CASE p \notin S
      <3>1. RowAgrees(d.rows[p], p, d) /\ e.rows[p] = d.rows[p]
        BY <1>4, <1>9, <2>2 DEF TableInv
      <3> QED
        BY <1>5, <3>1, AgreeMono
    <2> QED
      BY <2>1, <2>2
  <1> QED
    BY <1>1, <1>2, <1>5, <1>6, <1>7, <1>8, <1>9 DEF TableInv

\* The INSERT of one row.
LEMMA InsertInserts ==
    ASSUME NEW d \in Table, NEW p \in Path, NEW t \in TypeName, ~Has(d, p)
    PROVE  /\ Inserts(d, Insert(d, p, t), {p})
           /\ Insert(d, p, t).rows[p] = NewRow(d.last + 1, t)
  <1> DEFINE e == Insert(d, p, t)
  <1>1. d.last \in Nat /\ d.rows \in [Path -> CachedRow \union {NoRow}]
    BY DEF Table
  <1>2. e.rows = [d.rows EXCEPT ![p] = NewRow(d.last + 1, t)] /\ e.last = d.last + 1
    BY DEF Insert, NewRow
  <1>3. e \in Table /\ \A q \in Path : q # p => e.rows[q] = d.rows[q]
    BY InsertLemma
  <1>4. e.rows[p] = NewRow(d.last + 1, t)
    BY <1>1, <1>2
  <1> HIDE DEF e
  <1>5. \E i \in d.last + 1 .. e.last, u \in TypeName : e.rows[p] = NewRow(i, u)
    BY <1>1, <1>2, <1>4
  <1>6. Inserts(d, e, {p})
    BY <1>1, <1>2, <1>3, <1>5 DEF Inserts
  <1> QED
    BY <1>4, <1>6 DEF e

\* The INSERTs of the entries of a listing.
LEMMA InsertsOfInserts ==
    ASSUME NEW d \in Table, NEW S \in SUBSET Path, NEW listing,
           \A x \in S : listing[x] \in TypeName, NEW e \in InsertsOf(d, S, listing)
    PROVE  LET new == {x \in S : ~Has(d, x)} IN
           /\ Inserts(d, e, new)
           /\ \A x \in new : e.rows[x].type = listing[x]
  <1> DEFINE new == {x \in S : ~Has(d, x)}
  <1> DEFINE last == d.last + Cardinality(new)
  <1> DEFINE row(x, i) == [Insert(d, x, listing[x]).rows[x] EXCEPT !.inode = i]
  <1>1. PICK order \in [new -> d.last + 1 .. last] :
           /\ \A x, y \in new : order[x] = order[y] => x = y
           /\ e = [rows |-> [x \in Path |-> IF x \in new THEN row(x, order[x]) ELSE d.rows[x]],
                   last |-> last]
    BY DEF InsertsOf
  <1>2. d.last \in Nat /\ d.rows \in [Path -> CachedRow \union {NoRow}]
    BY DEF Table
  <1>3. IsFiniteSet(new) /\ Cardinality(new) \in Nat
    <2>1. IsFiniteSet(new)
      BY FSAssumption, FS_Subset
    <2> QED
      BY <2>1, FS_CardinalityType
  <1>4. last \in Nat /\ d.last <= last
    BY <1>2, <1>3
  <1>5. ASSUME NEW x \in new
        PROVE  row(x, order[x]) = NewRow(order[x], listing[x])
    <2>1. Insert(d, x, listing[x]).rows[x] = NewRow(d.last + 1, listing[x])
      BY InsertInserts
    <2> QED
      BY <2>1 DEF NewRow
  <1> HIDE DEF last, row
  <1>6. /\ e.last = last
        /\ \A x \in new : e.rows[x] = NewRow(order[x], listing[x])
        /\ \A x \in Path \ new : e.rows[x] = d.rows[x]
    BY <1>1, <1>5
  <1>7. \A x \in new : listing[x] \in TypeName
    OBVIOUS
  <1> HIDE DEF new
  <1>8. ASSUME NEW x \in new
        PROVE  /\ order[x] \in d.last + 1 .. last
               /\ NewRow(order[x], listing[x]) \in CachedRow
               /\ e.rows[x].inode = order[x]
               /\ e.rows[x].type = listing[x]
    <2>1. order[x] \in d.last + 1 .. last
      BY <1>1
    <2>2. order[x] \in Nat
      BY <1>2, <1>4, <2>1
    <2> QED
      BY <1>6, <1>7, <2>1, <2>2, NewRowType
  <1>9. e \in Table
    <2>1. [x \in Path |-> IF x \in new THEN row(x, order[x]) ELSE d.rows[x]]
             \in [Path -> CachedRow \union {NoRow}]
      BY <1>2, <1>5, <1>8
    <2> QED
      BY <1>1, <1>4, <2>1 DEF Table
  <1>10. Inserts(d, e, new)
    BY <1>1, <1>4, <1>6, <1>7, <1>8, <1>9 DEF Inserts, new
  <1> QED
    BY <1>8, <1>10 DEF new

\* An UPDATE of one column keeps what the table promises, if the listing that it
\* may store refers to rows and the root stays a directory.
LEMMA UpdatesTable ==
    ASSUME NEW d, TableInv(d), NEW e, NEW p \in Path, NEW col \in Columns \ {"inode"}, NEW v,
           Updates(d, e, p, col, v),
           col = "entries" => v # Nil /\ EntriesAgree(v, d),
           col = "type" /\ p = Root => v = "directory"
    PROVE  TableInv(e) /\ Keeps(d, e)
  <1>1. /\ Extends(d, e)
        /\ \A q \in Path : Has(e, q) <=> Has(d, q)
        /\ DistinctInodes(e)
        /\ BoundedInodes(e)
    BY UpdatesInodes DEF TableInv
  <1>2. Keeps(d, e)
    BY <1>1 DEF Keeps, Updates, Columns
  <1>3. Has(e, Root) /\ e.rows[Root].type = "directory"
    BY <1>1, <1>2, TableAssumption DEF TableInv, Updates, Columns
  <1>4. ASSUME NEW q \in Path, Has(e, q)
        PROVE  RowAgrees(e.rows[q], q, e)
    <2>1. EntriesAgree(e.rows[q].entries, d)
      BY <1>1, <1>2, <1>4 DEF TableInv, RowAgrees, Updates, Columns
    <2> QED
      BY <1>1, <1>2, <1>4, <2>1, AgreeMono DEF RowAgrees
  <1> QED
    BY <1>1, <1>2, <1>3, <1>4 DEF TableInv, Updates

\* putNewOrUpdate inserts a row or updates its type.
LEMMA putNewOrUpdateCases ==
    ASSUME NEW d \in Table, NEW p \in Path, NEW t \in TypeName
    PROVE  LET e == putNewOrUpdate(d, p, t) IN
           /\ Has(d, p) => Updates(d, e, p, "type", t)
           /\ ~Has(d, p) => Inserts(d, e, {p}) /\ e.rows[p] = NewRow(d.last + 1, t)
  BY TypeUpdates, InsertInserts DEF putNewOrUpdate

-----------------------------------------------------------------------------
Fields == {"path", "type", "inode", "info", "hash", "target", "entries", "rows"}

\* The node object o becomes u: one field gets the value v.
Becomes(o, u, field, v) ==
    /\ o \in NodeObject /\ u \in NodeObject
    /\ u[field] = v
    /\ \A f \in Fields \ {field} : u[f] = o[f]

\* The fields that handlers assign to.
LEMMA FieldSet ==
    ASSUME NEW o \in NodeObject
    PROVE  /\ \A v \in Info : Becomes(o, [o EXCEPT !["info"] = v], "info", v)
           /\ \A v \in Text : Becomes(o, [o EXCEPT !["hash"] = v], "hash", v)
           /\ \A v \in Text : Becomes(o, [o EXCEPT !["target"] = v], "target", v)
           /\ \A v \in DirEntries : Becomes(o, [o EXCEPT !["entries"] = v], "entries", v)
           /\ \A v \in [Path -> CachedRow \union {NoRow}] :
                 Becomes(o, [o EXCEPT !["rows"] = v], "rows", v)
  BY DEF NodeObject, Becomes, Fields

\* A node object that was changed in one field still agrees with the table, if
\* what it has learnt does.
LEMMA BecomesAgrees ==
    ASSUME NEW d, NEW o, NodeAgrees(o, d), NEW u, NEW v,
           NEW field \in {"info", "hash", "target", "entries", "rows"},
           Becomes(o, u, field, v),
           field = "entries" => EntriesAgree(v, d) /\ d.rows[o.path].entries # Nil,
           field = "rows" => \A x \in Path : v[x] # NoRow => RowAgrees(v[x], x, d)
    PROVE  NodeAgrees(u, d)
  <1>1. u.path = o.path /\ u.inode = o.inode
    BY DEF Becomes, Fields
  <1>2. field # "entries" => u.entries = o.entries
    BY DEF Becomes, Fields
  <1>3. field # "rows" => u.rows = o.rows
    BY DEF Becomes, Fields
  <1>4. field = "entries" => u.entries = v
    BY DEF Becomes
  <1>5. field = "rows" => u.rows = v
    BY DEF Becomes
  <1> QED
    BY <1>1, <1>2, <1>3, <1>4, <1>5 DEF NodeAgrees

\* A node made from a row.
LEMMA NewNode ==
    ASSUME NEW d, NEW p \in Path, NEW row \in CachedRow, row.type # "noentry",
           RowAgrees(row, p, d)
    PROVE  LET o == newNodeForEntry(p, row) IN
           /\ o \in NodeObject /\ o # NoNode
           /\ NodeAgrees(o, d)
           /\ o.path = p /\ o.type = row.type /\ o.inode = row.inode /\ o.info = row.info
           /\ o.hash = row.hash /\ o.target = row.target /\ o.entries = row.entries
           /\ \A x \in Path : o.rows[x] = NoRow
  <1> DEFINE o == newNodeForEntry(p, row)
  <1>1. /\ o.path = p /\ o.type = row.type /\ o.inode = row.inode /\ o.info = row.info
        /\ o.hash = row.hash /\ o.target = row.target /\ o.entries = row.entries
        /\ \A x \in Path : o.rows[x] = NoRow
    BY DEF newNodeForEntry
  <1>2. o \in NodeObject
    BY DEF newNodeForEntry, NodeObject, CachedRow
  <1>3. o # NoNode
    BY <1>2, ValueAssumption
  <1> HIDE DEF o
  <1>4. NodeAgrees(o, d)
    BY <1>1 DEF NodeAgrees, RowAgrees
  <1> QED
    BY <1>1, <1>2, <1>3, <1>4 DEF o

\* The nodes after one of them was changed.
LEMMA NodesChanged ==
    ASSUME NEW objs, NEW d, NEW e, NodesInv(objs, d), Keeps(d, e), NEW n \in Node, NEW u,
           u \in NodeObject \union {NoNode}, u # NoNode => NodeAgrees(u, e)
    PROVE  /\ NodesInv(objs, e)
           /\ NodesInv([objs EXCEPT ![n] = u], e)
  <1>1. objs \in [Node -> NodeObject \union {NoNode}]
    BY DEF NodesInv
  <1>2. ASSUME NEW m \in Node, objs[m] # NoNode
        PROVE  NodeAgrees(objs[m], e)
    <2>1. objs[m] \in NodeObject /\ objs[m].path \in Path
      BY <1>1, <1>2 DEF NodeObject
    <2>2. NodeAgrees(objs[m], d)
      BY <1>2 DEF NodesInv
    <2> QED
      BY <2>1, <2>2, AgreeMono
  <1>3. NodesInv(objs, e)
    BY <1>1, <1>2 DEF NodesInv
  <1>4. NodesInv([objs EXCEPT ![n] = u], e)
    BY <1>1, <1>2 DEF NodesInv
  <1> QED
    BY <1>3, <1>4

-----------------------------------------------------------------------------
\* A handler asks the remote system.
LEMMA BeginCalls ==
    ASSUME EnvInv, NodesInv(nodes, db), CallsInv, NEW n \in Idle, NEW op \in Op, NEW p \in Path,
           Begin(n, op, p), UNCHANGED nodes,
           op = "lookup" => p \in Children(nodes[n].path),
           op # "lookup" => p = nodes[n].path
    PROVE  /\ CallsInv' /\ ReplyInv'
           /\ reply' = Nil
           /\ \A m \in Node \ {n} : calls'[m] = calls[m]
           /\ calls'[n] # Nil
           /\ calls'[n].op = op /\ calls'[n].path = p /\ calls'[n].phase = "remote"
           /\ calls'[n].got \in Answers(op, p)
           /\ calls'[n].known = Known(op, p)
           /\ calls'[n].during = Seen(remote, online, op, p)
  <1>1. PICK v \in Answers(op, p) :
           calls' = [calls EXCEPT ![n] = [op |-> op, path |-> p, phase |-> "remote", got |-> v,
                                          known |-> Known(op, p),
                                          during |-> Seen(remote, online, op, p)]]
    BY DEF Begin
  <1> DEFINE c == [op |-> op, path |-> p, phase |-> "remote", got |-> v,
                   known |-> Known(op, p), during |-> Seen(remote, online, op, p)]
  <1>2. n \in Node /\ nodes[n] # NoNode /\ calls[n] = Nil
    BY DEF Idle, Live
  <1>3. calls \in [Node -> Calls \union {Nil}]
    BY DEF CallsInv
  <1>4. calls'[n] = c /\ \A m \in Node \ {n} : calls'[m] = calls[m]
    BY <1>1, <1>2, <1>3
  <1>5. v \in Value[op] \union Failure(op)
    BY AnswersType
  <1>6. Seen(remote, online, op, p) \in SUBSET (Value[op] \union Failure(op))
    BY SeenType DEF EnvInv
  <1>7. Known(op, p) \in BOOLEAN
    BY DEF Known
  <1>8. c \in PendingCall(op)
    BY <1>5, <1>6, <1>7 DEF PendingCall
  <1>9. c # Nil
    BY <1>8, ValueAssumption
  <1>10. c \in Calls
    BY <1>8 DEF Calls
  <1>11. calls' \in [Node -> Calls \union {Nil}]
    BY <1>1, <1>3, <1>10
  <1>12. c.op = op /\ c.path = p /\ c.phase = "remote" /\ c.got = v /\ c.known = Known(op, p)
         /\ c.during = Seen(remote, online, op, p)
    OBVIOUS
  <1> HIDE DEF c
  <1>13. CallFits(c, nodes[n])
    BY <1>2, <1>8, <1>12, AnswersType DEF CallFits
  <1>14. CallsInv'
    BY <1>4, <1>11, <1>13 DEF CallsInv
  <1>15. reply' = Nil
    BY DEF Begin
  <1> QED
    BY <1>4, <1>9, <1>12, <1>14, <1>15 DEF ReplyInv

\* A handler replies without asking the remote system.
LEMMA ReplyType ==
    ASSUME EnvInv, NEW op \in Op, NEW p \in Path, NEW v \in Value[op] \union {Err},
           NEW counter \in {"hit", "none"}, Reply(op, p, v, counter)
    PROVE  /\ ReplyInv'
           /\ reply' # Nil
           /\ reply'.op = op /\ reply'.path = p /\ reply'.val = v
           /\ reply'.known = Known(op, p)
           /\ reply'.during = Seen(remote, online, op, p)
           /\ reply'.counted = counter
  <1>1. Seen(remote, online, op, p) \in SUBSET (Value[op] \union Failure(op))
    BY SeenType DEF EnvInv
  <1>2. Known(op, p) \in BOOLEAN
    BY DEF Known
  <1>3. reply' \in GivenReply(op)
    BY <1>1, <1>2 DEF Reply, GivenReply
  <1>4. reply' # Nil
    BY <1>3, ValueAssumption
  <1>5. /\ reply'.op = op /\ reply'.path = p /\ reply'.val = v
        /\ reply'.known = Known(op, p)
        /\ reply'.during = Seen(remote, online, op, p)
        /\ reply'.counted = counter
    BY DEF Reply
  <1> QED
    BY <1>3, <1>4, <1>5 DEF ReplyInv

\* What the invariant says of a node that waits for the remote system.
LEMMA CallType ==
    ASSUME NodesInv(nodes, db), CallsInv, NEW n \in Node, calls[n] # Nil
    PROVE  LET c == calls[n] IN
           /\ nodes[n] # NoNode /\ nodes[n] \in NodeObject /\ nodes[n].path \in Path
           /\ c.op \in Op /\ c \in PendingCall(c.op)
           /\ c.path \in Path /\ c.phase \in {"remote", "local"}
           /\ c.got \in Value[c.op] \union Failure(c.op)
           /\ c.phase = "local" => c.got \notin {Err, BadRead}
           /\ c.known \in BOOLEAN
           /\ c.during \in SUBSET (Value[c.op] \union Failure(c.op))
           /\ c.op = "lookup" => c.path \in Children(nodes[n].path)
           /\ c.op # "lookup" => c.path = nodes[n].path
  <1>1. CallFits(calls[n], nodes[n])
    BY DEF CallsInv
  <1>2. nodes[n] # NoNode /\ nodes[n] \in NodeObject
    BY <1>1 DEF CallFits, NodesInv
  <1>3. nodes[n].path \in Path
    BY <1>2 DEF NodeObject
  <1>4. calls[n].op \in Op /\ calls[n] \in PendingCall(calls[n].op)
    BY <1>1 DEF CallFits
  <1>5. /\ calls[n].path \in Path /\ calls[n].phase \in {"remote", "local"}
        /\ calls[n].got \in Value[calls[n].op] \union Failure(calls[n].op)
        /\ calls[n].known \in BOOLEAN
        /\ calls[n].during \in SUBSET (Value[calls[n].op] \union Failure(calls[n].op))
    BY <1>4 DEF PendingCall
  <1> QED
    BY <1>1, <1>2, <1>3, <1>4, <1>5 DEF CallFits

\* A handler replies once the remote system has answered.
LEMMA DoneCalls ==
    ASSUME NodesInv(nodes, db), CallsInv, NEW n \in Node, calls[n] # Nil, NEW v,
           v \in Value[calls[n].op] \union {Err}, Done(n, v),
           \A m \in Node : calls[m] # Nil /\ m # n =>
               nodes'[m] # NoNode /\ nodes'[m].path = nodes[m].path
    PROVE  /\ CallsInv' /\ ReplyInv'
           /\ calls'[n] = Nil
           /\ \A m \in Node \ {n} : calls'[m] = calls[m]
           /\ reply' # Nil
           /\ reply'.op = calls[n].op /\ reply'.path = calls[n].path /\ reply'.val = v
           /\ reply'.known = calls[n].known /\ reply'.during = calls[n].during
           /\ reply'.counted = AccountRemote(calls[n].op, calls[n].path)
  <1> DEFINE op == calls[n].op
  <1>1. /\ op \in Op
        /\ calls[n].path \in Path
        /\ calls[n].known \in BOOLEAN
        /\ calls[n].during \in SUBSET (Value[op] \union Failure(op))
    BY CallType
  <1>2. calls \in [Node -> Calls \union {Nil}]
    BY DEF CallsInv
  <1>3. /\ calls'[n] = Nil
        /\ \A m \in Node \ {n} : calls'[m] = calls[m]
        /\ calls' \in [Node -> Calls \union {Nil}]
    BY <1>2 DEF Done
  <1>4. AccountRemote(op, calls[n].path) \in {"direct", "miss"}
    BY DEF AccountRemote
  <1>5. reply' = [op |-> op, path |-> calls[n].path, val |-> v,
                  during |-> calls[n].during, known |-> calls[n].known,
                  counted |-> AccountRemote(op, calls[n].path)]
    BY DEF Done
  <1> HIDE DEF op
  <1>6. reply' \in GivenReply(op)
    BY <1>1, <1>4, <1>5 DEF GivenReply, op
  <1>7. reply' # Nil
    BY <1>1, <1>6, ValueAssumption
  <1>8. /\ reply'.op = op /\ reply'.path = calls[n].path /\ reply'.val = v
        /\ reply'.known = calls[n].known /\ reply'.during = calls[n].during
        /\ reply'.counted = AccountRemote(op, calls[n].path)
    BY <1>5
  <1>9. CallsInv'
    BY <1>3 DEF CallsInv, CallFits
  <1> QED
    BY <1>1, <1>3, <1>6, <1>7, <1>8, <1>9 DEF ReplyInv, op

-----------------------------------------------------------------------------
(***************************************************************************)
(* The shape of the steps of the handlers: what may happen in one step to  *)
(* a row, to a node and to a call, and what is replied.  Every action is   *)
(* shown to have this shape once; the invariants below are then preserved  *)
(* because of it.                                                          *)
(***************************************************************************)

RowBecomes(p, col, v) ==
    /\ Has(db, p) /\ Has(db', p)
    /\ db'.rows[p][col] = v
    /\ \A c \in Columns \ {col} : db'.rows[p][c] = db.rows[p][c]

\* What n stores is told to the other calls that will read it back.
Tells(n) == \A m \in Node : Overlaps(m, n) => calls[n].got \in calls'[m].during

\* A directory has learnt the type t of p, by Lstat or by Readdir.
Learns(n, p, t) ==
    /\ calls[n] # Nil /\ calls[n].phase = "remote"
    /\ calls'[n] = Nil \/ calls'[n].phase = "local"
    /\ p \in Children(nodes[n].path)
    /\ \/ /\ calls[n].op = "lookup" /\ calls[n].path = p
          /\ \/ calls[n].got = t
             \/ calls[n].got = Missing /\ t = "noentry"
       \/ /\ calls[n].op = "readdir" /\ calls[n].got \notin {Err, BadRead}
          /\ calls[n].got[p] = t

RowInserted(p) ==
    /\ ~Has(db, p)
    /\ \E n \in Node, i \in Nat, t \in TypeName : db'.rows[p] = NewRow(i, t) /\ Learns(n, p, t)

TypeUpdated(p) ==
    \E n \in Node, t \in TypeName :
        /\ RowBecomes(p, "type", t)
        /\ Learns(n, p, t)
        /\ Tells(n)
        /\ calls[n].op = "lookup"
        /\ nodes[n].path \in Direct

\* A node stores what it has got in a column, and keeps it itself.
ColumnKept(n, p) ==
    LET got == calls[n].got IN
    /\ calls'[n] = Nil
    /\ nodes'[n] # NoNode
    /\ \/ /\ calls[n].op = "attr"
          /\ RowBecomes(p, "info", got) /\ nodes'[n].info = got
       \/ /\ calls[n].op = "open" /\ calls[n].phase = "local"
          /\ RowBecomes(p, "hash", Affinity[got]) /\ nodes'[n].hash = got
       \/ /\ calls[n].op = "readlink"
          /\ RowBecomes(p, "target", Affinity[got]) /\ nodes'[n].target = got

\* A node stores the listing that it has got, and will read it back.
ListingPut(n, p) ==
    /\ calls[n].op = "readdir" /\ calls[n].phase = "remote"
    /\ calls'[n] # Nil /\ calls'[n].op = "readdir" /\ calls'[n].phase = "local"
    /\ Tells(n)
    /\ \E es \in DirEntries : RowBecomes(p, "entries", es) /\ Types(es) = calls[n].got

ColumnStored(p) ==
    \E n \in Node :
        /\ nodes[n] # NoNode /\ nodes[n].path = p
        /\ calls[n] # Nil /\ calls[n].got \notin {Err, BadRead}
        /\ ColumnKept(n, p) \/ ListingPut(n, p)

RowStep(p) ==
    \/ db'.rows[p] = db.rows[p]
    \/ RowInserted(p)
    \/ TypeUpdated(p)
    \/ ColumnStored(p)

\* A lookup of x in the directory n finds a row: remembered, in the table, or in
\* the table once the remote system has answered.
Finds(n, x, row) ==
    /\ nodes[n] # NoNode
    /\ x \in Children(nodes[n].path)
    /\ row # NoRow
    /\ calls'[n] = Nil
    /\ \/ /\ calls[n] = Nil
          /\ nodes[n].path \notin Direct
          /\ Forgets \/ \A m \in Node : nodes[m] # NoNode => nodes[m].path # x
          /\ db' = db
          /\ row = IF nodes[n].rows[x] # NoRow THEN nodes[n].rows[x] ELSE db.rows[x]
       \/ /\ calls[n] # Nil /\ calls[n].op = "lookup" /\ calls[n].path = x
          /\ db' = db
          /\ row = db.rows[x]

NodeLoads(n) ==
    \E op, v :
        /\ op \in Op \ {"lookup"}
        /\ calls[n] # Nil /\ calls[n].op = op
        /\ Becomes(nodes[n], nodes'[n], Column[op], v)
        /\ op # "readdir" => v = calls[n].got /\ v # Err
        /\ op = "attr" => v = db'.rows[nodes[n].path].info
        /\ op = "open" =>
              calls[n].phase = "local" /\ Affinity[v] = db'.rows[nodes[n].path].hash
        /\ op = "readlink" => Affinity[v] = db'.rows[nodes[n].path].target
        /\ op = "readdir" => v = db'.rows[nodes[n].path].entries /\ v # Nil

NodeRemembers(n) ==
    \E x \in Path, row \in CachedRow :
        /\ Finds(n, x, row)
        /\ nodes[n].path \notin Direct
        /\ Becomes(nodes[n], nodes'[n], "rows", [nodes[n].rows EXCEPT ![x] = row])
        /\ row.type # "noentry" =>
              \E m \in Node : nodes'[m] # NoNode /\ nodes'[m].path = x

NodeMade(m) ==
    /\ nodes[m] = NoNode
    /\ \A k \in Node \ {m} : nodes[k] = NoNode => nodes'[k] = NoNode
    /\ \E n \in Node, x \in Path, row \in CachedRow :
          /\ Finds(n, x, row)
          /\ row.type # "noentry"
          /\ nodes'[m] = newNodeForEntry(x, row)

NodeStep(n) ==
    \/ nodes'[n] = nodes[n]
    \/ Forgets /\ nodes'[n] = NoNode
    \/ nodes[n] # NoNode /\ NodeLoads(n)
    \/ nodes[n] # NoNode /\ NodeRemembers(n)
    \/ NodeMade(n)

\* A handler has asked the remote system, for what its node has not loaded.
Asked(n) ==
    LET op == calls'[n].op
        p == calls'[n].path
    IN
    /\ calls[n] = Nil /\ nodes[n] # NoNode
    /\ UNCHANGED <<remote, online, db, nodes>>
    /\ op \in Op /\ p \in Path
    /\ calls'[n].phase = "remote"
    /\ calls'[n].got \in Answers(op, p)
    /\ calls'[n].known = Known(op, p)
    /\ calls'[n].during = Seen(remote, online, op, p)
    /\ op = "lookup" =>
          /\ p \in Children(nodes[n].path)
          /\ Forgets \/ \A m \in Node : nodes[m] # NoNode => nodes[m].path # p
          /\ nodes[n].path \notin Direct => nodes[n].rows[p] = NoRow /\ ~Has(db, p)
    /\ op # "lookup" =>
          /\ p = nodes[n].path
          /\ p \notin Direct => nodes[n][Column[op]] = Nil

\* The call c goes on as k, on the same node.
GoesOn(c, k) ==
    /\ c # Nil /\ k # Nil
    /\ k.op = c.op /\ k.path = c.path /\ k.known = c.known
    /\ UNCHANGED nodes

\* Some of the answer has come.
Heard(n) ==
    /\ GoesOn(calls[n], calls'[n])
    /\ calls[n].phase = "remote" /\ calls'[n].phase = "remote"
    /\ calls'[n].during = calls[n].during
    /\ UNCHANGED <<db, contents>>
    /\ \E v \in Answers(calls[n].op, calls[n].path) :
          calls'[n].got \in Mix(calls[n].op, calls[n].got, v)

\* The answer has been stored.
Stores(n) ==
    LET got == calls[n].got
        p == calls[n].path
    IN
    /\ GoesOn(calls[n], calls'[n])
    /\ calls[n].phase = "remote" /\ calls'[n].phase = "local"
    /\ calls'[n].got = got /\ calls'[n].during = calls[n].during
    /\ got \notin {Err, BadRead}
    /\ calls[n].op \in {"open", "lookup", "readdir"}
    /\ calls[n].op = "open" => got \in contents'
    /\ calls[n].op = "lookup" => Has(db', p) /\ TypeOf(db'.rows[p]) = got
    /\ calls[n].op = "readdir" => db'.rows[p].entries # Nil /\ Types(db'.rows[p].entries) = got

\* Another call has stored its answer in the same place.
Overlapped(n) ==
    /\ GoesOn(calls[n], calls'[n])
    /\ calls'[n].phase = calls[n].phase /\ calls'[n].got = calls[n].got
    /\ calls[n].during \subseteq calls'[n].during

\* The call is over.  A listing that was stored has been loaded.
Ended(n) ==
    /\ calls'[n] = Nil
    /\ calls[n] # Nil /\ calls[n].op = "readdir" /\ calls[n].phase = "local" =>
          LocalErrors \/ nodes'[n].entries = db'.rows[nodes[n].path].entries

CallStep(n) ==
    \/ calls'[n] = calls[n] /\ (calls[n] # Nil => nodes'[n].path = nodes[n].path)
    \/ Ended(n)
    \/ Asked(n)
    \/ Heard(n)
    \/ Stores(n)
    \/ Overlapped(n)

\* A reply from what a node has loaded.
FromNode(o, op, v) ==
    /\ op \in {"attr", "readlink"} => v = o[Column[op]]
    /\ op = "open" => v \in Content(o.hash)
    /\ op = "readdir" => v = Types(o.entries)

RepliesHit(n, op) ==
    /\ nodes[n] # NoNode /\ calls[n] = Nil
    /\ nodes[n].path \notin Direct
    /\ nodes[n][Column[op]] # Nil
    /\ reply'.op = op /\ reply'.path = nodes[n].path
    /\ FromNode(nodes[n], op, reply'.val)
    /\ reply'.counted = "hit"
    /\ reply'.known = Known(op, nodes[n].path)
    /\ UNCHANGED <<remote, db, contents, nodes>>

RepliesFound(n, x) ==
    /\ reply'.op = "lookup" /\ reply'.path = x
    /\ calls[n] = Nil
    /\ nodes[n].path \notin Direct
    /\ \E row \in CachedRow : Finds(n, x, row) /\ reply'.val = TypeOf(row)
    /\ reply'.counted # "miss"
    /\ UNCHANGED <<remote, db, contents>>

RepliesError ==
    /\ LocalErrors
    /\ reply'.val = Err
    /\ reply'.counted # "miss"

\* A reply with what the remote system has answered, which the table now holds,
\* or with what the table holds where the answer was stored.
RepliesFetched(n, v) ==
    LET op == calls[n].op
        p == calls[n].path
        got == calls[n].got
    IN
    /\ got \notin {Err, BadRead}
    /\ Has(db', p)
    /\ op = "lookup" =>
          /\ calls[n].phase = "local" /\ db' = db
          /\ v = TypeOf(db.rows[p]) \/ (v = Missing /\ got = Missing)
    /\ op = "attr" => v = got /\ db'.rows[p].info = got
    /\ op = "open" =>
          calls[n].phase = "local" /\ v \in Content(got) /\ db'.rows[p].hash = Affinity[got]
    /\ op = "readlink" => v = got /\ db'.rows[p].target = Affinity[got]
    /\ op = "readdir" =>
          /\ calls[n].phase = "local" /\ db' = db
          /\ db.rows[p].entries # Nil /\ v = Types(db.rows[p].entries)

\* A reply with what is cached of a path accessed directly, in place of an error.
RepliesCached(n, v) ==
    LET op == calls[n].op
        p == calls[n].path
    IN
    /\ IsDirect(op, p)
    /\ UNCHANGED <<remote, db, contents>>
    /\ op = "lookup" =>
          /\ calls[n].got \in {Err, Missing} /\ calls[n].known
          /\ Has(db, p) /\ v = TypeOf(db.rows[p])
    /\ op # "lookup" =>
          /\ calls[n].got = Err
          /\ op # "readdir" => nodes[n][Column[op]] # Nil /\ FromNode(nodes[n], op, v)
          /\ op = "readdir" => db.rows[p].entries # Nil /\ v = Types(db.rows[p].entries)

RepliesFailed(n, v) ==
    /\ v = Err
    /\ \/ LocalErrors
       \/ /\ calls[n].phase = "remote"
          /\ \/ calls[n].op # "lookup" \/ nodes[n].path \notin Direct
             \/ ~calls[n].known \/ calls[n].got = "other"

RepliesDone(n) ==
    /\ calls[n] # Nil
    /\ reply'.op = calls[n].op /\ reply'.path = calls[n].path
    /\ reply'.known = calls[n].known /\ reply'.during = calls[n].during
    /\ reply'.counted = AccountRemote(calls[n].op, calls[n].path)
    /\ UNCHANGED <<remote, contents>>
    /\ \/ RepliesFetched(n, reply'.val)
       \/ RepliesCached(n, reply'.val)
       \/ RepliesFailed(n, reply'.val)

ReplyStep ==
    \/ reply' = Nil
    \/ \E n \in Node, op \in Op \ {"lookup"} : RepliesHit(n, op)
    \/ \E n \in Node, x \in Path : RepliesFound(n, x)
    \/ RepliesError
    \/ \E n \in Node : RepliesDone(n)

Shape ==
    /\ UNCHANGED <<remote, online>>
    /\ contents \subseteq contents'
    /\ Keeps(db, db')
    /\ \A p \in Path : RowStep(p)
    /\ \A n \in Node : NodeStep(n)
    /\ \A n \in Node : CallStep(n)
    /\ ReplyStep

-----------------------------------------------------------------------------
\* A table keeps itself.
LEMMA KeepsSame ==
    ASSUME NEW d
    PROVE  Keeps(d, d)
  BY DEF Keeps, Extends

\* What the invariant says of an idle node.
LEMMA IdleType ==
    ASSUME IInv, NEW n \in Idle
    PROVE  /\ n \in Node /\ calls[n] = Nil /\ nodes[n] # NoNode
           /\ nodes[n] \in NodeObject /\ nodes[n].path \in Path
           /\ nodes[n].info \in Info \union {Nil} /\ nodes[n].hash \in Text \union {Nil}
           /\ nodes[n].target \in Text \union {Nil}
           /\ nodes[n].entries \in DirEntries \union {Nil}
           /\ nodes[n].rows \in [Path -> CachedRow \union {NoRow}]
  <1>1. n \in Node /\ calls[n] = Nil /\ nodes[n] # NoNode
    BY DEF Idle, Live
  <1>2. nodes[n] \in NodeObject
    BY <1>1 DEF IInv, NodesInv
  <1> QED
    BY <1>1, <1>2 DEF NodeObject

\* A handler that asks the remote system.
LEMMA BeginShape ==
    ASSUME IInv, NEW n \in Idle, NEW op \in Op, NEW p \in Path, Begin(n, op, p),
           UNCHANGED <<remote, online, db, nodes>>,
           UNCHANGED contents,
           op = "lookup" =>
              /\ p \in Children(nodes[n].path)
              /\ Forgets \/ \A m \in Node : nodes[m] # NoNode => nodes[m].path # p
              /\ nodes[n].path \notin Direct => nodes[n].rows[p] = NoRow /\ ~Has(db, p),
           op # "lookup" =>
              /\ p = nodes[n].path
              /\ p \notin Direct => nodes[n][Column[op]] = Nil
    PROVE  IInv' /\ Shape
  <1>1. /\ CallsInv' /\ ReplyInv'
        /\ reply' = Nil
        /\ \A m \in Node \ {n} : calls'[m] = calls[m]
        /\ calls'[n].op = op /\ calls'[n].path = p /\ calls'[n].phase = "remote"
        /\ calls'[n].got \in Answers(op, p)
        /\ calls'[n].known = Known(op, p)
        /\ calls'[n].during = Seen(remote, online, op, p)
    BY BeginCalls DEF IInv
  <1>2. n \in Node /\ calls[n] = Nil /\ nodes[n] # NoNode
    BY IdleType
  <1>3. IInv'
    <2>1. KnownInv'
      BY <1>1 DEF IInv, KnownInv, CallKnown, Known
    <2> QED
      BY <1>1, <2>1 DEF IInv, EnvInv, TableInv, NodesInv
  <1>4. Asked(n)
    BY <1>1, <1>2 DEF Asked
  <1>5. \A m \in Node : CallStep(m)
    BY <1>1, <1>4 DEF CallStep
  <1>6. (\A q \in Path : RowStep(q)) /\ (\A m \in Node : NodeStep(m)) /\ ReplyStep
    BY <1>1 DEF RowStep, NodeStep, ReplyStep
  <1> QED
    BY <1>3, <1>5, <1>6, KeepsSame DEF Shape

\* A handler that replies with what its node has loaded.
LEMMA HitShape ==
    ASSUME IInv, NEW n \in Idle, NEW op \in Op \ {"lookup"}, NEW v \in Value[op] \union {Err},
           Reply(op, nodes[n].path, v, "hit"), FromNode(nodes[n], op, v),
           nodes[n].path \notin Direct, nodes[n][Column[op]] # Nil,
           UNCHANGED <<remote, online, db, contents, nodes, calls>>
    PROVE  IInv' /\ Shape
  <1>1. n \in Node /\ calls[n] = Nil /\ nodes[n] # NoNode /\ nodes[n].path \in Path
    BY IdleType
  <1>2. /\ ReplyInv'
        /\ reply'.op = op /\ reply'.path = nodes[n].path /\ reply'.val = v
        /\ reply'.known = Known(op, nodes[n].path)
        /\ reply'.counted = "hit"
    BY <1>1, ReplyType DEF IInv
  <1>3. IInv'
    BY <1>2 DEF IInv, EnvInv, TableInv, NodesInv, CallsInv, KnownInv
  <1>4. RepliesHit(n, op)
    BY <1>1, <1>2 DEF RepliesHit
  <1>5. ReplyStep
    BY <1>1, <1>4 DEF ReplyStep
  <1>6. /\ \A q \in Path : RowStep(q)
        /\ \A m \in Node : NodeStep(m)
        /\ \A m \in Node : CallStep(m)
    BY DEF RowStep, NodeStep, CallStep
  <1> QED
    BY <1>3, <1>5, <1>6, KeepsSame DEF Shape

LEMMA AttrShape ==
    ASSUME IInv, NEW n \in Node, Attr(n)
    PROVE  IInv' /\ Shape
  <1> DEFINE p == nodes[n].path
  <1>1. n \in Idle /\ UNCHANGED <<remote, online, db, contents, nodes>>
    BY DEF Attr, envVars, cacheVars
  <1>2. contents \subseteq Text /\ p \in Path /\ nodes[n].info \in Info \union {Nil}
    BY <1>1, IdleType DEF IInv
  <1>3. CASE p \notin Direct /\ nodes[n].info # Nil
    <2>1. Reply("attr", p, nodes[n].info, "hit") /\ UNCHANGED calls
      BY <1>3 DEF Attr
    <2>2. "attr" \in Op \ {"lookup"} /\ Column["attr"] = "info" /\ nodes[n].info \in Value["attr"]
      BY <1>2, <1>3 DEF Op, Column, Value
    <2>3. FromNode(nodes[n], "attr", nodes[n].info)
      BY <2>2 DEF FromNode
    <2> QED
      BY <1>1, <1>3, <2>1, <2>2, <2>3, HitShape
  <1>4. CASE ~(p \notin Direct /\ nodes[n].info # Nil)
    <2>1. Begin(n, "attr", p)
      BY <1>4 DEF Attr
    <2>2. "attr" \in Op /\ Column["attr"] = "info"
      BY DEF Op, Column
    <2> QED
      BY <1>1, <1>2, <1>4, <2>1, <2>2, BeginShape
  <1> QED
    BY <1>3, <1>4

LEMMA ReadlinkShape ==
    ASSUME IInv, NEW n \in Node, Readlink(n)
    PROVE  IInv' /\ Shape
  <1> DEFINE p == nodes[n].path
  <1>1. n \in Idle /\ UNCHANGED <<remote, online, db, contents, nodes>>
    BY DEF Readlink, envVars, cacheVars
  <1>2. contents \subseteq Text /\ p \in Path /\ nodes[n].target \in Text \union {Nil}
    BY <1>1, IdleType DEF IInv
  <1>3. CASE p \notin Direct /\ nodes[n].target # Nil
    <2>1. Reply("readlink", p, nodes[n].target, "hit") /\ UNCHANGED calls
      BY <1>3 DEF Readlink
    <2>2. /\ "readlink" \in Op \ {"lookup"} /\ Column["readlink"] = "target"
          /\ nodes[n].target \in Value["readlink"]
      BY <1>2, <1>3 DEF Op, Column, Value
    <2>3. FromNode(nodes[n], "readlink", nodes[n].target)
      BY <2>2 DEF FromNode
    <2> QED
      BY <1>1, <1>3, <2>1, <2>2, <2>3, HitShape
  <1>4. CASE ~(p \notin Direct /\ nodes[n].target # Nil)
    <2>1. Begin(n, "readlink", p)
      BY <1>4 DEF Readlink
    <2>2. "readlink" \in Op /\ Column["readlink"] = "target"
      BY DEF Op, Column
    <2> QED
      BY <1>1, <1>2, <1>4, <2>1, <2>2, BeginShape
  <1> QED
    BY <1>3, <1>4

LEMMA OpenShape ==
    ASSUME IInv, NEW n \in Node, Open(n)
    PROVE  IInv' /\ Shape
  <1> DEFINE p == nodes[n].path
  <1>1. n \in Idle /\ UNCHANGED <<remote, online, db, contents, nodes>>
    BY DEF Open, envVars, cacheVars
  <1>2. contents \subseteq Text /\ p \in Path /\ nodes[n].hash \in Text \union {Nil}
    BY <1>1, IdleType DEF IInv
  <1>3. "open" \in Op \ {"lookup"} /\ Column["open"] = "hash" /\ Value["open"] = Text
    BY DEF Op, Column, Value
  <1>4. CASE p \notin Direct /\ nodes[n].hash # Nil
    <2>1. PICK c \in Content(nodes[n].hash) : Reply("open", p, c, "hit")
      BY <1>4 DEF Open
    <2>2. UNCHANGED calls
      BY <1>4 DEF Open
    <2>3. c \in Text \union {Err}
      BY <1>2, <1>4 DEF Content
    <2>4. FromNode(nodes[n], "open", c)
      BY DEF FromNode
    <2> QED
      BY <1>1, <1>3, <1>4, <2>1, <2>2, <2>3, <2>4, HitShape
  <1>5. CASE ~(p \notin Direct /\ nodes[n].hash # Nil)
    <2>1. Begin(n, "open", p)
      BY <1>5 DEF Open
    <2> QED
      BY <1>1, <1>2, <1>3, <1>5, <2>1, BeginShape
  <1> QED
    BY <1>4, <1>5

\* The types of a listing are a listing.
LEMMA TypesType ==
    ASSUME NEW es \in DirEntries
    PROVE  Types(es) \in Listing
  BY DEF Types, DirEntries, OneDirEntry, Listing

LEMMA ReadDirAllShape ==
    ASSUME IInv, NEW n \in Node, ReadDirAll(n)
    PROVE  IInv' /\ Shape
  <1> DEFINE p == nodes[n].path
  <1>1. n \in Idle /\ UNCHANGED <<remote, online, db, contents, nodes>>
    BY DEF ReadDirAll, envVars, cacheVars
  <1>2. contents \subseteq Text /\ p \in Path /\ nodes[n].entries \in DirEntries \union {Nil}
    BY <1>1, IdleType DEF IInv
  <1>3. CASE p \notin Direct /\ nodes[n].entries # Nil
    <2>1. Reply("readdir", p, Types(nodes[n].entries), "hit") /\ UNCHANGED calls
      BY <1>3 DEF ReadDirAll
    <2>2. /\ "readdir" \in Op \ {"lookup"} /\ Column["readdir"] = "entries"
          /\ Types(nodes[n].entries) \in Value["readdir"]
      BY <1>2, <1>3, TypesType DEF Op, Column, Value
    <2>3. FromNode(nodes[n], "readdir", Types(nodes[n].entries))
      BY <2>2 DEF FromNode
    <2> QED
      BY <1>1, <1>3, <2>1, <2>2, <2>3, HitShape
  <1>4. CASE ~(p \notin Direct /\ nodes[n].entries # Nil)
    <2>1. Begin(n, "readdir", p)
      BY <1>4 DEF ReadDirAll
    <2>2. "readdir" \in Op /\ Column["readdir"] = "entries"
      BY DEF Op, Column
    <2> QED
      BY <1>1, <1>2, <1>4, <2>1, <2>2, BeginShape
  <1> QED
    BY <1>3, <1>4

-----------------------------------------------------------------------------
\* A waiting node has a row, and its inode number identifies it.
LEMMA WaitingRow ==
    ASSUME IInv, NEW n \in Node, calls[n] # Nil
    PROVE  LET p == nodes[n].path IN
           /\ p \in Path /\ nodes[n] \in NodeObject /\ nodes[n] # NoNode
           /\ db \in Table /\ DistinctInodes(db)
           /\ Has(db, p) /\ nodes[n].inode = db.rows[p].inode
           /\ NodeAgrees(nodes[n], db)
  <1>1. nodes[n].path \in Path /\ nodes[n] \in NodeObject /\ nodes[n] # NoNode
    BY CallType DEF IInv
  <1> QED
    BY <1>1 DEF IInv, TableInv, NodesInv, NodeAgrees

\* What a call knows of the table stays true.
LEMMA KnownKept ==
    ASSUME IInv, NEW n \in Node, calls[n] # Nil, NEW d, Keeps(db, d), NEW k,
           k.op = calls[n].op, k.path = calls[n].path, k.known = calls[n].known,
           k.phase = calls[n].phase
    PROVE  CallKnown(k, d)
  <1>1. calls[n].path \in Path /\ (calls[n].op # "lookup" => calls[n].path = nodes[n].path)
    BY CallType DEF IInv
  <1>2. calls[n].op # "lookup" => Has(db, calls[n].path)
    BY <1>1, WaitingRow
  <1> QED
    BY <1>1, <1>2 DEF IInv, KnownInv, CallKnown, Keeps, Extends

\* A handler that replies once the remote system has answered.
LEMMA DoneShape ==
    ASSUME IInv, NEW n \in Node, calls[n] # Nil, NEW v, v \in Value[calls[n].op] \union {Err},
           Done(n, v), UNCHANGED <<remote, online, contents>>,
           TableInv(db'), Keeps(db, db'), NodesInv(nodes', db'),
           \A p \in Path : RowStep(p), \A m \in Node : NodeStep(m),
           \A m \in Node : nodes[m] # NoNode =>
               nodes'[m] # NoNode /\ nodes'[m].path = nodes[m].path,
           calls[n].op = "readdir" /\ calls[n].phase = "local" =>
               LocalErrors \/ nodes'[n].entries = db'.rows[nodes[n].path].entries,
           RepliesFetched(n, v) \/ RepliesCached(n, v) \/ RepliesFailed(n, v)
    PROVE  IInv' /\ Shape
  <1>1. \A m \in Node : calls[m] # Nil => nodes[m] # NoNode
    BY CallType DEF IInv
  <1>2. /\ CallsInv' /\ ReplyInv'
        /\ calls'[n] = Nil
        /\ \A m \in Node \ {n} : calls'[m] = calls[m]
        /\ reply'.op = calls[n].op /\ reply'.path = calls[n].path /\ reply'.val = v
        /\ reply'.known = calls[n].known /\ reply'.during = calls[n].during
        /\ reply'.counted = AccountRemote(calls[n].op, calls[n].path)
    BY <1>1, DoneCalls DEF IInv
  <1>3. IInv'
    <2>1. KnownInv'
      BY <1>2, KnownKept DEF KnownInv
    <2> QED
      BY <1>2, <2>1 DEF IInv, EnvInv
  <1>4. RepliesDone(n)
    BY <1>2 DEF RepliesDone
  <1>5. ReplyStep
    BY <1>4 DEF ReplyStep
  <1>6. \A m \in Node : CallStep(m)
    BY <1>1, <1>2 DEF CallStep, Ended
  <1> QED
    BY <1>3, <1>5, <1>6 DEF Shape

\* The same, when neither the table nor the nodes change.
LEMMA SameShape ==
    ASSUME IInv, NEW n \in Node, calls[n] # Nil, NEW v, v \in Value[calls[n].op] \union {Err},
           Done(n, v), UNCHANGED <<remote, online, contents, db, nodes>>,
           calls[n].op = "readdir" => calls[n].phase = "remote" \/ LocalErrors,
           RepliesFetched(n, v) \/ RepliesCached(n, v) \/ RepliesFailed(n, v)
    PROVE  IInv' /\ Shape
  <1>1. TableInv(db') /\ Keeps(db, db') /\ NodesInv(nodes', db')
    BY KeepsSame DEF IInv
  <1>2. (\A p \in Path : RowStep(p)) /\ (\A m \in Node : NodeStep(m))
    BY DEF RowStep, NodeStep
  <1> QED
    BY <1>1, <1>2, DoneShape

\* The call of a handler that replies is over.
LEMMA DoneNil ==
    ASSUME IInv, NEW n \in Node, NEW v, Done(n, v)
    PROVE  calls'[n] = Nil
  BY DEF IInv, CallsInv, Done

\* A node stores an answer in a column, and keeps it.
LEMMA LoadShape ==
    ASSUME IInv, NEW n \in Node, calls[n] # Nil, calls[n].op \in {"attr", "open", "readlink"},
           calls[n].got # Err, NEW v,
           calls[n].op # "open" => v = calls[n].got,
           calls[n].op = "open" => v \in Content(calls[n].got) /\ calls[n].phase = "local",
           Done(n, v), UNCHANGED <<remote, online, contents>>,
           nodes' = [nodes EXCEPT ![n][Column[calls[n].op]] = calls[n].got],
           Updates(db, db', nodes[n].path, Column[calls[n].op],
                   IF calls[n].op = "attr" THEN calls[n].got ELSE Affinity[calls[n].got])
    PROVE  IInv' /\ Shape
  <1> DEFINE op == calls[n].op
  <1> DEFINE got == calls[n].got
  <1> DEFINE p == nodes[n].path
  <1> DEFINE col == Column[op]
  <1> DEFINE u == [nodes[n] EXCEPT ![col] = got]
  <1>1. /\ p \in Path /\ nodes[n] \in NodeObject /\ nodes[n] # NoNode
        /\ NodeAgrees(nodes[n], db) /\ calls[n].path = p
    BY WaitingRow, CallType DEF IInv
  <1>2. /\ op = "attr" => got \in Info /\ col = "info"
        /\ op = "open" => got \in Text /\ col = "hash"
        /\ op = "readlink" => got \in Text /\ col = "target"
    <2>1. got \in Value[op] \union Failure(op)
      BY CallType DEF IInv
    <2> QED
      BY <2>1 DEF Value, Failure, Column
  <1>3. nodes' = [nodes EXCEPT ![n] = u] /\ nodes \in [Node -> NodeObject \union {NoNode}]
    BY DEF IInv, NodesInv
  <1>4. Becomes(nodes[n], u, col, got)
    <2>1. CASE op = "attr"
      BY <1>1, <1>2, <2>1, FieldSet
    <2>2. CASE op = "open"
      BY <1>1, <1>2, <2>2, FieldSet
    <2>3. CASE op = "readlink"
      BY <1>1, <1>2, <2>3, FieldSet
    <2> QED
      BY <2>1, <2>2, <2>3
  <1> HIDE DEF u
  <1>5. nodes'[n] = u /\ \A m \in Node \ {n} : nodes'[m] = nodes[m]
    BY <1>3
  <1>6. u \in NodeObject /\ u # NoNode /\ u[col] = got /\ u.path = p
    <2>1. u \in NodeObject /\ u[col] = got
      BY <1>4 DEF Becomes
    <2>2. u.path = p
      BY <1>2, <1>4 DEF Becomes, Fields
    <2> QED
      BY <2>1, <2>2, ValueAssumption
  <1>7. TableInv(db') /\ Keeps(db, db')
    BY <1>1, <1>2, UpdatesTable DEF IInv, Columns
  <1>8. NodeAgrees(u, db')
    <2>1. NodeAgrees(nodes[n], db')
      BY <1>1, <1>7, AgreeMono
    <2> QED
      BY <1>2, <1>4, <2>1, BecomesAgrees
  <1>9. NodesInv(nodes', db')
    <2>1. NodesInv([nodes EXCEPT ![n] = u], db')
      BY <1>6, <1>7, <1>8, NodesChanged DEF IInv
    <2> QED
      BY <1>3, <2>1
  <1>10. got \notin {Err, BadRead}
    <2>1. got \in Value[op] /\ op \in Op
      BY <1>2 DEF Value, Op
    <2> QED
      BY <2>1, ValueAssumption
  <1>11. ASSUME NEW q \in Path
         PROVE  RowStep(q)
    <2>1. CASE q = p
      <3>1. RowBecomes(p, col, IF op = "attr" THEN got ELSE Affinity[got])
        BY DEF Updates, RowBecomes
      <3>2. ColumnStored(p)
        BY <1>1, <1>2, <1>5, <1>6, <1>10, <3>1, DoneNil DEF ColumnStored, ColumnKept
      <3> QED
        BY <2>1, <3>2 DEF RowStep
    <2>2. CASE q # p
      BY <2>2 DEF RowStep, Updates
    <2> QED
      BY <2>1, <2>2
  <1>12. ASSUME NEW m \in Node
         PROVE  /\ NodeStep(m)
                /\ nodes[m] # NoNode => nodes'[m] # NoNode /\ nodes'[m].path = nodes[m].path
    <2>1. db'.rows[p][col] = IF op = "attr" THEN got ELSE Affinity[got]
      BY DEF Updates
    <2>2. NodeLoads(n)
      BY <1>2, <1>4, <1>5, <2>1 DEF NodeLoads, Op
    <2> QED
      BY <1>1, <1>5, <1>6, <2>2 DEF NodeStep
  <1>13. v \in Value[op] \union {Err}
    BY <1>2 DEF Value, Content
  <1>14. RepliesFetched(n, v)
    BY <1>1, <1>2, <1>10 DEF RepliesFetched, Updates
  <1> QED
    BY <1>7, <1>9, <1>11, <1>12, <1>13, <1>14, DoneShape

\* Storing the answer fails.
LEMMA PutFailsShape ==
    ASSUME IInv, NEW n \in Node, calls[n] # Nil, calls[n].op # "lookup", PutFails(n),
           UNCHANGED <<remote, online, contents>>
    PROVE  IInv' /\ Shape
  <1>1. Done(n, Err) /\ UNCHANGED <<db, nodes>>
    BY DEF PutFails
  <1>2. LocalErrors /\ RepliesFailed(n, Err)
    BY DEF PutFails, RepliesFailed
  <1> QED
    BY <1>1, <1>2, SameShape

\* What is loaded is used in place of an error, or the error is passed on.
LEMMA FallBackShape ==
    ASSUME IInv, NEW n \in Node, calls[n] # Nil, calls[n].op \in {"attr", "readlink"},
           calls[n].phase = "remote",
           FallBack(n, calls[n].op), UNCHANGED <<remote, online, contents>>
    PROVE  IInv' /\ Shape
  <1> DEFINE op == calls[n].op
  <1> DEFINE v == IF nodes[n].path \in Direct /\ Loaded(n, op) # Nil THEN Loaded(n, op) ELSE Err
  <1>1. calls[n].got = Err /\ Done(n, v) /\ UNCHANGED <<db, nodes>>
    BY DEF FallBack
  <1>2. /\ nodes[n] \in NodeObject
        /\ calls[n].path = nodes[n].path
    BY WaitingRow, CallType DEF IInv
  <1>3. CASE nodes[n].path \in Direct /\ Loaded(n, op) # Nil
    <2>1. v = nodes[n][Column[op]] /\ v # Nil
      BY <1>3 DEF Loaded
    <2>2. v \in Value[op]
      BY <1>2, <2>1 DEF Column, NodeObject, Value
    <2>3. FromNode(nodes[n], op, v) /\ IsDirect(op, calls[n].path)
      BY <1>2, <1>3, <2>1 DEF FromNode, IsDirect
    <2>4. RepliesCached(n, v)
      BY <1>1, <2>1, <2>3 DEF RepliesCached
    <2> QED
      BY <1>1, <2>2, <2>4, SameShape
  <1>4. CASE ~(nodes[n].path \in Direct /\ Loaded(n, op) # Nil)
    <2>1. Done(n, Err)
      BY <1>1, <1>4
    <2>2. RepliesFailed(n, Err)
      BY DEF RepliesFailed
    <2> QED
      BY <1>1, <2>1, <2>2, SameShape
  <1> QED
    BY <1>3, <1>4

LEMMA AttrDoneShape ==
    ASSUME IInv, NEW n \in Node, AttrDone(n)
    PROVE  IInv' /\ Shape
  <1> DEFINE v == calls[n].got
  <1>1. /\ calls[n] # Nil /\ calls[n].op = "attr" /\ calls[n].phase = "remote"
        /\ UNCHANGED <<remote, online, contents>>
    BY DEF AttrDone, Waiting, envVars
  <1>2. CASE v # Err /\ Load(n, "attr", SetFileInfo(db, nodes[n].inode, v), v) /\ Done(n, v)
    <2>1. v \in Info
      BY <1>1, <1>2, CallType DEF IInv, Value, Failure
    <2>2. Updates(db, SetFileInfo(db, nodes[n].inode, v), nodes[n].path, "info", v)
      BY <1>1, <2>1, WaitingRow, OwnUpdates
    <2>3. /\ db' = SetFileInfo(db, nodes[n].inode, v)
          /\ nodes' = [nodes EXCEPT ![n][Column["attr"]] = v]
      BY <1>2 DEF Load
    <2>4. Column["attr"] = "info"
      BY DEF Column
    <2> QED
      BY <1>1, <1>2, <2>2, <2>3, <2>4, LoadShape
  <1>3. CASE PutFails(n)
    BY <1>1, <1>3, PutFailsShape
  <1>4. CASE FallBack(n, "attr")
    BY <1>1, <1>4, FallBackShape
  <1> QED
    BY <1>2, <1>3, <1>4 DEF AttrDone

LEMMA ReadlinkDoneShape ==
    ASSUME IInv, NEW n \in Node, ReadlinkDone(n)
    PROVE  IInv' /\ Shape
  <1> DEFINE v == calls[n].got
  <1>1. /\ calls[n] # Nil /\ calls[n].op = "readlink" /\ calls[n].phase = "remote"
        /\ UNCHANGED <<remote, online, contents>>
    BY DEF ReadlinkDone, Waiting, envVars
  <1>2. CASE /\ v # Err
             /\ Load(n, "readlink", SetSymlinkTarget(db, nodes[n].inode, v), v)
             /\ Done(n, v)
    <2>1. v \in Text
      BY <1>1, <1>2, CallType DEF IInv, Value, Failure
    <2>2. Updates(db, SetSymlinkTarget(db, nodes[n].inode, v), nodes[n].path, "target", Affinity[v])
      BY <1>1, <2>1, WaitingRow, OwnUpdates
    <2>3. /\ db' = SetSymlinkTarget(db, nodes[n].inode, v)
          /\ nodes' = [nodes EXCEPT ![n][Column["readlink"]] = v]
      BY <1>2 DEF Load
    <2>4. Column["readlink"] = "target"
      BY DEF Column
    <2> QED
      BY <1>1, <1>2, <2>2, <2>3, <2>4, LoadShape
  <1>3. CASE PutFails(n)
    BY <1>1, <1>3, PutFailsShape
  <1>4. CASE FallBack(n, "readlink")
    BY <1>1, <1>4, FallBackShape
  <1> QED
    BY <1>2, <1>3, <1>4 DEF ReadlinkDone

\* A part of the answer has come.
LEMMA HearShape ==
    ASSUME IInv, NEW n \in Node, Hear(n)
    PROVE  IInv' /\ Shape
  <1> DEFINE c == calls[n]
  <1> DEFINE k == calls'[n]
  <1>1. /\ c # Nil /\ c.phase = "remote" /\ reply' = Nil
        /\ UNCHANGED <<remote, online, db, contents, nodes>>
    BY DEF Hear, envVars, cacheVars
  <1>2. /\ c.op \in Op /\ c \in PendingCall(c.op) /\ c.path \in Path
        /\ c.got \in Value[c.op] \union Failure(c.op)
        /\ CallFits(c, nodes[n]) /\ calls \in [Node -> Calls \union {Nil}]
    BY <1>1, CallType DEF IInv, CallsInv
  <1>3. PICK v \in Answers(c.op, c.path) :
           \E w \in Mix(c.op, c.got, v) : calls' = [calls EXCEPT ![n].got = w]
    BY DEF Hear
  <1>4. PICK w \in Mix(c.op, c.got, v) : calls' = [calls EXCEPT ![n].got = w]
    BY <1>3
  <1>5. /\ v \in Value[c.op] \union Failure(c.op)
        /\ c.op = "readdir" /\ v \notin {Err, BadRead} =>
              \A x \in Path : v[x] # Nil => x \in Children(c.path)
    BY <1>2, AnswersType DEF IInv
  <1>6. /\ w \in Value[c.op] \union Failure(c.op)
        /\ c.op = "readdir" /\ w \notin {Err, BadRead} =>
              /\ v \notin {Err, BadRead}
              /\ \A x \in Path : w[x] = v[x] \/ (c.got \notin {Err, BadRead} /\ w[x] = c.got[x])
    BY <1>2, <1>5, MixType
  <1>7. k = [c EXCEPT !.got = w] /\ \A m \in Node \ {n} : calls'[m] = calls[m]
    BY <1>2, <1>4
  <1>8. /\ k.op = c.op /\ k.path = c.path /\ k.phase = "remote" /\ k.known = c.known
        /\ k.during = c.during /\ k.got = w /\ k \in PendingCall(c.op)
    BY <1>1, <1>2, <1>6, <1>7 DEF PendingCall
  <1>9. k # Nil /\ k \in Calls
    BY <1>2, <1>8, ValueAssumption DEF Calls
  <1>10. CallFits(k, nodes[n])
    BY <1>2, <1>5, <1>6, <1>8 DEF CallFits
  <1>11. calls' \in [Node -> Calls \union {Nil}]
    BY <1>2, <1>4, <1>7, <1>9
  <1> HIDE DEF c, k
  <1>12. CallsInv'
    BY <1>1, <1>7, <1>10, <1>11 DEF IInv, CallsInv, k
  <1>13. KnownInv'
    BY <1>1, <1>7, <1>8 DEF IInv, KnownInv, CallKnown, c, k
  <1>14. IInv'
    BY <1>1, <1>12, <1>13 DEF IInv, EnvInv, TableInv, NodesInv, ReplyInv
  <1>15. Heard(n)
    BY <1>1, <1>4, <1>8, <1>9 DEF Heard, GoesOn, c, k
  <1>16. /\ \A q \in Path : RowStep(q)
         /\ \A m \in Node : NodeStep(m)
         /\ \A m \in Node : CallStep(m)
         /\ ReplyStep
    BY <1>1, <1>7, <1>15 DEF RowStep, NodeStep, CallStep, ReplyStep
  <1> QED
    BY <1>1, <1>14, <1>16, KeepsSame DEF Shape

\* The calls after one of them has stored its answer.
LEMMA PutCalls ==
    ASSUME IInv, NEW n \in Node, calls[n] # Nil, calls[n].phase = "remote",
           calls[n].got \notin {Err, BadRead}, Put(n), UNCHANGED nodes
    PROVE  /\ CallsInv' /\ reply' = Nil
           /\ Tells(n)
           /\ GoesOn(calls[n], calls'[n])
           /\ calls'[n].phase = "local" /\ calls'[n].got = calls[n].got
           /\ calls'[n].during = calls[n].during
           /\ \A m \in Node \ {n} : calls'[m] = calls[m] \/ Overlapped(m)
  <1> DEFINE k(m) == calls'[m]
  <1>1. calls \in [Node -> Calls \union {Nil}] /\ reply' = Nil
    BY DEF IInv, CallsInv, Put
  <1>2. calls' = [m \in Node |->
          IF m = n THEN [calls[n] EXCEPT !.phase = "local"]
          ELSE IF Overlaps(m, n) THEN [calls[m] EXCEPT !.during = @ \union {calls[n].got}]
          ELSE calls[m]]
    BY DEF Put
  <1>3. /\ calls[n].op \in Op /\ calls[n] \in PendingCall(calls[n].op)
        /\ calls[n].got \in Value[calls[n].op] \union Failure(calls[n].op)
        /\ CallFits(calls[n], nodes[n])
    BY CallType DEF IInv, CallsInv
  <1>4. /\ calls'[n].op = calls[n].op /\ calls'[n].path = calls[n].path
        /\ calls'[n].known = calls[n].known /\ calls'[n].phase = "local"
        /\ calls'[n].got = calls[n].got /\ calls'[n].during = calls[n].during
        /\ calls'[n] \in PendingCall(calls[n].op)
    BY <1>2, <1>3 DEF PendingCall
  <1>5. calls'[n] # Nil /\ calls'[n] \in Calls
    BY <1>3, <1>4, ValueAssumption DEF Calls
  <1>6. CallFits(calls'[n], nodes[n])
    BY <1>3, <1>4 DEF CallFits
  <1>7. GoesOn(calls[n], calls'[n])
    BY <1>4, <1>5 DEF GoesOn
  <1>8. ASSUME NEW m \in Node, Overlaps(m, n)
        PROVE  /\ calls'[m] \in Calls /\ CallFits(calls'[m], nodes[m])
               /\ Overlapped(m)
               /\ calls[n].got \in calls'[m].during
    <2>1. m # n /\ calls[m] # Nil /\ calls[m].op = calls[n].op
      BY <1>8 DEF Overlaps
    <2>2. calls'[m] = [calls[m] EXCEPT !.during = calls[m].during \union {calls[n].got}]
      BY <1>2, <1>8, <2>1
    <2>3. calls[m] \in PendingCall(calls[n].op) /\ CallFits(calls[m], nodes[m])
      BY <2>1, CallType DEF IInv, CallsInv
    <2>4. /\ calls'[m].op = calls[m].op /\ calls'[m].path = calls[m].path
          /\ calls'[m].known = calls[m].known /\ calls'[m].phase = calls[m].phase
          /\ calls'[m].got = calls[m].got
          /\ calls'[m].during = calls[m].during \union {calls[n].got}
          /\ calls'[m] \in PendingCall(calls[n].op)
      BY <1>3, <2>2, <2>3 DEF PendingCall
    <2>5. calls'[m] # Nil /\ calls'[m] \in Calls
      BY <1>3, <2>4, ValueAssumption DEF Calls
    <2>6. CallFits(calls'[m], nodes[m])
      BY <2>1, <2>3, <2>4 DEF CallFits
    <2> QED
      BY <2>1, <2>4, <2>5, <2>6 DEF Overlapped, GoesOn
  <1>9. \A m \in Node \ {n} : ~Overlaps(m, n) => calls'[m] = calls[m]
    BY <1>2
  <1>10. calls' \in [Node -> Calls \union {Nil}]
    <2>1. calls' = [m \in Node |-> k(m)]
      BY <1>2
    <2>2. \A m \in Node : k(m) \in Calls \union {Nil}
      BY <1>1, <1>5, <1>8, <1>9
    <2> HIDE DEF k
    <2> QED
      BY <2>1, <2>2
  <1>11. CallsInv'
    <2>1. \A m \in Node : calls'[m] # Nil => CallFits(calls'[m], nodes[m])
      BY <1>6, <1>8, <1>9 DEF IInv, CallsInv
    <2> QED
      BY <1>10, <2>1 DEF CallsInv
  <1> QED
    BY <1>1, <1>4, <1>7, <1>8, <1>9, <1>11 DEF Tells

\* A call has stored its answer, and goes on.
LEMMA PutShape ==
    ASSUME IInv, NEW n \in Node, calls[n] # Nil, calls[n].phase = "remote",
           calls[n].got \notin {Err, BadRead}, calls[n].op \in {"open", "lookup", "readdir"},
           Put(n), UNCHANGED <<remote, online, nodes>>,
           contents \subseteq contents', contents' \subseteq Text,
           TableInv(db'), Keeps(db, db'), \A q \in Path : RowStep(q),
           calls[n].op = "open" => calls[n].got \in contents',
           calls[n].op = "lookup" => /\ Has(db', calls[n].path)
                                     /\ TypeOf(db'.rows[calls[n].path]) = calls[n].got,
           calls[n].op = "readdir" => /\ db'.rows[calls[n].path].entries # Nil
                                      /\ Types(db'.rows[calls[n].path].entries) = calls[n].got
    PROVE  IInv' /\ Shape
  <1>1. /\ CallsInv' /\ reply' = Nil
        /\ GoesOn(calls[n], calls'[n])
        /\ calls'[n].phase = "local" /\ calls'[n].got = calls[n].got
        /\ calls'[n].during = calls[n].during
        /\ \A m \in Node \ {n} : calls'[m] = calls[m] \/ Overlapped(m)
    BY PutCalls
  <1>2. CallKnown(calls'[n], db')
    BY <1>1 DEF CallKnown, GoesOn
  <1>3. \A m \in Node \ {n} : calls'[m] # Nil =>
           /\ calls[m] # Nil
           /\ calls'[m].op = calls[m].op /\ calls'[m].path = calls[m].path
           /\ calls'[m].known = calls[m].known /\ calls'[m].phase = calls[m].phase
    BY <1>1 DEF Overlapped, GoesOn
  <1>4. KnownInv'
    BY <1>2, <1>3, KnownKept DEF KnownInv
  <1>5. NodesInv(nodes', db')
    <2>1. nodes[n] # NoNode /\ nodes[n] \in NodeObject
      BY CallType DEF IInv
    <2>2. NodesInv(nodes, db')
      BY NodesChanged, ValueAssumption DEF IInv
    <2> QED
      BY <2>2
  <1>6. IInv'
    BY <1>1, <1>4, <1>5 DEF IInv, EnvInv, ReplyInv
  <1>7. Stores(n)
    BY <1>1 DEF Stores
  <1>8. /\ \A m \in Node : NodeStep(m)
        /\ \A m \in Node : CallStep(m)
        /\ ReplyStep
    BY <1>1, <1>7 DEF NodeStep, CallStep, ReplyStep
  <1> QED
    BY <1>6, <1>8 DEF Shape

LEMMA PutContentsShape ==
    ASSUME IInv, NEW n \in Node, PutContents(n)
    PROVE  IInv' /\ Shape
  <1>1. /\ calls[n] # Nil /\ calls[n].op = "open" /\ calls[n].phase = "remote"
        /\ calls[n].got # Err
        /\ contents' = contents \union {calls[n].got}
        /\ Put(n) /\ UNCHANGED <<remote, online, db, nodes>>
    BY DEF PutContents, Waiting, envVars
  <1>2. calls[n].got \in Text
    BY <1>1, CallType DEF IInv, Value, Failure
  <1>3. calls[n].got \notin {Err, BadRead}
    <2>1. "open" \in Op /\ Value["open"] = Text
      BY DEF Op, Value
    <2> QED
      BY <1>2, <2>1, ValueAssumption
  <1>4. TableInv(db') /\ Keeps(db, db') /\ \A q \in Path : RowStep(q)
    BY <1>1, KeepsSame DEF IInv, RowStep
  <1> QED
    BY <1>1, <1>2, <1>3, <1>4, PutShape DEF IInv

LEMMA OpenDoneShape ==
    ASSUME IInv, NEW n \in Node, OpenDone(n)
    PROVE  IInv' /\ Shape
  <1> DEFINE v == calls[n].got
  <1> DEFINE fallback == nodes[n].path \in Direct /\ nodes[n].hash # Nil
  <1>1. calls[n] # Nil /\ calls[n].op = "open" /\ UNCHANGED <<remote, online, contents>>
    BY DEF OpenDone, Waiting, Continues, envVars
  <1>2. CASE /\ Continues(n, "open")
             /\ Load(n, "open", SetContentHash(db, nodes[n].inode, v), v)
             /\ \E c \in Content(v) : Done(n, c)
    <2>1. v \in Text /\ v # Err /\ calls[n].phase = "local"
      BY <1>1, <1>2, CallType DEF Continues, IInv, Value, Failure
    <2>2. Updates(db, SetContentHash(db, nodes[n].inode, v), nodes[n].path, "hash", Affinity[v])
      BY <1>1, <2>1, WaitingRow, OwnUpdates
    <2>3. /\ db' = SetContentHash(db, nodes[n].inode, v)
          /\ nodes' = [nodes EXCEPT ![n][Column["open"]] = v]
      BY <1>2 DEF Load
    <2>4. Column["open"] = "hash"
      BY DEF Column
    <2>5. PICK c \in Content(v) : Done(n, c)
      BY <1>2
    <2> QED
      BY <1>1, <2>1, <2>2, <2>3, <2>4, <2>5, LoadShape
  <1>3. CASE PutFails(n)
    BY <1>1, <1>3, PutFailsShape
  <1>4. CASE /\ Waiting(n, "open") /\ v = Err
             /\ \E c \in IF fallback THEN Content(nodes[n].hash) ELSE {Err} : Done(n, c)
             /\ UNCHANGED <<db, nodes>>
    <2>1. PICK c \in IF fallback THEN Content(nodes[n].hash) ELSE {Err} : Done(n, c)
      BY <1>4
    <2>2. CASE c = Err
      <3>1. RepliesFailed(n, Err)
        BY <1>1, <1>4 DEF RepliesFailed, Waiting
      <3> QED
        BY <1>1, <1>4, <2>1, <2>2, <3>1, SameShape
    <2>3. CASE fallback /\ c \in Content(nodes[n].hash)
      <3>1. nodes[n] \in NodeObject /\ calls[n].path = nodes[n].path
        BY <1>1, WaitingRow, CallType DEF IInv
      <3>2. nodes[n].hash \in Text
        BY <2>3, <3>1 DEF NodeObject
      <3>3. c \in Value["open"] \union {Err}
        BY <2>3, <3>2 DEF Content, Value
      <3>4. FromNode(nodes[n], "open", c) /\ IsDirect("open", calls[n].path)
        BY <2>3, <3>1 DEF FromNode, IsDirect
      <3>5. Column["open"] = "hash"
        BY DEF Column
      <3>6. RepliesCached(n, c)
        BY <1>1, <1>4, <2>3, <3>4, <3>5 DEF RepliesCached
      <3> QED
        BY <1>1, <1>4, <2>1, <3>3, <3>6, SameShape
    <2> QED
      BY <2>2, <2>3
  <1> QED
    BY <1>2, <1>3, <1>4 DEF OpenDone

-----------------------------------------------------------------------------
LEMMA KeepsTrans ==
    ASSUME NEW c, NEW d, NEW e, Keeps(c, d), Keeps(d, e)
    PROVE  Keeps(c, e)
  BY DEF Keeps, Extends

\* The table has rows for the entries S of the listing that n has got, and the
\* other rows are those it had.
HasEntries(n, S, table) ==
    /\ TableInv(table) /\ Keeps(db, table)
    /\ \A x \in S : Has(table, x)
    /\ \A q \in Path : Has(db, q) => table.rows[q] = db.rows[q]
    /\ \A q \in Path :
          \/ table.rows[q] = db.rows[q]
          \/ /\ ~Has(db, q)
             /\ \E i \in Nat, t \in TypeName :
                   table.rows[q] = NewRow(i, t) /\ Learns(n, q, t)

\* The rows that PutDirEntries inserts for some entries of a listing.
LEMMA InsertedRows ==
    ASSUME IInv, NEW n \in Node, calls[n] # Nil, calls[n].op = "readdir",
           calls[n].phase = "remote", calls'[n] = Nil \/ calls'[n].phase = "local",
           calls[n].got \notin {Err, BadRead}, NEW S \in SUBSET Path,
           \A x \in S : calls[n].got[x] # Nil /\ sqlTypeNameOK(calls[n].got[x]),
           NEW table \in InsertsOf(db, S, calls[n].got)
    PROVE  HasEntries(n, S, table)
  <1> DEFINE listing == calls[n].got
  <1> DEFINE new == {x \in S : ~Has(db, x)}
  <1>1. listing \in Listing
    BY CallType DEF IInv, Value, Failure
  <1>2. \A x \in S : listing[x] \in TypeName
    BY <1>1 DEF Listing, sqlTypeNameOK, ModeType, TypeName
  <1>3. db \in Table /\ db.last \in Nat
    BY DEF IInv, TableInv, Table
  <1> HIDE DEF listing
  <1>4. Inserts(db, table, new) /\ \A x \in new : table.rows[x].type = listing[x]
    BY <1>2, <1>3, InsertsOfInserts DEF listing
  <1> HIDE DEF new
  <1>5. TableInv(table) /\ Keeps(db, table) /\ \A x \in new : Has(table, x)
    BY <1>4, InsertsTable DEF IInv
  <1>6. \A q \in Path \ new : table.rows[q] = db.rows[q]
    BY <1>4 DEF Inserts
  <1>7. \A q \in Path : Has(db, q) => table.rows[q] = db.rows[q]
    BY <1>6 DEF new
  <1>8. \A x \in S : Has(table, x)
    BY <1>5, <1>7 DEF Has, new
  <1>9. ASSUME NEW q \in new
        PROVE  /\ ~Has(db, q)
               /\ \E i \in Nat, t \in TypeName :
                     table.rows[q] = NewRow(i, t) /\ Learns(n, q, t)
    <2>1. PICK i \in db.last + 1 .. table.last, t \in TypeName : table.rows[q] = NewRow(i, t)
      BY <1>4 DEF Inserts
    <2>2. i \in Nat
      BY <1>3
    <2>3. t = listing[q]
      BY <1>4, <2>1, <2>2, NewRowType
    <2>4. q \in S /\ q \in Path /\ ~Has(db, q)
      BY DEF new
    <2>5. CallFits(calls[n], nodes[n]) /\ calls[n].path = nodes[n].path
      BY DEF IInv, CallsInv, CallFits
    <2>6. q \in Children(nodes[n].path)
      BY <2>4, <2>5 DEF CallFits
    <2>7. Learns(n, q, t)
      BY <2>3, <2>6 DEF Learns, listing
    <2> QED
      BY <2>1, <2>2, <2>4, <2>7
  <1> QED
    BY <1>5, <1>6, <1>7, <1>8, <1>9 DEF HasEntries

\* PutDirEntries has stored a listing.
LEMMA ListingStored ==
    ASSUME IInv, NEW n \in Node, calls[n] # Nil, calls[n].op = "readdir",
           calls[n].phase = "remote", calls'[n].phase = "local",
           calls[n].got \notin {Err, BadRead},
           NEW names, names = {x \in Path : calls[n].got[x] # Nil},
           \A x \in names : sqlTypeNameOK(calls[n].got[x]),
           NEW table \in InsertsOf(db, names, calls[n].got),
           NEW es, es = [x \in Path |-> IF x \in names
                                        THEN [inode |-> table.rows[x].inode,
                                              type |-> calls[n].got[x]]
                                        ELSE Nil],
           db' = SetDirEntries(table, nodes[n].inode, es)
    PROVE  /\ TableInv(db') /\ Keeps(db, db')
           /\ GetDirEntries(db', nodes[n].inode) = es
           /\ es \in DirEntries /\ es # Nil
           /\ Types(es) = calls[n].got
           /\ EntriesAgree(es, db')
           /\ RowBecomes(nodes[n].path, "entries", es)
           /\ \A q \in Path \ {nodes[n].path} : RowStep(q)
  <1> DEFINE listing == calls[n].got
  <1> DEFINE p == nodes[n].path
  <1> DEFINE i == nodes[n].inode
  <1>1. /\ p \in Path /\ Has(db, p) /\ i = db.rows[p].inode
    BY WaitingRow
  <1>2. /\ TableInv(table) /\ Keeps(db, table)
        /\ \A x \in names : Has(table, x)
        /\ \A q \in Path : Has(db, q) => table.rows[q] = db.rows[q]
        /\ \A q \in Path :
              \/ table.rows[q] = db.rows[q]
              \/ /\ ~Has(db, q)
                 /\ \E k \in Nat, t \in TypeName :
                       table.rows[q] = NewRow(k, t) /\ Learns(n, q, t)
    <2>1. /\ names \in SUBSET Path
          /\ \A x \in names : calls[n].got[x] # Nil /\ sqlTypeNameOK(calls[n].got[x])
      OBVIOUS
    <2>2. HasEntries(n, names, table)
      BY <2>1, InsertedRows
    <2> QED
      BY <2>2 DEF HasEntries
  <1>3. listing \in Listing
    BY CallType DEF IInv, Value, Failure
  <1>4. table \in Table /\ DistinctInodes(table)
    BY <1>2 DEF TableInv
  <1>5. Has(table, p) /\ table.rows[p] = db.rows[p]
    BY <1>1, <1>2 DEF Has
  <1>6. \A x \in names : /\ x \in Path
                         /\ table.rows[x].inode \in Nat
                         /\ listing[x] \in TypeName
                         /\ es[x] = [inode |-> table.rows[x].inode, type |-> listing[x]]
    <2>1. \A x \in names : table.rows[x].inode \in Nat
      BY <1>2, <1>4 DEF Table, Has, CachedRow
    <2>2. ASSUME NEW x \in names
          PROVE  listing[x] \in TypeName
      <3>1. x \in Path /\ listing[x] # Nil /\ listing[x] # "other"
        BY DEF sqlTypeNameOK
      <3>2. listing[x] \in ModeType \union TypeName \union {Nil}
        BY <1>3, <3>1 DEF Listing
      <3> QED
        BY <3>1, <3>2 DEF ModeType, TypeName
    <2> QED
      BY <2>1, <2>2
  <1>7. \A x \in names : es[x] \in OneDirEntry /\ es[x] # Nil /\ es[x].type = listing[x]
                         /\ es[x].inode = table.rows[x].inode
    BY <1>6, TableAssumption DEF OneDirEntry
  <1>8. \A x \in Path \ names : es[x] = Nil /\ listing[x] = Nil
    OBVIOUS
  <1>9. es \in DirEntries /\ es # Nil
    <2>1. es \in DirEntries
      BY <1>7, <1>8 DEF DirEntries
    <2> QED
      BY <2>1, TableAssumption
  <1> HIDE DEF listing
  <1>10. Types(es) = listing
    <2>1. \A x \in Path : (IF es[x] = Nil THEN Nil ELSE es[x].type) = listing[x]
      BY <1>7, <1>8
    <2>2. listing = [x \in Path |-> listing[x]]
      BY <1>3 DEF Listing
    <2> QED
      BY <2>1, <2>2 DEF Types
  <1>11. EntriesAgree(es, table)
    BY <1>2, <1>7, <1>8 DEF EntriesAgree
  <1>12. Updates(table, db', p, "entries", es)
    BY <1>1, <1>4, <1>5, <1>9, OwnUpdates
  <1>13. TableInv(db') /\ Keeps(table, db')
    <2>1. "entries" \in Columns \ {"inode"}
      BY DEF Columns
    <2> QED
      BY <1>1, <1>2, <1>9, <1>11, <1>12, <2>1, UpdatesTable
  <1>14. Keeps(db, db')
    BY <1>2, <1>13, KeepsTrans
  <1>15. EntriesAgree(es, db')
    BY <1>11, <1>13, AgreeMono
  <1>16. GetDirEntries(db', i) = es
    <2>1. db' \in Table /\ DistinctInodes(db')
      BY <1>13 DEF TableInv
    <2>2. Has(db', p) /\ db'.rows[p].inode = i /\ db'.rows[p].entries = es
      BY <1>1, <1>5, <1>12 DEF Updates, Columns
    <2>3. GetDirEntries(db', db'.rows[p].inode) = db'.rows[p].entries
      BY <1>1, <1>9, <2>1, <2>2, OwnDirEntries
    <2> QED
      BY <2>2, <2>3
  <1>17. RowBecomes(p, "entries", es)
    BY <1>1, <1>5, <1>12 DEF RowBecomes, Updates
  <1>18. ASSUME NEW q \in Path \ {p}
         PROVE  RowStep(q)
    <2>1. db'.rows[q] = table.rows[q]
      BY <1>12 DEF Updates
    <2> QED
      BY <1>2, <2>1 DEF RowStep, RowInserted
  <1> QED
    BY <1>9, <1>10, <1>13, <1>14, <1>15, <1>16, <1>17, <1>18 DEF listing

\* A node has loaded a listing from the table.
LEMMA ListingLoaded ==
    ASSUME IInv, NEW n \in Node, calls[n] # Nil, calls[n].op = "readdir",
           Keeps(db, db'), NEW es \in DirEntries, es # Nil, EntriesAgree(es, db'),
           db'.rows[nodes[n].path].entries = es,
           nodes' = [nodes EXCEPT ![n][Column["readdir"]] = es]
    PROVE  /\ NodesInv(nodes', db')
           /\ nodes'[n] # NoNode /\ nodes'[n].entries = es
           /\ \A m \in Node : NodeStep(m)
           /\ \A m \in Node : nodes[m] # NoNode =>
                 nodes'[m] # NoNode /\ nodes'[m].path = nodes[m].path
  <1> DEFINE u == [nodes[n] EXCEPT !["entries"] = es]
  <1>1. /\ nodes[n].path \in Path /\ nodes[n] \in NodeObject /\ nodes[n] # NoNode
        /\ NodeAgrees(nodes[n], db)
    BY WaitingRow
  <1>2. Column["readdir"] = "entries"
    BY DEF Column
  <1>3. nodes' = [nodes EXCEPT ![n] = u] /\ nodes \in [Node -> NodeObject \union {NoNode}]
    BY <1>2 DEF IInv, NodesInv
  <1>4. Becomes(nodes[n], u, "entries", es)
    BY <1>1, FieldSet
  <1> HIDE DEF u
  <1>5. nodes'[n] = u /\ \A m \in Node \ {n} : nodes'[m] = nodes[m]
    BY <1>3
  <1>6. u \in NodeObject /\ u # NoNode /\ u.entries = es /\ u.path = nodes[n].path
    <2>1. u \in NodeObject /\ u.entries = es /\ u.path = nodes[n].path
      BY <1>4 DEF Becomes, Fields
    <2> QED
      BY <2>1, ValueAssumption
  <1>7. NodeAgrees(u, db')
    <2>1. NodeAgrees(nodes[n], db')
      BY <1>1, AgreeMono
    <2> QED
      BY <1>4, <2>1, BecomesAgrees
  <1>8. NodesInv([nodes EXCEPT ![n] = u], db')
    BY <1>6, <1>7, NodesChanged DEF IInv
  <1>9. NodesInv(nodes', db')
    BY <1>3, <1>8
  <1>10. NodeLoads(n)
    BY <1>2, <1>4, <1>5 DEF NodeLoads, Op
  <1>11. \A m \in Node : NodeStep(m)
    BY <1>1, <1>5, <1>10 DEF NodeStep
  <1> QED
    BY <1>1, <1>5, <1>6, <1>9, <1>11

LEMMA ReadDirAllPutShape ==
    ASSUME IInv, NEW n \in Node, ReadDirAllPut(n)
    PROVE  IInv' /\ Shape
  <1> DEFINE listing == calls[n].got
  <1> DEFINE names == {x \in Path : listing[x] # Nil}
  <1> DEFINE p == nodes[n].path
  <1> DEFINE es(table) == [x \in Path |-> IF x \in names
                                          THEN [inode |-> table.rows[x].inode,
                                                type |-> listing[x]]
                                          ELSE Nil]
  <1>1. /\ calls[n] # Nil /\ calls[n].op = "readdir" /\ calls[n].phase = "remote"
        /\ listing \notin {Err, BadRead} /\ Put(n)
        /\ UNCHANGED <<remote, online, contents, nodes>>
    BY DEF ReadDirAllPut, Waiting, envVars
  <1>2. p \in Path /\ nodes[n] # NoNode /\ calls[n].path = p
    BY <1>1, WaitingRow, CallType DEF IInv
  <1>3. \A x \in names : sqlTypeNameOK(listing[x])
    BY DEF ReadDirAllPut, Names, Named
  <1>4. PICK table \in InsertsOf(db, names, listing) :
           db' = SetDirEntries(table, nodes[n].inode, es(table))
    BY DEF ReadDirAllPut, Names
  <1>5. /\ Tells(n) /\ GoesOn(calls[n], calls'[n])
        /\ calls'[n].phase = "local"
    BY <1>1, PutCalls
  <1> DEFINE e == es(table)
  <1>6. e = [x \in Path |-> IF x \in names
                            THEN [inode |-> table.rows[x].inode, type |-> calls[n].got[x]]
                            ELSE Nil]
    OBVIOUS
  <1>7. db' = SetDirEntries(table, nodes[n].inode, e)
    BY <1>4
  <1> HIDE DEF e, es
  <1>8. /\ TableInv(db') /\ Keeps(db, db')
        /\ e \in DirEntries /\ e # Nil
        /\ Types(e) = calls[n].got
        /\ RowBecomes(nodes[n].path, "entries", e)
        /\ \A q \in Path \ {nodes[n].path} : RowStep(q)
    BY <1>1, <1>3, <1>4, <1>5, <1>6, <1>7, ListingStored
  <1>9. db'.rows[p].entries = e
    BY <1>8 DEF RowBecomes
  <1>10. ColumnStored(p)
    <2>1. ListingPut(n, p)
      BY <1>1, <1>5, <1>8 DEF ListingPut, GoesOn
    <2> QED
      BY <1>1, <1>2, <2>1 DEF ColumnStored
  <1>11. \A q \in Path : RowStep(q)
    BY <1>8, <1>10 DEF RowStep
  <1>12. contents \subseteq contents' /\ contents' \subseteq Text
    BY <1>1 DEF IInv
  <1> QED
    BY <1>1, <1>2, <1>8, <1>9, <1>11, <1>12, PutShape

\* A node loads the listing that the table has, and replies with it.
LEMMA ListingShape ==
    ASSUME IInv, NEW n \in Node, calls[n] # Nil, calls[n].op = "readdir",
           db.rows[nodes[n].path].entries # Nil,
           Load(n, "readdir", db, GetDirEntries(db, nodes[n].inode)),
           Done(n, Types(GetDirEntries(db, nodes[n].inode))),
           UNCHANGED <<remote, online, contents>>,
           \/ calls[n].phase = "local"
           \/ calls[n].got = Err /\ nodes[n].path \in Direct
    PROVE  IInv' /\ Shape
  <1> DEFINE p == nodes[n].path
  <1> DEFINE e == GetDirEntries(db, nodes[n].inode)
  <1>1. /\ p \in Path /\ nodes[n] # NoNode /\ Has(db, p) /\ nodes[n].inode = db.rows[p].inode
        /\ calls[n].path = p
        /\ calls[n].phase = "local" => calls[n].got \notin {Err, BadRead}
        /\ db \in Table /\ DistinctInodes(db)
    BY WaitingRow, CallType DEF IInv
  <1>2. e = db.rows[p].entries /\ e \in DirEntries /\ e # Nil
    BY <1>1, OwnDirEntries
  <1>3. db' = db /\ nodes' = [nodes EXCEPT ![n][Column["readdir"]] = e]
    BY DEF Load
  <1>4. EntriesAgree(e, db')
    BY <1>1, <1>2, <1>3 DEF IInv, TableInv, RowAgrees
  <1>5. Types(e) \in Listing /\ Done(n, Types(e)) /\ Value["readdir"] = Listing
    BY <1>2, TypesType DEF Value
  <1> HIDE DEF e
  <1>6. TableInv(db') /\ Keeps(db, db') /\ \A q \in Path : RowStep(q)
    BY <1>3, KeepsSame DEF IInv, RowStep
  <1>7. /\ NodesInv(nodes', db')
        /\ nodes'[n].entries = e
        /\ \A m \in Node : NodeStep(m)
        /\ \A m \in Node : nodes[m] # NoNode =>
              nodes'[m] # NoNode /\ nodes'[m].path = nodes[m].path
    BY <1>2, <1>3, <1>4, <1>6, ListingLoaded
  <1>8. RepliesFetched(n, Types(e)) \/ RepliesCached(n, Types(e))
    <2>1. CASE calls[n].phase = "local"
      BY <1>1, <1>2, <1>3, <2>1 DEF RepliesFetched
    <2>2. CASE calls[n].got = Err /\ p \in Direct
      <3>1. IsDirect(calls[n].op, calls[n].path)
        BY <1>1, <2>2 DEF IsDirect
      <3> QED
        BY <1>1, <1>2, <1>3, <2>2, <3>1 DEF RepliesCached
    <2> QED
      BY <2>1, <2>2
  <1>9. nodes'[n].entries = db'.rows[p].entries
    BY <1>2, <1>3, <1>7
  <1> QED
    BY <1>5, <1>6, <1>7, <1>8, <1>9, DoneShape

LEMMA ReadDirAllReloadShape ==
    ASSUME IInv, NEW n \in Node, ReadDirAllReload(n)
    PROVE  IInv' /\ Shape
  <1>1. /\ calls[n] # Nil /\ calls[n].op = "readdir" /\ calls[n].phase = "local"
        /\ UNCHANGED <<remote, online, contents>>
    BY DEF ReadDirAllReload, Continues, envVars
  <1>2. calls[n].path = nodes[n].path
    BY <1>1, CallType DEF IInv
  <1>3. db.rows[nodes[n].path].entries # Nil
    BY <1>1, <1>2 DEF IInv, KnownInv, CallKnown
  <1>4. CASE /\ Load(n, "readdir", db, GetDirEntries(db, nodes[n].inode))
             /\ Done(n, Types(GetDirEntries(db, nodes[n].inode)))
    BY <1>1, <1>3, <1>4, ListingShape
  <1>5. CASE LocalErrors /\ Fails(n, Err) /\ UNCHANGED db
    <2>1. Done(n, Err) /\ nodes' = nodes /\ RepliesFailed(n, Err)
      BY <1>5 DEF Fails, RepliesFailed
    <2> QED
      BY <1>1, <1>5, <2>1, SameShape
  <1> QED
    BY <1>4, <1>5 DEF ReadDirAllReload

LEMMA ReadDirAllDoneShape ==
    ASSUME IInv, NEW n \in Node, ReadDirAllDone(n)
    PROVE  IInv' /\ Shape
  <1> DEFINE listing == calls[n].got
  <1> DEFINE p == nodes[n].path
  <1> DEFINE inode == nodes[n].inode
  <1> DEFINE fallback == p \in Direct /\ nodes[n].entries # Nil
  <1>1. /\ calls[n] # Nil /\ calls[n].op = "readdir" /\ calls[n].phase = "remote"
        /\ UNCHANGED <<remote, online, contents>>
    BY DEF ReadDirAllDone, Waiting, envVars
  <1>2. nodes[n] # NoNode /\ NodeAgrees(nodes[n], db)
    BY <1>1, WaitingRow
  <1>3. RepliesFailed(n, Err)
    BY <1>1 DEF RepliesFailed
  <1>4. ASSUME listing \notin {Err, BadRead}, NEW S \in SUBSET Named(listing),
               db' \in InsertsOf(db, S, listing), Fails(n, Err)
        PROVE  IInv' /\ Shape
    <2>1. Done(n, Err) /\ nodes' = nodes
      BY <1>4 DEF Fails
    <2>2. S \in SUBSET Path /\ \A x \in S : listing[x] # Nil /\ sqlTypeNameOK(listing[x])
      BY <1>4 DEF Named, Names
    <2>3. HasEntries(n, S, db')
      BY <1>1, <1>4, <2>1, <2>2, DoneNil, InsertedRows
    <2>4. TableInv(db') /\ Keeps(db, db')
      BY <2>3 DEF HasEntries
    <2>5. NodesInv(nodes, db')
      BY <1>2, <2>4, NodesChanged, ValueAssumption DEF IInv
    <2>6. NodesInv(nodes', db')
      BY <2>1, <2>5
    <2>7. \A q \in Path : RowStep(q)
      BY <2>3 DEF HasEntries, RowStep, RowInserted
    <2>8. \A m \in Node : NodeStep(m)
      BY <2>1 DEF NodeStep
    <2> QED
      BY <1>1, <1>3, <2>1, <2>4, <2>6, <2>7, <2>8, DoneShape
  <1>5. ASSUME listing = Err, fallback, Load(n, "readdir", db, GetDirEntries(db, inode)),
               Done(n, Types(GetDirEntries(db, inode)))
        PROVE  IInv' /\ Shape
    <2>1. db.rows[p].entries # Nil
      BY <1>2, <1>5 DEF NodeAgrees
    <2> QED
      BY <1>1, <1>5, <2>1, ListingShape
  <1>6. ASSUME UNCHANGED db, Fails(n, Err)
        PROVE  IInv' /\ Shape
    <2>1. Done(n, Err) /\ nodes' = nodes
      BY <1>6 DEF Fails
    <2> QED
      BY <1>1, <1>3, <1>6, <2>1, SameShape
  <1> QED
    BY <1>4, <1>5, <1>6 DEF ReadDirAllDone

-----------------------------------------------------------------------------
\* The nodes after a lookup that found a row.
LEMMA FoundNodes ==
    ASSUME IInv, NEW n \in Node, NEW x \in Path, NEW row \in CachedRow, Finds(n, x, row),
           Keeps(db, db'), RowAgrees(row, x, db'), Found(n, x, row)
    PROVE  /\ NodesInv(nodes', db')
           /\ \A m \in Node : NodeStep(m)
           /\ \A m \in Node : nodes[m] # NoNode =>
                 nodes'[m] # NoNode /\ nodes'[m].path = nodes[m].path
  <1> DEFINE direct == nodes[n].path \in Direct
  <1> DEFINE rows == [nodes[n].rows EXCEPT ![x] = row]
  <1> DEFINE u == [nodes[n] EXCEPT !["rows"] = rows]
  <1> DEFINE base == Remember(n, x, row)
  <1> DEFINE o == newNodeForEntry(x, row)
  <1>1. /\ nodes[n] # NoNode
        /\ nodes \in [Node -> NodeObject \union {NoNode}]
        /\ NodesInv(nodes, db)
    BY DEF Finds, IInv, NodesInv
  <1>2. /\ nodes[n] \in NodeObject /\ nodes[n].path \in Path
        /\ nodes[n].rows \in [Path -> CachedRow \union {NoRow}]
        /\ NodeAgrees(nodes[n], db)
    BY <1>1 DEF NodeObject, NodesInv
  <1>3. Becomes(nodes[n], u, "rows", rows)
    <2>1. rows \in [Path -> CachedRow \union {NoRow}]
      BY <1>2
    <2> QED
      BY <1>2, <2>1, FieldSet
  <1>4. base = IF direct THEN nodes ELSE [nodes EXCEPT ![n] = u]
    BY DEF Remember
  <1> HIDE DEF u
  <1>5. u \in NodeObject /\ u # NoNode /\ u.path = nodes[n].path
    <2>1. u \in NodeObject /\ u.path = nodes[n].path
      BY <1>3 DEF Becomes, Fields
    <2> QED
      BY <2>1, ValueAssumption
  <1>6. NodeAgrees(u, db')
    <2>1. NodeAgrees(nodes[n], db')
      BY <1>2, AgreeMono
    <2>2. \A q \in Path : rows[q] # NoRow => RowAgrees(rows[q], q, db')
      <3>1. \A q \in Path : q # x => rows[q] = nodes[n].rows[q]
        BY <1>2
      <3>2. rows[x] = row
        BY <1>2
      <3> HIDE DEF rows
      <3> QED
        BY <2>1, <3>1, <3>2 DEF NodeAgrees
    <2> HIDE DEF rows
    <2> QED
      BY <1>3, <2>1, <2>2, BecomesAgrees
  <1>7. NodesInv(base, db')
    <2>1. NodesInv(nodes, db') /\ NodesInv([nodes EXCEPT ![n] = u], db')
      BY <1>1, <1>5, <1>6, NodesChanged
    <2> QED
      BY <1>4, <2>1
  <1>8. /\ \A m \in Node \ {n} : base[m] = nodes[m]
        /\ base[n] # NoNode /\ base[n].path = nodes[n].path
        /\ direct => base[n] = nodes[n]
        /\ ~direct => base[n] = u
    BY <1>1, <1>4, <1>5
  <1>9. base \in [Node -> NodeObject \union {NoNode}]
    BY <1>7 DEF NodesInv
  <1> HIDE DEF base
  <1>10. ASSUME row.type = "noentry", nodes' = base
         PROVE  /\ NodesInv(nodes', db')
                /\ \A m \in Node : NodeStep(m)
                /\ \A m \in Node : nodes[m] # NoNode =>
                      nodes'[m] # NoNode /\ nodes'[m].path = nodes[m].path
    <2>1. NodesInv(nodes', db')
      BY <1>7, <1>10
    <2>2. ~direct => NodeRemembers(n)
      BY <1>3, <1>8, <1>10 DEF NodeRemembers
    <2>3. \A m \in Node : NodeStep(m)
      BY <1>1, <1>8, <1>10, <2>2 DEF NodeStep
    <2> QED
      BY <1>8, <1>10, <2>1, <2>3
  <1>11. ASSUME row.type # "noentry", NEW k \in Node \ Live, nodes' = [base EXCEPT ![k] = o]
         PROVE  /\ NodesInv(nodes', db')
                /\ \A m \in Node : NodeStep(m)
                /\ \A m \in Node : nodes[m] # NoNode =>
                      nodes'[m] # NoNode /\ nodes'[m].path = nodes[m].path
    <2>1. o \in NodeObject /\ o # NoNode /\ NodeAgrees(o, db') /\ o.path = x
      BY <1>11, NewNode
    <2>2. k \in Node /\ nodes[k] = NoNode /\ k # n
      BY <1>1 DEF Live
    <2>3. NodesInv([base EXCEPT ![k] = o], db')
      BY <1>7, <2>1, NodesChanged, KeepsSame
    <2>4. NodesInv(nodes', db')
      BY <1>11, <2>3
    <2>5. nodes'[k] = o /\ \A m \in Node \ {k} : nodes'[m] = base[m]
      BY <1>9, <1>11, <2>2
    <2>6. NodeMade(k)
      <3>1. \A m \in Node \ {k} : nodes[m] = NoNode => nodes'[m] = NoNode
        BY <1>1, <1>8, <2>5
      <3> QED
        BY <1>11, <2>2, <2>5, <3>1 DEF NodeMade
    <2> HIDE DEF o
    <2>7. ~direct => NodeRemembers(n)
      BY <1>3, <1>8, <2>1, <2>2, <2>5 DEF NodeRemembers
    <2>8. \A m \in Node : NodeStep(m)
      BY <1>1, <1>8, <2>2, <2>5, <2>6, <2>7 DEF NodeStep
    <2> QED
      BY <1>8, <2>1, <2>2, <2>4, <2>5, <2>8
  <1> QED
    BY <1>10, <1>11 DEF Found, base

\* The type in a row is one that a lookup may reply.
LEMMA TypeOfType ==
    ASSUME NEW row \in CachedRow
    PROVE  /\ TypeOf(row) \in Value["lookup"]
           /\ row.type # "noentry" => TypeOf(row) = row.type
           /\ row.type = "noentry" => TypeOf(row) = Missing
  BY DEF TypeOf, CachedRow, Value, TypeName, ModeType

LEMMA LookupShape ==
    ASSUME IInv, NEW n \in Node, NEW p \in Path, Lookup(n, p)
    PROVE  IInv' /\ Shape
  <1> DEFINE direct == nodes[n].path \in Direct
  <1> DEFINE fast == nodes[n].rows[p] # NoRow
  <1> DEFINE row == IF fast THEN nodes[n].rows[p] ELSE GetFullEntry(db, p)
  <1>1. /\ n \in Idle /\ p \in Children(nodes[n].path)
        /\ Forgets \/ \A m \in Node : nodes[m] # NoNode => nodes[m].path # p
        /\ UNCHANGED <<remote, online, db, contents>>
    BY DEF Lookup, MayLookup, Live, envVars, cacheVars
  <1>2. /\ calls[n] = Nil /\ nodes[n] # NoNode
        /\ nodes[n].rows \in [Path -> CachedRow \union {NoRow}]
        /\ NodeAgrees(nodes[n], db)
        /\ contents \subseteq Text /\ "lookup" \in Op
    BY <1>1, IdleType DEF IInv, NodesInv, Op
  <1>3. CASE ~direct /\ row # NoRow
    <2>1. /\ Reply("lookup", p, TypeOf(row), IF fast THEN "none" ELSE "hit")
          /\ Found(n, p, row)
          /\ UNCHANGED calls
      BY <1>3 DEF Lookup
    <2>2. row \in CachedRow /\ RowAgrees(row, p, db)
      <3>1. CASE fast
        BY <1>2, <3>1 DEF NodeAgrees
      <3>2. CASE ~fast
        <4>1. row = db.rows[p] /\ Has(db, p)
          BY <1>3, <3>2 DEF GetFullEntry, Has
        <4> QED
          BY <4>1 DEF IInv, TableInv, Table, Has
      <3> QED
        BY <3>1, <3>2
    <2>3. Finds(n, p, row)
      BY <1>1, <1>2, <1>3, <2>1 DEF Finds, GetFullEntry
    <2> HIDE DEF row
    <2>4. Keeps(db, db') /\ RowAgrees(row, p, db')
      BY <1>1, <2>2, KeepsSame
    <2>5. /\ NodesInv(nodes', db')
          /\ \A m \in Node : NodeStep(m)
          /\ \A m \in Node : nodes[m] # NoNode =>
                nodes'[m] # NoNode /\ nodes'[m].path = nodes[m].path
      BY <2>1, <2>2, <2>3, <2>4, FoundNodes
    <2>6. TypeOf(row) \in Value["lookup"] \union {Err}
      BY <2>2, TypeOfType
    <2>7. PICK counter \in {"none", "hit"} : Reply("lookup", p, TypeOf(row), counter)
      BY <2>1
    <2>8. /\ ReplyInv'
          /\ reply'.op = "lookup" /\ reply'.path = p /\ reply'.val = TypeOf(row)
          /\ reply'.counted = counter
      BY <1>2, <2>6, <2>7, ReplyType DEF IInv
    <2>9. CallsInv'
      BY <2>1, <2>5 DEF IInv, CallsInv, CallFits
    <2>10. IInv'
      BY <1>1, <2>1, <2>5, <2>8, <2>9 DEF IInv, EnvInv, KnownInv
    <2>11. RepliesFound(n, p)
      BY <1>1, <1>2, <1>3, <2>2, <2>3, <2>8 DEF RepliesFound
    <2>12. ReplyStep
      BY <2>11 DEF ReplyStep
    <2>13. \A q \in Path : RowStep(q)
      BY <1>1 DEF RowStep
    <2>14. \A m \in Node : CallStep(m)
      BY <2>1, <2>5 DEF CallStep, IInv, CallsInv, CallFits
    <2> QED
      BY <1>1, <2>4, <2>5, <2>10, <2>12, <2>13, <2>14 DEF Shape
  <1>4. CASE ~(~direct /\ row # NoRow)
    <2>1. Begin(n, "lookup", p) /\ UNCHANGED nodes
      BY <1>4 DEF Lookup
    <2>2. ~direct => nodes[n].rows[p] = NoRow /\ ~Has(db, p)
      BY <1>4 DEF GetFullEntry, Has
    <2> QED
      BY <1>1, <1>2, <2>1, <2>2, BeginShape
  <1> QED
    BY <1>3, <1>4

LEMMA LookupFailsShape ==
    ASSUME IInv, NEW n \in Node, NEW p \in Path, LookupFails(n, p)
    PROVE  IInv' /\ Shape
  <1>1. /\ LocalErrors
        /\ Reply("lookup", p, Err, "none")
        /\ UNCHANGED <<remote, online, db, contents, nodes, calls>>
        /\ "lookup" \in Op
    BY DEF LookupFails, envVars, cacheVars, Op
  <1>2. ReplyInv' /\ reply'.val = Err /\ reply'.counted = "none"
    BY <1>1, ReplyType DEF IInv
  <1>3. IInv'
    BY <1>1, <1>2 DEF IInv, EnvInv, TableInv, NodesInv, CallsInv, KnownInv
  <1>4. ReplyStep
    BY <1>1, <1>2 DEF ReplyStep, RepliesError
  <1>5. /\ \A q \in Path : RowStep(q)
        /\ \A m \in Node : NodeStep(m)
        /\ \A m \in Node : CallStep(m)
    BY <1>1 DEF RowStep, NodeStep, CallStep
  <1> QED
    BY <1>1, <1>3, <1>4, <1>5, KeepsSame DEF Shape

\* The row of p is read again.
LEMMA ReloadedShape ==
    ASSUME IInv, NEW n \in Node, calls[n] # Nil, calls[n].op = "lookup",
           Has(db, calls[n].path), Reloaded(n, calls[n].path),
           UNCHANGED <<remote, online, db, contents>>,
           \/ calls[n].phase = "local"
           \/ calls[n].got \in {Missing, Err} /\ calls[n].known /\ nodes[n].path \in Direct
    PROVE  IInv' /\ Shape
  <1> DEFINE p == calls[n].path
  <1> DEFINE row == GetFullEntry(db, p)
  <1>1. /\ p \in Path /\ p \in Children(nodes[n].path) /\ nodes[n] # NoNode
        /\ calls[n].phase = "local" => calls[n].got \notin {Err, BadRead}
    BY CallType DEF IInv
  <1>2. row = db.rows[p] /\ row # NoRow /\ row \in CachedRow /\ RowAgrees(row, p, db')
    BY <1>1 DEF GetFullEntry, IInv, TableInv, Table, Has
  <1>3. TableInv(db') /\ Keeps(db, db') /\ \A q \in Path : RowStep(q)
    BY KeepsSame DEF IInv, RowStep
  <1> HIDE DEF row
  <1>4. CASE Found(n, p, row) /\ Done(n, TypeOf(row))
    <2>1. Finds(n, p, row)
      BY <1>1, <1>2, <1>4, DoneNil DEF Finds
    <2>2. /\ NodesInv(nodes', db')
          /\ \A m \in Node : NodeStep(m)
          /\ \A m \in Node : nodes[m] # NoNode =>
                nodes'[m] # NoNode /\ nodes'[m].path = nodes[m].path
      BY <1>1, <1>2, <1>3, <1>4, <2>1, FoundNodes
    <2>3. TypeOf(row) \in Value["lookup"]
      BY <1>2, TypeOfType
    <2>4. RepliesFetched(n, TypeOf(row)) \/ RepliesCached(n, TypeOf(row))
      <3>1. CASE calls[n].phase = "local"
        BY <1>1, <1>2, <3>1 DEF RepliesFetched
      <3>2. CASE calls[n].got \in {Missing, Err} /\ calls[n].known /\ nodes[n].path \in Direct
        <4>1. IsDirect("lookup", p)
          BY <1>1, <3>2 DEF IsDirect, Children
        <4> QED
          BY <1>2, <3>2, <4>1 DEF RepliesCached
      <3> QED
        BY <3>1, <3>2
    <2> QED
      BY <1>3, <1>4, <2>2, <2>3, <2>4, DoneShape
  <1>5. CASE LocalErrors /\ Fails(n, Err)
    <2>1. Done(n, Err) /\ nodes' = nodes /\ RepliesFailed(n, Err)
      BY <1>5 DEF Fails, RepliesFailed
    <2> QED
      BY <2>1, SameShape
  <1> QED
    BY <1>4, <1>5 DEF Reloaded, row

\* What a lookup has found out is stored, as a new row or in the row there is.
LEMMA TypeStored ==
    ASSUME IInv, NEW n \in Node, calls[n] # Nil, calls[n].op = "lookup",
           calls[n].phase = "remote", calls'[n].phase = "local", Tells(n),
           NEW t \in TypeName,
           calls[n].got = t \/ (calls[n].got = Missing /\ t = "noentry"),
           Has(db, calls[n].path) => nodes[n].path \in Direct,
           db' = putNewOrUpdate(db, calls[n].path, t)
    PROVE  /\ TableInv(db') /\ Keeps(db, db')
           /\ Has(db', calls[n].path) /\ db'.rows[calls[n].path].type = t
           /\ \A q \in Path : RowStep(q)
  <1> DEFINE p == calls[n].path
  <1>1. p \in Path /\ p \in Children(nodes[n].path) /\ p # Root
    BY CallType DEF IInv, Children
  <1>2. TableInv(db) /\ db \in Table
    BY DEF IInv, TableInv
  <1>3. Learns(n, p, t)
    BY <1>1 DEF Learns
  <1>4. /\ Has(db, p) => Updates(db, db', p, "type", t)
        /\ ~Has(db, p) => Inserts(db, db', {p}) /\ db'.rows[p] = NewRow(db.last + 1, t)
    BY <1>1, <1>2, putNewOrUpdateCases
  <1>5. CASE Has(db, p)
    <2>1. Updates(db, db', p, "type", t)
      BY <1>4, <1>5
    <2>2. TableInv(db') /\ Keeps(db, db')
      BY <1>1, <1>2, <2>1, UpdatesTable DEF Columns
    <2>3. RowBecomes(p, "type", t)
      BY <2>1 DEF Updates, RowBecomes
    <2>4. TypeUpdated(p)
      BY <1>3, <1>5, <2>3 DEF TypeUpdated
    <2> QED
      BY <2>1, <2>2, <2>4 DEF Updates, RowStep
  <1>6. CASE ~Has(db, p)
    <2>1. Inserts(db, db', {p}) /\ db'.rows[p] = NewRow(db.last + 1, t)
      BY <1>4, <1>6
    <2>2. TableInv(db') /\ Keeps(db, db') /\ Has(db', p)
      BY <1>2, <2>1, InsertsTable
    <2>3. db.last + 1 \in Nat
      BY <1>2 DEF Table
    <2>4. db'.rows[p].type = t
      BY <2>1, <2>3, NewRowType
    <2>5. RowInserted(p)
      BY <1>3, <1>6, <2>1, <2>3 DEF RowInserted
    <2> QED
      BY <2>1, <2>2, <2>4, <2>5 DEF Inserts, RowStep
  <1> QED
    BY <1>5, <1>6

LEMMA LookupPutShape ==
    ASSUME IInv, NEW n \in Node, LookupPut(n)
    PROVE  IInv' /\ Shape
  <1> DEFINE p == calls[n].path
  <1> DEFINE got == calls[n].got
  <1> DEFINE t == IF got = Missing THEN "noentry" ELSE got
  <1>1. /\ calls[n] # Nil /\ calls[n].op = "lookup" /\ calls[n].phase = "remote"
        /\ t \in TypeName /\ Put(n)
        /\ UNCHANGED <<remote, online, contents, nodes>>
    BY DEF LookupPut, Waiting, envVars
  <1>2. /\ Has(db, p) => nodes[n].path \in Direct
        /\ db' = putNewOrUpdate(db, p, t)
    BY DEF LookupPut, CanInsert, putNewOrUpdate
  <1>3. /\ got \notin {Err, BadRead}
        /\ got # Missing => got # "noentry"
    <2>1. got \in Value["lookup"] \union Failure("lookup") /\ "lookup" \in Op
      BY <1>1, CallType DEF IInv, Op
    <2>2. got # Err
      BY <1>1, <2>1, ValueAssumption DEF Value, TypeName
    <2>3. got \in Value["lookup"]
      BY <2>1, <2>2 DEF Failure
    <2> QED
      BY <2>1, <2>3, ValueAssumption DEF Value, ModeType
  <1>4. Tells(n) /\ calls'[n].phase = "local"
    BY <1>1, <1>3, PutCalls
  <1>5. /\ TableInv(db') /\ Keeps(db, db')
        /\ Has(db', p) /\ db'.rows[p].type = t
        /\ \A q \in Path : RowStep(q)
    BY <1>1, <1>2, <1>4, TypeStored
  <1>6. TypeOf(db'.rows[p]) = got
    BY <1>3, <1>5 DEF TypeOf
  <1>7. contents \subseteq contents' /\ contents' \subseteq Text
    BY <1>1 DEF IInv
  <1> QED
    BY <1>1, <1>3, <1>5, <1>6, <1>7, PutShape

LEMMA LookupReloadShape ==
    ASSUME IInv, NEW n \in Node, LookupReload(n)
    PROVE  IInv' /\ Shape
  <1>1. /\ calls[n] # Nil /\ calls[n].op = "lookup" /\ calls[n].phase = "local"
        /\ UNCHANGED <<remote, online, db, contents>>
    BY DEF LookupReload, Continues, envVars, cacheVars
  <1>2. Has(db, calls[n].path)
    BY <1>1 DEF IInv, KnownInv, CallKnown
  <1>3. CASE calls[n].got = Missing /\ Fails(n, Missing)
    <2>1. Done(n, Missing) /\ nodes' = nodes
      BY <1>3 DEF Fails
    <2>2. Missing \in Value["lookup"]
      BY DEF Value
    <2>3. calls[n].got \notin {Err, BadRead}
      BY <1>1, CallType DEF IInv
    <2>4. RepliesFetched(n, Missing)
      BY <1>1, <1>2, <1>3, <2>3 DEF RepliesFetched
    <2> QED
      BY <1>1, <2>1, <2>2, <2>4, SameShape
  <1>4. CASE Reloaded(n, calls[n].path)
    BY <1>1, <1>2, <1>4, ReloadedShape
  <1> QED
    BY <1>3, <1>4 DEF LookupReload

LEMMA LookupDirectDoneShape ==
    ASSUME IInv, NEW n \in Node, LookupDirectDone(n)
    PROVE  IInv' /\ Shape
  <1> DEFINE got == calls[n].got
  <1>1. /\ calls[n] # Nil /\ calls[n].op = "lookup" /\ calls[n].phase = "remote"
        /\ nodes[n].path \in Direct
        /\ UNCHANGED <<remote, online, db, contents>>
    BY DEF LookupDirectDone, Waiting, envVars, cacheVars
  <1>2. ASSUME got \in {Missing, Err}, calls[n].known, Reloaded(n, calls[n].path)
        PROVE  IInv' /\ Shape
    <2>1. Has(db, calls[n].path)
      BY <1>1, <1>2 DEF IInv, KnownInv, CallKnown
    <2> QED
      BY <1>1, <1>2, <2>1, ReloadedShape
  <1>3. ASSUME (got = Err /\ ~calls[n].known) \/ got = "other" \/ LocalErrors, Fails(n, Err)
        PROVE  IInv' /\ Shape
    <2>1. Done(n, Err) /\ nodes' = nodes
      BY <1>3 DEF Fails
    <2>2. RepliesFailed(n, Err)
      BY <1>1, <1>3 DEF RepliesFailed
    <2> QED
      BY <1>1, <2>1, <2>2, SameShape
  <1> QED
    BY <1>2, <1>3 DEF LookupDirectDone

LEMMA LookupDoneShape ==
    ASSUME IInv, NEW n \in Node, LookupDone(n)
    PROVE  IInv' /\ Shape
  <1>1. /\ calls[n] # Nil /\ calls[n].op = "lookup" /\ calls[n].phase = "remote"
        /\ nodes[n].path \notin Direct
        /\ UNCHANGED <<remote, online, db, contents>>
    BY DEF LookupDone, Waiting, envVars, cacheVars
  <1>2. Done(n, Err) /\ nodes' = nodes
    BY DEF LookupDone, Fails
  <1>3. RepliesFailed(n, Err)
    BY <1>1 DEF RepliesFailed
  <1> QED
    BY <1>1, <1>2, <1>3, SameShape

-----------------------------------------------------------------------------
LEMMA HandlerShape ==
    ASSUME IInv, NEW n \in Node, Handler(n)
    PROVE  IInv' /\ Shape
  BY AttrShape, AttrDoneShape, ReadlinkShape, ReadlinkDoneShape, OpenShape,
     PutContentsShape, OpenDoneShape, ReadDirAllShape, ReadDirAllPutShape, ReadDirAllReloadShape,
     ReadDirAllDoneShape, LookupShape, LookupFailsShape, LookupPutShape, LookupReloadShape,
     LookupDirectDoneShape, LookupDoneShape
     DEF Handler

\* A process that finds the root in its table leaves the table as it is.
LEMMA OldRoot ==
    ASSUME NEW d, TableInv(d)
    PROVE  putAndGetRow(d) = d
  <1>1. /\ d \in Table /\ Has(d, Root) /\ d.rows[Root].type = "directory"
        /\ Root \in Path /\ d.rows[Root] \in CachedRow
    BY TableAssumption DEF TableInv, Table, Has
  <1>2. [d.rows[Root] EXCEPT !.type = "directory"] = d.rows[Root]
    BY <1>1 DEF CachedRow
  <1>3. UpdateType(d, Root, "directory") = d
    BY <1>1, <1>2 DEF UpdateType, Table
  <1> QED
    BY <1>1, <1>3 DEF putAndGetRow, putNewOrUpdate

\* The table of a process that starts without one.
LEMMA NewRoot ==
    LET d == putAndGetRow(EmptyTable) IN
    /\ TableInv(d)
    /\ d.rows[Root] = NewRow(1, "directory")
    /\ \A p \in Path \ {Root} : ~Has(d, p)
  <1> DEFINE d == putAndGetRow(EmptyTable)
  <1>1. EmptyTable \in Table /\ EmptyTable.last = 0 /\ \A p \in Path : ~Has(EmptyTable, p)
    BY DEF EmptyTable, Table, Has
  <1>2. d = Insert(EmptyTable, Root, "directory")
    BY <1>1, TableAssumption DEF putAndGetRow, putNewOrUpdate
  <1>3. Root \in Path /\ "directory" \in TypeName
    BY TableAssumption DEF TypeName
  <1> HIDE DEF d
  <1>4. Inserts(EmptyTable, d, {Root}) /\ d.rows[Root] = NewRow(1, "directory")
    BY <1>1, <1>2, <1>3, InsertInserts
  <1>5. /\ d \in Table /\ d.last \in Nat
        /\ \A p \in Path \ {Root} : ~Has(d, p)
    BY <1>1, <1>4 DEF Inserts, Has, Table
  <1>6. /\ Has(d, Root) /\ d.rows[Root].inode = 1 /\ d.rows[Root].type = "directory"
        /\ d.rows[Root].entries = Nil
    BY <1>3, <1>4, NewRowType DEF Has
  <1>7. 1 <= d.last
    BY <1>1, <1>4, <1>5 DEF Inserts
  <1>8. DistinctInodes(d) /\ BoundedInodes(d)
    BY <1>5, <1>6, <1>7 DEF DistinctInodes, BoundedInodes
  <1>9. \A p \in Path : Has(d, p) => RowAgrees(d.rows[p], p, d)
    BY <1>5, <1>6 DEF RowAgrees, EntriesAgree
  <1> QED
    BY <1>4, <1>5, <1>6, <1>8, <1>9 DEF TableInv, d

\* The only node of a process that starts is that of the root.
LEMMA RootNodes ==
    ASSUME NEW d, TableInv(d)
    PROVE  /\ NodesInv(RootOnly(d), d)
           /\ RootOnly(d)[RootNode] = newNodeForEntry(Root, d.rows[Root])
           /\ RootOnly(d)[RootNode] # NoNode
           /\ \A n \in Node \ {RootNode} : RootOnly(d)[n] = NoNode
  <1> DEFINE o == newNodeForEntry(Root, d.rows[Root])
  <1>1. RootOnly(d) = [n \in Node |-> IF n = RootNode THEN o ELSE NoNode]
    BY DEF RootOnly, GetFullEntry
  <1>2. /\ d.rows[Root] \in CachedRow /\ d.rows[Root].type # "noentry"
        /\ RowAgrees(d.rows[Root], Root, d)
    BY TableAssumption DEF TableInv, Table, Has
  <1>3. o \in NodeObject /\ o # NoNode /\ NodeAgrees(o, d)
    <2>1. Root \in Path
      BY TableAssumption
    <2> QED
      BY <1>2, <2>1, NewNode
  <1> HIDE DEF o
  <1>4. NodesInv([n \in Node |-> IF n = RootNode THEN o ELSE NoNode], d)
    BY <1>3 DEF NodesInv
  <1> QED
    BY <1>1, <1>3, <1>4, FSAssumption DEF o

\* A process starts, with the table that it finds or with a new one.
LEMMA StartStep ==
    ASSUME IInv, NEW table, Start(table), table \in {db, EmptyTable}, UNCHANGED contents
    PROVE  /\ IInv'
           /\ UNCHANGED <<remote, online>>
           /\ table = db => db' = db
           /\ table = EmptyTable =>
                 /\ db'.rows[Root] = NewRow(1, "directory")
                 /\ \A p \in Path \ {Root} : ~Has(db', p)
           /\ nodes'[RootNode] = newNodeForEntry(Root, db'.rows[Root])
           /\ \A n \in Node \ {RootNode} : nodes'[n] = NoNode
           /\ \A n \in Node : calls'[n] = Nil
           /\ reply' = Nil
  <1>1. /\ db' = putAndGetRow(table)
        /\ nodes' = RootOnly(db')
        /\ calls' = [n \in Node |-> Nil]
        /\ reply' = Nil
        /\ UNCHANGED <<remote, online>>
    BY DEF Start, envVars
  <1>2. /\ TableInv(db')
        /\ table = db => db' = db
        /\ table = EmptyTable =>
              /\ db'.rows[Root] = NewRow(1, "directory")
              /\ \A p \in Path \ {Root} : ~Has(db', p)
    <2>1. CASE table = db
      <3>1. TableInv(db) /\ putAndGetRow(db) = db
        BY OldRoot DEF IInv
      <3>2. db' = db
        BY <1>1, <2>1, <3>1
      <3>3. TableInv(db')
        BY <3>1, <3>2
      <3> QED
        BY <1>1, <2>1, <3>2, <3>3, NewRoot
    <2>2. CASE table = EmptyTable
      BY <1>1, <2>2, NewRoot, OldRoot DEF IInv
    <2> QED
      BY <2>1, <2>2
  <1>3. /\ NodesInv(nodes', db')
        /\ nodes'[RootNode] = newNodeForEntry(Root, db'.rows[Root])
        /\ \A n \in Node \ {RootNode} : nodes'[n] = NoNode
    BY <1>1, <1>2, RootNodes
  <1>4. CallsInv' /\ KnownInv' /\ ReplyInv' /\ \A n \in Node : calls'[n] = Nil
    BY <1>1 DEF CallsInv, KnownInv, ReplyInv
  <1>5. IInv'
    BY <1>1, <1>2, <1>3, <1>4 DEF IInv, EnvInv
  <1> QED
    BY <1>1, <1>2, <1>3, <1>4, <1>5

\* The kernel forgets a node.
LEMMA ForgetShape ==
    ASSUME IInv, NEW n \in Node, Forget(n)
    PROVE  IInv' /\ Shape
  <1>1. /\ Forgets /\ calls[n] = Nil
        /\ nodes' = [nodes EXCEPT ![n] = NoNode]
        /\ reply' = Nil
        /\ UNCHANGED <<remote, online, db, contents, calls>>
    BY DEF Forget, Idle, envVars, cacheVars
  <1>2. nodes \in [Node -> NodeObject \union {NoNode}]
    BY DEF IInv, NodesInv
  <1>3. nodes'[n] = NoNode /\ \A m \in Node \ {n} : nodes'[m] = nodes[m]
    BY <1>1, <1>2
  <1>4. NodesInv(nodes', db')
    <2>1. NodesInv([nodes EXCEPT ![n] = NoNode], db)
      BY NodesChanged, KeepsSame DEF IInv
    <2> QED
      BY <1>1, <2>1
  <1>5. CallsInv' /\ KnownInv'
    BY <1>1, <1>3 DEF IInv, CallsInv, KnownInv, CallFits
  <1>6. IInv'
    BY <1>1, <1>4, <1>5 DEF IInv, EnvInv, TableInv, ReplyInv
  <1>7. /\ \A q \in Path : RowStep(q)
        /\ \A m \in Node : NodeStep(m)
        /\ \A m \in Node : CallStep(m)
        /\ ReplyStep
    BY <1>1, <1>3 DEF RowStep, NodeStep, CallStep, ReplyStep
  <1> QED
    BY <1>1, <1>6, <1>7, KeepsSame DEF Shape

\* The call c becomes k while its node waits: it has seen what the remote system
\* has become.
Sees(c, k) ==
    /\ k.op = c.op /\ k.path = c.path /\ k.phase = c.phase /\ k.got = c.got
    /\ k.known = c.known
    /\ k.during = c.during \union Seen(remote', online', c.op, c.path)

\* A change of the remote system, or of its being reachable.
EnvShape ==
    /\ UNCHANGED <<db, contents, nodes>>
    /\ reply' = Nil
    /\ \A n \in Node : calls[n] = Nil => calls'[n] = Nil
    /\ \A n \in Node : calls[n] # Nil => calls'[n] # Nil /\ Sees(calls[n], calls'[n])
    /\ Mutable = {} => UNCHANGED remote

LEMMA WatchStep ==
    ASSUME IInv, EnvInv', Watch, UNCHANGED <<db, contents, nodes>>,
           Mutable = {} => UNCHANGED remote
    PROVE  IInv' /\ EnvShape
  <1>1. reply' = Nil
    BY DEF Watch
  <1>2. ASSUME NEW n \in Node, calls[n] # Nil
        PROVE  /\ calls'[n] # Nil /\ calls'[n] \in Calls
               /\ Sees(calls[n], calls'[n])
               /\ calls'[n] \in PendingCall(calls[n].op)
    <2> DEFINE c == calls[n]
    <2>1. /\ c.op \in Op /\ c \in PendingCall(c.op) /\ c.path \in Path
          /\ c.during \in SUBSET (Value[c.op] \union Failure(c.op))
      BY <1>2, CallType DEF IInv
    <2>2. calls'[n] = [c EXCEPT !.during = c.during \union Seen(remote', online', c.op, c.path)]
      BY <1>2 DEF Watch
    <2>3. Seen(remote', online', c.op, c.path) \in SUBSET (Value[c.op] \union Failure(c.op))
      BY <2>1, SeenType DEF EnvInv
    <2>4. calls'[n] \in PendingCall(c.op)
      BY <2>1, <2>2, <2>3 DEF PendingCall
    <2>5. calls'[n] # Nil
      BY <2>1, <2>4, ValueAssumption
    <2>6. calls'[n] \in Calls
      BY <2>1, <2>4 DEF Calls
    <2>7. Sees(c, calls'[n])
      BY <2>1, <2>2 DEF Sees, PendingCall
    <2> QED
      BY <2>4, <2>5, <2>6, <2>7
  <1>3. \A n \in Node : calls[n] = Nil => calls'[n] = Nil
    BY DEF Watch
  <1>4. calls' \in [Node -> Calls \union {Nil}]
    <2>1. calls' = [n \in Node |-> calls'[n]]
      BY DEF Watch
    <2> QED
      BY <1>2, <1>3, <2>1
  <1>5. CallsInv' /\ KnownInv'
    BY <1>2, <1>3, <1>4 DEF IInv, CallsInv, KnownInv, CallKnown, CallFits, Sees
  <1>6. IInv'
    BY <1>1, <1>5 DEF IInv, TableInv, NodesInv, ReplyInv
  <1> QED
    BY <1>1, <1>2, <1>3, <1>6 DEF EnvShape

LEMMA NetworkShape ==
    ASSUME IInv, Network
    PROVE  IInv' /\ EnvShape
  <1>1. Watch /\ UNCHANGED <<remote, db, contents, nodes>> /\ online' = ~online
    BY DEF Network, cacheVars
  <1>2. EnvInv'
    BY <1>1 DEF IInv, EnvInv
  <1> QED
    BY <1>1, <1>2, WatchStep

LEMMA ChangeRemoteShape ==
    ASSUME IInv, NEW p \in Path, ChangeRemote(p)
    PROVE  IInv' /\ EnvShape
  <1>1. Watch /\ UNCHANGED <<online, db, contents, nodes>> /\ p \in Mutable
    BY DEF ChangeRemote, cacheVars
  <1>2. PICK o \in States[p] : remote' = [remote EXCEPT ![p] = o]
    BY DEF ChangeRemote
  <1>3. remote \in [Path -> UNION {States[q] : q \in Path}]
    BY DEF IInv, EnvInv
  <1>4. EnvInv'
    BY <1>1, <1>2, <1>3 DEF IInv, EnvInv
  <1> QED
    BY <1>1, <1>4, WatchStep

\* The steps of the system: a handler or the kernel forgetting a node, a new
\* process, or a change of the remote system.
LEMMA NextShape ==
    ASSUME IInv, Next
    PROVE  /\ IInv'
           /\ \/ Shape
              \/ EnvShape
              \/ Start(db) /\ UNCHANGED contents
              \/ LocalErrors /\ Start(EmptyTable) /\ UNCHANGED contents
  <1>1. ASSUME NEW n \in Node, Handler(n) \/ Hear(n) \/ Forget(n)
        PROVE  IInv' /\ Shape
    BY <1>1, HandlerShape, HearShape, ForgetShape
  <1>2. ASSUME Restart
        PROVE  IInv' /\ Start(db) /\ UNCHANGED contents
    BY <1>2, StartStep DEF Restart
  <1>3. ASSUME NewCacheFails
        PROVE  IInv' /\ LocalErrors /\ Start(EmptyTable) /\ UNCHANGED contents
    BY <1>3, StartStep DEF NewCacheFails
  <1>4. ASSUME Network
        PROVE  IInv' /\ EnvShape
    BY <1>4, NetworkShape
  <1>5. ASSUME NEW p \in Path, ChangeRemote(p)
        PROVE  IInv' /\ EnvShape
    BY <1>5, ChangeRemoteShape
  <1> QED
    BY <1>1, <1>2, <1>3, <1>4, <1>5 DEF Next

LEMMA InitIInv ==
    ASSUME Init
    PROVE  IInv
  <1>1. EnvInv /\ reply = Nil /\ contents = {} /\ calls = [n \in Node |-> Nil]
    BY DEF Init, EnvInv
  <1>2. TableInv(db) /\ nodes = RootOnly(db)
    BY NewRoot DEF Init
  <1>3. NodesInv(nodes, db)
    BY <1>2, RootNodes
  <1> QED
    BY <1>1, <1>2, <1>3 DEF IInv, CallsInv, KnownInv, ReplyInv

LEMMA StutterIInv ==
    ASSUME IInv, UNCHANGED vars
    PROVE  IInv'
  <1>1. UNCHANGED <<remote, online, db, contents, nodes, calls, reply>>
    BY DEF vars, envVars, cacheVars
  <1> QED
    BY <1>1 DEF IInv, EnvInv, TableInv, NodesInv, CallsInv, KnownInv, ReplyInv

LEMMA SpecIInv == Spec => []IInv
  <1>1. Init => IInv
    BY InitIInv
  <1>2. IInv /\ [Next]_vars => IInv'
    BY NextShape, StutterIInv
  <1> QED
    BY <1>1, <1>2, PTL DEF Spec

\* Everything that the handlers keep, send and return is of its type: the table
\* holds rows, a pending call waits for an answer of its own operation, a reply
\* is a value of its operation or an error.
THEOREM SpecTypeOK == Spec => []TypeOK
  <1>1. IInv => TypeOK
    <2>1. IInv => \A n \in Node : calls[n] # Nil =>
             n \in Live /\ calls[n].op \in Op /\ calls[n] \in PendingCall(calls[n].op)
      BY CallType DEF IInv, Live
    <2> QED
      BY <2>1 DEF IInv, TypeOK, EnvInv, TableInv, NodesInv, ReplyInv
  <1> QED
    BY <1>1, SpecIInv, PTL

\* The inode numbers that a live node reports, that its directory lists and that
\* the table holds are the same: however handlers interleave, rows are inserted
\* in whatever order and whatever fails in between.
THEOREM SpecInodesAgree == Spec => []InodesAgree
  <1>1. IInv => InodesAgree
    BY DEF IInv, InodesAgree, Live, NodesInv, NodeAgrees, RowAgrees, EntriesAgree
  <1> QED
    BY <1>1, SpecIInv, PTL

-----------------------------------------------------------------------------
(***************************************************************************)
(* Digests and contents.                                                   *)
(***************************************************************************)

\* SQLite gives back every text that is stored, as it does if none looks like a
\* number.
FaithfulText == \A t \in Text : Affinity[t] = t

\* The digest that a row or a node has is that of a content in S.
Resolves(o, S) == o.hash \in S \union {Nil}

HashInv ==
    /\ \A p \in Path : Has(db, p) => Resolves(db.rows[p], contents)
    /\ \A n \in Node : nodes[n] # NoNode =>
          /\ Resolves(nodes[n], contents)
          /\ \A x \in Path : nodes[n].rows[x] # NoRow => Resolves(nodes[n].rows[x], contents)
    /\ \A n \in Node : calls[n] # Nil /\ calls[n].op = "open" /\ calls[n].phase = "local" =>
          calls[n].got \in contents

LEMMA HashShape ==
    ASSUME FaithfulText, IInv, HashInv, Shape
    PROVE  HashInv'
  <1>1. contents \subseteq contents'
    BY DEF Shape
  <1>2. \A o : Resolves(o, contents) => Resolves(o, contents')
    BY <1>1 DEF Resolves
  <1>3. ASSUME NEW p \in Path, Has(db', p)
        PROVE  Resolves(db'.rows[p], contents')
    <2>1. CASE db'.rows[p] = db.rows[p]
      BY <1>2, <1>3, <2>1 DEF HashInv, Has
    <2>2. CASE RowInserted(p)
      BY <2>2, NewRowType DEF RowInserted, Resolves
    <2>3. CASE TypeUpdated(p)
      <3>1. Has(db, p) /\ db'.rows[p].hash = db.rows[p].hash
        BY <2>3 DEF TypeUpdated, RowBecomes, Columns
      <3> QED
        BY <1>2, <3>1 DEF HashInv, Resolves
    <2>4. CASE ColumnStored(p)
      <3>1. Has(db, p) /\ Resolves(db.rows[p], contents')
        BY <1>2, <2>4 DEF HashInv, ColumnStored, ColumnKept, ListingPut, RowBecomes
      <3>2. PICK n \in Node : /\ calls[n] # Nil /\ calls[n].got \notin {Err, BadRead}
                              /\ \/ db'.rows[p].hash = db.rows[p].hash
                                 \/ /\ calls[n].op = "open" /\ calls[n].phase = "local"
                                    /\ db'.rows[p].hash = Affinity[calls[n].got]
        BY <2>4 DEF ColumnStored, ColumnKept, ListingPut, RowBecomes, Columns
      <3>3. calls[n].op = "open" => calls[n].got \in Text
        BY <3>2, CallType DEF IInv, Value, Failure
      <3>4. calls[n].op = "open" /\ calls[n].phase = "local" =>
               Affinity[calls[n].got] \in contents'
        BY <1>1, <3>2, <3>3 DEF HashInv, FaithfulText
      <3> QED
        BY <3>1, <3>2, <3>4 DEF Resolves
    <2> QED
      BY <2>1, <2>2, <2>3, <2>4 DEF Shape, RowStep
  <1>4. ASSUME NEW n \in Node, NEW x \in Path, NEW row, Finds(n, x, row)
        PROVE  Resolves(row, contents')
    <2>1. nodes[n] # NoNode /\ row # NoRow
      BY <1>4 DEF Finds
    <2>2. CASE row = db'.rows[x]
      BY <1>3, <2>1, <2>2 DEF Has
    <2>3. CASE row = nodes[n].rows[x]
      BY <1>2, <2>1, <2>3 DEF HashInv
    <2> QED
      BY <1>4, <2>2, <2>3 DEF Finds
  <1>5. ASSUME NEW n \in Node, nodes'[n] # NoNode
        PROVE  /\ Resolves(nodes'[n], contents')
               /\ \A x \in Path : nodes'[n].rows[x] # NoRow =>
                     Resolves(nodes'[n].rows[x], contents')
    <2>1. nodes[n] # NoNode =>
             /\ Resolves(nodes[n], contents')
             /\ \A x \in Path : nodes[n].rows[x] # NoRow => Resolves(nodes[n].rows[x], contents')
      BY <1>2 DEF HashInv
    <2>2. CASE nodes'[n] = nodes[n]
      BY <1>5, <2>1, <2>2
    <2>3. CASE nodes[n] # NoNode /\ NodeLoads(n)
      <3>1. PICK op, v :
               /\ op \in Op \ {"lookup"}
               /\ calls[n] # Nil /\ calls[n].op = op
               /\ Becomes(nodes[n], nodes'[n], Column[op], v)
               /\ op # "readdir" => v = calls[n].got /\ v # Err
               /\ op = "open" => calls[n].phase = "local"
        BY <2>3 DEF NodeLoads
      <3>2. nodes'[n].rows = nodes[n].rows
        BY <3>1 DEF Becomes, Fields, Column, Op
      <3>3. CASE op = "open"
        <4>1. nodes'[n].hash = v /\ v \in contents'
          BY <1>1, <3>1, <3>3 DEF Becomes, Column, HashInv
        <4> QED
          BY <2>1, <2>3, <3>2, <4>1 DEF Resolves
      <3>4. CASE op # "open"
        <4>1. nodes'[n].hash = nodes[n].hash
          BY <3>1, <3>4 DEF Becomes, Fields, Column, Op
        <4> QED
          BY <2>1, <2>3, <3>2, <4>1 DEF Resolves
      <3> QED
        BY <3>3, <3>4
    <2>4. CASE nodes[n] # NoNode /\ NodeRemembers(n)
      <3>1. PICK x \in Path, row \in CachedRow :
               /\ Finds(n, x, row)
               /\ Becomes(nodes[n], nodes'[n], "rows", [nodes[n].rows EXCEPT ![x] = row])
        BY <2>4 DEF NodeRemembers
      <3>2. nodes'[n].hash = nodes[n].hash
        BY <3>1 DEF Becomes, Fields
      <3>3. nodes[n].rows \in [Path -> CachedRow \union {NoRow}]
        BY <2>4 DEF IInv, NodesInv, NodeObject
      <3>4. nodes'[n].rows[x] = row /\ \A y \in Path \ {x} : nodes'[n].rows[y] = nodes[n].rows[y]
        BY <3>1, <3>3 DEF Becomes
      <3>5. Resolves(row, contents')
        BY <1>4, <3>1
      <3> QED
        BY <2>1, <2>4, <3>2, <3>4, <3>5 DEF Resolves
    <2>5. CASE NodeMade(n)
      <3>1. PICK m \in Node, x \in Path, row \in CachedRow :
               Finds(m, x, row) /\ nodes'[n] = newNodeForEntry(x, row)
        BY <2>5 DEF NodeMade
      <3>2. nodes'[n].hash = row.hash /\ \A y \in Path : nodes'[n].rows[y] = NoRow
        BY <3>1 DEF newNodeForEntry
      <3> QED
        BY <1>4, <3>1, <3>2 DEF Resolves
    <2> QED
      BY <1>5, <2>2, <2>3, <2>4, <2>5 DEF Shape, NodeStep
  <1>6. ASSUME NEW n \in Node, calls'[n] # Nil, calls'[n].op = "open",
               calls'[n].phase = "local"
        PROVE  calls'[n].got \in contents'
    <2>1. CASE calls'[n] = calls[n] \/ Overlapped(n)
      BY <1>1, <1>6, <2>1 DEF HashInv, Overlapped, GoesOn
    <2>2. CASE Stores(n)
      BY <1>6, <2>2 DEF Stores, GoesOn
    <2> QED
      BY <1>6, <2>1, <2>2 DEF Shape, CallStep, Ended, Asked, Heard
  <1> QED
    BY <1>3, <1>5, <1>6 DEF HashInv

\* A new process, and a change of the remote system, leave the digests alone.
LEMMA HashOther ==
    ASSUME IInv, HashInv, IInv',
           \/ EnvShape
           \/ Start(db) /\ UNCHANGED contents
           \/ Start(EmptyTable) /\ UNCHANGED contents
    PROVE  HashInv'
  <1>1. CASE EnvShape
    BY <1>1 DEF EnvShape, Sees, HashInv
  <1>2. ASSUME NEW table \in {db, EmptyTable}, Start(table), UNCHANGED contents
        PROVE  HashInv'
    <2>1. /\ table = db => db' = db
          /\ table = EmptyTable =>
                /\ db'.rows[Root] = NewRow(1, "directory")
                /\ \A p \in Path \ {Root} : ~Has(db', p)
          /\ nodes'[RootNode] = newNodeForEntry(Root, db'.rows[Root])
          /\ \A n \in Node \ {RootNode} : nodes'[n] = NoNode
          /\ \A n \in Node : calls'[n] = Nil
      BY <1>2, StartStep
    <2>2. NewRow(1, "directory").hash = Nil
      BY DEF NewRow
    <2>3. \A p \in Path : Has(db', p) => Resolves(db'.rows[p], contents')
      BY <1>2, <2>1, <2>2 DEF HashInv, Resolves
    <2>4. Root \in Path /\ Has(db', Root)
      BY TableAssumption DEF IInv, TableInv
    <2>5. nodes'[RootNode].hash = db'.rows[Root].hash
          /\ \A x \in Path : nodes'[RootNode].rows[x] = NoRow
      BY <2>1 DEF newNodeForEntry
    <2> QED
      BY <2>1, <2>3, <2>4, <2>5 DEF HashInv, Resolves
  <1> QED
    BY <1>1, <1>2

LEMMA SpecHashInv ==
    ASSUME FaithfulText
    PROVE  Spec => []HashInv
  <1>1. Init => HashInv
    <2> SUFFICES ASSUME Init PROVE HashInv
      OBVIOUS
    <2>1. /\ db.rows[Root] = NewRow(1, "directory") /\ \A p \in Path \ {Root} : ~Has(db, p)
          /\ TableInv(db) /\ nodes = RootOnly(db) /\ calls = [n \in Node |-> Nil]
      BY NewRoot DEF Init
    <2>2. /\ nodes[RootNode] = newNodeForEntry(Root, db.rows[Root])
          /\ \A n \in Node \ {RootNode} : nodes[n] = NoNode
      BY <2>1, RootNodes
    <2>3. db.rows[Root].hash = Nil /\ nodes[RootNode].hash = Nil
          /\ \A x \in Path : nodes[RootNode].rows[x] = NoRow
      BY <2>1, <2>2 DEF NewRow, newNodeForEntry
    <2> QED
      BY <2>1, <2>2, <2>3 DEF HashInv, Resolves
  <1>2. IInv /\ IInv' /\ HashInv /\ [Next]_vars => HashInv'
    <2>1. IInv /\ IInv' /\ HashInv /\ Next => HashInv'
      BY NextShape, HashShape, HashOther
    <2>2. HashInv /\ UNCHANGED vars => HashInv'
      BY DEF HashInv, vars, envVars, cacheVars
    <2> QED
      BY <2>1, <2>2
  <1> QED
    BY <1>1, <1>2, SpecIInv, PTL DEF Spec

\* Every digest in the table and in a live node is that of a published content:
\* Open stores a digest only once PutContents has published the content, and a
\* kill between the two leaves no digest.
THEOREM SpecHashesResolve ==
    ASSUME FaithfulText
    PROVE  Spec => []HashesResolve
  <1>1. Spec => []HashInv
    BY SpecHashInv
  <1>2. HashInv => HashesResolve
    BY DEF HashInv, HashesResolve, Resolves, Live
  <1> QED
    BY <1>1, <1>2, PTL

-----------------------------------------------------------------------------
(***************************************************************************)
(* What is cached of a remote file system r that does not change.          *)
(***************************************************************************)

TrueColumns(o, p, r) ==
    /\ o.info # Nil => o.info = Truth(r, "attr", p)
    /\ o.hash # Nil => o.hash = Truth(r, "open", p)
    /\ o.target # Nil => o.target = Truth(r, "readlink", p)
    /\ o.entries # Nil => Types(o.entries) = Truth(r, "readdir", p)

TrueRow(row, p, r) == TypeOf(row) = Truth(r, "lookup", p) /\ TrueColumns(row, p, r)

TrueInv ==
    /\ \A p \in Path : Has(db, p) => TrueRow(db.rows[p], p, remote)
    /\ \A n \in Node : nodes[n] # NoNode =>
          /\ TrueColumns(nodes[n], nodes[n].path, remote)
          /\ \A x \in Path : nodes[n].rows[x] # NoRow => TrueRow(nodes[n].rows[x], x, remote)
    /\ \A n \in Node : calls[n] # Nil =>
          calls[n].got \in {Truth(remote, calls[n].op, calls[n].path), Err, BadRead}

\* An answer that is not an error is what the remote system holds.
LEMMA TrueAnswer ==
    ASSUME IInv, TrueInv, NEW n \in Node, calls[n] # Nil, calls[n].got # Err,
           calls[n].op = "readdir" => calls[n].got # BadRead
    PROVE  /\ calls[n].got = Truth(remote, calls[n].op, calls[n].path)
           /\ calls[n].op \in Op
           /\ calls[n].got \in Value[calls[n].op]
           /\ calls[n].path \in Path /\ nodes[n].path \in Path
           /\ calls[n].op # "lookup" => calls[n].path = nodes[n].path
  <1>1. /\ calls[n].op \in Op
        /\ calls[n].got \in Value[calls[n].op] \union Failure(calls[n].op)
        /\ calls[n].path \in Path /\ nodes[n].path \in Path
        /\ calls[n].op # "lookup" => calls[n].path = nodes[n].path
    BY CallType DEF IInv
  <1>2. calls[n].got \in Value[calls[n].op]
    BY <1>1 DEF Failure
  <1>3. calls[n].got # BadRead
    BY <1>1, <1>2, ValueAssumption
  <1> QED
    BY <1>1, <1>2, <1>3 DEF TrueInv

\* What a directory learns of an entry is the type it has there.
LEMMA TrueLearns ==
    ASSUME IInv, TrueInv, NEW n \in Node, NEW p \in Path, NEW t \in TypeName, Learns(n, p, t)
    PROVE  (IF t = "noentry" THEN Missing ELSE t) = Truth(remote, "lookup", p)
  <1>1. CASE calls[n].op = "lookup" /\ calls[n].path = p /\ calls[n].got = t
    <2>1. t # Err
      BY ValueAssumption
    <2>2. t = Truth(remote, "lookup", p) /\ t \in Value["lookup"]
      BY <1>1, <2>1, TrueAnswer DEF Learns
    <2>3. t # "noentry"
      BY <2>2, ValueAssumption DEF Value, ModeType, TypeName
    <2> QED
      BY <2>2, <2>3
  <1>2. CASE calls[n].op = "lookup" /\ calls[n].path = p /\ calls[n].got = Missing /\ t = "noentry"
    <2>1. "lookup" \in Op /\ Missing \in Value["lookup"]
      BY DEF Op, Value
    <2>2. Missing # Err
      BY <2>1, ValueAssumption
    <2> QED
      BY <1>2, <2>2, TrueAnswer DEF Learns
  <1>3. CASE calls[n].op = "readdir" /\ calls[n].got \notin {Err, BadRead} /\ calls[n].got[p] = t
    <2> DEFINE d == calls[n].path
    <2>1. calls[n].got = Truth(remote, "readdir", d)
      BY <1>3, TrueAnswer DEF Learns
    <2>2. calls[n].got = [x \in Path |-> IF x \in Children(d) /\ remote[x] # Missing
                                         THEN remote[x].type ELSE Nil]
      BY <1>3, <2>1, TruthListing
    <2>3. t # Nil
      BY TableAssumption
    <2>4. remote[p] # Missing /\ t = remote[p].type
      BY <1>3, <2>2, <2>3
    <2>5. remote[p] \in RemoteObject
      BY <2>4, FSAssumption DEF IInv, EnvInv
    <2>6. t # "noentry"
      BY <2>4, <2>5 DEF RemoteObject, ModeType
    <2> QED
      BY <2>4, <2>6, TruthCases
  <1> QED
    BY <1>1, <1>2, <1>3 DEF Learns


\* Answers of a remote system that does not change add up to what it holds.
LEMMA MixTrue ==
    ASSUME NEW op \in Op, NEW t, NEW v, NEW w, {v, w} \subseteq {t, Err, BadRead},
           {v, w} \subseteq Value[op] \union Failure(op), NEW u \in Mix(op, v, w)
    PROVE  u \in {t, Err, BadRead}
  <1>1. CASE op = "open" /\ v # w /\ {v, w} \subseteq Text
    <2>1. {Err, BadRead} \cap Text = {}
      BY <1>1, ValueAssumption DEF Value
    <2> QED
      BY <1>1, <2>1
  <1>2. CASE op = "readdir" /\ {v, w} \cap {Err, BadRead} = {}
    <2>1. v = t /\ w = t /\ t \in Listing
      BY <1>2 DEF Value, Failure
    <2>2. PICK S \in SUBSET Path : u = [x \in Path |-> IF x \in S THEN w[x] ELSE v[x]]
      BY <1>2 DEF Mix
    <2>3. u = [x \in Path |-> t[x]]
      BY <2>1, <2>2
    <2> QED
      BY <2>1, <2>3 DEF Listing
  <1>3. CASE u = w
    BY <1>3
  <1> QED
    BY <1>1, <1>2, <1>3 DEF Mix

\* The row that Loop makes for the root is right: the root is a directory.
LEMMA TrueRoot ==
    ASSUME NEW r, r[Root] \in States[Root]
    PROVE  TrueRow(NewRow(1, "directory"), Root, r)
  <1>1. r[Root] # Missing /\ r[Root].type = "directory"
    BY FSAssumption
  <1>2. Truth(r, "lookup", Root) = "directory"
    BY <1>1, TruthCases
  <1>3. NewRow(1, "directory").type = "directory" /\ TrueColumns(NewRow(1, "directory"), Root, r)
    BY DEF NewRow, TrueColumns
  <1> QED
    BY <1>2, <1>3 DEF TrueRow, TypeOf

LEMMA TrueShape ==
    ASSUME FaithfulText, IInv, IInv', TrueInv, Shape
    PROVE  TrueInv'
  <1>1. remote' = remote
    BY DEF Shape
  <1>2. ASSUME NEW p \in Path, Has(db', p)
        PROVE  TrueRow(db'.rows[p], p, remote)
    <2>1. CASE db'.rows[p] = db.rows[p]
      BY <1>2, <2>1 DEF TrueInv, Has
    <2>2. CASE RowInserted(p)
      <3>1. PICK n \in Node, i \in Nat, t \in TypeName :
               db'.rows[p] = NewRow(i, t) /\ Learns(n, p, t)
        BY <2>2 DEF RowInserted
      <3>2. TypeOf(db'.rows[p]) = Truth(remote, "lookup", p)
        BY <3>1, TrueLearns, NewRowType DEF TypeOf
      <3>3. TrueColumns(db'.rows[p], p, remote)
        BY <3>1, NewRowType DEF TrueColumns
      <3> QED
        BY <3>2, <3>3 DEF TrueRow
    <2>3. CASE TypeUpdated(p)
      <3>1. PICK n \in Node, t \in TypeName : RowBecomes(p, "type", t) /\ Learns(n, p, t)
        BY <2>3 DEF TypeUpdated
      <3>2. TypeOf(db'.rows[p]) = Truth(remote, "lookup", p)
        BY <3>1, TrueLearns DEF TypeOf, RowBecomes
      <3>3. TrueColumns(db.rows[p], p, remote)
        BY <3>1 DEF TrueInv, TrueRow, RowBecomes
      <3>4. TrueColumns(db'.rows[p], p, remote)
        BY <3>1, <3>3 DEF TrueColumns, RowBecomes, Columns
      <3> QED
        BY <3>2, <3>4 DEF TrueRow
    <2>4. CASE ColumnStored(p)
      <3> DEFINE old == db.rows[p]
      <3> DEFINE new == db'.rows[p]
      <3>1. PICK n \in Node :
               LET got == calls[n].got IN
               /\ nodes[n].path = p /\ calls[n] # Nil /\ got \notin {Err, BadRead}
               /\ \/ calls[n].op = "attr" /\ RowBecomes(p, "info", got)
                  \/ calls[n].op = "open" /\ RowBecomes(p, "hash", Affinity[got])
                  \/ calls[n].op = "readlink" /\ RowBecomes(p, "target", Affinity[got])
                  \/ /\ calls[n].op = "readdir"
                     /\ \E es \in DirEntries : RowBecomes(p, "entries", es) /\ Types(es) = got
        BY <2>4 DEF ColumnStored, ColumnKept, ListingPut
      <3>2. /\ calls[n].got = Truth(remote, calls[n].op, p)
            /\ calls[n].got \in Value[calls[n].op]
            /\ calls[n].op # "lookup"
        BY <3>1, TrueAnswer
      <3>3. calls[n].op \in {"open", "readlink"} => Affinity[calls[n].got] = calls[n].got
        BY <3>2 DEF Value, FaithfulText
      <3>4. TrueRow(old, p, remote)
        BY <3>1 DEF TrueInv, RowBecomes
      <3>5. new.type = old.type
        BY <3>1 DEF RowBecomes, Columns
      <3>6. TypeOf(new) = Truth(remote, "lookup", p)
        BY <3>4, <3>5 DEF TrueRow, TypeOf
      <3>7. TrueColumns(new, p, remote)
        <4>1. CASE calls[n].op = "attr"
          BY <3>1, <3>2, <3>4, <4>1 DEF TrueRow, TrueColumns, RowBecomes, Columns
        <4>2. CASE calls[n].op = "open"
          BY <3>1, <3>2, <3>3, <3>4, <4>2 DEF TrueRow, TrueColumns, RowBecomes, Columns
        <4>3. CASE calls[n].op = "readlink"
          BY <3>1, <3>2, <3>3, <3>4, <4>3 DEF TrueRow, TrueColumns, RowBecomes, Columns
        <4>4. CASE calls[n].op = "readdir"
          BY <3>1, <3>2, <3>4, <4>4 DEF TrueRow, TrueColumns, RowBecomes, Columns
        <4> QED
          BY <3>1, <4>1, <4>2, <4>3, <4>4
      <3> QED
        BY <3>6, <3>7 DEF TrueRow
    <2> QED
      BY <2>1, <2>2, <2>3, <2>4 DEF Shape, RowStep
  <1>3. ASSUME NEW n \in Node, NEW x \in Path, NEW row, Finds(n, x, row)
        PROVE  TrueRow(row, x, remote)
    <2>1. nodes[n] # NoNode /\ row # NoRow
      BY <1>3 DEF Finds
    <2>2. CASE row = db'.rows[x]
      BY <1>2, <2>1, <2>2 DEF Has
    <2>3. CASE row = nodes[n].rows[x]
      BY <2>1, <2>3 DEF TrueInv
    <2> QED
      BY <1>3, <2>2, <2>3 DEF Finds
  <1>4. ASSUME NEW n \in Node, nodes'[n] # NoNode
        PROVE  /\ TrueColumns(nodes'[n], nodes'[n].path, remote)
               /\ \A x \in Path : nodes'[n].rows[x] # NoRow =>
                     TrueRow(nodes'[n].rows[x], x, remote)
    <2> DEFINE o == nodes[n]
    <2> DEFINE u == nodes'[n]
    <2>1. o # NoNode =>
             /\ TrueColumns(o, o.path, remote)
             /\ \A x \in Path : o.rows[x] # NoRow => TrueRow(o.rows[x], x, remote)
      BY DEF TrueInv
    <2>2. CASE u = o
      BY <1>4, <2>1, <2>2
    <2>3. CASE o # NoNode /\ NodeLoads(n)
      <3>1. PICK op, v :
               /\ op \in Op \ {"lookup"}
               /\ calls[n] # Nil /\ calls[n].op = op
               /\ Becomes(o, u, Column[op], v)
               /\ op # "readdir" => v = calls[n].got /\ v # Err
               /\ op = "readdir" => v = db'.rows[o.path].entries /\ v # Nil
        BY <2>3 DEF NodeLoads
      <3>2. u.rows = o.rows /\ u.path = o.path
        BY <3>1 DEF Becomes, Fields, Column, Op
      <3>3. op # "readdir" => v = Truth(remote, op, o.path)
        BY <3>1, TrueAnswer
      <3>4. op = "readdir" => Types(v) = Truth(remote, "readdir", o.path)
        <4>1. u \in NodeObject /\ u.path \in Path /\ Has(db', u.path)
          BY <1>4, <3>1 DEF IInv, NodesInv, NodeAgrees, Becomes, NodeObject
        <4>2. TrueRow(db'.rows[o.path], o.path, remote)
          BY <1>2, <3>2, <4>1
        <4> QED
          BY <3>1, <4>2 DEF TrueRow, TrueColumns
      <3>5. TrueColumns(u, o.path, remote)
        <4>1. CASE op = "attr"
          BY <2>1, <2>3, <3>1, <3>3, <4>1 DEF TrueColumns, Becomes, Fields, Column
        <4>2. CASE op = "open"
          BY <2>1, <2>3, <3>1, <3>3, <4>2 DEF TrueColumns, Becomes, Fields, Column
        <4>3. CASE op = "readlink"
          BY <2>1, <2>3, <3>1, <3>3, <4>3 DEF TrueColumns, Becomes, Fields, Column
        <4>4. CASE op = "readdir"
          BY <2>1, <2>3, <3>1, <3>4, <4>4 DEF TrueColumns, Becomes, Fields, Column
        <4> QED
          BY <3>1, <4>1, <4>2, <4>3, <4>4 DEF Op
      <3> QED
        BY <2>1, <2>3, <3>2, <3>5
    <2>4. CASE o # NoNode /\ NodeRemembers(n)
      <3>1. PICK x \in Path, row \in CachedRow :
               /\ Finds(n, x, row)
               /\ Becomes(o, u, "rows", [o.rows EXCEPT ![x] = row])
        BY <2>4 DEF NodeRemembers
      <3>2. /\ u.path = o.path /\ u.info = o.info /\ u.hash = o.hash /\ u.target = o.target
            /\ u.entries = o.entries
        BY <3>1 DEF Becomes, Fields
      <3>3. o.rows \in [Path -> CachedRow \union {NoRow}]
        BY <2>4 DEF IInv, NodesInv, NodeObject
      <3>4. u.rows[x] = row /\ \A y \in Path \ {x} : u.rows[y] = o.rows[y]
        BY <3>1, <3>3 DEF Becomes
      <3>5. TrueRow(row, x, remote)
        BY <1>3, <3>1
      <3>6. TrueColumns(u, u.path, remote)
        BY <2>1, <2>4, <3>2 DEF TrueColumns
      <3> QED
        BY <2>1, <2>4, <3>4, <3>5, <3>6
    <2>5. CASE NodeMade(n)
      <3>1. PICK m \in Node, x \in Path, row \in CachedRow :
               Finds(m, x, row) /\ u = newNodeForEntry(x, row)
        BY <2>5 DEF NodeMade
      <3>2. /\ u.path = x /\ u.info = row.info /\ u.hash = row.hash /\ u.target = row.target
            /\ u.entries = row.entries
            /\ \A y \in Path : u.rows[y] = NoRow
        BY <3>1 DEF newNodeForEntry
      <3>3. TrueColumns(row, x, remote)
        BY <1>3, <3>1 DEF TrueRow
      <3>4. TrueColumns(u, x, remote)
        BY <3>2, <3>3 DEF TrueColumns
      <3> QED
        BY <3>2, <3>4
    <2> QED
      BY <1>4, <2>2, <2>3, <2>4, <2>5 DEF Shape, NodeStep
  <1>5. ASSUME NEW n \in Node, calls'[n] # Nil
        PROVE  calls'[n].got \in {Truth(remote, calls'[n].op, calls'[n].path), Err, BadRead}
    <2>1. CASE calls'[n] = calls[n] \/ Stores(n) \/ Overlapped(n)
      BY <1>5, <2>1 DEF TrueInv, Stores, Overlapped, GoesOn
    <2>2. CASE Asked(n)
      BY <2>2, AnswersType DEF Asked, IInv
    <2>3. CASE Heard(n)
      <3> DEFINE op == calls[n].op
      <3> DEFINE p == calls[n].path
      <3>1. calls[n] # Nil /\ calls'[n].op = op /\ calls'[n].path = p
        BY <2>3 DEF Heard, GoesOn
      <3>2. PICK v \in Answers(op, p) : calls'[n].got \in Mix(op, calls[n].got, v)
        BY <2>3 DEF Heard
      <3>3. op \in Op /\ p \in Path /\ calls[n].got \in Value[op] \union Failure(op)
        BY <3>1, CallType DEF IInv
      <3>4. v \in Value[op] \union Failure(op) /\ v \in {Truth(remote, op, p), Err, BadRead}
        BY <3>3, AnswersType DEF IInv
      <3>5. calls[n].got \in {Truth(remote, op, p), Err, BadRead}
        BY <3>1 DEF TrueInv
      <3>6. calls'[n].got \in {Truth(remote, op, p), Err, BadRead}
        <4> DEFINE t == Truth(remote, op, p)
        <4> HIDE DEF t, op, p
        <4>1. {calls[n].got, v} \subseteq {t, Err, BadRead}
          BY <3>4, <3>5 DEF t
        <4>2. {calls[n].got, v} \subseteq Value[op] \union Failure(op)
          BY <3>3, <3>4
        <4>3. calls'[n].got \in {t, Err, BadRead}
          BY <3>2, <3>3, <4>1, <4>2, MixTrue
        <4> QED
          BY <4>3 DEF t
      <3> QED
        BY <3>1, <3>6
    <2> QED
      BY <1>5, <2>1, <2>2, <2>3 DEF Shape, CallStep, Ended
  <1> QED
    BY <1>1, <1>2, <1>4, <1>5 DEF TrueInv

LEMMA TrueOther ==
    ASSUME IInv, IInv', TrueInv, Mutable = {},
           \/ EnvShape
           \/ Start(db) /\ UNCHANGED contents
           \/ Start(EmptyTable) /\ UNCHANGED contents
    PROVE  TrueInv' /\ reply' = Nil
  <1>1. CASE EnvShape
    BY <1>1 DEF EnvShape, Sees, TrueInv
  <1>2. ASSUME NEW table \in {db, EmptyTable}, Start(table), UNCHANGED contents
        PROVE  TrueInv' /\ reply' = Nil
    <2>1. /\ UNCHANGED remote
          /\ table = db => db' = db
          /\ table = EmptyTable =>
                /\ db'.rows[Root] = NewRow(1, "directory")
                /\ \A p \in Path \ {Root} : ~Has(db', p)
          /\ nodes'[RootNode] = newNodeForEntry(Root, db'.rows[Root])
          /\ \A n \in Node \ {RootNode} : nodes'[n] = NoNode
          /\ \A n \in Node : calls'[n] = Nil
          /\ reply' = Nil
      BY <1>2, StartStep
    <2>2. TrueRow(NewRow(1, "directory"), Root, remote)
      BY TrueRoot, TableAssumption DEF IInv, EnvInv
    <2>3. \A p \in Path : Has(db', p) => TrueRow(db'.rows[p], p, remote)
      BY <1>2, <2>1, <2>2 DEF TrueInv
    <2>4. Root \in Path /\ Has(db', Root)
      BY TableAssumption DEF IInv, TableInv
    <2> DEFINE u == nodes'[RootNode]
    <2>5. /\ u.path = Root /\ u.info = db'.rows[Root].info /\ u.hash = db'.rows[Root].hash
          /\ u.target = db'.rows[Root].target /\ u.entries = db'.rows[Root].entries
          /\ \A x \in Path : u.rows[x] = NoRow
      BY <2>1 DEF newNodeForEntry
    <2>6. TrueColumns(u, u.path, remote)
      BY <2>3, <2>4, <2>5 DEF TrueRow, TrueColumns
    <2> QED
      BY <2>1, <2>3, <2>5, <2>6 DEF TrueInv
  <1> QED
    BY <1>1, <1>2 DEF EnvShape


\* What the handlers reply.
LEMMA TrueReply ==
    ASSUME IInv, IInv', TrueInv, TrueInv', Shape
    PROVE  reply' # Nil /\ reply'.val # Err =>
              reply'.val = Truth(remote', reply'.op, reply'.path)
  <1> SUFFICES ASSUME reply' # Nil, reply'.val # Err
               PROVE  reply'.val = Truth(remote, reply'.op, reply'.path)
    BY DEF Shape
  <1>1. ASSUME NEW n \in Node, nodes[n] # NoNode, NEW op \in Op \ {"lookup", "readdir"}, NEW v,
               v # Err, FromNode(nodes[n], op, v), nodes[n][Column[op]] # Nil
        PROVE  v = Truth(remote, op, nodes[n].path)
    <2>1. TrueColumns(nodes[n], nodes[n].path, remote)
      BY <1>1 DEF TrueInv
    <2>2. op = "open" => v = nodes[n].hash
      BY <1>1 DEF FromNode, Content
    <2> QED
      BY <1>1, <2>1, <2>2 DEF FromNode, Column, TrueColumns, Op
  <1>2. ASSUME NEW n \in Node, NEW op \in Op \ {"lookup"}, RepliesHit(n, op)
        PROVE  reply'.val = Truth(remote, reply'.op, reply'.path)
    <2>1. /\ nodes[n] # NoNode /\ nodes[n][Column[op]] # Nil
          /\ reply'.op = op /\ reply'.path = nodes[n].path
          /\ FromNode(nodes[n], op, reply'.val)
      BY <1>2 DEF RepliesHit
    <2>2. CASE op # "readdir"
      BY <1>1, <2>1, <2>2
    <2>3. CASE op = "readdir"
      BY <2>1, <2>3 DEF FromNode, Column, TrueInv, TrueColumns
    <2> QED
      BY <2>2, <2>3
  <1>3. ASSUME NEW n \in Node, NEW x \in Path, RepliesFound(n, x)
        PROVE  reply'.val = Truth(remote, reply'.op, reply'.path)
    <2>1. PICK row \in CachedRow : Finds(n, x, row) /\ reply'.val = TypeOf(row)
      BY <1>3 DEF RepliesFound
    <2>2. reply'.op = "lookup" /\ reply'.path = x /\ db' = db
      BY <1>3 DEF RepliesFound
    <2>3. nodes[n] # NoNode /\ row # NoRow /\ (row = nodes[n].rows[x] \/ row = db.rows[x])
      BY <2>1, <2>2 DEF Finds
    <2>4. TrueRow(row, x, remote)
      BY <2>3 DEF TrueInv, Has
    <2> QED
      BY <2>1, <2>2, <2>4 DEF TrueRow
  <1>4. ASSUME NEW n \in Node, RepliesDone(n)
        PROVE  reply'.val = Truth(remote, reply'.op, reply'.path)
    <2> DEFINE op == calls[n].op
    <2> DEFINE p == calls[n].path
    <2>1. calls[n] # Nil /\ reply'.op = op /\ reply'.path = p
      BY <1>4 DEF RepliesDone
    <2>2. nodes[n] # NoNode /\ p \in Path /\ op \in Op /\ (op # "lookup" => p = nodes[n].path)
      BY <2>1, CallType DEF IInv
    <2>3. CASE RepliesFetched(n, reply'.val)
      <3>1. calls[n].got = Truth(remote, op, p)
        BY <2>1, <2>3, TrueAnswer DEF RepliesFetched
      <3>2. CASE op \in {"attr", "open", "readlink"}
        <4>1. reply'.val = calls[n].got
          BY <2>2, <2>3, <3>2 DEF RepliesFetched, Content
        <4> QED
          BY <2>1, <3>1, <4>1
      <3>3. CASE op \in {"lookup", "readdir"}
        <4>1. Has(db, p)
          BY <2>3, <3>3 DEF RepliesFetched
        <4>2. TrueRow(db.rows[p], p, remote)
          BY <2>2, <4>1 DEF TrueInv
        <4> QED
          BY <2>1, <2>3, <3>1, <3>3, <4>2 DEF RepliesFetched, TrueRow, TrueColumns
      <3> QED
        BY <2>2, <3>2, <3>3 DEF Op
    <2>4. CASE RepliesCached(n, reply'.val)
      <3>1. CASE op = "lookup"
        BY <2>1, <2>2, <2>4, <3>1 DEF RepliesCached, TrueInv, TrueRow
      <3>2. CASE op = "readdir"
        <4>1. p \in Path /\ Has(db, p)
          BY <2>1, <2>2, <3>2, WaitingRow
        <4>2. TrueColumns(db.rows[p], p, remote)
          BY <4>1 DEF TrueInv, TrueRow
        <4> QED
          BY <2>1, <2>4, <3>2, <4>2 DEF RepliesCached, TrueColumns
      <3>3. CASE op \in Op \ {"lookup", "readdir"}
        <4>1. nodes[n][Column[op]] # Nil /\ FromNode(nodes[n], op, reply'.val)
          BY <2>4, <3>3 DEF RepliesCached
        <4> QED
          BY <1>1, <2>1, <2>2, <3>3, <4>1
      <3> QED
        BY <2>2, <3>1, <3>2, <3>3
    <2> QED
      BY <1>4, <2>3, <2>4 DEF RepliesDone, RepliesFailed
  <1> QED
    BY <1>2, <1>3, <1>4 DEF Shape, ReplyStep, RepliesError

\* If the remote file system does not change, every reply that is not an error is
\* what it holds: whatever was cached by whom and in which order, while the
\* network came and went, after restarts and after local failures.
THEOREM SpecServedIsRemote ==
    ASSUME FaithfulText
    PROVE  Spec => []ServedIsRemote
  <1> DEFINE J == Mutable = {} => TrueInv
  <1>1. Init => J /\ ServedIsRemote
    <2> SUFFICES ASSUME Init PROVE TrueInv /\ reply = Nil
      BY DEF ServedIsRemote
    <2>1. /\ db.rows[Root] = NewRow(1, "directory") /\ \A p \in Path \ {Root} : ~Has(db, p)
          /\ TableInv(db) /\ nodes = RootOnly(db) /\ calls = [n \in Node |-> Nil]
          /\ reply = Nil
      BY NewRoot DEF Init
    <2>2. /\ nodes[RootNode] = newNodeForEntry(Root, db.rows[Root])
          /\ \A n \in Node \ {RootNode} : nodes[n] = NoNode
      BY <2>1, RootNodes
    <2>3. TrueRow(db.rows[Root], Root, remote)
      BY <2>1, TrueRoot, InitIInv, TableAssumption DEF IInv, EnvInv
    <2> DEFINE u == nodes[RootNode]
    <2>4. /\ u.path = Root /\ u.info = Nil /\ u.hash = Nil /\ u.target = Nil /\ u.entries = Nil
          /\ \A x \in Path : u.rows[x] = NoRow
      BY <2>1, <2>2 DEF newNodeForEntry, NewRow
    <2>5. TrueColumns(u, u.path, remote)
      BY <2>4 DEF TrueColumns
    <2> QED
      BY <2>1, <2>2, <2>3, <2>4, <2>5 DEF TrueInv
  <1>2. IInv /\ IInv' /\ J /\ ServedIsRemote /\ [Next]_vars => J' /\ ServedIsRemote'
    <2>1. IInv /\ IInv' /\ TrueInv /\ Mutable = {} /\ Next => TrueInv' /\ ServedIsRemote'
      BY NextShape, TrueShape, TrueReply, TrueOther DEF ServedIsRemote
    <2>2. TrueInv /\ UNCHANGED vars => TrueInv'
      BY DEF TrueInv, vars, envVars, cacheVars
    <2>3. ServedIsRemote /\ UNCHANGED vars => ServedIsRemote'
      BY DEF ServedIsRemote, vars, envVars
    <2>4. Mutable # {} => J' /\ ServedIsRemote'
      BY DEF ServedIsRemote
    <2> QED
      BY <2>1, <2>2, <2>3, <2>4
  <1> QED
    BY <1>1, <1>2, SpecIInv, PTL DEF Spec
-----------------------------------------------------------------------------
(***************************************************************************)
(* Paths that are accessed directly.                                       *)
(***************************************************************************)

\* What the call c has heard, or what the table d will tell it, is fresh.
HasFresh(c, d) ==
    /\ c.got \notin {Err, BadRead}
    /\ Fresh(c.op, c.got, c.during)
    /\ c.op = "lookup" /\ c.phase = "local" => TypeOf(d.rows[c.path]) \in c.during
    /\ c.op = "readdir" /\ c.phase = "local" =>
          Fresh("readdir", Types(d.rows[c.path].entries), c.during)

\* A direct call has seen the remote system as it is, and its answer is fresh
\* unless it has seen a failure.
FreshInv ==
    \A n \in Node : calls[n] # Nil /\ IsDirect(calls[n].op, calls[n].path) =>
        /\ Ask(remote, online, calls[n].op, calls[n].path) \in calls[n].during
        /\ {Err, BadRead} \cap calls[n].during = {} => HasFresh(calls[n], db)

\* What is fresh stays so while a call sees more.
LEMMA FreshMono ==
    ASSUME NEW op, NEW v, NEW S, NEW T, S \subseteq T, Fresh(op, v, S)
    PROVE  Fresh(op, v, T)
  BY DEF Fresh

\* Fresh answers are put together to a fresh one.
LEMMA MixFresh ==
    ASSUME NEW op \in Op, NEW during, NEW v \in Value[op] \union Failure(op),
           NEW w \in Value[op] \union Failure(op), Fresh(op, v, during), w \in during,
           v \notin {Err, BadRead}, w \notin {Err, BadRead}, NEW u \in Mix(op, v, w)
    PROVE  u \notin {Err, BadRead} /\ Fresh(op, u, during)
  <1>1. u \notin {Err, BadRead}
    <2>1. u = w \/ {v, w, u} \cap {Err, BadRead} = {}
      BY MixType
    <2> QED
      BY <2>1
  <1>2. CASE op = "open" /\ v # w
    BY <1>1, <1>2 DEF Fresh
  <1>3. CASE op = "readdir"
    <2>1. \A x \in Path : u[x] = w[x] \/ u[x] = v[x]
      <3>1. op = "readdir" /\ u \notin {Err, BadRead} =>
               \A x \in Path : u[x] = w[x] \/ (v \notin {Err, BadRead} /\ u[x] = v[x])
        BY MixType
      <3> QED
        BY <1>1, <1>3, <3>1
    <2>2. \A x \in Path : \E l \in during : v[x] = l[x]
      BY <1>3 DEF Fresh
    <2> QED
      BY <1>1, <1>3, <2>1, <2>2 DEF Fresh
  <1>4. CASE u = w
    BY <1>1, <1>4 DEF Fresh
  <1> QED
    BY <1>1, <1>2, <1>3, <1>4 DEF Mix

\* What a direct call has stored may be replaced by what another one has heard,
\* which it is told of.
LEMMA FreshRows ==
    ASSUME IInv, IInv', Shape, NEW n \in Node, calls[n] # Nil, calls'[n] # Nil,
           calls[n].phase = "local",
           calls[n].during \subseteq calls'[n].during,
           IsDirect(calls[n].op, calls[n].path), HasFresh(calls[n], db)
    PROVE  /\ calls[n].op = "lookup" => TypeOf(db'.rows[calls[n].path]) \in calls'[n].during
           /\ calls[n].op = "readdir" =>
                 Fresh("readdir", Types(db'.rows[calls[n].path].entries), calls'[n].during)
  <1> DEFINE p == calls[n].path
  <1>1. /\ p \in Path /\ calls[n].op \in Op
        /\ calls[n].op # "lookup" => p = nodes[n].path
    BY CallType DEF IInv
  <1>2. Has(db, p)
    BY <1>1, WaitingRow DEF IInv, KnownInv, CallKnown
  <1>3. RowStep(p) /\ ~RowInserted(p)
    BY <1>1, <1>2 DEF Shape, RowInserted
  <1>4. ASSUME calls[n].op = "lookup"
        PROVE  TypeOf(db'.rows[p]) \in calls'[n].during
    <2>1. CASE db'.rows[p].type = db.rows[p].type
      BY <1>4, <2>1 DEF HasFresh, TypeOf
    <2>2. CASE TypeUpdated(p)
      <3>1. PICK m \in Node, t \in TypeName :
               /\ RowBecomes(p, "type", t) /\ Learns(m, p, t) /\ Tells(m)
               /\ calls[m].op = "lookup"
        BY <2>2 DEF TypeUpdated
      <3>2. /\ calls[m] # Nil /\ calls[m].phase = "remote" /\ calls[m].path = p
            /\ calls[m].got = t \/ (calls[m].got = Missing /\ t = "noentry")
        BY <3>1 DEF Learns
      <3>3. calls[m].got \in Value["lookup"] \union Failure("lookup")
        BY <3>1, <3>2, CallType DEF IInv
      <3>4. TypeOf(db'.rows[p]) = calls[m].got
        BY <3>1, <3>2, <3>3, ValueAssumption
           DEF TypeOf, RowBecomes, Value, Failure, ModeType, TypeName
      <3>5. Overlaps(n, m)
        BY <1>4, <3>1, <3>2 DEF Overlaps
      <3> QED
        BY <3>1, <3>4, <3>5 DEF Tells
    <2>3. ColumnStored(p) => db'.rows[p].type = db.rows[p].type
      BY DEF ColumnStored, ColumnKept, ListingPut, RowBecomes, Columns
    <2> QED
      BY <1>3, <2>1, <2>2, <2>3 DEF RowStep
  <1>5. ASSUME calls[n].op = "readdir"
        PROVE  Fresh("readdir", Types(db'.rows[p].entries), calls'[n].during)
    <2>1. CASE db'.rows[p].entries = db.rows[p].entries
      BY <1>5, <2>1, FreshMono DEF HasFresh
    <2>2. CASE \E m \in Node : /\ nodes[m] # NoNode /\ nodes[m].path = p
                               /\ calls[m] # Nil /\ ListingPut(m, p)
      <3>1. PICK m \in Node : /\ nodes[m].path = p /\ calls[m] # Nil /\ ListingPut(m, p)
        BY <2>2
      <3>2. /\ calls[m].op = "readdir" /\ calls[m].phase = "remote" /\ Tells(m)
            /\ Types(db'.rows[p].entries) = calls[m].got
        BY <3>1 DEF ListingPut, RowBecomes
      <3>3. calls[m].path = p
        BY <3>1, <3>2, CallType DEF IInv
      <3>4. Overlaps(n, m)
        BY <1>5, <3>1, <3>2, <3>3 DEF Overlaps
      <3> QED
        BY <3>2, <3>4 DEF Tells, Fresh
    <2>3. TypeUpdated(p) => db'.rows[p].entries = db.rows[p].entries
      BY DEF TypeUpdated, RowBecomes, Columns
    <2>4. ASSUME NEW m \in Node, ColumnKept(m, p)
          PROVE  db'.rows[p].entries = db.rows[p].entries
      BY <2>4 DEF ColumnKept, RowBecomes, Columns
    <2> QED
      BY <1>3, <2>1, <2>2, <2>3, <2>4 DEF RowStep, ColumnStored
  <1> QED
    BY <1>4, <1>5

LEMMA FreshCalls ==
    ASSUME ~LocalErrors, IInv, IInv', FreshInv, Shape
    PROVE  FreshInv'
  <1> SUFFICES ASSUME NEW n \in Node, calls'[n] # Nil, IsDirect(calls'[n].op, calls'[n].path)
               PROVE  LET k == calls'[n] IN
                      /\ Ask(remote, online, k.op, k.path) \in k.during
                      /\ {Err, BadRead} \cap k.during = {} => HasFresh(k, db')
    BY DEF FreshInv, Shape
  <1> DEFINE c == calls[n]
  <1> DEFINE k == calls'[n]
  <1>1. CASE Asked(n)
    <2>1. /\ k.op \in Op /\ k.path \in Path /\ k.got \in Answers(k.op, k.path)
          /\ k.during = Seen(remote, online, k.op, k.path) /\ k.phase = "remote"
      BY <1>1 DEF Asked
    <2>2. k.got = Ask(remote, online, k.op, k.path) \/ ~online
      BY <2>1, AnswersType DEF IInv
    <2>3. k.during = {Ask(remote, online, k.op, k.path)}
      BY <2>1 DEF Seen
    <2> QED
      BY <2>1, <2>2, <2>3 DEF Ask, HasFresh, Fresh
  <1>2. CASE c # Nil /\ k.op = c.op /\ k.path = c.path /\ c.during \subseteq k.during
    <2>1. k.op = c.op /\ k.path = c.path /\ IsDirect(c.op, c.path)
      BY <1>2
    <2>2. /\ Ask(remote, online, c.op, c.path) \in c.during
          /\ {Err, BadRead} \cap c.during = {} => HasFresh(c, db)
      BY <1>2, <2>1 DEF FreshInv
    <2>3. ASSUME {Err, BadRead} \cap k.during = {}
          PROVE  HasFresh(c, db) /\ Ask(remote, online, c.op, c.path) \notin {Err, BadRead}
      BY <1>2, <2>2, <2>3
    <2>4. CASE Heard(n)
      <3> SUFFICES ASSUME {Err, BadRead} \cap k.during = {}
                   PROVE  HasFresh(k, db')
        BY <1>2, <2>1, <2>2
      <3>1. /\ k.phase = "remote" /\ k.during = c.during
            /\ \E v \in Answers(c.op, c.path) : k.got \in Mix(c.op, c.got, v)
        BY <2>4 DEF Heard
      <3>2. PICK v \in Answers(c.op, c.path) : k.got \in Mix(c.op, c.got, v)
        BY <3>1
      <3>3. c.op \in Op /\ c.path \in Path /\ c.got \in Value[c.op] \union Failure(c.op)
        BY <1>2, CallType DEF IInv
      <3>4. /\ v \in Value[c.op] \union Failure(c.op)
            /\ v = Ask(remote, online, c.op, c.path) \/ ~online
        BY <3>3, AnswersType DEF IInv
      <3>5. v \in c.during /\ v \notin {Err, BadRead}
        BY <2>2, <2>3, <3>4 DEF Ask
      <3>6. Fresh(c.op, c.got, c.during) /\ c.got \notin {Err, BadRead}
        BY <2>3 DEF HasFresh
      <3>7. k.got \notin {Err, BadRead} /\ Fresh(c.op, k.got, c.during)
        BY <3>2, <3>3, <3>4, <3>5, <3>6, MixFresh
      <3> QED
        BY <2>1, <3>1, <3>7 DEF HasFresh
    <2>5. CASE Stores(n)
      <3>1. /\ k.got = c.got /\ k.during = c.during
            /\ c.op = "lookup" => TypeOf(db'.rows[c.path]) = c.got
            /\ c.op = "readdir" => Types(db'.rows[c.path].entries) = c.got
        BY <2>5 DEF Stores
      <3> QED
        BY <1>2, <2>1, <2>2, <2>3, <3>1 DEF HasFresh, Fresh
    <2>6. CASE k.phase = c.phase /\ k.got = c.got
      <3> SUFFICES ASSUME {Err, BadRead} \cap k.during = {}
                   PROVE  HasFresh(k, db')
        BY <1>2, <2>1, <2>2
      <3>1. HasFresh(c, db)
        BY <2>3
      <3>2. k.got \notin {Err, BadRead} /\ Fresh(k.op, k.got, k.during)
        BY <1>2, <2>1, <2>6, <3>1, FreshMono DEF HasFresh
      <3>3. c.phase = "local" =>
               /\ c.op = "lookup" => TypeOf(db'.rows[c.path]) \in k.during
               /\ c.op = "readdir" =>
                     Fresh("readdir", Types(db'.rows[c.path].entries), k.during)
        BY <1>2, <2>1, <3>1, FreshRows
      <3> QED
        BY <2>1, <2>6, <3>2, <3>3 DEF HasFresh
    <2> QED
      BY <1>2, <2>4, <2>5, <2>6 DEF Shape, CallStep, Ended, Asked, Overlapped
  <1> QED
    BY <1>1, <1>2 DEF Shape, CallStep, Ended, Heard, Stores, Overlapped, GoesOn

LEMMA FreshShape ==
    ASSUME ~LocalErrors, IInv, IInv', FreshInv, Shape
    PROVE  FreshInv' /\ DirectIsFresh'
  <1>1. FreshInv'
    BY FreshCalls
  <1>2. DirectIsFresh'
    <2> SUFFICES ASSUME reply' # Nil, IsDirect(reply'.op, reply'.path), reply'.val # Err,
                        {Err, BadRead} \cap reply'.during = {}
                 PROVE  \/ Fresh(reply'.op, reply'.val, reply'.during)
                        \/ reply'.op = "lookup" /\ reply'.known /\ Missing \in reply'.during
      BY DEF DirectIsFresh, RepliedDirectly
    <2>1. ASSUME NEW n \in Node, NEW op \in Op \ {"lookup"}, RepliesHit(n, op)
          PROVE  FALSE
      BY <2>1 DEF RepliesHit, IsDirect
    <2>2. ASSUME NEW n \in Node, NEW x \in Path, RepliesFound(n, x)
          PROVE  FALSE
      BY <2>2 DEF RepliesFound, IsDirect, Finds, Children
    <2>3. ASSUME NEW n \in Node, RepliesDone(n)
          PROVE  \/ Fresh(reply'.op, reply'.val, reply'.during)
                 \/ reply'.op = "lookup" /\ reply'.known /\ Missing \in reply'.during
      <3> DEFINE c == calls[n]
      <3>1. /\ c # Nil /\ reply'.op = c.op /\ reply'.path = c.path
            /\ reply'.during = c.during /\ reply'.known = c.known
        BY <2>3 DEF RepliesDone
      <3>2. HasFresh(c, db)
        BY <3>1 DEF FreshInv
      <3>3. c.op \in Op
        BY <3>1, CallType DEF IInv
      <3>4. CASE RepliesFetched(n, reply'.val)
        <4>1. CASE c.op \in {"attr", "open", "readlink"}
          <5>1. reply'.val = c.got
            BY <3>4, <4>1 DEF RepliesFetched, Content
          <5> QED
            BY <3>1, <3>2, <5>1 DEF HasFresh
        <4>2. CASE c.op = "lookup"
          BY <3>1, <3>2, <3>4, <4>2 DEF RepliesFetched, HasFresh, Fresh
        <4>3. CASE c.op = "readdir"
          BY <3>1, <3>2, <3>4, <4>3 DEF RepliesFetched, HasFresh
        <4> QED
          BY <3>3, <4>1, <4>2, <4>3 DEF Op
      <3>5. CASE RepliesCached(n, reply'.val)
        <4>1. c.op = "lookup" /\ c.got = Missing /\ c.known
          BY <3>2, <3>5 DEF RepliesCached, HasFresh
        <4>2. Missing \in c.during
          BY <3>2, <4>1 DEF HasFresh, Fresh
        <4> QED
          BY <3>1, <4>1, <4>2
      <3> QED
        BY <2>3, <3>4, <3>5 DEF RepliesDone, RepliesFailed
    <2> QED
      BY <2>1, <2>2, <2>3 DEF Shape, ReplyStep, RepliesError
  <1> QED
    BY <1>1, <1>2

\* On a path that is accessed directly, a reply given by a call that saw the
\* remote object reachable all along is what the object was during the call, put
\* together from what was read at different times if it changed meanwhile, or
\* what another node of the directory stored during the call: nothing older is
\* served, although something else may be cached.  The exception is a Lookup of a
\* file that has gone and whose row is still there.  A local failure is not one
\* that a call sees: with those, Open serves what is cached in place of a content
\* that it could not store.
THEOREM SpecDirectIsFresh ==
    ASSUME ~LocalErrors
    PROVE  Spec => []DirectIsFresh
  <1>1. Init => FreshInv /\ DirectIsFresh
    BY DEF Init, FreshInv, DirectIsFresh, RepliedDirectly
  <1>2. IInv /\ IInv' /\ FreshInv /\ DirectIsFresh /\ [Next]_vars => FreshInv' /\ DirectIsFresh'
    <2>1. ASSUME IInv, IInv', FreshInv, EnvShape
          PROVE  FreshInv' /\ DirectIsFresh'
      <3> SUFFICES ASSUME NEW n \in Node, calls'[n] # Nil, IsDirect(calls'[n].op, calls'[n].path)
                   PROVE  LET k == calls'[n] IN
                          /\ Ask(remote', online', k.op, k.path) \in k.during
                          /\ {Err, BadRead} \cap k.during = {} => HasFresh(k, db)
        BY <2>1 DEF EnvShape, FreshInv, DirectIsFresh, RepliedDirectly
      <3>1. calls[n] # Nil /\ Sees(calls[n], calls'[n])
        BY <2>1 DEF EnvShape
      <3>2. /\ calls[n].during \subseteq calls'[n].during
            /\ Ask(remote', online', calls[n].op, calls[n].path) \in calls'[n].during
        BY <3>1 DEF Sees, Seen
      <3>3. {Err, BadRead} \cap calls'[n].during = {} => HasFresh(calls[n], db)
        BY <2>1, <3>1, <3>2 DEF Sees, FreshInv
      <3>4. HasFresh(calls[n], db) => HasFresh(calls'[n], db)
        BY <3>1, <3>2, FreshMono DEF Sees, HasFresh
      <3> QED
        BY <3>1, <3>2, <3>3, <3>4 DEF Sees
    <2>2. ASSUME IInv, Start(db), UNCHANGED contents
          PROVE  FreshInv' /\ DirectIsFresh'
      <3>1. reply' = Nil /\ \A n \in Node : calls'[n] = Nil
        BY <2>2, StartStep
      <3> QED
        BY <3>1 DEF FreshInv, DirectIsFresh, RepliedDirectly
    <2>3. FreshInv /\ DirectIsFresh /\ UNCHANGED vars => FreshInv' /\ DirectIsFresh'
      BY DEF FreshInv, DirectIsFresh, RepliedDirectly, vars, envVars, cacheVars
    <2> QED
      BY <2>1, <2>2, <2>3, NextShape, FreshShape
  <1> QED
    BY <1>1, <1>2, SpecIInv, PTL DEF Spec

=============================================================================
