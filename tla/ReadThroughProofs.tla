------------------------- MODULE ReadThroughProofs --------------------------
(***************************************************************************)
(* TLAPS proofs that SourcacheFS caches: what has been stored of a path    *)
(* that is not accessed directly is neither asked for again nor refused    *)
(* nor replaced, and the handlers implement the memory of ReadThrough.tla. *)
(*                                                                         *)
(* All of it is for a kernel that forgets no node, as SourcacheFS.tla says *)
(* of the refinement: a node that is made again from the row that its      *)
(* directory remembers has lost what was loaded since.                     *)
(***************************************************************************)
EXTENDS SourcacheFSProofs

\* There is one node for a path.
OneNode ==
    \A m, n \in Node : nodes[m] # NoNode /\ nodes[n] # NoNode /\ nodes[m].path = nodes[n].path
        => m = n

\* The columns that nodes load lazily.
LazyColumns == {"info", "hash", "target", "entries"}

\* A node has stored a listing that it is about to read back.
Rereads(n, c) ==
    c = "entries" /\ calls[n] # Nil /\ calls[n].op = "readdir" /\ calls[n].phase = "local"

\* A node has loaded what its row has.
NodesCurrent ==
    \A n \in Node : nodes[n] # NoNode =>
        \A c \in LazyColumns : Rereads(n, c) \/ nodes[n][c] = db.rows[nodes[n].path][c]

\* What a directory remembers of an entry has the type that the table says, and
\* unless it is a whiteout the entry has a node.
RowCurrent(n, x) ==
    /\ nodes[n].path \notin Direct
    /\ x \in Children(nodes[n].path)
    /\ nodes[n].rows[x].type = db.rows[x].type
    /\ nodes[n].rows[x].type # "noentry" =>
          \E m \in Node : nodes[m] # NoNode /\ nodes[m].path = x

RowsCurrent ==
    \A n \in Node : nodes[n] # NoNode =>
        \A x \in Path : nodes[n].rows[x] # NoRow => RowCurrent(n, x)

\* The call c has not yet stored its answer in the table.
Unstored(c) == c.phase = "remote" \/ c.op \notin {"lookup", "readdir"}

\* A handler only asks for what the cache does not know, and then finds the type
\* that it has stored, unless it goes directly to the remote system.
CallNew(n) ==
    /\ calls[n].op = "lookup" =>
          \A m \in Node : nodes[m] # NoNode => nodes[m].path # calls[n].path
    /\ ~IsDirect(calls[n].op, calls[n].path) =>
          /\ ~calls[n].known
          /\ Unstored(calls[n]) => ~Known(calls[n].op, calls[n].path)
          /\ calls[n].op = "lookup" /\ calls[n].phase = "local" =>
                TypeOf(db.rows[calls[n].path]) = calls[n].got

CallsNew == \A n \in Node : calls[n] # Nil => CallNew(n)

CacheInv == OneNode /\ NodesCurrent /\ RowsCurrent /\ CallsNew

-----------------------------------------------------------------------------
\* Nodes live on, on the same path.
LEMMA NodesStay ==
    ASSUME ~Forgets, IInv, IInv', Shape, NEW n \in Node, nodes[n] # NoNode
    PROVE  nodes'[n] # NoNode /\ nodes'[n].path = nodes[n].path
  <1>1. CASE nodes'[n] = nodes[n]
    BY <1>1
  <1>2. ASSUME NEW field \in Fields \ {"path"}, NEW v, Becomes(nodes[n], nodes'[n], field, v)
        PROVE  nodes'[n] # NoNode /\ nodes'[n].path = nodes[n].path
    BY <1>2, ValueAssumption DEF Becomes, Fields
  <1>3. CASE NodeLoads(n)
    <2>1. PICK op, v :
             /\ op \in Op \ {"lookup"}
             /\ Becomes(nodes[n], nodes'[n], Column[op], v)
      BY <1>3 DEF NodeLoads
    <2>2. Column[op] \in Fields \ {"path"}
      BY <2>1 DEF Column, Fields, Op
    <2> QED
      BY <1>2, <2>1, <2>2
  <1>4. CASE NodeRemembers(n)
    <2>1. PICK v : Becomes(nodes[n], nodes'[n], "rows", v)
      BY <1>4 DEF NodeRemembers
    <2> QED
      BY <1>2, <2>1 DEF Fields
  <1> QED
    BY <1>1, <1>3, <1>4 DEF Shape, NodeStep, NodeMade

\* A new node is made by a lookup that finds a row for a path that had no node,
\* and its columns are those of that row in the table.
LEMMA MadeNew ==
    ASSUME ~Forgets, IInv, IInv', CacheInv, NEW n \in Node, NEW x \in Path, NEW row,
           Finds(n, x, row), row.type # "noentry"
    PROVE  /\ \A k \in Node : nodes[k] # NoNode => nodes[k].path # x
           /\ row = db'.rows[x]
  <1>1. nodes[n] # NoNode
    BY DEF Finds
  <1>2. CASE calls[n] = Nil
    <2>1. /\ \A k \in Node : nodes[k] # NoNode => nodes[k].path # x
          /\ db' = db
          /\ row = IF nodes[n].rows[x] # NoRow THEN nodes[n].rows[x] ELSE db.rows[x]
      BY <1>2 DEF Finds
    <2>2. nodes[n].rows[x] # NoRow => row # nodes[n].rows[x]
      BY <1>1, <2>1 DEF CacheInv, RowsCurrent, RowCurrent
    <2> QED
      BY <2>1, <2>2
  <1>3. CASE calls[n] # Nil
    <2>1. calls[n].op = "lookup" /\ calls[n].path = x /\ db' = db /\ row = db.rows[x]
      BY <1>3 DEF Finds
    <2> QED
      BY <1>3, <2>1 DEF CacheInv, CallsNew, CallNew
  <1> QED
    BY <1>2, <1>3

LEMMA OneNodeShape ==
    ASSUME ~Forgets, IInv, IInv', CacheInv, Shape
    PROVE  OneNode'
  <1>1. \A n \in Node : nodes[n] # NoNode =>
           nodes'[n] # NoNode /\ nodes'[n].path = nodes[n].path
    BY NodesStay
  <1>2. ASSUME NEW m \in Node, nodes[m] = NoNode, nodes'[m] # NoNode
        PROVE  /\ \A k \in Node : nodes[k] # NoNode => nodes[k].path # nodes'[m].path
               /\ \A k \in Node \ {m} : nodes[k] = NoNode => nodes'[k] = NoNode
    <2>1. NodeMade(m)
      BY <1>2 DEF Shape, NodeStep
    <2>2. PICK n \in Node, x \in Path, row \in CachedRow :
             Finds(n, x, row) /\ row.type # "noentry" /\ nodes'[m] = newNodeForEntry(x, row)
      BY <2>1 DEF NodeMade
    <2>3. nodes'[m].path = x
      BY <2>2 DEF newNodeForEntry
    <2>4. \A k \in Node : nodes[k] # NoNode => nodes[k].path # x
      BY <2>2, MadeNew
    <2> QED
      BY <2>1, <2>3, <2>4 DEF NodeMade
  <1> QED
    BY <1>1, <1>2 DEF OneNode, CacheInv

LEMMA NodesCurrentShape ==
    ASSUME FaithfulText, ~Forgets, ~LocalErrors, IInv, IInv', CacheInv, Shape
    PROVE  NodesCurrent'
  <1> SUFFICES ASSUME NEW n \in Node, nodes'[n] # NoNode, NEW c \in LazyColumns,
                      ~(c = "entries" /\ calls'[n] # Nil /\ calls'[n].op = "readdir"
                        /\ calls'[n].phase = "local")
               PROVE  nodes'[n][c] = db'.rows[nodes'[n].path][c]
    BY DEF NodesCurrent, Rereads
  <1>1. CASE nodes[n] = NoNode
    <2>1. NodeMade(n)
      BY <1>1 DEF Shape, NodeStep
    <2>2. PICK m \in Node, x \in Path, row \in CachedRow :
             Finds(m, x, row) /\ row.type # "noentry" /\ nodes'[n] = newNodeForEntry(x, row)
      BY <2>1 DEF NodeMade
    <2>3. nodes'[n].path = x /\ nodes'[n][c] = row[c]
      BY <2>2 DEF newNodeForEntry, LazyColumns
    <2>4. row = db'.rows[x]
      BY <2>2, MadeNew
    <2> QED
      BY <2>3, <2>4
  <1>2. CASE nodes[n] # NoNode /\ Rereads(n, c)
    <2>1. nodes'[n].path = nodes[n].path
      BY <1>2, NodesStay
    <2>2. Ended(n)
      BY <1>2 DEF Shape, CallStep, Rereads, Asked, Heard, Stores, Overlapped, GoesOn
    <2> QED
      BY <1>2, <2>1, <2>2 DEF Rereads, Ended
  <1>3. CASE nodes[n] # NoNode /\ ~Rereads(n, c)
    <2> DEFINE p == nodes[n].path
    <2>1. nodes'[n].path = p
      BY <1>3, NodesStay
    <2>2. p \in Path /\ Has(db, p) /\ nodes[n][c] = db.rows[p][c]
      BY <1>3 DEF IInv, NodesInv, NodeAgrees, NodeObject, CacheInv, NodesCurrent
    <2>3. db'.rows[p][c] = db.rows[p][c] \/ nodes'[n][c] = db'.rows[p][c]
      <3>1. CASE TypeUpdated(p)
        BY <3>1 DEF TypeUpdated, RowBecomes, Columns, LazyColumns
      <3>2. CASE ColumnStored(p)
        <4>1. PICK m \in Node :
                 /\ nodes[m] # NoNode /\ nodes[m].path = p
                 /\ calls[m] # Nil /\ calls[m].got \notin {Err, BadRead}
                 /\ ColumnKept(m, p) \/ ListingPut(m, p)
          BY <3>2 DEF ColumnStored
        <4>2. m = n
          BY <1>3, <4>1 DEF CacheInv, OneNode
        <4>3. calls[m].op \in {"open", "readlink"} => Affinity[calls[m].got] = calls[m].got
          BY <4>1, CallType DEF IInv, Value, Failure, FaithfulText
        <4>4. CASE ColumnKept(m, p)
          BY <4>2, <4>3, <4>4 DEF ColumnKept, RowBecomes, Columns, LazyColumns
        <4>5. CASE ListingPut(m, p)
          BY <4>2, <4>5 DEF ListingPut, RowBecomes, Columns, LazyColumns
        <4> QED
          BY <4>1, <4>4, <4>5
      <3> QED
        BY <2>2, <3>1, <3>2 DEF Shape, RowStep, RowInserted
    <2>4. nodes'[n][c] = nodes[n][c] \/ nodes'[n][c] = db'.rows[p][c]
      <3>1. CASE NodeLoads(n)
        <4>1. PICK op, v :
                 /\ op \in Op \ {"lookup"}
                 /\ calls[n] # Nil /\ calls[n].op = op
                 /\ Becomes(nodes[n], nodes'[n], Column[op], v)
                 /\ op # "readdir" => v = calls[n].got /\ v # Err
                 /\ op = "attr" => v = db'.rows[p].info
                 /\ op = "open" => Affinity[v] = db'.rows[p].hash
                 /\ op = "readlink" => Affinity[v] = db'.rows[p].target
                 /\ op = "readdir" => v = db'.rows[p].entries
          BY <3>1 DEF NodeLoads
        <4>2. op \in {"open", "readlink"} => Affinity[v] = v
          BY <4>1, CallType DEF IInv, Value, Failure, FaithfulText
        <4>3. v = db'.rows[p][Column[op]]
          BY <4>1, <4>2 DEF Column, Op
        <4>4. CASE c = Column[op]
          BY <4>1, <4>3, <4>4 DEF Becomes
        <4>5. CASE c # Column[op]
          BY <4>1, <4>5 DEF Becomes, Fields, LazyColumns
        <4> QED
          BY <4>4, <4>5
      <3>2. CASE NodeRemembers(n)
        BY <3>2 DEF NodeRemembers, Becomes, Fields, LazyColumns
      <3> QED
        BY <1>3, <3>1, <3>2 DEF Shape, NodeStep, NodeMade
    <2> QED
      BY <2>1, <2>2, <2>3, <2>4
  <1> QED
    BY <1>1, <1>2, <1>3


LEMMA RowsCurrentShape ==
    ASSUME ~Forgets, IInv, IInv', CacheInv, Shape
    PROVE  RowsCurrent'
  <1> SUFFICES ASSUME NEW n \in Node, nodes'[n] # NoNode, NEW x \in Path,
                      nodes'[n].rows[x] # NoRow
               PROVE  /\ nodes'[n].path \notin Direct
                      /\ x \in Children(nodes'[n].path)
                      /\ nodes'[n].rows[x].type = db'.rows[x].type
                      /\ nodes'[n].rows[x].type # "noentry" =>
                            \E m \in Node : nodes'[m] # NoNode /\ nodes'[m].path = x
    BY DEF RowsCurrent, RowCurrent
  <1> DEFINE o == nodes[n]
  <1> DEFINE u == nodes'[n]
  <1>1. ASSUME o # NoNode, o.rows[x] # NoRow
        PROVE  /\ o.path \notin Direct
               /\ x \in Children(o.path)
               /\ o.rows[x].type = db'.rows[x].type
               /\ o.rows[x].type # "noentry" =>
                     \E m \in Node : nodes'[m] # NoNode /\ nodes'[m].path = x
    <2>1. RowCurrent(n, x)
      BY <1>1 DEF CacheInv, RowsCurrent
    <2>2. Has(db, x)
      BY <1>1 DEF IInv, NodesInv, NodeAgrees, RowAgrees
    <2>3. db'.rows[x].type = db.rows[x].type
      <3>1. ~TypeUpdated(x)
        BY <2>1 DEF TypeUpdated, Learns, RowCurrent, Children
      <3>2. CASE ColumnStored(x)
        BY <3>2 DEF ColumnStored, ColumnKept, ListingPut, RowBecomes, Columns
      <3> QED
        BY <2>2, <3>1, <3>2 DEF Shape, RowStep, RowInserted
    <2>4. \A m \in Node : nodes[m] # NoNode => nodes'[m] # NoNode /\ nodes'[m].path = nodes[m].path
      BY NodesStay
    <2> QED
      BY <2>1, <2>3, <2>4 DEF RowCurrent
  <1>2. CASE o = NoNode
    <2>1. NodeMade(n)
      BY <1>2 DEF Shape, NodeStep
    <2>2. u.rows[x] = NoRow
      BY <2>1 DEF NodeMade, newNodeForEntry
    <2> QED
      BY <2>2
  <1>3. CASE o # NoNode /\ u.rows[x] = o.rows[x]
    <2>1. u.path = o.path
      BY <1>3, NodesStay
    <2> QED
      BY <1>1, <1>3, <2>1
  <1>4. CASE o # NoNode /\ NodeRemembers(n)
    <2>1. PICK y \in Path, row \in CachedRow :
             /\ Finds(n, y, row)
             /\ o.path \notin Direct
             /\ Becomes(o, u, "rows", [o.rows EXCEPT ![y] = row])
             /\ row.type # "noentry" =>
                   \E m \in Node : nodes'[m] # NoNode /\ nodes'[m].path = y
      BY <1>4 DEF NodeRemembers
    <2>2. o.rows \in [Path -> CachedRow \union {NoRow}]
      BY <1>4 DEF IInv, NodesInv, NodeObject
    <2>3. u.path = o.path /\ u.rows[y] = row /\ (x # y => u.rows[x] = o.rows[x])
      BY <2>1, <2>2 DEF Becomes, Fields
    <2>4. CASE x = y
      <3>1. row.type = db'.rows[x].type
        <4>1. CASE row = db'.rows[x]
          BY <4>1
        <4>2. CASE row = o.rows[x] /\ row # NoRow
          BY <1>1, <1>4, <4>2
        <4> QED
          BY <2>1, <2>4, <4>1, <4>2 DEF Finds
      <3>2. x \in Children(o.path)
        BY <2>1, <2>4 DEF Finds
      <3> QED
        BY <2>1, <2>3, <2>4, <3>1, <3>2
    <2> QED
      BY <1>3, <1>4, <2>3, <2>4
  <1>5. CASE o # NoNode /\ NodeLoads(n)
    <2>1. u.rows = o.rows
      BY <1>5 DEF NodeLoads, Becomes, Fields, Column, Op
    <2> QED
      BY <1>3, <1>5, <2>1
  <1> QED
    BY <1>2, <1>3, <1>4, <1>5 DEF Shape, NodeStep, NodeMade

\* Two nodes that wait for the remote system do not wait for the same entry.
LEMMA OneParent ==
    ASSUME IInv, CacheInv, NEW m \in Node, NEW n \in Node, NEW x \in Path,
           nodes[m] # NoNode, nodes[n] # NoNode,
           x \in Children(nodes[m].path), x \in Children(nodes[n].path)
    PROVE  m = n
  BY DEF CacheInv, OneNode, Children

\* The table d has stored the answer to an operation.
KnownIn(d, op, p) == Has(d, p) /\ (op # "lookup" => d.rows[p][Column[op]] # Nil)

LEMMA CallsNewShape ==
    ASSUME ~Forgets, IInv, IInv', CacheInv, Shape
    PROVE  CallsNew'
  <1> SUFFICES ASSUME NEW n \in Node, calls'[n] # Nil
               PROVE  LET k == calls'[n] IN
                      /\ k.op = "lookup" =>
                            \A m \in Node : nodes'[m] # NoNode => nodes'[m].path # k.path
                      /\ ~IsDirect(k.op, k.path) =>
                            /\ ~k.known
                            /\ Unstored(k) => ~KnownIn(db', k.op, k.path)
                            /\ k.op = "lookup" /\ k.phase = "local" =>
                                  TypeOf(db'.rows[k.path]) = k.got
    BY DEF CallsNew, CallNew, Known, KnownIn, Unstored, TypeOf
  <1> DEFINE c == calls[n]
  <1> DEFINE k == calls'[n]
  <1>1. CASE Asked(n)
    <2>1. /\ db' = db /\ nodes' = nodes
          /\ k.op \in Op /\ k.path \in Path /\ nodes[n] # NoNode
          /\ k.phase = "remote" /\ calls[n] = Nil
          /\ k.known = KnownIn(db, k.op, k.path)
          /\ k.op = "lookup" =>
                /\ k.path \in Children(nodes[n].path)
                /\ \A m \in Node : nodes[m] # NoNode => nodes[m].path # k.path
                /\ nodes[n].path \notin Direct => ~Has(db, k.path)
          /\ k.op # "lookup" =>
                /\ k.path = nodes[n].path
                /\ k.path \notin Direct => nodes[n][Column[k.op]] = Nil
      BY <1>1 DEF Asked, Known, KnownIn
    <2>2. ASSUME ~IsDirect(k.op, k.path)
          PROVE  ~KnownIn(db, k.op, k.path)
      <3>1. CASE k.op = "lookup"
        BY <2>1, <2>2, <3>1 DEF KnownIn, IsDirect, Children
      <3>2. CASE k.op # "lookup"
        <4>1. Column[k.op] \in LazyColumns
          BY <2>1, <3>2 DEF Op, Column, LazyColumns
        <4>2. db.rows[k.path][Column[k.op]] = Nil
          BY <2>1, <2>2, <3>2, <4>1 DEF CacheInv, NodesCurrent, Rereads, IsDirect
        <4> QED
          BY <3>2, <4>2 DEF KnownIn
      <3> QED
        BY <3>1, <3>2
    <2> QED
      BY <2>1, <2>2
  <1>2. CASE /\ c # Nil /\ k.op = c.op /\ k.path = c.path /\ k.known = c.known
             /\ k.phase = c.phase \/ (c.phase = "remote" /\ k.phase = "local")
             /\ k.op = "lookup" /\ k.phase = "local" =>
                   (c.phase = "local" /\ k.got = c.got) \/ TypeOf(db'.rows[k.path]) = k.got
    <2>1. /\ nodes[n] # NoNode /\ c.op \in Op /\ c.path \in Path
          /\ c.phase \in {"remote", "local"}
          /\ c.op = "lookup" => c.path \in Children(nodes[n].path)
          /\ c.op # "lookup" => c.path = nodes[n].path
      BY <1>2, CallType DEF IInv
    <2>2. CallNew(n)
      BY <1>2 DEF CacheInv, CallsNew
    <2>3. ASSUME c.op = "lookup", NEW m \in Node, nodes'[m] # NoNode
          PROVE  nodes'[m].path # c.path
      <3>1. CASE nodes[m] # NoNode
        <4>1. nodes'[m].path = nodes[m].path
          BY <3>1, NodesStay
        <4> QED
          BY <2>2, <2>3, <3>1, <4>1 DEF CallNew
      <3>2. CASE nodes[m] = NoNode
        <4>1. PICK j \in Node, x \in Path, row \in CachedRow :
                 Finds(j, x, row) /\ nodes'[m] = newNodeForEntry(x, row)
          BY <2>3, <3>2 DEF Shape, NodeStep, NodeMade
        <4>2. nodes'[m].path = x
          BY <4>1 DEF newNodeForEntry
        <4>3. nodes[j] # NoNode /\ x \in Children(nodes[j].path) /\ calls'[j] = Nil
          BY <4>1 DEF Finds
        <4>4. j # n
          BY <4>3
        <4> QED
          BY <2>1, <2>3, <4>2, <4>3, <4>4, OneParent
      <3> QED
        BY <3>1, <3>2
    <2>4. ASSUME ~IsDirect(c.op, c.path)
          PROVE  /\ ~c.known
                 /\ Unstored(k) => ~KnownIn(db', c.op, c.path)
                 /\ c.op = "lookup" /\ k.phase = "local" => TypeOf(db'.rows[c.path]) = k.got
      <3> DEFINE p == c.path
      <3>1. /\ ~c.known
            /\ Unstored(c) => ~KnownIn(db, c.op, p)
            /\ c.op = "lookup" /\ c.phase = "local" => TypeOf(db.rows[p]) = c.got
        BY <2>2, <2>4 DEF CallNew, Known, KnownIn
      <3>2. ASSUME Unstored(k)
            PROVE  ~KnownIn(db', c.op, p)
        <4>1. ~KnownIn(db, c.op, p)
          BY <1>2, <2>1, <3>1, <3>2 DEF Unstored
        <4>2. CASE db'.rows[p] = db.rows[p]
          BY <4>1, <4>2 DEF KnownIn, Has
        <4>3. CASE RowInserted(p)
          <5>1. PICK m \in Node, i \in Nat, t \in TypeName :
                   ~Has(db, p) /\ db'.rows[p] = NewRow(i, t) /\ Learns(m, p, t)
            BY <4>3 DEF RowInserted
          <5>2. CASE c.op = "lookup"
            <6>1. /\ p \in Children(nodes[m].path) /\ calls[m] # Nil
                  /\ calls'[m] = Nil \/ calls'[m].phase = "local"
              BY <5>1 DEF Learns
            <6>2. nodes[m] # NoNode
              BY <6>1, CallType DEF IInv
            <6>3. m = n
              BY <2>1, <5>2, <6>1, <6>2, OneParent
            <6> QED
              BY <1>2, <3>2, <5>2, <6>1, <6>3 DEF Unstored
          <5>3. CASE c.op # "lookup"
            BY <2>1, <5>1, <5>3 DEF IInv, NodesInv, NodeAgrees
          <5> QED
            BY <5>2, <5>3
        <4>4. CASE TypeUpdated(p)
          BY <2>1, <4>1, <4>4 DEF TypeUpdated, RowBecomes, Columns, KnownIn, Column, Op
        <4>5. CASE ColumnStored(p)
          <5>1. PICK m \in Node :
                   /\ nodes[m] # NoNode /\ nodes[m].path = p /\ Has(db, p)
                   /\ \/ calls'[m] = Nil
                      \/ calls'[m].op = "readdir" /\ calls'[m].phase = "local"
            BY <4>5 DEF ColumnStored, ColumnKept, ListingPut, RowBecomes
          <5>2. CASE c.op = "lookup"
            BY <4>1, <5>1, <5>2 DEF KnownIn
          <5>3. CASE c.op # "lookup"
            <6>1. m = n
              BY <2>1, <5>1, <5>3 DEF CacheInv, OneNode
            <6> QED
              BY <3>2, <5>1, <6>1 DEF Unstored
          <5> QED
            BY <5>2, <5>3
        <4> QED
          BY <2>1, <4>2, <4>3, <4>4, <4>5 DEF Shape, RowStep
      <3>3. ASSUME c.op = "lookup", c.phase = "local"
            PROVE  TypeOf(db'.rows[p]) = c.got
        <4>1. Has(db, p)
          BY <1>2, <3>3 DEF IInv, KnownInv, CallKnown
        <4>2. ~TypeUpdated(p)
          BY <2>4, <3>3 DEF TypeUpdated, Learns, IsDirect, Children
        <4>3. CASE ColumnStored(p)
          BY <3>1, <3>3, <4>3 DEF ColumnStored, ColumnKept, ListingPut, RowBecomes, Columns, TypeOf
        <4> QED
          BY <2>1, <3>1, <3>3, <4>1, <4>2, <4>3 DEF Shape, RowStep, RowInserted
      <3> QED
        BY <1>2, <3>1, <3>2, <3>3
    <2> QED
      BY <1>2, <2>3, <2>4
  <1>3. CASE Stores(n)
    BY <1>2, <1>3 DEF Stores, GoesOn
  <1>4. CASE k = c \/ Heard(n) \/ Overlapped(n)
    BY <1>2, <1>4 DEF Heard, Overlapped, GoesOn
  <1> QED
    BY <1>1, <1>3, <1>4 DEF Shape, CallStep, Ended


\* The invariant is preserved by new processes and changes of the remote system.
LEMMA CacheOther ==
    ASSUME IInv, IInv', CacheInv, EnvShape \/ (Start(db) /\ UNCHANGED contents)
    PROVE  CacheInv'
  <1>1. CASE EnvShape
    <2>1. db' = db /\ nodes' = nodes
      BY <1>1 DEF EnvShape
    <2>2. OneNode' /\ RowsCurrent'
      BY <2>1 DEF CacheInv, OneNode, RowsCurrent, RowCurrent
    <2>3. NodesCurrent'
      BY <1>1, <2>1 DEF EnvShape, Sees, CacheInv, NodesCurrent, Rereads
    <2>4. CallsNew'
      BY <1>1, <2>1 DEF EnvShape, Sees, CacheInv, CallsNew, CallNew, Known, Unstored, TypeOf
    <2> QED
      BY <2>2, <2>3, <2>4 DEF CacheInv
  <1>2. CASE Start(db) /\ UNCHANGED contents
    <2>1. /\ nodes'[RootNode] = newNodeForEntry(Root, db'.rows[Root])
          /\ \A n \in Node \ {RootNode} : nodes'[n] = NoNode
          /\ \A n \in Node : calls'[n] = Nil
      BY <1>2, StartStep
    <2>2. /\ nodes'[RootNode].path = Root
          /\ \A c \in LazyColumns : nodes'[RootNode][c] = db'.rows[Root][c]
          /\ \A x \in Path : nodes'[RootNode].rows[x] = NoRow
      BY <2>1 DEF newNodeForEntry, LazyColumns
    <2> QED
      BY <2>1, <2>2 DEF CacheInv, OneNode, NodesCurrent, RowsCurrent, CallsNew
  <1> QED
    BY <1>1, <1>2

LEMMA InitCacheInv ==
    ASSUME Init
    PROVE  CacheInv
  <1>1. TableInv(db) /\ nodes = RootOnly(db) /\ calls = [n \in Node |-> Nil]
    BY NewRoot DEF Init
  <1>2. /\ nodes[RootNode] = newNodeForEntry(Root, db.rows[Root])
        /\ \A n \in Node \ {RootNode} : nodes[n] = NoNode
    BY <1>1, RootNodes
  <1>3. /\ nodes[RootNode].path = Root
        /\ \A c \in LazyColumns : nodes[RootNode][c] = db.rows[Root][c]
        /\ \A x \in Path : nodes[RootNode].rows[x] = NoRow
    BY <1>2 DEF newNodeForEntry, LazyColumns
  <1> QED
    BY <1>1, <1>2, <1>3 DEF CacheInv, OneNode, NodesCurrent, RowsCurrent, CallsNew

\* The circumstances in which the file system is a cache: SQLite gives back what
\* is stored, the kernel forgets no node, and neither the database nor the content
\* cache fails.
Reliable == FaithfulText /\ ~Forgets /\ ~LocalErrors

LEMMA SpecCacheInv ==
    ASSUME Reliable
    PROVE  Spec => []CacheInv
  <1>1. Init => CacheInv
    BY InitCacheInv
  <1>2. IInv /\ IInv' /\ CacheInv /\ [Next]_vars => CacheInv'
    <2>1. ASSUME IInv, IInv', CacheInv, Shape
          PROVE  CacheInv'
      BY <2>1, OneNodeShape, NodesCurrentShape, RowsCurrentShape, CallsNewShape
         DEF Reliable, CacheInv
    <2>2. ASSUME IInv, IInv', CacheInv, Next
          PROVE  CacheInv'
      BY <2>1, <2>2, NextShape, CacheOther DEF Reliable
    <2>3. ASSUME CacheInv, UNCHANGED vars
          PROVE  CacheInv'
      <3>1. db' = db /\ nodes' = nodes /\ calls' = calls
        BY <2>3 DEF vars, cacheVars
      <3> QED
        BY <2>3, <3>1 DEF CacheInv, OneNode, NodesCurrent, Rereads, RowsCurrent, RowCurrent,
                          CallsNew, CallNew, Known, Unstored, TypeOf
    <2> QED
      BY <2>2, <2>3
  <1> QED
    BY <1>1, <1>2, SpecIInv, PTL DEF Spec

-----------------------------------------------------------------------------
\* What a live node has loaded, or has just been told, is no error.
LEMMA ServedValues ==
    ASSUME IInv, HashInv, ~LocalErrors, NEW n \in Node, nodes[n] # NoNode,
           NEW op \in Op \ {"lookup"}, nodes[n][Column[op]] # Nil, NEW v, FromNode(nodes[n], op, v)
    PROVE  /\ v \in Value[op] /\ v # Err /\ v # Nil
           /\ op \in {"attr", "open", "readlink"} => v = nodes[n][Column[op]]
           /\ op = "readdir" => v = Types(nodes[n].entries)
  <1>1. /\ nodes[n].info \in Info \union {Nil} /\ nodes[n].hash \in Text \union {Nil}
        /\ nodes[n].target \in Text \union {Nil}
        /\ nodes[n].entries \in DirEntries \union {Nil}
    BY DEF IInv, NodesInv, NodeObject
  <1>2. op = "open" => v = nodes[n].hash
    BY DEF HashInv, Resolves, FromNode, Content, Column
  <1>3. v \in Value[op]
    <2>1. CASE op \in {"attr", "open", "readlink"}
      BY <1>1, <1>2, <2>1 DEF FromNode, Column, Value
    <2>2. CASE op = "readdir"
      BY <1>1, <2>2, TypesType DEF FromNode, Column, Value
    <2> QED
      BY <2>1, <2>2 DEF Op
  <1>4. v # Err /\ v # Nil
    BY <1>3, ValueAssumption
  <1> QED
    BY <1>2, <1>3, <1>4 DEF FromNode, Column, Op

\* A request into the remote file system for a path that is not accessed directly
\* is only made for what the cache does not know.
THEOREM SpecMissesAreNew ==
    ASSUME Reliable
    PROVE  Spec => []MissesAreNew
  <1>1. Init => MissesAreNew
    BY DEF Init, MissesAreNew
  <1>2. IInv /\ CacheInv /\ MissesAreNew /\ [Next]_vars => MissesAreNew'
    <2>1. ASSUME IInv, CacheInv, Shape
          PROVE  MissesAreNew'
      <3>1. ASSUME NEW n \in Node, RepliesDone(n), reply'.counted = "miss"
            PROVE  ~reply'.known
        <4>1. /\ calls[n] # Nil /\ reply'.known = calls[n].known
              /\ ~IsDirect(calls[n].op, calls[n].path)
          BY <3>1 DEF RepliesDone, AccountRemote
        <4> QED
          BY <2>1, <4>1 DEF CacheInv, CallsNew, CallNew
      <3> QED
        BY <2>1, <3>1 DEF Shape, ReplyStep, RepliesHit, RepliesFound, RepliesError, MissesAreNew
    <2>2. ASSUME EnvShape
          PROVE  MissesAreNew'
      BY <2>2 DEF EnvShape, MissesAreNew
    <2>3. ASSUME IInv, Start(db), UNCHANGED contents
          PROVE  MissesAreNew'
      BY <2>3, StartStep DEF MissesAreNew
    <2>4. MissesAreNew /\ UNCHANGED vars => MissesAreNew'
      BY DEF MissesAreNew, vars
    <2> QED
      BY <2>1, <2>2, <2>3, <2>4, NextShape DEF Reliable
  <1>3. Spec => []CacheInv
    BY SpecCacheInv
  <1> QED
    BY <1>1, <1>2, <1>3, SpecIInv, PTL DEF Spec


\* An entry that is cached, in a directory that is accessed directly, is of a type
\* that the table has a name for.
Storable ==
    \A p \in Path \ {Root} : p \notin Direct /\ Parent[p] \in Direct =>
        \A o \in States[p] : o # Missing => o.type # "other"

\* A lookup that got a type without a name got it from the remote system.
OtherInv ==
    \A n \in Node : calls[n] # Nil /\ calls[n].op = "lookup" /\ calls[n].got = "other" =>
        \E o \in States[calls[n].path] : o # Missing /\ o.type = "other"

LEMMA OtherShape ==
    ASSUME IInv, OtherInv, Shape
    PROVE  OtherInv'
  <1> SUFFICES ASSUME NEW n \in Node, calls'[n] # Nil, calls'[n].op = "lookup",
                      calls'[n].got = "other"
               PROVE  \E o \in States[calls'[n].path] : o # Missing /\ o.type = "other"
    BY DEF OtherInv
  <1> DEFINE p == calls'[n].path
  <1>1. CASE calls[n] # Nil /\ calls[n].op = "lookup" /\ calls[n].path = p /\ calls[n].got = "other"
    BY <1>1 DEF OtherInv
  <1>2. ASSUME p \in Path, "other" \in Answers("lookup", p)
        PROVE  \E o \in States[p] : o # Missing /\ o.type = "other"
    <2>1. "other" \in Value["lookup"] /\ "lookup" \in Op /\ "other" # Missing
      BY ValueAssumption DEF Value, ModeType, Op
    <2>2. "other" \notin {Err, BadRead}
      BY <2>1, ValueAssumption
    <2>3. Truth(remote, "lookup", p) = "other"
      BY <1>2, <2>1, <2>2, AnswersType DEF IInv
    <2>4. remote[p] # Missing /\ remote[p].type = "other"
      BY <2>1, <2>3, TruthCases
    <2> QED
      BY <1>2, <2>4 DEF IInv, EnvInv
  <1>3. CASE Asked(n)
    BY <1>2, <1>3 DEF Asked
  <1>4. CASE Heard(n)
    <2>1. calls[n] # Nil /\ calls[n].op = "lookup" /\ calls[n].path = p
      BY <1>4 DEF Heard, GoesOn
    <2>2. p \in Path
      BY <2>1, CallType DEF IInv
    <2>3. calls'[n].got \in Answers("lookup", p)
      BY <1>4, <2>1 DEF Heard, Mix
    <2> QED
      BY <1>2, <2>2, <2>3
  <1>5. CASE calls'[n] = calls[n] \/ Stores(n) \/ Overlapped(n)
    BY <1>1, <1>5 DEF Stores, Overlapped, GoesOn
  <1> QED
    BY <1>3, <1>4, <1>5 DEF Shape, CallStep, Ended

LEMMA OfflineShape ==
    ASSUME Reliable, Storable, IInv, HashInv, CacheInv, OtherInv, Shape
    PROVE  OfflineAvailable'
  <1> SUFFICES ASSUME reply' # Nil, reply'.known, reply'.path \notin Direct
               PROVE  reply'.val # Err
    BY DEF OfflineAvailable
  <1>1. \A row \in CachedRow : TypeOf(row) # Err
    BY TypeOfType, ValueAssumption DEF Op
  <1>2. ASSUME NEW n \in Node, NEW op \in Op \ {"lookup"}, RepliesHit(n, op)
        PROVE  reply'.val # Err
    BY <1>2, ServedValues DEF RepliesHit, Reliable
  <1>3. ASSUME NEW n \in Node, NEW x \in Path, RepliesFound(n, x)
        PROVE  reply'.val # Err
    BY <1>1, <1>3 DEF RepliesFound
  <1>4. ASSUME NEW n \in Node, RepliesDone(n)
        PROVE  reply'.val # Err
    <2> DEFINE p == calls[n].path
    <2>1. calls[n] # Nil /\ reply'.path = p /\ calls[n].known
      BY <1>4 DEF RepliesDone
    <2>2. IsDirect(calls[n].op, p)
      BY <2>1 DEF CacheInv, CallsNew, CallNew
    <2>3. calls[n].op = "lookup" /\ Parent[p] \in Direct
      BY <2>1, <2>2 DEF IsDirect
    <2>4. p \in Path /\ p \in Children(nodes[n].path)
      BY <2>1, <2>3, CallType DEF IInv
    <2>5. p # Root /\ nodes[n].path \in Direct
      BY <2>3, <2>4 DEF Children
    <2>6. calls[n].got # "other"
      BY <2>1, <2>3, <2>4, <2>5 DEF OtherInv, Storable
    <2>7. CASE RepliesFetched(n, reply'.val)
      <3>1. db.rows[p] \in CachedRow
        BY <2>3, <2>4, <2>7 DEF RepliesFetched, IInv, TableInv, Table, Has
      <3>2. Missing # Err
        BY ValueAssumption DEF Op, Value
      <3> QED
        BY <1>1, <2>3, <2>7, <3>1, <3>2 DEF RepliesFetched
    <2>8. CASE RepliesCached(n, reply'.val)
      <3>1. db.rows[p] \in CachedRow
        BY <2>3, <2>4, <2>8 DEF RepliesCached, IInv, TableInv, Table, Has
      <3> QED
        BY <1>1, <2>3, <2>8, <3>1 DEF RepliesCached
    <2>9. ~RepliesFailed(n, reply'.val)
      BY <2>1, <2>3, <2>5, <2>6 DEF RepliesFailed, Reliable
    <2> QED
      BY <1>4, <2>7, <2>8, <2>9 DEF RepliesDone
  <1> QED
    BY <1>2, <1>3, <1>4 DEF Shape, ReplyStep, RepliesError, Reliable

\* What the cache has stored of a path that is not accessed directly is answered,
\* whether or not the remote file system can be reached.
THEOREM SpecOfflineAvailable ==
    ASSUME Reliable, Storable
    PROVE  Spec => []OfflineAvailable
  <1>1. Init => OtherInv /\ OfflineAvailable
    BY DEF Init, OtherInv, OfflineAvailable
  <1>2. IInv /\ HashInv /\ CacheInv /\ OtherInv /\ OfflineAvailable /\ [Next]_vars
           => OtherInv' /\ OfflineAvailable'
    <2>1. ASSUME IInv, HashInv, CacheInv, OtherInv, Shape
          PROVE  OtherInv' /\ OfflineAvailable'
      BY <2>1, OtherShape, OfflineShape
    <2>2. ASSUME OtherInv, EnvShape
          PROVE  OtherInv' /\ OfflineAvailable'
      BY <2>2 DEF EnvShape, Sees, OtherInv, OfflineAvailable
    <2>3. ASSUME IInv, Start(db), UNCHANGED contents
          PROVE  OtherInv' /\ OfflineAvailable'
      <3>1. reply' = Nil /\ \A n \in Node : calls'[n] = Nil
        BY <2>3, StartStep
      <3> QED
        BY <3>1 DEF OtherInv, OfflineAvailable
    <2>4. OtherInv /\ OfflineAvailable /\ UNCHANGED vars => OtherInv' /\ OfflineAvailable'
      BY DEF OtherInv, OfflineAvailable, vars
    <2> QED
      BY <2>1, <2>2, <2>3, <2>4, NextShape DEF Reliable
  <1>3. Spec => []CacheInv
    BY SpecCacheInv
  <1>4. Spec => []HashInv
    BY SpecHashInv DEF Reliable
  <1> QED
    BY <1>1, <1>2, <1>3, <1>4, SpecIInv, PTL DEF Spec


-----------------------------------------------------------------------------
(***************************************************************************)
(* The refinement of ReadThrough.                                          *)
(***************************************************************************)

\* The answer that the table d has stored.
StoredIn(d, op, p) ==
    CASE ~KnownIn(d, op, p) -> Nil
      [] KnownIn(d, op, p) /\ op = "lookup" -> TypeOf(d.rows[p])
      [] KnownIn(d, op, p) /\ op = "readdir" -> Types(d.rows[p].entries)
      [] OTHER -> d.rows[p][Column[op]]

LEMMA StoredCases ==
    ASSUME NEW d, NEW op \in Op, NEW p
    PROVE  /\ ~KnownIn(d, op, p) => StoredIn(d, op, p) = Nil
           /\ KnownIn(d, op, p) =>
                 /\ op = "lookup" => StoredIn(d, op, p) = TypeOf(d.rows[p])
                 /\ op = "attr" => StoredIn(d, op, p) = d.rows[p].info
                 /\ op = "open" => StoredIn(d, op, p) = d.rows[p].hash
                 /\ op = "readlink" => StoredIn(d, op, p) = d.rows[p].target
                 /\ op = "readdir" => StoredIn(d, op, p) = Types(d.rows[p].entries)
  <1>1. ~KnownIn(d, op, p) => StoredIn(d, op, p) = Nil
    BY DEF StoredIn
  <1>2. KnownIn(d, op, p) /\ op = "lookup" => StoredIn(d, op, p) = TypeOf(d.rows[p])
    BY DEF StoredIn
  <1>3. KnownIn(d, op, p) /\ op = "readdir" => StoredIn(d, op, p) = Types(d.rows[p].entries)
    BY DEF StoredIn
  <1>4. KnownIn(d, op, p) /\ op \notin {"lookup", "readdir"} =>
           StoredIn(d, op, p) = d.rows[p][Column[op]]
    BY DEF StoredIn
  <1> QED
    BY <1>1, <1>2, <1>3, <1>4 DEF Column

\* An answer that is stored is an answer.
LEMMA StoredValue ==
    ASSUME NEW d, TableInv(d), NEW op \in Op, NEW p \in Path, KnownIn(d, op, p)
    PROVE  StoredIn(d, op, p) # Nil
  <1>1. d.rows[p] \in CachedRow
    BY DEF TableInv, Table, KnownIn, Has
  <1>2. CASE op = "lookup"
    <2>1. TypeOf(d.rows[p]) \in Value["lookup"]
      BY <1>1, TypeOfType
    <2>2. TypeOf(d.rows[p]) # Nil
      BY <1>2, <2>1, ValueAssumption
    <2> QED
      BY <1>2, <2>2, StoredCases
  <1>3. CASE op = "readdir"
    <2>1. d.rows[p].entries \in DirEntries
      BY <1>1, <1>3 DEF CachedRow, KnownIn, Column
    <2>2. Types(d.rows[p].entries) \in Value["readdir"]
      BY <2>1, TypesType DEF Value
    <2>3. Types(d.rows[p].entries) # Nil
      BY <1>3, <2>2, ValueAssumption
    <2> QED
      BY <1>3, <2>3, StoredCases
  <1>4. CASE op \in {"attr", "open", "readlink"}
    BY <1>4, StoredCases DEF KnownIn, Column
  <1> QED
    BY <1>2, <1>3, <1>4 DEF Op

\* What is stored of a question that is not asked directly stays.
LEMMA StoredKept ==
    ASSUME IInv, CacheInv, Shape, NEW op \in Op, NEW p \in Path, ~IsDirect(op, p),
           KnownIn(db, op, p)
    PROVE  KnownIn(db', op, p) /\ StoredIn(db', op, p) = StoredIn(db, op, p)
  <1>1. Has(db, p) /\ Has(db', p)
    BY DEF KnownIn, Shape, Keeps, Extends
  <1>2. /\ op = "lookup" => db'.rows[p].type = db.rows[p].type
        /\ op # "lookup" => db'.rows[p][Column[op]] = db.rows[p][Column[op]]
    <2>1. CASE TypeUpdated(p)
      <3>1. op # "lookup"
        BY <2>1 DEF TypeUpdated, Learns, IsDirect, Children
      <3> QED
        BY <2>1, <3>1 DEF TypeUpdated, RowBecomes, Columns, Column, Op
    <2>2. CASE ColumnStored(p)
      <3>1. PICK n \in Node :
               /\ nodes[n].path = p /\ calls[n] # Nil
               /\ calls[n].op \in {"attr", "open", "readlink", "readdir"}
               /\ Unstored(calls[n])
               /\ \E v : RowBecomes(p, Column[calls[n].op], v)
        BY <2>2 DEF ColumnStored, ColumnKept, ListingPut, Column, Unstored
      <3>2. calls[n].path = p
        BY <3>1, CallType DEF IInv
      <3>3. op # calls[n].op
        BY <3>1, <3>2 DEF CacheInv, CallsNew, CallNew, Known, KnownIn
      <3>4. CASE op = "lookup"
        BY <3>1, <3>4 DEF RowBecomes, Columns, Column
      <3>5. CASE op # "lookup"
        <4>1. Column[op] \in Columns /\ Column[op] # Column[calls[n].op]
          BY <3>1, <3>3, <3>5 DEF Columns, Column, Op
        <4> QED
          BY <3>1, <3>5, <4>1 DEF RowBecomes
      <3> QED
        BY <3>4, <3>5
    <2> QED
      BY <1>1, <2>1, <2>2 DEF Shape, RowStep, RowInserted
  <1>3. KnownIn(db', op, p)
    BY <1>1, <1>2 DEF KnownIn
  <1>4. op = "lookup" => TypeOf(db'.rows[p]) = TypeOf(db.rows[p])
    BY <1>2 DEF TypeOf
  <1> QED
    BY <1>2, <1>3, <1>4, StoredCases DEF Column, Op

\* A reply is what the table now holds, or an error for what it did not hold.
LEMMA ReplyStored ==
    ASSUME Reliable, IInv, IInv', HashInv, CacheInv, Shape, reply' # Nil,
           NEW op \in Op, NEW p \in Path, reply'.op = op, reply'.path = p, ~IsDirect(op, p)
    PROVE  \/ KnownIn(db', op, p) /\ reply'.val = StoredIn(db', op, p)
           \/ ~KnownIn(db, op, p) /\ reply'.val = Err
  <1>1. ASSUME NEW n \in Node, NEW o \in Op \ {"lookup"}, RepliesHit(n, o)
        PROVE  KnownIn(db', op, p) /\ reply'.val = StoredIn(db', op, p)
    <2>1. /\ nodes[n] # NoNode /\ nodes[n][Column[op]] # Nil
          /\ o = op /\ p = nodes[n].path
          /\ FromNode(nodes[n], op, reply'.val)
          /\ db' = db
      BY <1>1 DEF RepliesHit
    <2>2. Has(db, p)
      BY <2>1 DEF IInv, NodesInv, NodeAgrees
    <2>3. \A c \in LazyColumns : nodes[n][c] = db.rows[p][c]
      BY <1>1, <2>1 DEF CacheInv, NodesCurrent, Rereads, RepliesHit
    <2>4. nodes[n][Column[op]] = db.rows[p][Column[op]]
      BY <1>1, <2>1, <2>3 DEF LazyColumns, Column, Op
    <2>5. KnownIn(db', op, p)
      BY <2>1, <2>2, <2>4 DEF KnownIn
    <2>6. /\ op \in {"attr", "open", "readlink"} => reply'.val = nodes[n][Column[op]]
          /\ op = "readdir" => reply'.val = Types(nodes[n].entries)
      BY <1>1, <2>1, ServedValues DEF Reliable
    <2>7. reply'.val = StoredIn(db', op, p)
      BY <1>1, <2>1, <2>4, <2>5, <2>6, StoredCases DEF Column, Op
    <2> QED
      BY <2>5, <2>7
  <1>2. ASSUME NEW n \in Node, NEW x \in Path, RepliesFound(n, x)
        PROVE  KnownIn(db', op, p) /\ reply'.val = StoredIn(db', op, p)
    <2>1. PICK row \in CachedRow : Finds(n, p, row) /\ reply'.val = TypeOf(row)
      BY <1>2 DEF RepliesFound
    <2>2. op = "lookup" /\ db' = db /\ calls[n] = Nil /\ nodes[n] # NoNode /\ row # NoRow
      BY <1>2, <2>1 DEF RepliesFound, Finds
    <2>3. Has(db, p) /\ row.type = db.rows[p].type
      <3>1. CASE row = db.rows[p]
        BY <2>2, <3>1 DEF Has
      <3>2. CASE row = nodes[n].rows[p]
        BY <2>2, <3>2 DEF IInv, NodesInv, NodeAgrees, RowAgrees, CacheInv, RowsCurrent, RowCurrent
      <3> QED
        BY <2>1, <2>2, <3>1, <3>2 DEF Finds
    <2>4. KnownIn(db', op, p)
      BY <2>2, <2>3 DEF KnownIn
    <2>5. TypeOf(row) = TypeOf(db'.rows[p])
      BY <2>2, <2>3 DEF TypeOf
    <2> QED
      BY <2>1, <2>2, <2>4, <2>5, StoredCases
  <1>3. ASSUME NEW n \in Node, RepliesDone(n)
        PROVE  \/ KnownIn(db', op, p) /\ reply'.val = StoredIn(db', op, p)
               \/ ~KnownIn(db, op, p) /\ reply'.val = Err
    <2> DEFINE got == calls[n].got
    <2>1. calls[n] # Nil /\ calls[n].op = op /\ calls[n].path = p /\ contents' = contents
      BY <1>3 DEF RepliesDone
    <2>2. /\ Unstored(calls[n]) => ~KnownIn(db, op, p)
          /\ op = "lookup" /\ calls[n].phase = "local" => TypeOf(db.rows[p]) = got
      BY <2>1 DEF CacheInv, CallsNew, CallNew, Known, KnownIn
    <2>3. got \in Value[op] \union Failure(op)
      BY <2>1, CallType DEF IInv
    <2>4. CASE RepliesFetched(n, reply'.val)
      <3>1. got \notin {Err, BadRead} /\ Has(db', p)
        BY <2>1, <2>4 DEF RepliesFetched
      <3>2. got \in Value[op]
        BY <2>3, <3>1 DEF Failure
      <3>3. got # Nil
        BY <3>2, ValueAssumption
      <3>4. op \in {"open", "readlink"} => Affinity[got] = got
        BY <3>2 DEF Value, Reliable, FaithfulText
      <3>5. op = "open" => reply'.val = got
        <4>1. op = "open" => got \in contents /\ reply'.val \in Content(got)
          BY <2>1, <2>4, <3>1 DEF HashInv, RepliesFetched
        <4> QED
          BY <4>1 DEF Content, Reliable
      <3>6. CASE op = "lookup"
        <4>1. KnownIn(db', op, p)
          BY <3>1, <3>6 DEF KnownIn
        <4>2. db' = db /\ reply'.val = TypeOf(db.rows[p])
          BY <2>1, <2>2, <2>4, <3>6 DEF RepliesFetched
        <4> QED
          BY <3>6, <4>1, <4>2, StoredCases
      <3>7. CASE op \in {"attr", "open", "readlink"}
        <4>1. reply'.val = got /\ db'.rows[p][Column[op]] = got
          BY <2>1, <2>4, <3>4, <3>5, <3>7 DEF RepliesFetched, Column
        <4>2. KnownIn(db', op, p)
          BY <3>1, <3>3, <3>7, <4>1 DEF KnownIn
        <4>3. StoredIn(db', op, p) = db'.rows[p][Column[op]]
          BY <3>7, <4>2 DEF StoredIn
        <4> QED
          BY <4>1, <4>2, <4>3
      <3>8. CASE op = "readdir"
        <4>1. db'.rows[p].entries # Nil /\ reply'.val = Types(db'.rows[p].entries)
          BY <2>1, <2>4, <3>8 DEF RepliesFetched
        <4>2. KnownIn(db', op, p)
          BY <3>1, <3>8, <4>1 DEF KnownIn, Column
        <4> QED
          BY <3>8, <4>1, <4>2, StoredCases
      <3> QED
        BY <3>6, <3>7, <3>8 DEF Op
    <2>5. ~RepliesCached(n, reply'.val)
      BY <2>1 DEF RepliesCached
    <2>6. CASE RepliesFailed(n, reply'.val)
      BY <2>2, <2>6 DEF RepliesFailed, Reliable, Unstored
    <2> QED
      BY <1>3, <2>4, <2>5, <2>6 DEF RepliesDone
  <1> QED
    BY <1>1, <1>2, <1>3 DEF Shape, ReplyStep, RepliesError, Reliable


\* The questions of the abstract specification.
LEMMA QuestionIs ==
    /\ \A q \in Question : /\ q = <<q[1], q[2]>> /\ q[1] \in Op /\ q[2] \in Path
                           /\ ~IsDirect(q[1], q[2])
    /\ \A q \in Question : \A op, p : q = <<op, p>> => q[1] = op /\ q[2] = p
  BY DEF Question

LEMMA MemoIs ==
    \A q \in Question : /\ Memo[q] = StoredIn(db, q[1], q[2])
                        /\ Memo'[q] = StoredIn(db', q[1], q[2])
  BY DEF Memo, Stored, Known, StoredIn, KnownIn

LEMMA AnswerIs ==
    ASSUME IInv', reply' # Nil, <<reply'.op, reply'.path>> \in Question
    PROVE  /\ Answer' # Nil
           /\ Answer'.question = <<reply'.op, reply'.path>> /\ Answer'.val = reply'.val
  <1>1. reply'.op \in Op /\ reply' \in GivenReply(reply'.op)
    BY DEF IInv, ReplyInv
  <1>2. reply'.path \in Path /\ reply'.val \in Value[reply'.op] \union {Err}
    BY <1>1 DEF GivenReply
  <1> DEFINE r == [question |-> <<reply'.op, reply'.path>>, val |-> reply'.val]
  <1>3. Answer' = r
    BY DEF Answer
  <1>4. r \in [question : {reply'.op} \X Path, val : Value[reply'.op] \union {Err}]
    BY <1>2
  <1>5. r # Nil
    BY <1>1, <1>4, ValueAssumption
  <1> QED
    BY <1>3, <1>5

\* A step of the handlers learns, and answers at most one question.
LEMMA AbstractShape ==
    ASSUME Reliable, IInv, IInv', HashInv, CacheInv, Shape
    PROVE  Abstract!Next
  <1>1. Abstract!Learn
    <2> SUFFICES ASSUME NEW q \in Question, Memo[q] # Nil
                 PROVE  Memo'[q] = Memo[q]
      BY DEF Abstract!Learn
    <2>1. q[1] \in Op /\ q[2] \in Path /\ ~IsDirect(q[1], q[2])
      BY QuestionIs
    <2>2. KnownIn(db, q[1], q[2])
      BY <2>1, MemoIs, StoredCases
    <2> QED
      BY <2>1, <2>2, MemoIs, StoredKept
  <1>2. CASE reply' = Nil \/ <<reply'.op, reply'.path>> \notin Question
    BY <1>1, <1>2 DEF Abstract!Next, Abstract!Quiet, Answer
  <1>3. CASE reply' # Nil /\ <<reply'.op, reply'.path>> \in Question
    <2> DEFINE op == reply'.op
    <2> DEFINE p == reply'.path
    <2> DEFINE q == <<op, p>>
    <2>1. op \in Op /\ p \in Path /\ ~IsDirect(op, p)
      BY <1>3, QuestionIs
    <2>2. Answer' # Nil /\ Answer'.question = q /\ Answer'.val = reply'.val
      BY <1>3, AnswerIs
    <2>3. Memo[q] = StoredIn(db, op, p) /\ Memo'[q] = StoredIn(db', op, p)
      BY <1>3, MemoIs, QuestionIs
    <2>4. CASE KnownIn(db', op, p) /\ reply'.val = StoredIn(db', op, p)
      <3>1. Memo'[q] # Nil
        BY <2>1, <2>3, <2>4, StoredValue DEF IInv
      <3>2. Abstract!Serve(q)
        BY <2>2, <2>3, <2>4, <3>1 DEF Abstract!Serve, Abstract!Give
      <3> QED
        BY <1>1, <1>3, <3>2 DEF Abstract!Next
    <2>5. CASE ~KnownIn(db, op, p) /\ reply'.val = Err
      <3>1. Memo[q] = Nil
        BY <2>1, <2>3, <2>5, StoredCases
      <3>2. Abstract!Refuse(q)
        BY <2>2, <2>5, <3>1 DEF Abstract!Refuse, Abstract!Give
      <3> QED
        BY <1>1, <1>3, <3>2 DEF Abstract!Next
    <2> QED
      BY <1>3, <2>1, <2>4, <2>5, ReplyStored
  <1> QED
    BY <1>2, <1>3

\* New processes and changes of the remote system leave what is remembered, and
\* answer nothing.
LEMMA AbstractOther ==
    ASSUME db' = db, reply' = Nil
    PROVE  Abstract!Next
  <1>1. \A q \in Question : Memo'[q] = Memo[q]
    BY MemoIs
  <1> QED
    BY <1>1 DEF Abstract!Next, Abstract!Learn, Abstract!Quiet, Answer

\* On paths that are cached the handlers implement the memory of ReadThrough: an
\* answer once given is the only one ever given, after a restart too, although
\* the remote file system changes, and a question is refused only while the cache
\* has no answer to it.
THEOREM SpecImplementsReadThrough ==
    ASSUME Reliable
    PROVE  Spec => ImplementsReadThrough
  <1>1. Init => Abstract!Init
    <2> SUFFICES ASSUME Init PROVE Abstract!Init
      OBVIOUS
    <2>1. reply = Nil /\ db = putAndGetRow(EmptyTable)
      BY DEF Init
    <2>2. db.rows[Root] = NewRow(1, "directory") /\ \A p \in Path \ {Root} : ~Has(db, p)
      BY <2>1, NewRoot
    <2>3. ASSUME NEW q \in Question
          PROVE  Stored(q[1], q[2]) = Nil
      <3>1. q[1] \in Op /\ q[2] \in Path /\ q # <<"lookup", Root>> /\ q = <<q[1], q[2]>>
        BY QuestionIs DEF Question
      <3>2. ~KnownIn(db, q[1], q[2])
        <4>1. CASE q[2] = Root
          <5>1. q[1] # "lookup"
            BY <3>1, <4>1
          <5> QED
            BY <2>2, <3>1, <4>1, <5>1 DEF KnownIn, NewRow, Column, Op
        <4>2. CASE q[2] # Root
          BY <2>2, <3>1, <4>2 DEF KnownIn
        <4> QED
          BY <4>1, <4>2
      <3> QED
        BY <3>1, <3>2, StoredCases DEF Stored, Known, KnownIn
    <2>4. Memo = [q \in Question |-> Nil]
      BY <2>3 DEF Memo
    <2> QED
      BY <2>1, <2>4 DEF Abstract!Init, Answer
  <1>2. IInv /\ IInv' /\ HashInv /\ CacheInv /\ [Next]_vars => [Abstract!Next]_(Abstract!vars)
    <2>1. ASSUME IInv, IInv', HashInv, CacheInv, Next
          PROVE  Abstract!Next
      <3>1. CASE Shape
        BY <2>1, <3>1, AbstractShape
      <3>2. CASE EnvShape
        BY <3>2, AbstractOther DEF EnvShape
      <3>3. CASE Start(db) /\ UNCHANGED contents
        BY <2>1, <3>3, StartStep, AbstractOther
      <3> QED
        BY <2>1, <3>1, <3>2, <3>3, NextShape DEF Reliable
    <2>2. ASSUME UNCHANGED vars
          PROVE  UNCHANGED Abstract!vars
      <3>1. db' = db /\ reply' = reply
        BY <2>2 DEF vars, cacheVars
      <3> QED
        BY <3>1 DEF Abstract!vars, Memo, Stored, Known, Answer
    <2> QED
      BY <2>1, <2>2
  <1>3. Spec => []CacheInv
    BY SpecCacheInv
  <1>4. Spec => []HashInv
    BY SpecHashInv DEF Reliable
  <1> QED
    BY <1>1, <1>2, <1>3, <1>4, SpecIInv, PTL DEF Spec, ImplementsReadThrough, Abstract!Spec

=============================================================================
