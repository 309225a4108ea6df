---------------------------- MODULE SourcacheFS ----------------------------
(***************************************************************************)
(* The file system of internal/fs: the handlers of the nodes that the      *)
(* kernel holds, on top of the metadata table (MetadataTable.tla), the     *)
(* content cache (ContentCache.tla, here its set of published contents)    *)
(* and a remote file system that may be unreachable or may change.         *)
(*                                                                         *)
(* A handler holds the lock of its node from beginning to end; handlers of *)
(* different nodes interleave, and several nodes may stand for one path.   *)
(* A handler that needs the remote file system asks it, gets an answer at  *)
(* some time while it waits, stores the answer, and reads back what is     *)
(* stored if the code does: each is a step of its own, and the process may *)
(* be killed in between.  A file is copied and a directory is read piece   *)
(* by piece, so that an answer may be put together from several states of  *)
(* the remote file system.                                                 *)
(*                                                                         *)
(* Abstractions.  A content is identified with its digest.  The statements *)
(* of one metadata call run together (MetadataCache.tla interleaves them). *)
(* Remote directories that have entries in Path are not replaced, remote   *)
(* symbolic links do not lead to files in Path, and entries are named by   *)
(* the path of the child.                                                  *)
(***************************************************************************)
EXTENDS MetadataTable, FiniteSets

CONSTANTS
    Node,      \* node objects
    RootNode,  \* the node of the root
    NoNode,    \* a node object that is not in use
    Direct,    \* the paths that cachedPathRegex does not match
    States,    \* what each path may be in the remote file system
    Mutable,   \* the paths that may change there
    Missing,   \* nothing, or ENOENT
    Err,       \* any other error
    BadRead,   \* a file that could be opened cannot be read
    Requests,  \* what the kernel asks for, besides lookups (a bound)
    MaxCalls,  \* how many calls go to the remote system at a time (a bound)
    Forgets,   \* the kernel forgets nodes, and looks up names again
    LocalErrors  \* calls to the database and to the content cache may fail

Op == {"lookup", "attr", "open", "readlink", "readdir"}

\* An object of the remote file system, with the content or the target it has.
RemoteObject ==
    {o \in [type : ModeType, info : Info, data : Text \union {Nil}] :
        o.type \in {"file", "symlink"} => o.data \in Text}

\* The types of the entries of a directory, or Nil for a path that is not there.
Listing == [Path -> ModeType \union TypeName \union {Nil}]

\* What each operation yields when it does not fail, and how it may fail.
Value == [lookup |-> ModeType \union {Missing}, attr |-> Info, open |-> Text,
          readlink |-> Text, readdir |-> Listing]
Failure(op) == IF op = "readdir" THEN {Err, BadRead} ELSE {Err}

\* The node objects of internal/fs, with the fields they load lazily.
NodeObject ==
    [path : Path, type : TypeName \ {"noentry"}, inode : Nat, info : Info \union {Nil},
     hash : Text \union {Nil}, target : Text \union {Nil}, entries : DirEntries \union {Nil},
     rows : [Path -> CachedRow \union {NoRow}]]

\* A call that waits for the remote system, or that has stored the answer and goes
\* on locally, and a reply to the kernel.  During is what the remote system held
\* while the call ran, or what another call stored meanwhile in the same place.
PendingCall(op) ==
    [op : {op}, path : Path, phase : {"remote", "local"}, got : Value[op] \union Failure(op),
     known : BOOLEAN, during : SUBSET (Value[op] \union Failure(op))]
GivenReply(op) ==
    [op : {op}, path : Path, val : Value[op] \union {Err}, known : BOOLEAN,
     during : SUBSET (Value[op] \union Failure(op)),
     counted : {"hit", "miss", "direct", "none"}]

ASSUME FSAssumption ==
    /\ RootNode \in Node
    /\ IsFiniteSet(Path)
    /\ Direct \subseteq Path
    /\ \A p \in Path : \A o \in States[p] : o = Missing \/ o \in RemoteObject
    /\ \A o \in States[Root] : o # Missing /\ o.type = "directory"
    /\ \A p \in Mutable : Children(p) = {}
    /\ Requests \subseteq Op \X Path
    /\ MaxCalls \in Nat
    /\ {Forgets, LocalErrors} \subseteq BOOLEAN

\* The values that stand for nothing and for failures are no data.
ASSUME ValueAssumption ==
    /\ NoNode \notin NodeObject
    /\ {Missing, Err} \cap (ModeType \union TypeName) = {}
    /\ Err # BadRead
    /\ \A op \in Op :
          /\ {Nil, Err, BadRead} \cap Value[op] = {}
          /\ Nil \notin PendingCall(op)
          /\ Nil \notin GivenReply(op)
          /\ Nil \notin [question : {op} \X Path, val : Value[op] \union {Err}]

VARIABLES
    remote,    \* the remote file system
    online,    \* whether it can be reached
    db,        \* the metadata table
    contents,  \* the contents published in the content cache
    nodes,     \* the node objects, with what they have lazily loaded
    calls,     \* the call that each node is busy with
    reply      \* the answer that the last step gave to the kernel, if any

envVars == <<remote, online>>
cacheVars == <<db, contents>>
vars == <<envVars, cacheVars, nodes, calls, reply>>

\* The column of a row, and the field of a node, that an operation loads.
Column == [attr |-> "info", open |-> "hash", readlink |-> "target", readdir |-> "entries"]

Live == {n \in Node : nodes[n] # NoNode}

Idle == {n \in Live : calls[n] = Nil}

TypeOK ==
    /\ \A p \in Path : remote[p] \in States[p]
    /\ online \in BOOLEAN
    /\ db \in Table
    /\ contents \subseteq Text
    /\ nodes \in [Node -> NodeObject \union {NoNode}]
    /\ \A n \in Node : calls[n] # Nil =>
          n \in Live /\ calls[n].op \in Op /\ calls[n] \in PendingCall(calls[n].op)
    /\ reply # Nil => reply.op \in Op /\ reply \in GivenReply(reply.op)

\* The columns of the row are not passed on to the node.
newNodeForOneDirEntry(p, row) ==
    [path |-> p, type |-> row.type, inode |-> row.inode, info |-> Nil,
     hash |-> Nil, target |-> Nil, entries |-> Nil,
     rows |-> [q \in Path |-> NoRow]]

\* newNodeForEntry: a node that knows what the row knows.
newNodeForEntry(p, row) ==
    [path |-> p, type |-> row.type, inode |-> row.inode, info |-> row.info,
     hash |-> row.hash, target |-> row.target, entries |-> row.entries,
     rows |-> [q \in Path |-> NoRow]]

\* Loop: the root is stored if it is not, and its node made.
RootOnly(table) ==
    [n \in Node |-> IF n = RootNode THEN newNodeForEntry(Root, GetFullEntry(table, Root))
                    ELSE NoNode]

\* An entry that exists is left as it is.
putNewIfAbsent(table, p, type) ==
    IF Has(table, p) THEN table ELSE Insert(table, p, type)

\* PutNewOrUpdateWithType and PutNewOrUpdateNoEntry.
putNewOrUpdate(table, p, type) ==
    IF Has(table, p) THEN UpdateType(table, p, type) ELSE Insert(table, p, type)

\* putAndGetRow, with which Loop gets the row of the root.
putAndGetRow(table) ==
    IF Root \in Direct \/ ~Has(table, Root)
    THEN putNewOrUpdate(table, Root, "directory")
    ELSE table

Init ==
    /\ remote \in {f \in [Path -> UNION {States[p] : p \in Path}] :
                      \A p \in Path :
                          /\ f[p] \in States[p]
                          /\ p # Root /\ f[p] # Missing =>
                                f[Parent[p]] # Missing /\ f[Parent[p]].type = "directory"}
    /\ online = TRUE
    /\ db = putAndGetRow(EmptyTable)
    /\ contents = {}
    /\ nodes = RootOnly(db)
    /\ calls = [n \in Node |-> Nil]
    /\ reply = Nil
-----------------------------------------------------------------------------
\* What the remote file system r holds, in the terms of an operation on p: the
\* answer that a call through to it gets when it can be reached.
Truth(r, op, p) ==
    LET o == r[p] IN
    CASE op = "lookup" -> IF o = Missing THEN Missing ELSE o.type
      [] op # "lookup" /\ o = Missing -> Err
      [] op = "attr" /\ o # Missing -> o.info
      [] op = "open" /\ o # Missing -> IF o.type = "file" THEN o.data ELSE Err
      [] op = "readlink" /\ o # Missing -> IF o.type = "symlink" THEN o.data ELSE Err
      [] op = "readdir" /\ o # Missing ->
            CASE o.type = "directory" -> [x \in Path |->
                                             IF x \in Children(p) /\ r[x] # Missing
                                             THEN r[x].type ELSE Nil]
              [] o.type = "symlink" -> Err
              [] OTHER -> BadRead

\* The same for the remote file system as it is or as it can be reached.
Ask(r, up, op, p) == IF up THEN Truth(r, op, p) ELSE Err

\* The answers to a call.  The connection may break between the Open and the
\* Readdir of a directory, and PutContents may fail for a local reason.
Answers(op, p) ==
    {Ask(remote, online, op, p)} \union
    (IF op = "readdir" /\ ~online THEN {BadRead} ELSE {}) \union
    (IF op = "open" /\ LocalErrors THEN {Err} ELSE {})

\* Whether an operation goes directly to the remote system.
IsDirect(op, p) == (IF op = "lookup" THEN Parent[p] ELSE p) \in Direct

\* What the remote system r says, for an operation that goes directly to it.
Seen(r, up, op, p) == IF IsDirect(op, p) THEN {Ask(r, up, op, p)} ELSE {}

\* Whether the cache has stored the answer to an operation.
Known(op, p) ==
    /\ Has(db, p)
    /\ op # "lookup" => db.rows[p][Column[op]] # Nil

\* The types of a set of entries, as a reply to the kernel.
Types(entries) == [x \in Path |-> IF entries[x] = Nil THEN Nil ELSE entries[x].type]

\* An operation on p that needs the remote system asks it.  Its lock is held
\* until the operation is done.
Begin(n, op, p) ==
    /\ Cardinality({m \in Node : calls[m] # Nil}) < MaxCalls
    /\ reply' = Nil
    /\ \E v \in Answers(op, p) :
        calls' = [calls EXCEPT ![n] = [op |-> op, path |-> p, phase |-> "remote", got |-> v,
                                       known |-> Known(op, p),
                                       during |-> Seen(remote, online, op, p)]]

\* What a call may have got once the remote system has answered v and then w: a
\* copy of a file that has changed holds any mixture of what was read, and each
\* entry of a listing is from before or after.
Mix(op, v, w) ==
    IF op = "open" /\ v # w /\ {v, w} \subseteq Text
    THEN Text
    ELSE IF op = "readdir" /\ {v, w} \cap {Err, BadRead} = {}
    THEN {[x \in Path |-> IF x \in S THEN w[x] ELSE v[x]] : S \in SUBSET Path}
    ELSE {w}

\* The answer comes, or a part of it, later than when it was asked for.
Hear(n) ==
    /\ calls[n] # Nil
    /\ calls[n].phase = "remote"
    /\ \E v \in Answers(calls[n].op, calls[n].path) :
          \E w \in Mix(calls[n].op, calls[n].got, v) : calls' = [calls EXCEPT ![n].got = w]
    /\ reply' = Nil
    /\ UNCHANGED <<envVars, cacheVars, nodes>>

\* The call of m will read back from the table what that of n stores there.
Overlaps(m, n) ==
    /\ m # n
    /\ calls[m] # Nil
    /\ calls[m].op = calls[n].op
    /\ calls[m].path = calls[n].path
    /\ calls[n].op \in {"lookup", "readdir"}
    /\ IsDirect(calls[n].op, calls[n].path)

\* The answer to the call of n is stored, and the call goes on locally.
Put(n) ==
    /\ reply' = Nil
    /\ calls' = [m \in Node |->
          IF m = n THEN [calls[n] EXCEPT !.phase = "local"]
          ELSE IF Overlaps(m, n) THEN [calls[m] EXCEPT !.during = @ \union {calls[n].got}]
          ELSE calls[m]]

\* The reply to an operation on p that did not need the remote system, and the
\* counter of stats.go that the handler has increased for it.
Reply(op, p, v, counter) ==
    reply' = [op |-> op, path |-> p, val |-> v, known |-> Known(op, p),
              during |-> Seen(remote, online, op, p), counted |-> counter]

\* The counter increased by a handler that goes to the remote system.
AccountRemote(op, p) == IF IsDirect(op, p) THEN "direct" ELSE "miss"

\* The reply to the operation that n was waiting for.
Done(n, v) ==
    /\ reply' = [op |-> calls[n].op, path |-> calls[n].path, val |-> v,
                 during |-> calls[n].during, known |-> calls[n].known,
                 counted |-> AccountRemote(calls[n].op, calls[n].path)]
    /\ calls' = [calls EXCEPT ![n] = Nil]

\* The reply is an error: nothing is loaded into a node, and none is made.
Fails(n, e) == Done(n, e) /\ UNCHANGED nodes

\* Whether n is busy with an operation, and how far it has got.
Waiting(n, op) == calls[n] # Nil /\ calls[n].op = op /\ calls[n].phase = "remote"
Continues(n, op) == calls[n] # Nil /\ calls[n].op = op /\ calls[n].phase = "local"

\* What a node has loaded for an operation.
Loaded(n, op) == nodes[n][Column[op]]

\* The answer is kept by the node only.
LoadNode(n, op, table, v) ==
    /\ UNCHANGED db
    /\ nodes' = [nodes EXCEPT ![n][Column[op]] = v]

\* An answer from the remote system is stored, in the table and in the node.
Load(n, op, table, v) ==
    /\ db' = table
    /\ nodes' = [nodes EXCEPT ![n][Column[op]] = v]

\* The answer was an error: what is loaded is only used in its place for a path
\* that is accessed directly.
FallBack(n, op) ==
    /\ calls[n].got = Err
    /\ Done(n, IF nodes[n].path \in Direct /\ Loaded(n, op) # Nil THEN Loaded(n, op) ELSE Err)
    /\ UNCHANGED <<db, nodes>>

\* Storing the answer fails, and nothing changes.
PutFails(n) ==
    /\ LocalErrors
    /\ calls[n].got # Err
    /\ Done(n, Err)
    /\ UNCHANGED <<db, nodes>>
-----------------------------------------------------------------------------
\* Attr (commonAttr): from what is loaded, or by asking the remote system.
Attr(n) ==
    /\ n \in Idle
    /\ <<"attr", nodes[n].path>> \in Requests
    /\ LET p == nodes[n].path IN
       IF p \notin Direct /\ nodes[n].info # Nil
       THEN Reply("attr", p, nodes[n].info, "hit") /\ UNCHANGED calls
       ELSE Begin(n, "attr", p)
    /\ UNCHANGED <<envVars, cacheVars, nodes>>

\* Lstat has returned.
AttrDone(n) ==
    /\ Waiting(n, "attr")
    /\ LET v == calls[n].got IN
       \/ /\ v # Err
          /\ Load(n, "attr", SetFileInfo(db, nodes[n].inode, v), v)
          /\ Done(n, v)
       \/ PutFails(n)
       \/ FallBack(n, "attr")
    /\ UNCHANGED <<envVars, contents>>

\* Readlink: likewise.
Readlink(n) ==
    /\ n \in Idle
    /\ <<"readlink", nodes[n].path>> \in Requests
    /\ nodes[n].type = "symlink"
    /\ LET p == nodes[n].path IN
       IF p \notin Direct /\ nodes[n].target # Nil
       THEN Reply("readlink", p, nodes[n].target, "hit") /\ UNCHANGED calls
       ELSE Begin(n, "readlink", p)
    /\ UNCHANGED <<envVars, cacheVars, nodes>>

\* The remote Readlink has returned.
ReadlinkDone(n) ==
    /\ Waiting(n, "readlink")
    /\ LET v == calls[n].got IN
       \/ /\ v # Err
          /\ Load(n, "readlink", SetSymlinkTarget(db, nodes[n].inode, v), v)
          /\ Done(n, v)
       \/ PutFails(n)
       \/ FallBack(n, "readlink")
    /\ UNCHANGED <<envVars, contents>>

\* What an open file reads, or why there is none: GetFileForContents and Open of
\* the digest h.
Content(h) == (IF h \in contents THEN {h} ELSE {Err}) \union (IF LocalErrors THEN {Err} ELSE {})

\* Open: from what is loaded, or by asking the remote system for the content.
Open(n) ==
    /\ n \in Idle
    /\ <<"open", nodes[n].path>> \in Requests
    /\ nodes[n].type = "file"
    /\ LET p == nodes[n].path IN
       IF p \notin Direct /\ nodes[n].hash # Nil
       THEN /\ \E c \in Content(nodes[n].hash) : Reply("open", p, c, "hit")
            /\ UNCHANGED calls
       ELSE Begin(n, "open", p)
    /\ UNCHANGED <<envVars, cacheVars, nodes>>

\* The digest is computed, but the content is not published.
PutContentsHashOnly(n) ==
    /\ Waiting(n, "open")
    /\ calls[n].got # Err
    /\ Put(n)
    /\ UNCHANGED <<envVars, cacheVars, nodes>>

\* PutContents has copied the remote file, and publishes the copy.
PutContents(n) ==
    /\ Waiting(n, "open")
    /\ calls[n].got # Err
    /\ contents' = contents \union {calls[n].got}
    /\ Put(n)
    /\ UNCHANGED <<envVars, db, nodes>>

\* PutContents has returned, with a digest that is stored or with an error.
OpenDone(n) ==
    /\ \/ /\ Continues(n, "open")
          /\ Load(n, "open", SetContentHash(db, nodes[n].inode, calls[n].got), calls[n].got)
          /\ \E c \in Content(calls[n].got) : Done(n, c)
       \/ Continues(n, "open") /\ PutFails(n)
       \/ /\ Waiting(n, "open")
          /\ calls[n].got = Err
          /\ \E c \in IF nodes[n].path \in Direct /\ nodes[n].hash # Nil
                     THEN Content(nodes[n].hash) ELSE {Err} : Done(n, c)
          /\ UNCHANGED <<db, nodes>>
    /\ UNCHANGED <<envVars, contents>>
-----------------------------------------------------------------------------
\* PutDirEntries, as far as the rows of entries go: the table with rows for those
\* entries S of a listing that had none, inserted in any order.
InsertsOf(table, S, listing) ==
    LET new == {x \in S : ~Has(table, x)}
        last == table.last + Cardinality(new)
    IN  {[rows |-> [x \in Path |->
                       IF x \in new
                       THEN [Insert(table, x, listing[x]).rows[x] EXCEPT !.inode = order[x]]
                       ELSE table.rows[x]],
          last |-> last] :
         order \in {f \in [new -> table.last + 1 .. last] :
                       \A x, y \in new : f[x] = f[y] => x = y}}

\* ReadDirAll: from what is loaded, or by asking the remote system.
ReadDirAll(n) ==
    /\ n \in Idle
    /\ <<"readdir", nodes[n].path>> \in Requests
    /\ nodes[n].type = "directory"
    /\ LET p == nodes[n].path IN
       IF p \notin Direct /\ nodes[n].entries # Nil
       THEN Reply("readdir", p, Types(nodes[n].entries), "hit") /\ UNCHANGED calls
       ELSE Begin(n, "readdir", p)
    /\ UNCHANGED <<envVars, cacheVars, nodes>>

\* The entries of a listing, and those whose types have a name.
Names(listing) == {x \in Path : listing[x] # Nil}
Named(listing) == {x \in Names(listing) : sqlTypeNameOK(listing[x])}

\* Readdir has returned, and PutDirEntries stores the listing.
ReadDirAllPut(n) ==
    /\ Waiting(n, "readdir")
    /\ LET listing == calls[n].got IN
       /\ listing \notin {Err, BadRead}
       /\ Named(listing) = Names(listing)
       /\ \E table \in InsertsOf(db, Names(listing), listing) :
             db' = SetDirEntries(table, nodes[n].inode,
                       [x \in Path |-> IF x \in Names(listing)
                                       THEN [inode |-> table.rows[x].inode, type |-> listing[x]]
                                       ELSE Nil])
    /\ Put(n)
    /\ UNCHANGED <<envVars, contents, nodes>>

\* GetDirEntries reads the listing back.
ReadDirAllReload(n) ==
    /\ Continues(n, "readdir")
    /\ LET entries == GetDirEntries(db, nodes[n].inode) IN
       \/ Load(n, "readdir", db, entries) /\ Done(n, Types(entries))
       \/ LocalErrors /\ Fails(n, Err) /\ UNCHANGED db
    /\ UNCHANGED <<envVars, contents>>

\* Readdir has returned, and no listing is stored: a failure, or an entry whose
\* type has no name, stops PutDirEntries after some of the entries; or the remote
\* directory could not be read.
ReadDirAllDone(n) ==
    /\ Waiting(n, "readdir")
    /\ LET listing == calls[n].got
           entries == GetDirEntries(db, nodes[n].inode)
           fallback == nodes[n].path \in Direct /\ nodes[n].entries # Nil
       IN
       \/ /\ listing \notin {Err, BadRead}
          /\ Named(listing) # Names(listing) \/ LocalErrors
          /\ \E S \in SUBSET Named(listing) : db' \in InsertsOf(db, S, listing)
          /\ Fails(n, Err)
       \/ /\ listing = Err /\ fallback
          /\ Load(n, "readdir", db, entries)
          /\ Done(n, Types(entries))
       \/ /\ \/ listing = BadRead
             \/ listing = Err /\ (~fallback \/ LocalErrors)
          /\ UNCHANGED db
          /\ Fails(n, Err)
    /\ UNCHANGED <<envVars, contents>>
-----------------------------------------------------------------------------
\* The nodes once the directory n remembers a row.  One that is accessed
\* directly stores it as well, but never reads it: there it is left out.
Remember(n, p, row) ==
    IF nodes[n].path \in Direct THEN nodes ELSE [nodes EXCEPT ![n].rows[p] = row]

\* A whiteout gets a node, too.
FoundWhiteout(n, p, row) ==
    \E m \in Node \ Live :
        nodes' = [Remember(n, p, row) EXCEPT ![m] = newNodeForEntry(p, row)]

\* The nodes after a lookup of p in the directory n found a row: the directory
\* remembers it, and unless it is a whiteout a node is made from it.
Found(n, p, row) ==
    IF row.type = "noentry"
    THEN nodes' = Remember(n, p, row)
    ELSE \E m \in Node \ Live :
             nodes' = [Remember(n, p, row) EXCEPT ![m] = newNodeForEntry(p, row)]

TypeOf(row) == IF row.type = "noentry" THEN Missing ELSE row.type

\* The reply once the row of p has been read again.
Reloaded(n, p) ==
    \/ LET row == GetFullEntry(db, p) IN Found(n, p, row) /\ Done(n, TypeOf(row))
    \/ LocalErrors /\ Fails(n, Err)

\* The kernel looks up a name that it does not know, or no longer knows.
MayLookup(n, p) ==
    /\ n \in Idle
    /\ nodes[n].type = "directory"
    /\ p \in Children(nodes[n].path)
    /\ Forgets \/ \A m \in Live : nodes[m].path # p

\* Lookup: from a row the directory remembers, from the table, or by asking the
\* remote system.
Lookup(n, p) ==
    /\ MayLookup(n, p)
    /\ LET direct == nodes[n].path \in Direct
           fast == nodes[n].rows[p] # NoRow
           row == IF fast THEN nodes[n].rows[p] ELSE GetFullEntry(db, p)
       IN  IF ~direct /\ row # NoRow
           THEN /\ Reply("lookup", p, TypeOf(row), IF fast THEN "none" ELSE "hit")
                /\ Found(n, p, row)
                /\ UNCHANGED calls
           ELSE /\ Begin(n, "lookup", p)
                /\ UNCHANGED nodes
    /\ UNCHANGED <<envVars, cacheVars>>

\* Lookup, when the row cannot be read.
LookupFails(n, p) ==
    /\ LocalErrors
    /\ MayLookup(n, p)
    /\ nodes[n].path \in Direct \/ nodes[n].rows[p] = NoRow
    /\ Reply("lookup", p, Err, "none")
    /\ UNCHANGED <<envVars, cacheVars, nodes, calls>>

\* Any error of Lstat is taken for ENOENT.
LookupPutAnyError(n) ==
    /\ Waiting(n, "lookup")
    /\ nodes[n].path \notin Direct
    /\ LET type == IF calls[n].got \in {Missing, Err} THEN "noentry" ELSE calls[n].got IN
       /\ type \in TypeName
       /\ CanInsert(db, calls[n].path)
       /\ db' = Insert(db, calls[n].path, type)
    /\ Put(n)
    /\ UNCHANGED <<envVars, contents, nodes>>

\* Lstat has returned, and the type or the absence of the file is stored.  In a
\* directory that is accessed directly, a row that was there outlives the file.
LookupPut(n) ==
    /\ Waiting(n, "lookup")
    /\ LET p == calls[n].path
           type == IF calls[n].got = Missing THEN "noentry" ELSE calls[n].got
       IN
       /\ type \in TypeName
       /\ \/ /\ nodes[n].path \in Direct
             /\ type = "noentry" => ~calls[n].known
             /\ db' = putNewOrUpdate(db, p, type)
          \/ /\ nodes[n].path \notin Direct
             /\ CanInsert(db, p)
             /\ db' = Insert(db, p, type)
    /\ Put(n)
    /\ UNCHANGED <<envVars, contents, nodes>>

\* What was stored is read back, unless it is the absence of the file.
LookupReload(n) ==
    /\ Continues(n, "lookup")
    /\ IF calls[n].got = Missing THEN Fails(n, Missing) ELSE Reloaded(n, calls[n].path)
    /\ UNCHANGED <<envVars, cacheVars>>

\* Lookup in a directory accessed directly, when nothing is stored: the row that
\* was there is used in place of an error, or the error is passed on.
LookupDirectDone(n) ==
    /\ Waiting(n, "lookup")
    /\ nodes[n].path \in Direct
    /\ LET got == calls[n].got
           cached == calls[n].known
       IN
       \/ got \in {Missing, Err} /\ cached /\ Reloaded(n, calls[n].path)
       \/ /\ \/ got = Err /\ ~cached
             \/ got = "other"
             \/ LocalErrors /\ (got \in TypeName \/ (got = Missing /\ ~cached))
          /\ Fails(n, Err)
    /\ UNCHANGED <<envVars, cacheVars>>

\* Lookup in any other directory, when nothing is stored.
LookupDone(n) ==
    /\ Waiting(n, "lookup")
    /\ nodes[n].path \notin Direct
    /\ calls[n].got \in {Err, "other"} \/ ~CanInsert(db, calls[n].path) \/ LocalErrors
    /\ Fails(n, Err)
    /\ UNCHANGED <<envVars, cacheVars>>
-----------------------------------------------------------------------------
\* The kernel forgets a node.
Forget(n) ==
    /\ Forgets
    /\ n \in Idle \ {RootNode}
    /\ nodes' = [nodes EXCEPT ![n] = NoNode]
    /\ reply' = Nil
    /\ UNCHANGED <<envVars, cacheVars, calls>>

\* A process starts with a table.
Start(table) ==
    /\ db' = putAndGetRow(table)
    /\ nodes' = RootOnly(db')
    /\ calls' = [n \in Node |-> Nil]
    /\ reply' = Nil
    /\ UNCHANGED envVars

\* The process ends, killed or unmounted, and is started again.
Restart == Start(db) /\ UNCHANGED contents

\* NewCache cannot open the database, and removes it; the directory has contents
\* or is made again by its user.  The next start makes a new database.
NewCacheFails ==
    /\ LocalErrors
    /\ Start(EmptyTable)
    /\ UNCHANGED contents

\* What calls see of a change of the remote system while they run.
Watch ==
    /\ reply' = Nil
    /\ calls' = [n \in Node |->
        IF calls[n] = Nil THEN Nil
        ELSE [calls[n] EXCEPT !.during =
                    @ \union Seen(remote', online', calls[n].op, calls[n].path)]]

\* The network goes away or comes back.
Network ==
    /\ online' = ~online
    /\ UNCHANGED remote
    /\ Watch
    /\ UNCHANGED <<cacheVars, nodes>>

\* Somebody changes the remote file system.
ChangeRemote(p) ==
    /\ p \in Mutable
    /\ remote[Parent[p]] # Missing /\ remote[Parent[p]].type = "directory"
    /\ \E o \in States[p] \ {remote[p]} : remote' = [remote EXCEPT ![p] = o]
    /\ UNCHANGED online
    /\ Watch
    /\ UNCHANGED <<cacheVars, nodes>>

Handler(n) ==
    \/ Attr(n) \/ AttrDone(n)
    \/ Readlink(n) \/ ReadlinkDone(n)
    \/ Open(n) \/ PutContents(n) \/ OpenDone(n)
    \/ ReadDirAll(n) \/ ReadDirAllPut(n) \/ ReadDirAllReload(n) \/ ReadDirAllDone(n)
    \/ \E p \in Path : Lookup(n, p) \/ LookupFails(n, p)
    \/ LookupPut(n) \/ LookupReload(n) \/ LookupDirectDone(n) \/ LookupDone(n)

Next ==
    \/ \E n \in Node : Handler(n) \/ Hear(n) \/ Forget(n)
    \/ Restart
    \/ NewCacheFails
    \/ Network
    \/ \E p \in Path \ {Root} : ChangeRemote(p)

Spec == Init /\ [][Next]_vars
-----------------------------------------------------------------------------
\* With a remote file system that does not change, every successful reply is
\* what the remote file system holds: whatever was cached, in which order, by
\* how many nodes, while offline or before a restart.  In particular an error
\* other than ENOENT never becomes a whiteout.
ServedIsRemote ==
    Mutable = {} /\ reply # Nil /\ reply.val # Err => reply.val = Truth(remote, reply.op, reply.path)

\* Every digest in the table or in a node is that of a published content: Open
\* stores it after the content, also when the process dies in between.
HashesResolve ==
    /\ \A p \in Path : Has(db, p) => db.rows[p].hash \in contents \union {Nil}
    /\ \A n \in Live : nodes[n].hash \in contents \union {Nil}

\* The inode number that a node reports, the one that its directory lists and
\* the one in the table are the same, for as long as the node lives.
InodesAgree ==
    \A n \in Live :
        /\ nodes[n].inode = db.rows[nodes[n].path].inode
        /\ \A x \in Path :
              /\ nodes[n].rows[x] # NoRow => nodes[n].rows[x].inode = db.rows[x].inode
              /\ nodes[n].entries # Nil /\ nodes[n].entries[x] # Nil =>
                    nodes[n].entries[x].inode = db.rows[x].inode

\* The last step answered an operation that goes directly to the remote system.
RepliedDirectly == reply # Nil /\ IsDirect(reply.op, reply.path)

\* What a call may reply that has seen these states of the remote system: one of
\* them, the copy of a file that changed while it was copied, or a listing of
\* which each entry was there at some time.
Fresh(op, v, during) ==
    \/ v \in during
    \/ op = "open" /\ \E t, u \in during : t # u
    \/ op = "readdir" /\ \A x \in Path : \E l \in during : v[x] = l[x]

\* On a path that is accessed directly, a reply given while the remote object
\* could be reached is what it was during the call, whatever the cache or the
\* node held before.  Two things may come in between: Lookup of a file that has
\* gone finds the row that was there, and a call that reads back what it stored
\* may read what another node of the directory has stored in the meantime.
DirectIsFresh ==
    RepliedDirectly /\ reply.val # Err /\ {Err, BadRead} \cap reply.during = {} =>
        \/ Fresh(reply.op, reply.val, reply.during)
        \/ reply.op = "lookup" /\ reply.known /\ Missing \in reply.during

\* README.md: "once the contents of the remote file system have been cached,
\* operations on those same files and directories should continue to work
\* locally": what the cache has stored is answered without the remote system.
OfflineAvailable ==
    reply # Nil /\ reply.known /\ reply.path \notin Direct => reply.val # Err

\* AccountCacheMiss counts "those FUSE operations received by sourcachefs that
\* incurred a request into the remote file system": one is only made for what
\* the cache does not know when the operation begins, although the remote file
\* system can be reached and has something newer.
MissesAreNew ==
    reply # Nil /\ reply.counted = "miss" => ~reply.known

\* The questions that are answered from the cache.
Question ==
    {q \in (Op \X Path) \ {<<"lookup", Root>>} : ~IsDirect(q[1], q[2])}

\* The answer that the cache has stored.
Stored(op, p) ==
    CASE ~Known(op, p) -> Nil
      [] Known(op, p) /\ op = "lookup" -> TypeOf(db.rows[p])
      [] Known(op, p) /\ op = "readdir" -> Types(db.rows[p].entries)
      [] OTHER -> db.rows[p][Column[op]]

\* The refinement mapping: what is remembered is what the table says.
Memo == [q \in Question |-> Stored(q[1], q[2])]

Answer ==
    IF reply # Nil /\ <<reply.op, reply.path>> \in Question
    THEN [question |-> <<reply.op, reply.path>>, val |-> reply.val]
    ELSE Nil

Abstract == INSTANCE ReadThrough WITH memo <- Memo, answer <- Answer

\* On paths that are cached, an answer once given is the only one ever given,
\* after a restart too, although the remote file system changes: all that is
\* answered has been stored, and what is stored is neither replaced nor refused.
ImplementsReadThrough == Abstract!Spec

=============================================================================
