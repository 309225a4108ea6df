# A TLA+ model of sourcachefs

sourcachefs is a FUSE file system that reexposes a slow, remote file system and
caches what was read of it in a local directory, so that it is fast and works
offline. This directory holds TLA+ specifications of its caches, its file system
nodes, its process and its statistics, TLC configurations that check them on small
instances, and TLAPS proofs of the main results for every instance.

## The system

| Component | State | Operations | Interaction |
|---|---|---|---|
| Content cache (`internal/cache/content.go`) | files named after the MD5 of what they hold, in bucket directories; temporary files | `PutContents`, `HasKey`, `GetFileForContents` | called by `File.Open`, several handlers at once, no lock |
| Metadata cache (`internal/cache/metadata.go`) | SQLite table `paths`: a row per known path (type, attributes, digest, link target, listing; the ROWID is the inode number) | `GetFullEntry`, `GetDirEntries`, `PutNew*`, `PutNewOrUpdate*`, `PutFileInfo`, `PutContentHash`, `PutSymlinkTarget`, `PutDirEntries` | called by all handlers, statement by statement, no transactions |
| SQLite wrappers (`internal/cache/sqlite.go`) | none | `RetryExec`, `RetryQueryRow` and `Scan` | retry statements while the database is locked |
| Nodes (`internal/fs/dir.go`, `file.go`, `symlink.go`, `root.go`) | what each node has lazily loaded; the rows that a directory remembers | `Lookup`, `Attr`, `Open`, `Readlink`, `ReadDirAll`; `Read`, `Release` of open files | called by the kernel; each holds the lock of its own node only |
| Serving loop (`root.go`, `main.go`) | the mount, the signal handler | `Loop`, `unmountOnSignal` | signals race with mounting and serving |
| Opening the cache (`cache.go`) | | `NewCache`, `Close` | deletes the database if it cannot be opened |
| System calls (`internal/real`) | | wrappers of `Lstat`, `Open`, ... | count every call |
| Statistics (`internal/stats`) | counters | `Account*`, `Clear`, getters, HTTP pages | atomic counters, no common snapshot |

What makes it hard: handlers of different nodes run concurrently, and the kernel
may hold two nodes for one path; the remote system disappears, comes back and
changes while they wait for it; the process may be killed between any two system
calls or SQL statements, and the caches are all that it has left; each step of
an operation may fail after the earlier ones have taken effect. The mount belongs
to the kernel and outlives the process; signals, unmounts and the HTTP server race
with the serving loop.

What makes it correct:

* content cache: what is visible under a key is the content with that digest, a
  key that was returned stays readable, and nothing published is replaced;
* metadata cache: rows and their inode numbers are permanent, listings are whole and
  refer to rows that exist, no update loses or damages another row;
* retries: a statement is applied once, and contention ends;
* nodes: answers are those of the remote system, at any time for a remote system
  that does not change; what is cached stays available and stays as it is;
  directories accessed directly are current while they can be reached;
* process: whatever order signals and unmounts come in, it ends, a signal that it has
  caught leaves no mount point without a server behind, and the exit status tells of
  a signal that was passed on;
* statistics: what was cleared is not shown again; open files: data is short only at
  the end of the file.

## Modules

| Module | Models |
|---|---|
| `ContentStore` | what the content cache promises: a growing set of whole contents, and keys that are only handed out for contents in it |
| `ContentCache` | `content.go`: `PutContents` as a sequence of system calls, each of which may fail; any number of threads; kills. `OpenRemote` starts a call, `TempFile`, `CopyChunk`, `CopyEOF`, `CopyErr`, `CheckKey`, `Mkdir`, `Rename` are its steps, and `Remove` is the deferred removal with the return |
| `MetadataTable` | the table `paths` and each prepared statement as an operator from table to table |
| `MetadataCache` | the methods of `metadata.go`, a step per SQL statement, run by several clients, with failures and kills |
| `SqliteRetry` | `sqlite.go`: callers that update or query a database locked by each other and by a foreign process |
| `SourcacheFS` | the composition: the handlers of `internal/fs` over `MetadataTable`, the published contents, a remote system that goes away and changes, a kernel that looks up and forgets, restarts, and a database that cannot be opened |
| `ReadThrough` | what `SourcacheFS` promises on cached paths: a memory of answers that only grows, in which neither the remote system nor restarts appear |
| `Daemon` | a process from start to end: `main.go`, `Loop` and `unmountOnSignal` as goroutines, signals, the mount in the kernel, starts after each other |
| `Statistics` | the counters, `Read` and `Release` of an open file that increase them, and the HTTP pages that clear and show them |
| `MCContentCache`, `MCMetadataCache`, `MCSourcacheFS`, `MCStatistics` | instances for TLC |
| `ContentCacheProofs`, `MetadataCacheProofs`, `SqliteRetryProofs`, `DaemonProofs`, `StatisticsProofs` | theorems about the components |
| `MetadataTableProofs` | lemmas about the statements on the table, used for `MetadataCache` and `SourcacheFS` |
| `SourcacheFSProofs` | theorems about the composition that hold however the kernel and the local calls behave |
| `ReadThroughProofs` | theorems about the composition as a cache, and the refinement of `ReadThrough` |

Correspondence of state and code:

* `ContentCache`: `store[k]` is the file at `pathForKey(k)`; `temps`, `buckets`
  are the rest of the cache directory; `name`, `digest`, `ret` are the locals of
  `PutContents`. `acked` and `orphans` are history: keys returned, and temporary
  files that nobody will remove.
* `MetadataCache`: `db.rows[p]` is the row with `path = p`, `db.last` the
  greatest ROWID; `direct` stands for the regular expression the process was
  started with, which may be another one after a restart; the other variables are
  the locals of the methods of two statements or more. Methods of one statement are
  one step, and one that fails changes nothing.
* `SourcacheFS`: `nodes[n]` is a `Dir`, `File` or `Symlink` with its lazy data.
  A handler that needs the remote system takes several steps, and the lock of its
  node is held from the first to the last. `Attr`, `Readlink`, `Open`, `ReadDirAll`
  and `Lookup` begin it (`Begin`): `calls[n]` says what it waits for and what it has
  got so far. `Hear` is more of the answer: what was got before is replaced, or, as
  `copy2` copies a file and `Readdir` reads a directory piece by piece, mixed with it
  (`Mix`: any text for a file that changed, old and new entries for a listing). Then
  the answer is stored (`PutContents`, `LookupPut`, `ReadDirAllPut`), after which the
  call is in the phase `local`, and what was stored is read back and replied
  (`OpenDone`, which stores the digest first, `LookupReload`, `ReadDirAllReload`);
  another node of the same path may store something else between the two. Calls in
  which nothing is stored, or that store and reply without reading back, end with
  `AttrDone`, `ReadlinkDone`, `OpenDone`, `ReadDirAllDone`, `LookupDirectDone` and
  `LookupDone`. The statements of one metadata call run together here;
  `MetadataCache` interleaves them. `reply` is the answer to the kernel, with
  what the remote system said during the call and what other calls stored meanwhile
  where this one reads back (`during`), whether the cache knew the answer when
  the call began (`known`) and the counter that the handler increased (`counted`).
* `Daemon`: `main`, `handler` and `http` say where the three goroutines are;
  `wait` and `caught` are the two channels, `held` is the signal between the receive
  and the send of `caught <- <-wait` (`Receive`, `PassOn`), `notified` is whether
  `signal.Notify` is in effect, and `mount` is the mount point in the kernel, which
  keeps its state from one process to the next. `user` and `again` are history: that
  somebody else unmounted, and that another signal came after the handler had read
  one. That `fuse.Unmount` failed is only logged in the code, and leaves no trace in
  the state but the mount.
* `Statistics`: a counter is the set of the operations it has counted. All system
  calls share one counter, since no operation meets two of those. A Read has any
  offset, also one past the end of the file, where `ReadAt` gives nothing and EOF.
  `ReleaseFile` may fail to close the file. `before` is history: what had been counted
  when a client called `Clear`.

## Runs

| Run | Result | Question |
|---|---|---|
| `content` | pass | Are contents safe from interleaved fetches, failures and kills? Does the cache implement `ContentStore`? Does every fetch end? |
| `metadata` | pass | Do rows and listings stay consistent, and do updates leave each other alone, under interleaved statements, failures, kills and changes of the regular expression? |
| `metadata_affinity` | violation | Is a link target read back as it was stored? |
| `sqlite_exec` | pass | Are updates applied exactly once, and do they return? |
| `sqlite_scan` | violation | Do queries return after contention? |
| `fs_immutable` | pass | Are answers right, whatever was cached, forgotten, interrupted or failed, or lost with the database? |
| `fs_direct` | pass | Are answers on paths accessed directly current, while files and directories change under the copy, and nodes of one path store and read back in turns? Are inode numbers permanent? |
| `fs_cached` | pass | Do the handlers implement `ReadThrough`, if the kernel forgets nothing? Is what was cached available offline, and never fetched again? |
| `fs_relookup` | violation | Is what was cached available offline, with a kernel that forgets nodes? |
| `daemon` | pass | Do processes end, with the right status and without a mount point left by the signal that was caught, in every order of signals, unmounts and failures? |
| `daemon_unmount` | violation | Does a process end whenever it is unmounted? |
| `stats` | pass | Are the counters and the data of Reads right while others clear and show the counters? |

Violations are disagreements between the code and what its documentation or tests
say:

1. `fs_relookup`: the fast path of `Lookup` (`dir.go:68`) makes the node from the
   row it read at the first lookup. The attributes, digest and listing stored
   since are in the database but not in that row, so the new node asks the
   remote system, and fails offline.
2. `metadata_affinity`: columns declared `STRING` have NUMERIC affinity; a link
   target such as `1.10` comes back as `1.1`. (So would the one digest in some
   millions that is all decimal digits.)
3. `sqlite_scan`: `Scan` is retried on the same `sql.Row`, which keeps the error
   of its only query. After `ErrBusy` it never returns, and the lock of the node
   is never released.
4. `daemon_unmount`: `unmountOnSignal` passes the signal on before it resets the
   signal's disposition (`root.go:239-240`). If the user unmounts the file system
   in between, `Loop` sends the signal to a channel that nobody reads any more
   and sleeps for ever. `UnmountedEnds`, which holds, says that this is the only
   way for an unmounted process to stay.

Also met while modelling, without a run of their own:

* In a directory accessed directly, `Lookup` falls back on the cached row on any
  error of `Lstat`, also when it says that there is no file (`dir.go:95`): a file
  that was removed is still found. `DirectIsFresh` states that case as its exception.
* Two nodes of one directory accessed directly may reply with what the other has
  stored in between (`dir.go:89` and `111`, `185` and `204`), and `Open` of a file that is
  being rewritten yields a mixture. `DirectIsFresh` says that nothing staler is replied.
* A signal that was read and not yet passed on (`root.go:239`) is lost if the file system
  is unmounted by its user at that moment: the process reports success.
* `putNewOrUpdate` runs `UPDATE` and then `INSERT` without a transaction
  (`metadata.go:294`): a second lookup of the same new name through another node
  makes the `INSERT`, and the lookup, fail. `putNewOrUpdateInsert` has both outcomes.
* `NewCache` removes the database on any error, a momentary lock by another process
  on the same cache included (`cache.go:39`), as initialisation is not retried.
* A process that fails after mounting (`root.go:283`, `main.go:64`), is signalled
  before the handler is installed, or once more after the handler has reset the
  signals and before or after an unmount that fails, leaves a dead mount point:
  `CleanExit` names these cases and excludes all others.
* Bytes read together with EOF are not counted (`syscalls.go:67`), although
  `GetReadStats` speaks of "the total amount of data read". `Lookup`'s fast path
  increases no counter (`dir.go:68`).

### Bounds

* Content: two threads, two files (one that does not change, one that may be
  rewritten while it is read), contents of up to two chunks, two buckets. Two
  threads make every race on a key, a bucket or a name; two chunks make a copy
  that is neither empty nor complete.
* Metadata: a root with two entries, two clients, the types file and `other`
  (which `sqlTypeName` refuses), attributes, digests and targets for one of the
  entries (`Updated`), and the root accessed directly or not (`Directs`). Two
  clients race for one path, two entries make a listing that is stored in part.
* SQLite: three writers, one reader, `MaxLocks` = 2 locks by a foreign process.
* File system: two or three paths and as many nodes, so that with a kernel that
  forgets two nodes of one path can exist. `fs_immutable` has a tree of two
  levels in which the upper entry may be anything and the lower one a link or missing
  (`MCAnyDeepTree`), so that two nodes of a directory race for an entry, with every kind
  of failure. `fs_direct` has a directory with a file that is edited or removed
  (`MCDeepTree`), both accessed directly, of which the kernel reads the directory, looks
  up and opens the file; attributes and links of direct paths are left to the
  theorem. A file has two contents and a third that is neither of them, for copies of
  a file that changes. `fs_cached` has an entry that may become anything (`MCAnyTree`)
  and `fs_relookup` a file (`MCFlatTree`). `Requests` bounds what the kernel asks for
  besides lookups, `MaxCalls` = 2 how many calls go to the remote system at
  a time: two are needed for every race between a put and a reload. Nodes other than the root's
  are interchangeable (`MCSymmetry`), and so are the two contents of the file in
  `fs_direct` (`MCDeepSymmetry`). A lookup waits while
  all node objects are in use. `Forgets` and `LocalErrors` switch kernel
  forgetting and failures of local calls. `ImplementsReadThrough` is checked without
  local failures: a listing that was stored but could not be read back is
  fetched, and stored, again. So is `DirectIsFresh`: a fetch that fails locally
  falls back on the cached content. `NewCacheFails` needs `LocalErrors`, as it
  is such a failure.
* Daemon: two signals, so that a second one finds the channel full or the
  disposition reset; any number of starts, signals and unmounts.
* Statistics: two Reads of a file of one byte, up to its end, across it and past
  it, and two HTTP clients, so that one can clear while the other loads.

### Fairness

`content` assumes that a thread inside `PutContents` takes its next step:
goroutines are scheduled and system calls return. Nothing forces a fetch to begin,
and a kill ends it. `sqlite_exec` and `sqlite_scan` assume the same of the callers,
that sleeping ends, and that a foreign process that takes the lock releases it.
`daemon` and `daemon_unmount` assume that the main goroutine and the signal handler
take their next step, since the runtime schedules them and `fuse.Unmount` returns;
the HTTP server may be slow for ever, and nobody has to send a signal, to unmount or
to start the program. No strong fairness is assumed.

## Proofs

Proved by TLAPS for every value of the constants that satisfies the assumptions
in the modules:

* `ContentCacheProofs`: `TypeCorrect`, `ContentIntegrity`, `ContentDurability`,
  `PublicationIsFinal`, `NoTempLeak` and `Refinement` (every step of
  `ContentCache` is a step of `ContentStore` or changes nothing there). The
  assumptions are the types of the constants and that MD5 has no collisions. The
  guard of `TempFile` is one more: `ioutil.TempFile` does not draw a name again while a
  fetch that drew it before is still running. The code relies on it, as its deferred
  `Remove` is by name, and its generator makes it true for all practical purposes.
  None of these is inductive alone: a thread publishes whatever is in its
  temporary file, so the inductive invariant says that this is what it hashed,
  that it is the complete file by the time that the key is checked (for a file
  that does not change), that threads own different temporary files, and that a
  result about to be returned is a published key.
* `MetadataCacheProofs`: `TypeCorrect`, `ListingsResolve`, `RowsNeverLost`, `OneRowPerStatement`, `ListingsWhole`. The invariant adds to
  the properties that all ROWIDs are at most `last`, that the entries a running
  `PutDirEntries` has already formatted have rows with those inode numbers, and
  that it visits only entries of the listing it was called with.
* `SqliteRetryProofs`: `TypeCorrect` and `UpdatesAreCounted`.
* `DaemonProofs`: `TypeCorrect`, `CleanExits`, `SignalledExits`, for any set of
  signals. The invariant relates the goroutines: once the serving loop has ended
  there is no mount; the handler exists only after the mount; it holds the signal that
  it has read until it passes it on, before all else; and signals go to its channel
  exactly from `Notify` to `Reset`.
* `StatisticsProofs`: `TypeCorrect`, `HitsBacked`, `ShortReads`, `PagesCleared`, for any number of Reads and clients and any length, offset and
  size. `ClearedPage` needs that no operation is counted twice by one counter, so
  that what `Clear` has removed cannot come back, and that a client whose `Clear`
  has passed a counter finds nothing there that was counted before.
* `SourcacheFSProofs`: `SpecTypeOK` and `SpecInodesAgree` without further hypotheses,
  `SpecHashesResolve` and `SpecServedIsRemote` if SQLite gives every text back as it
  was stored (`FaithfulText`), `SpecDirectIsFresh` if no local call fails
  (`~LocalErrors`).
* `ReadThroughProofs`: `SpecMissesAreNew`, `SpecOfflineAvailable` and
  `SpecImplementsReadThrough`, if moreover the kernel forgets no node and no local call
  fails (`Reliable`).

### The composition

`SourcacheFS` is proved about for any tree of finitely many paths, any number of nodes, any
choice of directly accessed paths, any set of states that a remote path may be in and
any set of mutable paths without children. The proofs are in three layers.

1. `IInv` is the inductive invariant of types and inode numbers. `InodesAgree` says
   that a node, the listing of its directory and the table name the same inode number. To
   stay true it needs that the rows that a directory *remembers* also agree with the
   table (`NodeAgrees`), that the rows of the table have different ROWIDs, all at most
   `last` (`TableInv`), that a call waiting for the remote system belongs to a live node
   and is about its path or one of its children (`CallsInv`), and that a lookup that found
   or stored a row, and a directory that stored a listing, will find it afterwards
   (`KnownInv`).
2. `Shape` is a normal form of a handler's step. Every row of the table stays as it is, is
   inserted with a type that a directory has just learnt, gets such a type, or gets one
   column from the call that ends or goes on locally (`RowStep`). Every node stays, loads a
   column, remembers a row, comes to life or is forgotten (`NodeStep`); every call stays,
   begins, hears more, stores its answer, is told what another one stored, or ends
   (`CallStep`); and the reply comes from a node, from a row, from the call
   that ends, or is an error (`ReplyStep`). `NextShape` shows once, action by
   action, that every step preserves `IInv` and is a `Shape`, a change of the remote system
   (`EnvShape`) or the start of a process, on the table or on an empty one. All later
   invariants are shown to be preserved by these forms, so that no later proof mentions a
   handler.
3. On top of it, each property has its own invariant:
   `HashInv` (digests in rows, nodes, remembered rows and opens that go on locally are
   published; a kill between publication and `PutContentHash` leaves no digest),
   `TrueInv` (everything cached, loaded, remembered or under way is what the remote
   system holds, or an error), `FreshInv` (what a direct call has got, and what the table
   will give it back in place of that, is put together from what it has seen, or it has
   seen a failure; this survives the put of another node because that is seen, too),
   `CacheInv` (a path has one node, which has loaded what the table has, but for a
   listing that it is about to read back; a remembered entry has the type in the table
   and a node; nobody asks for what the table has; and a lookup finds the type that it
   has stored), and `OtherInv`. The refinement then needs two facts of a step:
   what is stored of a cached path stays as it is, and a reply is what is stored after
   the step.

The hypotheses are those under which the properties are checked by TLC, and each is
needed:

* `FaithfulText`: `metadata_affinity` shows what happens otherwise. A digest that looks
  like a number would name no content, and a target would not be the remote one.
* `~LocalErrors`, for `DirectIsFresh`: `Open` falls back on the cached digest when the content that it
  has just read cannot be stored. For the others: a listing that was stored but
  cannot be read back is fetched again.
* `~Forgets`: `fs_relookup` is the counterexample to `OfflineAvailable`.
* `Storable`, for `OfflineAvailable`: an entry of a directly accessed directory, that
  is itself cached, may turn into something that `sqlTypeName` refuses, a device for
  instance; `Lookup` then fails although the table has a row for the path. TLC checks
  the case without directly accessed paths (`fs_cached`), in which `Storable` always holds.

The assumptions on constants (`TableAssumption`, `FSAssumption`, `ValueAssumption`) are
the types of the constants, that the root is a directory and that mutable paths have no
entries, and that the values standing for nothing, for a missing file or for an error
(`Nil`, `NoRow`, `NoNode`, `Missing`, `Err`, `BadRead`) are not data. In the code these are
nil pointers and `error` results, which no data is equal to.

### What is only model-checked

The liveness properties (`PutTerminates`, `ExecReturns`, `CaughtEnds`, `UnmountedEnds`),
which need fairness and are out of reach of the prover, and the
counterexamples of the four violation runs. Every invariant and every other action
property of a passing run has a theorem. The theorems are about the specification as it is:
that it translates the code is a matter of reading both.

## Not modelled

* Torn SQLite writes: the schema turns the journal and synchronous writes off, so
  a kill in the middle of a statement can corrupt the database. Statements are
  indivisible here. A power failure could also lose content that was renamed
  without `fsync`.
* The HTML of the status pages and the parsing of flags: output and straight-line
  code. `RetryQuery`, which nothing calls. The wrappers of system calls that count
  one call and pass it on appear as the calls that they make.
* Two processes on one cache directory, except that one may find the database
  locked by the other.
* Remote symbolic links that lead to files of the same tree, and remote directories
  that are replaced while they have entries.

## Plan

Done: content cache, metadata cache, retries, nodes, opening the cache, the process
and its signals, statistics and open files, with proofs of every safety property that a
run checks. Next:

1. Weaker hypotheses for the theorems about the cache: what `MissesAreNew` and the
   refinement still say with local failures or a kernel that forgets.
2. `UnmountedEnds` and `PutTerminates` rest on safety facts (who can still
   wake whom) that can be proved although the liveness itself cannot.
