---------------------------- MODULE ContentCache ----------------------------
(***************************************************************************)
(* The content cache of internal/cache/content.go: a directory of files    *)
(* named after the digest of what they hold, filled by PutContents.        *)
(*                                                                         *)
(* Several FUSE handlers may run PutContents at once (File.Open only locks *)
(* its own node), so each system call that others can observe is a step of *)
(* its own.  Every call may fail, and the process may be killed anywhere.  *)
(*                                                                         *)
(* Abstractions.  A content is a sequence of at most MaxLen chunks, one    *)
(* per read of the copy loop.  A remote file outside Mutable always reads  *)
(* as Remote[f] (the README assumes "immutable slow file systems"); one in *)
(* Mutable may be rewritten while it is read, so each read of it returns   *)
(* an arbitrary chunk or end of file.  A kill of the process loses no      *)
(* write (a power failure could: the code never calls fsync; not covered). *)
(***************************************************************************)
EXTENDS Naturals, Sequences

CONSTANTS
    Thread,        \* handlers that call PutContents
    File,          \* files of the remote file system
    Mutable,       \* the remote files that may change while they are read
    Chunk,         \* what one read returns
    MaxLen,        \* bound on the number of chunks of a content
    Remote,        \* contents of the remote files
    Key,           \* digests in hexadecimal
    MD5,           \* digest of each content
    Bucket,        \* two-character directory names
    bucketForKey,  \* bucket of each key
    TempName,      \* names that ioutil.TempFile can produce
    NoFile,        \* nothing exists under that name
    Err            \* an error result

Content == UNION {[1..n -> Chunk] : n \in 0..MaxLen}

ASSUME ConstantsAssumption ==
    /\ MaxLen \in Nat
    /\ Mutable \subseteq File
    /\ Remote \in [File -> Content]
    /\ MD5 \in [Content -> Key]
    /\ bucketForKey \in [Key -> Bucket]
    /\ NoFile \notin Content \union File \union TempName
    /\ Err \notin Key \union Content

\* Digests are taken to be free of collisions, as the code does.
ASSUME MD5CollisionFree ==
    \A c, d \in Content : MD5[c] = MD5[d] => c = d

VARIABLES
    store,    \* store[k]: the file at pathForKey(k), or NoFile
    temps,    \* temps[n]: the temporary file n in the cache root, or NoFile
    buckets,  \* bucket directories that exist
    pc,       \* next step of each thread's PutContents
    file,     \* the remote file each thread is fetching
    name,     \* the temporary file each thread has created
    digest,   \* the chunks fed so far to each thread's hash
    ret,      \* the result each thread is about to return
    acked,    \* history: <<file, key>> pairs returned by PutContents
    orphans   \* history: temporary files left behind by a kill or an error

fsVars == <<store, temps, buckets>>
threadVars == <<pc, file, name, digest, ret>>
historyVars == <<acked, orphans>>
vars == <<fsVars, threadVars, historyVars>>

\* The steps during which a thread owns a temporary file.
OwnsTemp == {"copy", "haskey", "mkdir", "rename", "remove"}

TypeOK ==
    /\ store \in [Key -> Content \union {NoFile}]
    /\ temps \in [TempName -> Content \union {NoFile}]
    /\ buckets \subseteq Bucket
    /\ pc \in [Thread -> {"idle", "tempfile"} \union OwnsTemp]
    /\ file \in [Thread -> File \union {NoFile}]
    /\ name \in [Thread -> TempName \union {NoFile}]
    /\ digest \in [Thread -> Content]
    /\ ret \in [Thread -> Key \union {Err}]
    /\ acked \subseteq File \X Key
    /\ orphans \subseteq TempName

Init ==
    /\ store = [k \in Key |-> NoFile]
    /\ temps = [n \in TempName |-> NoFile]
    /\ buckets = {}
    /\ pc = [t \in Thread |-> "idle"]
    /\ file = [t \in Thread |-> NoFile]
    /\ name = [t \in Thread |-> NoFile]
    /\ digest = [t \in Thread |-> <<>>]
    /\ ret = [t \in Thread |-> Err]
    /\ acked = {}
    /\ orphans = {}
-----------------------------------------------------------------------------
\* Whether the cache holds a file for the key (Lstat of pathForKey).
HasKey(k) == store[k] # NoFile

\* The file whose path is returned for the key, or an error without one.
GetFileForContents(k) == IF HasKey(k) THEN store[k] ELSE Err

\* The key computed once everything has been copied.
KeyOf(t) == MD5[digest[t]]

\* Reading the remote file f at an offset: the chunks it may return.
ReadChunks(f, offset) ==
    IF f \in Mutable
    THEN {c \in Chunk : offset < MaxLen}
    ELSE {Remote[f][i] : i \in {offset + 1} \cap (1 .. Len(Remote[f]))}

\* Reading the remote file f at an offset may report end of file.
ReadsEOF(f, offset) == f \in Mutable \/ offset = Len(Remote[f])

\* PutContents gives up: the deferred calls run next and err is returned.
Fail(t) ==
    /\ pc' = [pc EXCEPT ![t] = "remove"]
    /\ ret' = [ret EXCEPT ![t] = Err]
-----------------------------------------------------------------------------
\* PutContents(path) opens the remote file.  (When Open fails it returns at
\* once and nothing has changed.)
OpenRemote(t, f) ==
    /\ pc[t] = "idle"
    /\ file' = [file EXCEPT ![t] = f]
    /\ pc' = [pc EXCEPT ![t] = "tempfile"]
    /\ UNCHANGED <<fsVars, name, digest, ret, historyVars>>

\* ioutil.TempFile creates the file exclusively under a name that does not
\* exist.  Its pseudo-random sequence does not come back to a name while a
\* fetch that drew it is still running: a deferred Remove by name relies on it.
TempFile(t) ==
    /\ pc[t] = "tempfile"
    /\ \/ \E n \in TempName :
             /\ temps[n] = NoFile
             /\ \A u \in Thread : pc[u] \in OwnsTemp => name[u] # n
             /\ temps' = [temps EXCEPT ![n] = <<>>]
             /\ name' = [name EXCEPT ![t] = n]
             /\ pc' = [pc EXCEPT ![t] = "copy"]
             /\ UNCHANGED file
       \/ /\ pc' = [pc EXCEPT ![t] = "idle"]
          /\ file' = [file EXCEPT ![t] = NoFile]
          /\ UNCHANGED <<temps, name>>
    /\ UNCHANGED <<store, buckets, digest, ret, historyVars>>

\* One turn of the loop of copy2: read a chunk, write it, then hash it.
CopyChunk(t) ==
    /\ pc[t] = "copy"
    /\ \E c \in ReadChunks(file[t], Len(digest[t])) :
          /\ temps' = [temps EXCEPT ![name[t]] = Append(@, c)]
          /\ digest' = [digest EXCEPT ![t] = Append(@, c)]
    /\ UNCHANGED <<store, buckets, pc, file, name, ret, historyVars>>

\* copy2 reaches the end of the remote file; both files are closed.
CopyEOF(t) ==
    /\ pc[t] = "copy"
    /\ ReadsEOF(file[t], Len(digest[t]))
    /\ pc' = [pc EXCEPT ![t] = "haskey"]
    /\ UNCHANGED <<fsVars, file, name, digest, ret, historyVars>>

\* A read error is taken for the end of the file.
CopyErrAsEOF(t) ==
    /\ pc[t] = "copy"
    /\ pc' = [pc EXCEPT ![t] = "haskey"]
    /\ UNCHANGED <<fsVars, file, name, digest, ret, historyVars>>

\* A chunk that was not written still reaches the hash, and the loop goes on.
CopyErrIgnored(t) ==
    /\ pc[t] = "copy"
    /\ \E c \in ReadChunks(file[t], Len(digest[t])) :
          digest' = [digest EXCEPT ![t] = Append(@, c)]
    /\ UNCHANGED <<fsVars, pc, file, name, ret, historyVars>>

\* copy2 fails: on a read error, or on a failed or short write, which may
\* leave part of the chunk in the temporary file but not in the hash.
CopyErr(t) ==
    /\ pc[t] = "copy"
    /\ \/ UNCHANGED temps
       \/ \E c \in ReadChunks(file[t], Len(digest[t])) :
             temps' = [temps EXCEPT ![name[t]] = Append(@, c)]
    /\ Fail(t)
    /\ UNCHANGED <<store, buckets, file, name, digest, historyVars>>

\* When the key is found, PutContents returns without its deferred calls.
CheckKeySkipsRemove(t) ==
    /\ pc[t] = "haskey"
    /\ IF HasKey(KeyOf(t))
       THEN /\ pc' = [pc EXCEPT ![t] = "idle"]
            /\ acked' = acked \union {<<file[t], KeyOf(t)>>}
       ELSE /\ pc' = [pc EXCEPT ![t] = "mkdir"]
            /\ UNCHANGED acked
    /\ UNCHANGED <<fsVars, file, name, digest, ret, orphans>>

\* A failed lookup of the key counts as finding it.
CheckKeyErrAsFound(t) ==
    /\ pc[t] = "haskey"
    /\ \/ /\ ret' = [ret EXCEPT ![t] = KeyOf(t)]
          /\ pc' = [pc EXCEPT ![t] = "remove"]
       \/ /\ ~HasKey(KeyOf(t))
          /\ pc' = [pc EXCEPT ![t] = "mkdir"]
          /\ UNCHANGED ret
    /\ UNCHANGED <<fsVars, file, name, digest, historyVars>>

\* The key is looked up before publishing: if it is there, there is nothing
\* more to do.
CheckKey(t) ==
    /\ pc[t] = "haskey"
    /\ \/ /\ HasKey(KeyOf(t))
          /\ ret' = [ret EXCEPT ![t] = KeyOf(t)]
          /\ pc' = [pc EXCEPT ![t] = "remove"]
       \/ /\ ~HasKey(KeyOf(t))
          /\ pc' = [pc EXCEPT ![t] = "mkdir"]
          /\ UNCHANGED ret
       \/ Fail(t)
    /\ UNCHANGED <<fsVars, file, name, digest, historyVars>>

\* The directory is named after the whole key.
MkdirWholeKey(t) ==
    /\ pc[t] = "mkdir"
    /\ buckets' = buckets \union {KeyOf(t)}
    /\ pc' = [pc EXCEPT ![t] = "rename"]
    /\ UNCHANGED <<store, temps, file, name, digest, ret, historyVars>>

\* A bucket created by somebody else in the meantime makes Mkdir retry.
MkdirRetriesOnExist(t) ==
    /\ pc[t] = "mkdir"
    /\ IF bucketForKey[KeyOf(t)] \in buckets
       THEN UNCHANGED <<pc, buckets>>
       ELSE /\ buckets' = buckets \union {bucketForKey[KeyOf(t)]}
            /\ pc' = [pc EXCEPT ![t] = "rename"]
    /\ UNCHANGED <<store, temps, file, name, digest, ret, historyVars>>

\* The bucket directory is created; that it exists already is no error.
Mkdir(t) ==
    /\ pc[t] = "mkdir"
    /\ \/ /\ buckets' = buckets \union {bucketForKey[KeyOf(t)]}
          /\ pc' = [pc EXCEPT ![t] = "rename"]
          /\ UNCHANGED ret
       \/ /\ Fail(t)
          /\ UNCHANGED buckets
    /\ UNCHANGED <<store, temps, file, name, digest, historyVars>>

\* The temporary file becomes the file of the key.  The rename replaces a
\* file published by somebody else since CheckKey.
Rename(t) ==
    /\ pc[t] = "rename"
    /\ \/ /\ bucketForKey[KeyOf(t)] \in buckets
          /\ temps[name[t]] # NoFile
          /\ store' = [store EXCEPT ![KeyOf(t)] = temps[name[t]]]
          /\ temps' = [temps EXCEPT ![name[t]] = NoFile]
          /\ ret' = [ret EXCEPT ![t] = KeyOf(t)]
          /\ pc' = [pc EXCEPT ![t] = "remove"]
       \/ /\ Fail(t)
          /\ UNCHANGED <<store, temps>>
    /\ UNCHANGED <<buckets, file, name, digest, historyVars>>

\* PutContents hands its result to the caller, and its locals are gone.
Return(t) ==
    /\ pc' = [pc EXCEPT ![t] = "idle"]
    /\ file' = [file EXCEPT ![t] = NoFile]
    /\ name' = [name EXCEPT ![t] = NoFile]
    /\ digest' = [digest EXCEPT ![t] = <<>>]
    /\ ret' = [ret EXCEPT ![t] = Err]
    /\ acked' = IF ret[t] = Err THEN acked
                ELSE acked \union {<<file[t], ret[t]>>}

\* The deferred Remove of an error path takes the published file with it.
RemovePublished(t) ==
    /\ pc[t] = "remove"
    /\ temps' = [temps EXCEPT ![name[t]] = NoFile]
    /\ store' = IF ret[t] = Err THEN [store EXCEPT ![KeyOf(t)] = NoFile] ELSE store
    /\ Return(t)
    /\ UNCHANGED <<buckets, orphans>>

\* The deferred Remove of the temporary name, whose error is ignored (after
\* a rename there is nothing left to remove), then the return.
Remove(t) ==
    /\ pc[t] = "remove"
    /\ \/ /\ temps' = [temps EXCEPT ![name[t]] = NoFile]
          /\ UNCHANGED orphans
       \/ /\ temps[name[t]] # NoFile
          /\ orphans' = orphans \union {name[t]}
          /\ UNCHANGED temps
    /\ Return(t)
    /\ UNCHANGED <<store, buckets>>

\* The process is killed and started again: the files stay as they are, and
\* nothing ever removes the temporary files of the fetches it was running.
Crash ==
    /\ pc' = [t \in Thread |-> "idle"]
    /\ file' = [t \in Thread |-> NoFile]
    /\ name' = [t \in Thread |-> NoFile]
    /\ digest' = [t \in Thread |-> <<>>]
    /\ ret' = [t \in Thread |-> Err]
    /\ orphans' = {n \in TempName : temps[n] # NoFile}
    /\ UNCHANGED <<fsVars, acked>>

Step(t) ==
    \/ TempFile(t)
    \/ CopyChunk(t)
    \/ CopyEOF(t)
    \/ CopyErr(t)
    \/ CheckKey(t)
    \/ Mkdir(t)
    \/ Rename(t)
    \/ Remove(t)

Next ==
    \/ \E t \in Thread, f \in File : OpenRemote(t, f)
    \/ \E t \in Thread : Step(t)
    \/ Crash

Spec == Init /\ [][Next]_vars

\* Goroutines are scheduled and system calls return, so a fetch that can take
\* a step takes one.  Nothing forces a new fetch or a crash.
FairSpec == Spec /\ \A t \in Thread : WF_vars(Step(t))
-----------------------------------------------------------------------------
\* Every file published in the cache holds exactly the content its name is the
\* digest of: no partial, torn or failed copy is ever visible under a key
\* (content.go: copy2 error handling and Rename as the only publication).
KeyMatchesContent ==
    \A k \in Key : HasKey(k) => MD5[store[k]] = k

\* A key that PutContents has returned can be retrieved for ever, also after
\* the process was killed, and for an immutable remote file it retrieves what
\* the remote holds (PutContents and GetFileForContents).
AckedRetrievable ==
    \A a \in acked :
        /\ GetFileForContents(a[2]) \in Content
        /\ a[1] \notin Mutable => GetFileForContents(a[2]) = Remote[a[1]]

\* No temporary file is forgotten: each one belongs to a running fetch, unless
\* a kill or a failed Remove left it behind (deferred Remove in PutContents).
TempsAccountedFor ==
    \A n \in TempName :
        temps[n] # NoFile =>
            \/ n \in orphans
            \/ \E t \in Thread : pc[t] \in OwnsTemp /\ name[t] = n

\* A published file is never removed and never changes, even when two fetches
\* of the same content race between CheckKey and Rename: a handle opened on it
\* keeps reading the same bytes.
PublishedIsFinal ==
    [][\A k \in Key : HasKey(k) => store'[k] = store[k]]_store

\* Every PutContents that starts eventually returns, or the process dies.
PutTerminates ==
    \A t \in Thread : pc[t] # "idle" ~> pc[t] = "idle"

\* The refinement mapping: only what is published under a key counts.
Published == {store[k] : k \in {j \in Key : HasKey(j)}}

Abstract == INSTANCE ContentStore WITH contents <- Published

\* The content cache implements the abstract content store: contents appear
\* whole and at once, none is lost, and only available keys are returned.
ImplementsContentStore == Abstract!Spec

=============================================================================
