---------------------------- MODULE ContentStore ----------------------------
(***************************************************************************)
(* What the content cache promises to the file system layer.               *)
(*                                                                         *)
(* The cache is a set of whole contents that only ever grows.  A content   *)
(* appears in it in one indivisible step, and the key that a fetch hands   *)
(* to its caller names a content that is already there.  For a remote file *)
(* that does not change, that content is the content of the file.          *)
(*                                                                         *)
(* ContentCache.tla shows that the steps of internal/cache/content.go      *)
(* implement this, whatever the interleaving of fetches and wherever the   *)
(* process is killed.                                                      *)
(***************************************************************************)

CONSTANTS
    File,      \* files of the remote file system
    Content,   \* possible file contents
    Key,       \* digests
    MD5,       \* MD5[c] is the digest of the content c
    Remote,    \* Remote[f] is the content of an immutable remote file f
    Mutable    \* the remote files that may change while they are read

VARIABLES
    contents,  \* the contents that are in the cache
    acked      \* the <<file, key>> pairs handed to callers

vars == <<contents, acked>>

Init ==
    /\ contents = {}
    /\ acked = {}

\* A fetched content becomes visible under its key, all of it at once.
Publish(c) ==
    /\ contents' = contents \union {c}
    /\ UNCHANGED acked

\* A fetch of f returns the key of a content that is in the cache.
Acknowledge(f, c) ==
    /\ c \in contents
    /\ f \notin Mutable => c = Remote[f]
    /\ acked' = acked \union {<<f, MD5[c]>>}
    /\ UNCHANGED contents

Next ==
    \/ \E c \in Content : Publish(c)
    \/ \E f \in File, c \in Content : Acknowledge(f, c)

Spec == Init /\ [][Next]_vars

=============================================================================
