----------------------------- MODULE Statistics -----------------------------
(***************************************************************************)
(* The counters of internal/stats/stats.go, the handlers of an open file   *)
(* (Read and Release of internal/fs/file.go, through the traced reader of  *)
(* internal/real/syscalls.go) that increase them, and the pages of         *)
(* status.go that clear and show them, all at the same time.               *)
(*                                                                         *)
(* A counter is modelled by the set of the operations it has counted: its  *)
(* value is their number, or for "bytes" the sum of what they read.  Each  *)
(* addition, load and store is atomic; nothing else is.  The counters of   *)
(* the system calls are taken together, as no operation meets two of them; *)
(* the other FUSE operations are counted like Read.  The file is one of    *)
(* the content cache, which does not change, but the kernel may ask for    *)
(* any part of it, before or after its end: it goes by the attributes,     *)
(* which may be those of another version of the file.                      *)
(***************************************************************************)
EXTENDS Integers, Sequences

CONSTANTS
    Request,  \* Read requests of the kernel on one open file
    Release,  \* its Release request
    Session,  \* HTTP clients
    Length,   \* the length of the file
    Range     \* bound: the offsets and sizes of Reads

ASSUME StatisticsAssumption ==
    /\ Release \notin Request
    /\ Length \in Nat
    /\ Range \subseteq [offset : Nat, size : Nat]

VARIABLES
    pc,       \* where each Read is
    req,      \* its offset and size
    resp,     \* how much it has read, and the error
    reader,   \* the open file; failed: its Close has failed, and it is kept
    counted,  \* the counters
    http,     \* what each HTTP client has asked for
    cleared,  \* how many counters its Clear has reset
    loaded,   \* how many counters its page has loaded
    before    \* history: the counters when its Clear was called

fileVars == <<pc, req, resp, reader>>
httpVars == <<http, cleared, loaded, before>>
vars == <<fileVars, counted, httpVars>>

\* Clear resets allOsOps, then allDomains, then allFuseOps; a page loads them in
\* that order, too.
Order == <<"os", "bytes", "fuse">>

Counter == {Order[i] : i \in 1 .. Len(Order)}

Zero == [k \in Counter |-> {}]

\* What the counters count: Release has a system call, and nothing else.
Counts ==
    {f \in [Counter -> SUBSET (Request \union {Release})] :
        Release \notin f["bytes"] \union f["fuse"]}

Account(k, r) == counted' = [counted EXCEPT ![k] = @ \union {r}]

TypeOK ==
    /\ pc \in [Request -> {"idle", "hit", "read", "bytes", "done", "failed"}]
    /\ req \in [Request -> Range]
    /\ resp \in [Request -> [n : Nat, err : {"nil", "EOF", "error"}]]
    /\ reader \in {"open", "closed", "failed"}
    /\ counted \in Counts
    /\ http \in [Session -> {"idle", "clear", "summary"}]
    /\ cleared \in [Session -> 0 .. Len(Order)]
    /\ loaded \in [Session -> 0 .. Len(Order)]
    /\ before \in [Session -> Counts]

\* NewStats, and a file that has just been opened.
Init ==
    /\ pc = [r \in Request |-> "idle"]
    /\ req \in [Request -> Range]
    /\ resp = [r \in Request |-> [n |-> 0, err |-> "nil"]]
    /\ reader = "open"
    /\ counted = Zero
    /\ http = [s \in Session |-> "idle"]
    /\ cleared = [s \in Session |-> 0]
    /\ loaded = [s \in Session |-> 0]
    /\ before = [s \in Session |-> Zero]
-----------------------------------------------------------------------------
\* Read: AccountCacheHit, for a direct file too.
Read(r) ==
    /\ pc[r] = "idle"
    /\ reader = "open"
    /\ pc' = [pc EXCEPT ![r] = "hit"]
    /\ Account("fuse", r)
    /\ UNCHANGED <<req, resp, reader, httpVars>>

\* tracedReader.ReadAt: AccountOsOp.
AccountRead(r) ==
    /\ pc[r] = "hit"
    /\ pc' = [pc EXCEPT ![r] = "read"]
    /\ Account("os", r)
    /\ UNCHANGED <<req, resp, reader, httpVars>>

\* How much there is to read from offset on.
Available(offset) == IF offset <= Length THEN Length - offset ELSE 0

\* os.File.ReadAt without an error: all that was asked for, or less and EOF.
FileReadAt(offset, size) ==
    IF size <= Available(offset)
    THEN [n |-> size, err |-> "nil"]
    ELSE [n |-> Available(offset), err |-> "EOF"]

\* tracedReader.ReadAt: the call of os.File.ReadAt, which may also return any part
\* and an error.
ReadAt(r) ==
    /\ pc[r] = "read"
    /\ pc' = [pc EXCEPT ![r] = "bytes"]
    /\ \/ resp' = [resp EXCEPT ![r] = FileReadAt(req[r].offset, req[r].size)]
       \/ \E n \in 0 .. req[r].size - 1 :
             /\ n <= Available(req[r].offset)
             /\ resp' = [resp EXCEPT ![r] = [n |-> n, err |-> "error"]]
    /\ UNCHANGED <<req, reader, counted, httpVars>>

\* Every error is taken for the end of the file.
AnyErrorIsEOF(err) == "done"

\* Read: EOF is not an error to the kernel.
Outcome(err) == IF err = "error" THEN "failed" ELSE "done"

\* tracedReader.ReadAt: what is read together with EOF is not counted.
CountsBytes(r) == resp[r].err = "nil" /\ resp[r].n > 0

\* The rest of tracedReader.ReadAt and of Read.
ReadReturns(r) ==
    /\ pc[r] = "bytes"
    /\ pc' = [pc EXCEPT ![r] = Outcome(resp[r].err)]
    /\ IF CountsBytes(r) THEN Account("bytes", r) ELSE UNCHANGED counted
    /\ UNCHANGED <<req, resp, reader, httpVars>>

\* Release counts as another Read served from the cache.
ReleaseHits ==
    /\ reader = "open"
    /\ \A r \in Request : pc[r] \in {"idle", "done", "failed"}
    /\ Account("fuse", Release)
    /\ reader' = "closed"
    /\ UNCHANGED <<pc, req, resp, httpVars>>

\* Release: AccountOsOp and Close; the reader is kept if that fails.  The kernel
\* sends Release once for a handle, after all Reads, and does not use the handle
\* again whatever it returns: the branch for a reader that is nil is not reached.
ReleaseFile ==
    /\ reader = "open"
    /\ \A r \in Request : pc[r] \in {"idle", "done", "failed"}
    /\ Account("os", Release)
    /\ reader' \in {"closed", "failed"}
    /\ UNCHANGED <<pc, req, resp, httpVars>>
-----------------------------------------------------------------------------
\* The page /stats/clear: Clear is called.
Clear(s) ==
    /\ http[s] = "idle"
    /\ http' = [http EXCEPT ![s] = "clear"]
    /\ before' = [before EXCEPT ![s] = counted]
    /\ UNCHANGED <<fileVars, counted, cleared, loaded>>

\* Clear: one store; the counters of FUSE operations come first.
ClearFuseFirst(s) ==
    /\ http[s] = "clear"
    /\ cleared[s] < Len(Order)
    /\ cleared' = [cleared EXCEPT ![s] = @ + 1]
    /\ counted' = [counted EXCEPT ![Order[Len(Order) - cleared[s]]] = {}]
    /\ UNCHANGED <<fileVars, http, loaded, before>>

\* Clear: the number of bytes is forgotten.
ClearButBytes(s) ==
    /\ http[s] = "clear"
    /\ cleared[s] < Len(Order)
    /\ cleared' = [cleared EXCEPT ![s] = @ + 1]
    /\ LET k == Order[cleared[s] + 1]
       IN  counted' = [counted EXCEPT ![k] = IF k = "bytes" THEN @ ELSE {}]
    /\ UNCHANGED <<fileVars, http, loaded, before>>

\* Clear: one store.
ClearStore(s) ==
    /\ http[s] = "clear"
    /\ cleared[s] < Len(Order)
    /\ cleared' = [cleared EXCEPT ![s] = @ + 1]
    /\ counted' = [counted EXCEPT ![Order[cleared[s] + 1]] = {}]
    /\ UNCHANGED <<fileVars, http, loaded, before>>

\* /stats/clear redirects to /stats/summary once Clear has returned.
Redirect(s) ==
    /\ http[s] = "clear"
    /\ cleared[s] = Len(Order)
    /\ http' = [http EXCEPT ![s] = "summary"]
    /\ cleared' = [cleared EXCEPT ![s] = 0]
    /\ UNCHANGED <<fileVars, counted, loaded, before>>

\* The page /stats/summary is asked for.
Summary(s) ==
    /\ http[s] = "idle"
    /\ http' = [http EXCEPT ![s] = "summary"]
    /\ UNCHANGED <<fileVars, counted, cleared, loaded, before>>

\* generateStatusPage calls GetOsOpStats, GetReadStats and GetFuseOpStats.
Load(s) ==
    /\ http[s] = "summary"
    /\ loaded[s] < Len(Order)
    /\ loaded' = [loaded EXCEPT ![s] = @ + 1]
    /\ UNCHANGED <<fileVars, counted, http, cleared, before>>

\* The page is sent.
Show(s) ==
    /\ http[s] = "summary"
    /\ loaded[s] = Len(Order)
    /\ http' = [http EXCEPT ![s] = "idle"]
    /\ loaded' = [loaded EXCEPT ![s] = 0]
    /\ before' = [before EXCEPT ![s] = Zero]
    /\ UNCHANGED <<fileVars, counted, cleared>>

Next ==
    \/ \E r \in Request :
          \/ Read(r) \/ AccountRead(r) \/ ReadAt(r) \/ ReadReturns(r)
    \/ ReleaseFile
    \/ \E s \in Session :
          \/ Clear(s) \/ ClearStore(s) \/ Redirect(s)
          \/ Summary(s) \/ Load(s) \/ Show(s)

Spec == Init /\ [][Next]_vars
-----------------------------------------------------------------------------
\* A client that has cleared the statistics is then shown nothing that was
\* counted before its Clear was called, although handlers go on counting and
\* others clear at the same time.
ClearedPage ==
    [][\A s \in Session : loaded'[s] > loaded[s] =>
          LET k == Order[loaded'[s]] IN counted[k] \intersect before[s][k] = {}]_vars

\* A Clear has reset the system calls, and not yet the FUSE operations.
HalfCleared == \E s \in Session : http[s] = "clear" /\ cleared[s] \in 1 .. 2

\* Outside of a Clear there are never more Reads counted than system calls that
\* read, except for those about to be counted: because Clear resets the
\* system calls first, Reads that overlap with it cannot make the cache look
\* better than it is.
HitsAreBacked ==
    ~HalfCleared => \A r \in counted["fuse"] : pc[r] = "hit" \/ r \in counted["os"]

\* The kernel takes less data than it has asked for as the end of the file: a
\* Read that succeeds returns less only if it gets there, at every offset (even
\* one that the file does not have) and size.
ShortOnlyAtEnd ==
    \A r \in Request : pc[r] = "done" /\ resp[r].n < req[r].size =>
        req[r].offset + resp[r].n >= Length

=============================================================================
