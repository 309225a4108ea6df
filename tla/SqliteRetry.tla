---------------------------- MODULE SqliteRetry ----------------------------
(***************************************************************************)
(* internal/cache/sqlite.go: statements that are retried while the         *)
(* database is locked.  Callers run one statement each: an UPDATE that     *)
(* adds one to a counter, with RetryExec, or a SELECT of the counter, with *)
(* RetryQueryRow and Scan.  A foreign process may lock the database too.   *)
(*                                                                         *)
(* The database is external.  It has one lock; a statement that finds it   *)
(* taken fails with ErrBusy once the busy timeout of the driver is over.   *)
(* An sql.Row runs its query once: what the first Scan got, every further  *)
(* Scan gets.  The delays are left out; that sleeping ends is fairness.    *)
(***************************************************************************)
EXTENDS Naturals, FiniteSets

CONSTANTS
    Writer,    \* callers of RetryExec
    Reader,    \* callers of RetryQueryRow and Scan
    Foreign,   \* the foreign process
    Free,      \* nobody, as the holder of the lock
    MaxLocks   \* bound: how often the foreign process takes the lock

ASSUME CallersAssumption ==
    /\ Writer \cap Reader = {}
    /\ {Foreign, Free} \cap (Writer \union Reader) = {}
    /\ Foreign # Free
    /\ MaxLocks \in Nat
    /\ IsFiniteSet(Writer)

VARIABLES
    lock,      \* the holder of the lock of the database
    locks,     \* how often the foreign process has taken it
    value,     \* the counter in the database
    pc,        \* where each caller is
    row,       \* the outcome of the query of a reader, once it has run
    result     \* what each caller got

vars == <<lock, locks, value, pc, row, result>>

Caller == Writer \union Reader

Outcome == {"none", "ok", "busy", "error"}

\* Types.  In particular no caller gets ErrBusy as its result.
TypeOK ==
    /\ lock \in Writer \union {Foreign, Free}
    /\ locks \in 0 .. MaxLocks
    /\ value \in Nat
    /\ pc \in [Caller -> {"try", "running", "sleep", "done"}]
    /\ row \in [Reader -> Outcome]
    /\ result \in [Caller -> {"none", "ok", "error"}]

Init ==
    /\ lock = Free
    /\ locks = 0
    /\ value = 0
    /\ pc = [c \in Caller |-> "try"]
    /\ row = [c \in Reader |-> "none"]
    /\ result = [c \in Caller |-> "none"]
-----------------------------------------------------------------------------
Return(c, r) ==
    /\ pc' = [pc EXCEPT ![c] = "done"]
    /\ result' = [result EXCEPT ![c] = r]

\* The caller gets nil for ErrBusy, and does not try again.
waitOrErrReturns(c, outcome) ==
    Return(c, IF outcome = "busy" THEN "ok" ELSE outcome)

\* Contention is an error like any other.
waitOrErrGivesUp(c, outcome) == Return(c, outcome)

\* waitOrErr: sleep on ErrBusy, give any other error to the caller.
waitOrErr(c, outcome) ==
    IF outcome = "busy"
    THEN pc' = [pc EXCEPT ![c] = "sleep"] /\ UNCHANGED result
    ELSE Return(c, outcome)

\* RetryExec, up to the result of Exec.
RetryExec(c) ==
    /\ pc[c] = "try"
    /\ \/ /\ lock = Free
          /\ lock' = c
          /\ pc' = [pc EXCEPT ![c] = "running"]
          /\ UNCHANGED result
       \/ /\ waitOrErr(c, IF lock = Free THEN "error" ELSE "busy")
          /\ UNCHANGED lock
    /\ UNCHANGED <<locks, value, row>>

\* The statement of c holds the lock, and is executed or fails.
Exec(c) ==
    /\ pc[c] = "running"
    /\ lock' = Free
    /\ \/ value' = value + 1 /\ Return(c, "ok")
       \/ UNCHANGED value /\ waitOrErr(c, "error")
    /\ UNCHANGED <<locks, row>>

\* sql.Row.Scan: the query runs when it is called for the first time.
RowScan(c) ==
    IF row[c] # "none" THEN {row[c]}
    ELSE IF lock = Free THEN {"ok", "error"} ELSE {"busy"}

\* The Scan of the result of RetryQueryRow.
Scan(c) ==
    /\ pc[c] = "try"
    /\ \E outcome \in RowScan(c) :
          /\ row' = [row EXCEPT ![c] = outcome]
          /\ IF outcome = "ok" THEN Return(c, "ok") ELSE waitOrErr(c, outcome)
    /\ UNCHANGED <<lock, locks, value>>

\* waitOrErr runs again with the error that it was given before.
RetryOldError(c) ==
    /\ pc[c] = "sleep"
    /\ UNCHANGED vars

\* The delay is over: waitOrErr returns nil and the statement is tried again.
Retry(c) ==
    /\ pc[c] = "sleep"
    /\ pc' = [pc EXCEPT ![c] = "try"]
    /\ UNCHANGED <<lock, locks, value, row, result>>

\* A foreign process takes the lock.
Lock ==
    /\ lock = Free
    /\ locks < MaxLocks
    /\ lock' = Foreign
    /\ locks' = locks + 1
    /\ UNCHANGED <<value, pc, row, result>>

\* It releases the lock.
Unlock ==
    /\ lock = Foreign
    /\ lock' = Free
    /\ UNCHANGED <<locks, value, pc, row, result>>

Next ==
    \/ \E c \in Writer : RetryExec(c) \/ Exec(c)
    \/ \E c \in Reader : Scan(c)
    \/ \E c \in Caller : Retry(c)
    \/ Lock
    \/ Unlock

Spec == Init /\ [][Next]_vars

\* Goroutines run, sleeping ends, statements end, and whoever locks the database
\* unlocks it again.
Fairness ==
    /\ \A c \in Writer : WF_vars(RetryExec(c)) /\ WF_vars(Exec(c))
    /\ \A c \in Reader : WF_vars(Scan(c))
    /\ \A c \in Caller : WF_vars(Retry(c))
    /\ WF_vars(Unlock)

FairSpec == Spec /\ Fairness
-----------------------------------------------------------------------------
\* sqlite_test.go, TestRetryExec: as many updates are in the database as RetryExec
\* has reported: a retried statement is applied once, and none is lost.
UpdatesCounted ==
    value = Cardinality({c \in Writer : pc[c] = "done" /\ result[c] = "ok"})

\* RetryExec returns: contention delays it, and does not keep it for ever.
ExecReturns == \A c \in Writer : <>(pc[c] = "done")

\* "Scan wraps sql.DB.Row.Scan to automatically retry on database contention": it
\* returns, too, once the lock has been released.
ScanReturns == \A c \in Reader : <>(pc[c] = "done")

=============================================================================
