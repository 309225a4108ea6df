------------------------- MODULE SqliteRetryProofs -------------------------
(***************************************************************************)
(* Proofs about SqliteRetry, for any number of callers and of locks taken  *)
(* by a foreign process.                                                   *)
(***************************************************************************)
EXTENDS SqliteRetry, FiniteSetTheorems, TLAPS

\* The writers whose update was reported.
Reported == {c \in Writer : pc[c] = "done" /\ result[c] = "ok"}

\* The type invariant of SqliteRetry: waitOrErr never lets ErrBusy through to a
\* caller of RetryExec or of Scan.
THEOREM TypeCorrect == Spec => []TypeOK
<1>1. Init => TypeOK
  BY CallersAssumption DEF Init, TypeOK, Caller, Outcome
<1>2. TypeOK /\ [Next]_vars => TypeOK'
  <2> SUFFICES ASSUME TypeOK, [Next]_vars PROVE TypeOK'
    OBVIOUS
  <2> USE CallersAssumption DEF TypeOK, Caller, Outcome
  <2>1. ASSUME NEW c \in Writer, RetryExec(c) PROVE TypeOK'
    BY <2>1 DEF RetryExec, waitOrErr, Return
  <2>2. ASSUME NEW c \in Writer, Exec(c) PROVE TypeOK'
    BY <2>2 DEF Exec, waitOrErr, Return
  <2>3. ASSUME NEW c \in Reader, Scan(c) PROVE TypeOK'
    <3>1. PICK outcome \in RowScan(c) :
              /\ row' = [row EXCEPT ![c] = outcome]
              /\ IF outcome = "ok" THEN Return(c, "ok") ELSE waitOrErr(c, outcome)
      BY <2>3 DEF Scan
    <3>2. outcome \in Outcome
      BY DEF RowScan
    <3>3. outcome # "none"
      BY DEF RowScan
    <3> QED BY <2>3, <3>1, <3>2, <3>3 DEF Scan, waitOrErr, Return
  <2>4. ASSUME NEW c \in Caller, Retry(c) PROVE TypeOK'
    BY <2>4 DEF Retry
  <2>5. CASE Lock
    BY <2>5 DEF Lock
  <2>6. CASE Unlock
    BY <2>6 DEF Unlock
  <2>7. CASE UNCHANGED vars
    BY <2>7 DEF vars
  <2> QED BY <2>1, <2>2, <2>3, <2>4, <2>5, <2>6, <2>7 DEF Next
<1> QED BY <1>1, <1>2, PTL DEF Spec

\* RetryExec applies an update exactly once if it reports success and never
\* otherwise, however often the statement was retried: what TestRetryExec tries
\* with a hundred callers.
THEOREM UpdatesAreCounted == Spec => []UpdatesCounted
<1>1. Init => UpdatesCounted
  <2> SUFFICES ASSUME Init PROVE UpdatesCounted
    OBVIOUS
  <2>1. {c \in Writer : pc[c] = "done" /\ result[c] = "ok"} = {}
    BY DEF Init, Caller
  <2> QED BY <2>1, FS_EmptySet DEF Init, UpdatesCounted
<1>2. TypeOK /\ UpdatesCounted /\ [Next]_vars => UpdatesCounted'
  <2> SUFFICES ASSUME TypeOK, UpdatesCounted, [Next]_vars PROVE UpdatesCounted'
    OBVIOUS
  <2>1. value = Cardinality(Reported)
    BY DEF UpdatesCounted, Reported
  <2>2. SUFFICES value' = Cardinality(Reported')
    BY DEF UpdatesCounted, Reported
  <2>3. ASSUME Reported' = Reported, value' = value PROVE value' = Cardinality(Reported')
    BY <2>1, <2>3
  <2>4. ASSUME NEW c \in Writer, RetryExec(c) PROVE value' = Cardinality(Reported')
    <3>1. Reported' = Reported
      BY <2>4 DEF RetryExec, waitOrErr, Return, Reported, TypeOK, Caller
    <3> QED BY <2>3, <2>4, <3>1 DEF RetryExec
  <2>5. ASSUME NEW c \in Writer, Exec(c) PROVE value' = Cardinality(Reported')
    <3>1. CASE value' = value + 1 /\ Return(c, "ok")
      <4>1. Reported' = Reported \union {c} /\ c \notin Reported
        BY <2>5, <3>1 DEF Exec, Return, Reported, TypeOK, Caller
      <4>2. IsFiniteSet(Reported)
        BY CallersAssumption, FS_Subset DEF Reported
      <4>3. Cardinality(Reported \union {c}) = Cardinality(Reported) + 1
        BY <4>1, <4>2, FS_AddElement
      <4> QED BY <2>1, <3>1, <4>1, <4>3
    <3>2. CASE UNCHANGED value /\ waitOrErr(c, "error")
      <4>1. Reported' = Reported
        BY <2>5, <3>2 DEF Exec, waitOrErr, Return, Reported, TypeOK, Caller
      <4> QED BY <2>3, <3>2, <4>1
    <3> QED BY <2>5, <3>1, <3>2 DEF Exec
  <2>6. ASSUME NEW c \in Reader, Scan(c) PROVE value' = Cardinality(Reported')
    <3>1. Reported' = Reported
      BY <2>6, CallersAssumption DEF Scan, waitOrErr, Return, Reported, TypeOK, Caller
    <3> QED BY <2>3, <2>6, <3>1 DEF Scan
  <2>7. ASSUME NEW c \in Caller, Retry(c) PROVE value' = Cardinality(Reported')
    <3>1. Reported' = Reported
      BY <2>7 DEF Retry, Reported, TypeOK
    <3> QED BY <2>3, <2>7, <3>1 DEF Retry
  <2>8. CASE Lock
    BY <2>3, <2>8 DEF Lock, Reported
  <2>9. CASE Unlock
    BY <2>3, <2>9 DEF Unlock, Reported
  <2>10. CASE UNCHANGED vars
    BY <2>3, <2>10 DEF vars, Reported
  <2> QED BY <2>4, <2>5, <2>6, <2>7, <2>8, <2>9, <2>10 DEF Next
<1> QED BY <1>1, <1>2, TypeCorrect, PTL DEF Spec

=============================================================================
