-------------------------- MODULE StatisticsProofs --------------------------
(***************************************************************************)
(* TLAPS proofs about Statistics, for any requests, clients, file length,  *)
(* offsets and sizes.                                                      *)
(***************************************************************************)
EXTENDS Statistics, TLAPS

\* The operations that a counter has ever counted.
Ever(k) ==
    {r \in Request : \/ k = "os" /\ pc[r] \notin {"idle", "hit"}
                     \/ k = "bytes" /\ pc[r] = "done"
                     \/ k = "fuse" /\ pc[r] # "idle"}
    \union {x \in {Release} : k = "os" /\ reader # "open"}

\* Nothing is counted twice: what a counter holds, or held when somebody called
\* Clear, is not going to be added to it.
OnceInv ==
    \A k \in Counter :
        /\ counted[k] \subseteq Ever(k)
        /\ \A s \in Session : before[s][k] \subseteq Ever(k)

\* Whether the client s has reset the counter Order[i], if it wanted to.
HasCleared(s, i) == http[s] = "clear" => i <= cleared[s]

\* What was counted when Clear was called is gone from the counters that it has
\* reset, and has not come back.
ClearInv ==
    \A s \in Session :
        /\ http[s] # "clear" => cleared[s] = 0
        /\ http[s] = "idle" => before[s] = Zero
        /\ \A i \in 1 .. 3 : HasCleared(s, i) =>
              counted[Order[i]] \intersect before[s][Order[i]] = {}

\* What a Read got from the file, until it returns and after.
ReadInv ==
    \A r \in Request :
        /\ pc[r] = "done" => resp[r].err # "error"
        /\ /\ pc[r] \in {"bytes", "done"}
           /\ resp[r].err # "error"
           /\ resp[r].n < req[r].size
           => req[r].offset + resp[r].n >= Length

\* The inductive invariant.
IInv == TypeOK /\ OnceInv /\ ClearInv /\ ReadInv /\ HitsAreBacked
-----------------------------------------------------------------------------
\* The counters are three.
LEMMA OrderLemma ==
    /\ Len(Order) = 3
    /\ Order[1] = "os" /\ Order[2] = "bytes" /\ Order[3] = "fuse"
    /\ Counter = {"os", "bytes", "fuse"}
  <1>1. Len(Order) = 3 /\ Order[1] = "os" /\ Order[2] = "bytes" /\ Order[3] = "fuse"
    BY DEF Order
  <1>2. 1 .. Len(Order) = {1, 2, 3}
    BY <1>1
  <1> QED
    BY <1>1, <1>2 DEF Counter

\* Every counter has a place in the order.
LEMMA PlaceLemma ==
    /\ \A i \in 1 .. 3 : Order[i] \in Counter
    /\ \A k \in Counter : \E i \in 1 .. 3 : k = Order[i]
    /\ \A i, j \in 1 .. 3 : Order[i] = Order[j] => i = j
  <1>1. 1 .. 3 = {1, 2, 3}
    OBVIOUS
  <1> QED
    BY <1>1, OrderLemma

LEMMA ZeroLemma == Zero \in Counts /\ \A k \in Counter : Zero[k] = {}
  BY OrderLemma DEF Zero, Counts

\* An addition to one counter.
LEMMA AccountLemma ==
    ASSUME counted \in Counts, NEW k \in Counter, NEW r \in Request \union {Release},
           r = Release => k = "os", Account(k, r)
    PROVE  /\ counted' \in Counts
           /\ counted'[k] = counted[k] \union {r}
           /\ \A j \in Counter : j # k => counted'[j] = counted[j]
  BY OrderLemma, StatisticsAssumption DEF Account, Counts
-----------------------------------------------------------------------------
LEMMA InitIInv == Init => IInv
  <1> SUFFICES ASSUME Init PROVE IInv
    OBVIOUS
  <1>1. TypeOK
    BY ZeroLemma, OrderLemma DEF Init, TypeOK
  <1>2. OnceInv
    BY ZeroLemma DEF Init, OnceInv
  <1>3. ClearInv
    BY ZeroLemma, PlaceLemma DEF Init, ClearInv
  <1>4. ReadInv
    BY DEF Init, ReadInv
  <1>5. HitsAreBacked
    BY ZeroLemma, OrderLemma DEF Init, HitsAreBacked
  <1> QED
    BY <1>1, <1>2, <1>3, <1>4, <1>5 DEF IInv

\* A step that counts x for the first time, or counts nothing, keeps the
\* invariants about Clear.
LEMMA CountOnce ==
    ASSUME IInv, UNCHANGED httpVars,
           \A k \in Counter : Ever(k) \subseteq Ever(k)',
           \A k \in Counter : \A x \in counted'[k] : x \in counted[k] \/ x \in Ever(k)' \ Ever(k)
    PROVE  OnceInv' /\ ClearInv'
  <1>1. OnceInv'
    BY DEF IInv, OnceInv, httpVars
  <1>2. ASSUME NEW s \in Session, NEW i \in 1 .. 3, HasCleared(s, i)
        PROVE  counted'[Order[i]] \intersect before[s][Order[i]] = {}
    BY <1>2, PlaceLemma DEF IInv, OnceInv, ClearInv
  <1>3. ClearInv'
    BY <1>2 DEF IInv, ClearInv, HasCleared, httpVars
  <1> QED
    BY <1>1, <1>3

\* Reading and counting never make HalfCleared change.
LEMMA SameHalf == UNCHANGED httpVars => (HalfCleared <=> HalfCleared')
  BY DEF HalfCleared, httpVars
-----------------------------------------------------------------------------
LEMMA ReadIInv ==
    ASSUME IInv, NEW r \in Request, Read(r)
    PROVE  IInv'
  <1>1. /\ counted' \in Counts
        /\ counted'["fuse"] = counted["fuse"] \union {r}
        /\ \A j \in Counter : j # "fuse" => counted'[j] = counted[j]
    BY AccountLemma, OrderLemma, StatisticsAssumption DEF Read, IInv, TypeOK
  <1>2. TypeOK'
    BY <1>1 DEF Read, IInv, TypeOK, httpVars
  <1>3. OnceInv' /\ ClearInv'
    <2>1. \A k \in Counter : Ever(k) \subseteq Ever(k)'
      BY OrderLemma DEF Ever, Read, IInv, TypeOK
    <2>2. r \in Ever("fuse")' \ Ever("fuse")
      BY StatisticsAssumption DEF Ever, Read, IInv, TypeOK
    <2>3. \A k \in Counter : \A x \in counted'[k] : x \in counted[k] \/ x \in Ever(k)' \ Ever(k)
      BY <1>1, <2>2
    <2> QED
      BY <2>1, <2>3, CountOnce DEF Read
  <1>4. ReadInv'
    BY <1>1, OrderLemma DEF Read, IInv, TypeOK, ReadInv, Counts
  <1>5. HitsAreBacked'
    BY <1>1, SameHalf, OrderLemma DEF Read, IInv, TypeOK, HitsAreBacked, Counts
  <1> QED
    BY <1>2, <1>3, <1>4, <1>5 DEF IInv

LEMMA AccountReadIInv ==
    ASSUME IInv, NEW r \in Request, AccountRead(r)
    PROVE  IInv'
  <1>1. /\ counted' \in Counts
        /\ counted'["os"] = counted["os"] \union {r}
        /\ \A j \in Counter : j # "os" => counted'[j] = counted[j]
    BY AccountLemma, OrderLemma DEF AccountRead, IInv, TypeOK
  <1>2. TypeOK'
    BY <1>1 DEF AccountRead, IInv, TypeOK, httpVars
  <1>3. OnceInv' /\ ClearInv'
    <2>1. \A k \in Counter : Ever(k) \subseteq Ever(k)'
      BY OrderLemma DEF Ever, AccountRead, IInv, TypeOK
    <2>2. r \in Ever("os")' \ Ever("os")
      BY StatisticsAssumption DEF Ever, AccountRead, IInv, TypeOK
    <2>3. \A k \in Counter : \A x \in counted'[k] : x \in counted[k] \/ x \in Ever(k)' \ Ever(k)
      BY <1>1, <2>2
    <2> QED
      BY <2>1, <2>3, CountOnce DEF AccountRead
  <1>4. ReadInv'
    BY <1>1, OrderLemma DEF AccountRead, IInv, TypeOK, ReadInv, Counts
  <1>5. HitsAreBacked'
    BY <1>1, SameHalf, OrderLemma DEF AccountRead, IInv, TypeOK, HitsAreBacked, Counts
  <1> QED
    BY <1>2, <1>3, <1>4, <1>5 DEF IInv

LEMMA ReadAtIInv ==
    ASSUME IInv, NEW r \in Request, ReadAt(r)
    PROVE  IInv'
  <1>0. /\ req[r].offset \in Nat
        /\ req[r].size \in Nat
        /\ Length \in Nat
    BY StatisticsAssumption DEF IInv, TypeOK
  <1>1. PICK answer \in [n : Nat, err : {"nil", "EOF", "error"}] :
            /\ resp' = [resp EXCEPT ![r] = answer]
            /\ answer.err # "error" /\ answer.n < req[r].size =>
                  req[r].offset + answer.n >= Length
    <2>1. CASE resp' = [resp EXCEPT ![r] = FileReadAt(req[r].offset, req[r].size)]
      <3> DEFINE a == FileReadAt(req[r].offset, req[r].size)
      <3>1. /\ a \in [n : Nat, err : {"nil", "EOF", "error"}]
            /\ a.err # "error" /\ a.n < req[r].size => req[r].offset + a.n >= Length
        BY <1>0 DEF FileReadAt, Available
      <3> QED
        BY <2>1, <3>1
    <2>2. CASE \E n \in 0 .. req[r].size - 1 :
                  resp' = [resp EXCEPT ![r] = [n |-> n, err |-> "error"]]
      <3>1. PICK n \in 0 .. req[r].size - 1 :
                  resp' = [resp EXCEPT ![r] = [n |-> n, err |-> "error"]]
        BY <2>2
      <3> DEFINE a == [n |-> n, err |-> "error"]
      <3>2. a \in [n : Nat, err : {"nil", "EOF", "error"}] /\ a.err = "error"
        BY <1>0
      <3> QED
        BY <3>1, <3>2
    <2> QED
      BY <2>1, <2>2 DEF ReadAt
  <1>2. TypeOK'
    BY <1>1 DEF ReadAt, IInv, TypeOK, httpVars
  <1>3. OnceInv' /\ ClearInv'
    <2>1. \A k \in Counter : Ever(k) \subseteq Ever(k)'
      BY OrderLemma DEF Ever, ReadAt, IInv, TypeOK
    <2> QED
      BY <2>1, CountOnce DEF ReadAt
  <1>4. ReadInv'
    BY <1>1 DEF ReadAt, IInv, TypeOK, ReadInv
  <1>5. HitsAreBacked'
    BY SameHalf, OrderLemma DEF ReadAt, IInv, TypeOK, HitsAreBacked, Counts
  <1> QED
    BY <1>2, <1>3, <1>4, <1>5 DEF IInv

LEMMA ReadReturnsIInv ==
    ASSUME IInv, NEW r \in Request, ReadReturns(r)
    PROVE  IInv'
  <1>0. /\ pc' = [pc EXCEPT ![r] = Outcome(resp[r].err)]
        /\ Outcome(resp[r].err) \in {"done", "failed"}
        /\ Outcome(resp[r].err) = "done" <=> resp[r].err # "error"
        /\ pc[r] = "bytes"
        /\ UNCHANGED <<req, resp, reader, httpVars>>
    BY DEF ReadReturns, Outcome
  <1>1. /\ counted' \in Counts
        /\ \A j \in Counter : j # "bytes" => counted'[j] = counted[j]
        /\ \A x \in counted'["bytes"] :
              x \in counted["bytes"] \/ (x = r /\ resp[r].err = "nil" /\ resp[r].n > 0)
    <2>1. CASE CountsBytes(r)
      <3>1. Account("bytes", r)
        BY <2>1 DEF ReadReturns
      <3>2. r # Release
        BY StatisticsAssumption
      <3> QED
        BY <2>1, <3>1, <3>2, AccountLemma, OrderLemma DEF CountsBytes, IInv, TypeOK
    <2>2. CASE ~CountsBytes(r)
      BY <2>2 DEF ReadReturns, IInv, TypeOK
    <2> QED
      BY <2>1, <2>2
  <1>2. TypeOK'
    BY <1>0, <1>1 DEF IInv, TypeOK, httpVars
  <1>3. OnceInv' /\ ClearInv'
    <2>1. \A k \in Counter : Ever(k) \subseteq Ever(k)'
      BY <1>0, OrderLemma DEF Ever, IInv, TypeOK
    <2>2. resp[r].err = "nil" => r \in Ever("bytes")' \ Ever("bytes")
      BY <1>0, StatisticsAssumption DEF Ever, IInv, TypeOK
    <2>3. \A k \in Counter : \A x \in counted'[k] : x \in counted[k] \/ x \in Ever(k)' \ Ever(k)
      BY <1>1, <2>2
    <2> QED
      BY <1>0, <2>1, <2>3, CountOnce
  <1>4. ReadInv'
    BY <1>0 DEF IInv, TypeOK, ReadInv
  <1>5. HitsAreBacked'
    BY <1>0, <1>1, SameHalf, OrderLemma DEF IInv, TypeOK, HitsAreBacked, Counts
  <1> QED
    BY <1>2, <1>3, <1>4, <1>5 DEF IInv

LEMMA ReleaseIInv ==
    ASSUME IInv, ReleaseFile
    PROVE  IInv'
  <1>1. /\ counted' \in Counts
        /\ counted'["os"] = counted["os"] \union {Release}
        /\ \A j \in Counter : j # "os" => counted'[j] = counted[j]
    BY AccountLemma, OrderLemma DEF ReleaseFile, IInv, TypeOK
  <1>2. TypeOK'
    BY <1>1 DEF ReleaseFile, IInv, TypeOK, httpVars
  <1>3. OnceInv' /\ ClearInv'
    <2>1. \A k \in Counter : Ever(k) \subseteq Ever(k)'
      BY OrderLemma DEF Ever, ReleaseFile
    <2>2. Release \in Ever("os")' \ Ever("os")
      BY StatisticsAssumption DEF Ever, ReleaseFile
    <2>3. \A k \in Counter : \A x \in counted'[k] : x \in counted[k] \/ x \in Ever(k)' \ Ever(k)
      BY <1>1, <2>2
    <2> QED
      BY <2>1, <2>3, CountOnce DEF ReleaseFile
  <1>4. ReadInv'
    BY <1>1, OrderLemma DEF ReleaseFile, IInv, ReadInv
  <1>5. HitsAreBacked'
    BY <1>1, SameHalf, OrderLemma DEF ReleaseFile, IInv, HitsAreBacked
  <1> QED
    BY <1>2, <1>3, <1>4, <1>5 DEF IInv
-----------------------------------------------------------------------------
\* A step of an HTTP client leaves Reads alone; one that resets no counter keeps
\* what relates them to Reads.
LEMMA HttpFile ==
    ASSUME IInv, UNCHANGED fileVars, \A k \in Counter : counted'[k] \subseteq counted[k]
    PROVE  ReadInv'
  BY OrderLemma DEF IInv, ReadInv, fileVars

LEMMA ClearIInv ==
    ASSUME IInv, NEW s \in Session, Clear(s)
    PROVE  IInv'
  <1>1. TypeOK'
    BY DEF Clear, IInv, TypeOK, fileVars
  <1>2. OnceInv'
    BY DEF Clear, IInv, TypeOK, OnceInv, Ever, fileVars
  <1>3. cleared[s] = 0
    BY DEF Clear, IInv, ClearInv
  <1>4. ASSUME NEW t \in Session
        PROVE  /\ http'[t] # "clear" => cleared'[t] = 0
               /\ http'[t] = "idle" => before'[t] = Zero
               /\ \A i \in 1 .. 3 : HasCleared(t, i)' =>
                     counted'[Order[i]] \intersect before'[t][Order[i]] = {}
    BY <1>3 DEF Clear, IInv, TypeOK, ClearInv, HasCleared
  <1>5. ReadInv'
    BY HttpFile DEF Clear
  <1>6. HitsAreBacked'
    <2>1. HalfCleared => HalfCleared'
      BY DEF HalfCleared, Clear, IInv, TypeOK
    <2> QED
      BY <2>1 DEF Clear, IInv, HitsAreBacked, fileVars
  <1> QED
    BY <1>1, <1>2, <1>4, <1>5, <1>6 DEF IInv, ClearInv

LEMMA ClearStoreIInv ==
    ASSUME IInv, NEW s \in Session, ClearStore(s)
    PROVE  IInv'
  <1> DEFINE i0 == cleared[s] + 1
  <1>1. /\ i0 \in 1 .. 3
        /\ cleared' = [cleared EXCEPT ![s] = i0]
        /\ http[s] = "clear"
        /\ UNCHANGED <<fileVars, http, loaded, before>>
    BY OrderLemma DEF ClearStore, IInv, TypeOK
  <1>2. /\ counted' \in Counts
        /\ counted'[Order[i0]] = {}
        /\ \A k \in Counter : counted'[k] \subseteq counted[k]
        /\ \A k \in Counter : k # Order[i0] => counted'[k] = counted[k]
    <2>1. Order[i0] \in Counter
      BY <1>1, PlaceLemma
    <2>2. counted' = [counted EXCEPT ![Order[i0]] = {}]
      BY DEF ClearStore
    <2> QED
      BY <2>1, <2>2, OrderLemma DEF IInv, TypeOK, Counts
  <1>3. TypeOK'
    BY <1>1, <1>2, OrderLemma DEF IInv, TypeOK, fileVars
  <1>4. OnceInv'
    BY <1>1, <1>2 DEF IInv, OnceInv, Ever, fileVars
  <1>5. ASSUME NEW t \in Session
        PROVE  /\ http'[t] # "clear" => cleared'[t] = 0
               /\ http'[t] = "idle" => before'[t] = Zero
    BY <1>1 DEF IInv, TypeOK, ClearInv
  <1>6. ASSUME NEW t \in Session, NEW i \in 1 .. 3, HasCleared(t, i)'
        PROVE  counted'[Order[i]] \intersect before'[t][Order[i]] = {}
    <2>1. CASE i = i0
      BY <1>1, <1>2, <2>1
    <2>2. CASE i # i0
      <3>1. HasCleared(t, i)
        BY <1>1, <1>6, <2>2 DEF IInv, TypeOK, HasCleared
      <3> QED
        BY <1>1, <1>2, <3>1, PlaceLemma DEF IInv, ClearInv
    <2> QED
      BY <2>1, <2>2
  <1>7. ReadInv'
    BY <1>1, <1>2, HttpFile
  <1>8. HitsAreBacked'
    <2>1. CASE i0 = 3
      BY <1>2, <2>1, OrderLemma DEF HitsAreBacked
    <2>2. CASE i0 # 3
      <3>1. HalfCleared'
        BY <1>1, <2>2 DEF HalfCleared, IInv, TypeOK
      <3> QED
        BY <3>1 DEF HitsAreBacked
    <2> QED
      BY <2>1, <2>2
  <1> QED
    BY <1>3, <1>4, <1>5, <1>6, <1>7, <1>8 DEF IInv, ClearInv

LEMMA PageIInv ==
    ASSUME IInv, NEW s \in Session, Redirect(s) \/ Summary(s) \/ Load(s) \/ Show(s)
    PROVE  IInv'
  <1>1. UNCHANGED <<fileVars, counted>>
    BY DEF Redirect, Summary, Load, Show
  <1>2. TypeOK'
    BY <1>1, ZeroLemma, OrderLemma DEF Redirect, Summary, Load, Show, IInv, TypeOK, fileVars
  <1>0. \A t \in Session : before'[t] = before[t] \/ before'[t] = Zero
    BY DEF Redirect, Summary, Load, Show, IInv, TypeOK
  <1>3. OnceInv'
    <2>1. \A k \in Counter : Ever(k)' = Ever(k)
      BY <1>1 DEF Ever, fileVars
    <2> QED
      BY <1>0, <1>1, <2>1, ZeroLemma DEF IInv, OnceInv
  <1>4. ASSUME NEW t \in Session
        PROVE  /\ http'[t] # "clear" => cleared'[t] = 0
               /\ http'[t] = "idle" => before'[t] = Zero
    BY DEF Redirect, Summary, Load, Show, IInv, TypeOK, ClearInv
  <1>5. ASSUME NEW t \in Session, NEW i \in 1 .. 3, HasCleared(t, i)'
        PROVE  counted'[Order[i]] \intersect before'[t][Order[i]] = {}
    <2>1. HasCleared(t, i) \/ before'[t] = Zero
      BY <1>5, OrderLemma DEF Redirect, Summary, Load, Show, IInv, TypeOK, ClearInv, HasCleared
    <2> QED
      BY <1>0, <1>1, <2>1, ZeroLemma, PlaceLemma DEF IInv, ClearInv
  <1>6. ReadInv'
    BY <1>1, HttpFile
  <1>7. HitsAreBacked'
    <2>1. HalfCleared => HalfCleared'
      BY OrderLemma DEF HalfCleared, Redirect, Summary, Load, Show, IInv, TypeOK
    <2> QED
      BY <1>1, <2>1 DEF IInv, HitsAreBacked, fileVars
  <1> QED
    BY <1>2, <1>3, <1>4, <1>5, <1>6, <1>7 DEF IInv, ClearInv

LEMMA StutterIInv ==
    ASSUME IInv, UNCHANGED vars
    PROVE  IInv'
  BY DEF IInv, TypeOK, OnceInv, ClearInv, ReadInv, HitsAreBacked,
         Ever, HasCleared, HalfCleared, vars, fileVars, httpVars

LEMMA NextIInv == IInv /\ [Next]_vars => IInv'
  BY ReadIInv, AccountReadIInv, ReadAtIInv, ReadReturnsIInv, ReleaseIInv,
     ClearIInv, ClearStoreIInv, PageIInv, StutterIInv DEF Next

\* The invariant holds in every reachable state.
LEMMA SpecIInv == Spec => []IInv
  BY InitIInv, NextIInv, PTL DEF Spec
-----------------------------------------------------------------------------
\* The counters count what they are for, and the pages are well typed.
THEOREM TypeCorrect == Spec => []TypeOK
  <1>1. IInv => TypeOK
    BY DEF IInv
  <1> QED
    BY <1>1, SpecIInv, PTL

\* Clear never makes the cache look better than it is: it resets system calls
\* before the operations that they serve.
THEOREM HitsBacked == Spec => []HitsAreBacked
  <1>1. IInv => HitsAreBacked
    BY DEF IInv
  <1> QED
    BY <1>1, SpecIInv, PTL

\* A successful Read is short only at the end of the file or past it, for every
\* length, offset and size.
THEOREM ShortReads == Spec => []ShortOnlyAtEnd
  <1>1. IInv => ShortOnlyAtEnd
    BY DEF IInv, ReadInv, ShortOnlyAtEnd
  <1> QED
    BY <1>1, SpecIInv, PTL

\* A page shown after a Clear shows nothing that was counted before it, for any
\* number of clients and Reads.
THEOREM PagesCleared == Spec => ClearedPage
  <1>1. ASSUME IInv, [Next]_vars, NEW s \in Session, loaded'[s] > loaded[s]
        PROVE  LET k == Order[loaded'[s]] IN counted[k] \intersect before[s][k] = {}
    <2>1. CASE UNCHANGED loaded
      BY <1>1, <2>1 DEF IInv, TypeOK
    <2>2. CASE \E t \in Session : Load(t)
      <3>1. http[s] = "summary" /\ loaded'[s] \in 1 .. 3
        BY <1>1, <2>2, OrderLemma DEF Load, IInv, TypeOK
      <3> QED
        BY <1>1, <3>1 DEF IInv, ClearInv, HasCleared
    <2>3. CASE \E t \in Session : Show(t)
      BY <1>1, <2>3, OrderLemma DEF Show, IInv, TypeOK
    <2> QED
      BY <1>1, <2>1, <2>2, <2>3
      DEF Next, Read, AccountRead, ReadAt, ReadReturns, ReleaseFile, Clear, ClearStore,
          Redirect, Summary, vars, httpVars
  <1>2. IInv /\ [Next]_vars =>
           [\A s \in Session : loaded'[s] > loaded[s] =>
               LET k == Order[loaded'[s]] IN counted[k] \intersect before[s][k] = {}]_vars
    BY <1>1
  <1> QED
    BY <1>2, SpecIInv, PTL DEF Spec, ClearedPage
=============================================================================
