---------------------------- MODULE DaemonProofs ----------------------------
(***************************************************************************)
(* TLAPS proofs about Daemon, for any set of signals.                      *)
(***************************************************************************)
EXTENDS Daemon, TLAPS

\* The handler runs from the moment of mounting on; it holds the signal it has
\* read until it passes it on, and does nothing else before that; and signals go
\* to its channel from Notify until Reset.
HandlerInv ==
    /\ main \in {"cache", "mount"} => handler = "absent"
    /\ main \in {"setup", "serve", "ended", "redeliver", "sleep"} => handler # "absent"
    /\ handler = "received" => held # Nil
    /\ handler \in {"caught", "unmount", "returned"} => caught # Nil
    /\ main = "redeliver" => caught # Nil
    /\ notified <=> handler \in {"waiting", "received", "caught"}

\* Once Serve has returned, the file system is not mounted again by this process.
MountInv == main \in {"ended", "redeliver", "sleep"} => mount = "none"

\* The inductive invariant.
IInv == TypeOK /\ HandlerInv /\ MountInv /\ CleanExit /\ SignalledExit

LEMMA InitIInv == Init => IInv
  BY SignalAssumption DEF Init, IInv, TypeOK, HandlerInv, MountInv, CleanExit, SignalledExit

\* The end of a process that is not about to report success: it fails, or has
\* nothing mounted, or has a handler that cannot help or that is past its help.
LEMMA ExitIInv ==
    ASSUME IInv, main # "exited", NEW s \in Status \ {"ok"}, Exit(s),
           user' \in BOOLEAN, again' \in BOOLEAN,
           \/ s = "fatal"
           \/ mount = "none"
           \/ handler \in {"absent", "started"}
           \/ again' /\ handler \in {"unmount", "returned"}
    PROVE  IInv'
  <1> USE DEF IInv, TypeOK, HandlerInv, MountInv, CleanExit, SignalledExit, Exit, chanVars
  <1>1. TypeOK' /\ HandlerInv' /\ MountInv'
    OBVIOUS
  <1>2. CleanExit'
    OBVIOUS
  <1>3. SignalledExit'
    OBVIOUS
  <1> QED
    BY <1>1, <1>2, <1>3

\* A signal that goes to the channel, sent by anybody.
LEMMA NotifiedIInv ==
    ASSUME IInv, main # "exited", NEW s \in Signal, Deliver(s), notified,
           user' \in BOOLEAN, again' \in BOOLEAN,
           UNCHANGED main \/ (main = "redeliver" /\ main' = "sleep")
    PROVE  IInv'
  BY DEF Deliver, IInv, TypeOK, HandlerInv, MountInv, CleanExit, SignalledExit

LEMMA SendSignalIInv ==
    ASSUME IInv, main # "exited", NEW s \in Signal, SendSignal(s)
    PROVE  IInv'
  <1>1. user' \in BOOLEAN /\ again' \in BOOLEAN
    BY DEF SendSignal, IInv, TypeOK
  <1>2. CASE notified
    BY <1>1, <1>2, NotifiedIInv DEF SendSignal
  <1>3. CASE ~notified
    <2>1. s \in Status \ {"ok"}
      BY SignalAssumption DEF Status
    <2>2. handler \in {"absent", "started", "unmount", "returned"}
      BY <1>3 DEF IInv, TypeOK, HandlerInv
    <2>3. handler \in {"unmount", "returned"} => again'
      BY DEF SendSignal
    <2> QED
      BY <1>1, <1>3, <2>1, <2>2, <2>3, ExitIInv DEF SendSignal, Deliver
  <1> QED
    BY <1>2, <1>3

LEMMA RedeliverIInv ==
    ASSUME IInv, main # "exited", Redeliver, UNCHANGED historyVars
    PROVE  IInv'
  <1>1. user' \in BOOLEAN /\ again' \in BOOLEAN
    BY DEF historyVars, IInv, TypeOK
  <1>2. caught \in Signal /\ mount = "none"
    BY DEF Redeliver, IInv, TypeOK, HandlerInv, MountInv
  <1>3. CASE notified
    BY <1>1, <1>2, <1>3, NotifiedIInv DEF Redeliver
  <1>4. CASE ~notified
    <2>1. caught \in Status \ {"ok"}
      BY <1>2, SignalAssumption DEF Status
    <2> QED
      BY <1>1, <1>2, <1>4, <2>1, ExitIInv DEF Redeliver, Deliver
  <1> QED
    BY <1>3, <1>4

LEMMA NextIInv == IInv /\ [Next]_vars => IInv'
  <1> SUFFICES ASSUME IInv, [Next]_vars PROVE IInv'
    OBVIOUS
  <1> USE SignalAssumption
      DEF IInv, TypeOK, HandlerInv, MountInv, CleanExit, SignalledExit, chanVars, historyVars
  <1>1. ASSUME main # "exited", MainStep
        PROVE  IInv'
    <2>1. CASE BadUsage \/ OpenCacheFails \/ MountFails \/ SetUpFails
      BY <1>1, <2>1, ExitIInv
      DEF MainStep, BadUsage, OpenCacheFails, MountFails, SetUpFails, Status
    <2>2. CASE OpenCache
      BY <1>1, <2>2 DEF MainStep, OpenCache
    <2>3. CASE Mount
      BY <1>1, <2>3 DEF MainStep, Mount
    <2>4. CASE SetUp \/ Serve
      BY <1>1, <2>4 DEF MainStep, SetUp, Serve
    <2>5. CASE Select
      BY <1>1, <2>5 DEF MainStep, Select, Exit, Status
    <2>6. CASE Redeliver
      BY <1>1, <2>6, RedeliverIInv DEF MainStep
    <2> QED
      BY <1>1, <2>1, <2>2, <2>3, <2>4, <2>5, <2>6 DEF MainStep
  <1>2. ASSUME main # "exited", HandlerStep
        PROVE  IInv'
    <2>1. CASE Notify
      BY <1>2, <2>1 DEF HandlerStep, Notify
    <2>2. CASE Receive
      BY <1>2, <2>2 DEF HandlerStep, Receive
    <2>3. CASE PassOn
      BY <1>2, <2>3 DEF HandlerStep, PassOn
    <2>4. CASE Reset
      BY <1>2, <2>4 DEF HandlerStep, Reset
    <2>5. CASE Unmount
      BY <1>2, <2>5 DEF HandlerStep, Unmount
    <2> QED
      BY <1>2, <2>1, <2>2, <2>3, <2>4, <2>5 DEF HandlerStep
  <1>3. ASSUME main # "exited", Listen, UNCHANGED historyVars
        PROVE  IInv'
    BY <1>3, ExitIInv DEF Listen, Status
  <1>4. ASSUME main # "exited", ServeFails \/ Kill, UNCHANGED historyVars
        PROVE  IInv'
    BY <1>4, ExitIInv DEF ServeFails, Kill, Status
  <1>5. ASSUME main # "exited", NEW s \in Signal, SendSignal(s)
        PROVE  IInv'
    BY <1>5, SendSignalIInv
  <1>6. CASE UserUnmount
    BY <1>6 DEF UserUnmount
  <1>7. CASE Start
    BY <1>7 DEF Start
  <1>8. CASE UNCHANGED vars
    BY <1>8 DEF vars
  <1> QED
    BY <1>1, <1>2, <1>3, <1>4, <1>5, <1>6, <1>7, <1>8 DEF Next

\* The invariant holds in every reachable state.
LEMMA SpecIInv == Spec => []IInv
  BY InitIInv, NextIInv, PTL DEF Spec
-----------------------------------------------------------------------------
\* The control state is well typed, and a process has an exit status exactly
\* when it has ended, whoever ended it.
THEOREM TypeCorrect == Spec => []TypeOK
  <1>1. IInv => TypeOK
    BY DEF IInv
  <1> QED
    BY <1>1, SpecIInv, PTL

\* The signal that unmountOnSignal catches never leaves a mount point without a
\* server: not while it is read and passed on, and not when it is redelivered.
THEOREM CleanExits == Spec => []CleanExit
  <1>1. IInv => CleanExit
    BY DEF IInv
  <1> QED
    BY <1>1, SpecIInv, PTL

\* Success is never reported once a signal has been passed on to Loop.
THEOREM SignalledExits == Spec => []SignalledExit
  <1>1. IInv => SignalledExit
    BY DEF IInv
  <1> QED
    BY <1>1, SpecIInv, PTL

=============================================================================
