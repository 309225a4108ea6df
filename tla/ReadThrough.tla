---------------------------- MODULE ReadThrough ----------------------------
(***************************************************************************)
(* What sourcachefs promises to a user of paths that are cached: a memory  *)
(* of questions and answers that only ever grows.  Every answer given is   *)
(* remembered from then on, is the only one ever given to that question,   *)
(* and a question is refused only while no answer is remembered.  Neither  *)
(* the remote file system nor restarts appear here.                        *)
(*                                                                         *)
(* SourcacheFS.tla shows that the handlers of internal/fs implement this,  *)
(* for as long as the kernel forgets no node.                              *)
(***************************************************************************)
CONSTANTS
    Question,  \* operations on cached paths
    Nil,       \* no answer
    Err        \* a failure

VARIABLES
    memo,      \* the answer remembered to each question
    answer     \* the answer just given and its question, if any

vars == <<memo, answer>>

Init ==
    /\ memo = [q \in Question |-> Nil]
    /\ answer = Nil

\* More may be learnt at any time, as from a listing; nothing is unlearnt.
Learn == \A q \in Question : memo[q] # Nil => memo'[q] = memo[q]

\* The answer v is given to the question q.
Give(q, v) == answer' # Nil /\ answer'.question = q /\ answer'.val = v

Quiet == answer' = Nil

\* An answer is given from what is remembered, which may have just been learnt.
Serve(q) == memo'[q] # Nil /\ Give(q, memo'[q])

\* No answer was remembered, and none could be had.
Refuse(q) == memo[q] = Nil /\ Give(q, Err)

Next ==
    /\ Learn
    /\ \/ Quiet
       \/ \E q \in Question : Serve(q) \/ Refuse(q)

Spec == Init /\ [][Next]_vars

=============================================================================
