--------------------------- MODULE MCContentCache ---------------------------
(***************************************************************************)
(* A small instance of ContentCache: one immutable file, one file that     *)
(* changes while it is read, digests in two buckets.                       *)
(***************************************************************************)
EXTENDS ContentCache, TLC

CONSTANTS f1, f2, a, b0, b1

MCFile == {f1, f2}
MCMutable == {f2}
MCRemote == f1 :> <<a, a>> @@ f2 :> <<>>
MCKey == {<<"md5", c>> : c \in Content}
MCMD5 == [c \in Content |-> <<"md5", c>>]
MCBucket == {b0, b1}
MCbucketForKey == [k \in MCKey |-> IF Len(k[2]) = 2 THEN b1 ELSE b0]

=============================================================================
