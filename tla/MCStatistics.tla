---------------------------- MODULE MCStatistics ----------------------------
(***************************************************************************)
(* A small instance of Statistics: a file of one byte.                     *)
(***************************************************************************)
EXTENDS Statistics, TLC

\* Up to the end of the file, across it and past it.
MCRange == {[offset |-> 0, size |-> 1], [offset |-> 0, size |-> 2], [offset |-> 2, size |-> 1]}

MCSymmetry == Permutations(Request) \union Permutations(Session)

=============================================================================
