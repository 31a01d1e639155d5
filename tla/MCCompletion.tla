---------------------------- MODULE MCCompletion ----------------------------
(***************************************************************************)
(* Three pairwise adjacent clients for Completion.                         *)
(***************************************************************************)
EXTENDS Completion, TLC

CONSTANTS p1, p2, p3

\* A triangle with one node for each client: a cycle of clients that may wait for
\* one another.
TriNode == 0 .. 2
TriNbr == [u \in TriNode |-> TriNode \ {u}]
TriRange == (p1 :> 0) @@ (p2 :> 1) @@ (p3 :> 2)
=============================================================================
