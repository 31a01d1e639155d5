------------------------------ MODULE MCColor ------------------------------
(***************************************************************************)
(* Small graphs and partitions for ColorSafety.                            *)
(***************************************************************************)
EXTENDS ColorSafety, TLC

CONSTANTS p1, p2

\* The adjacency sets of a set of edges over the nodes S.
NbrOf(S, edges) == [u \in S |-> {v \in S : {u, v} \in edges}]

\* A complete graph on four nodes in two partitions of two: every node has an
\* internal and two external neighbours.
K4Node == 0 .. 3
K4Nbr == NbrOf(K4Node, {{u, v} : u, v \in K4Node} \ {{u} : u \in K4Node})
TwoProc == {p1, p2}
K4First == (p1 :> 0) @@ (p2 :> 2)
K4Last == (p1 :> 1) @@ (p2 :> 3)
=============================================================================
