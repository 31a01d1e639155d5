------------------------------- MODULE MCSync -------------------------------
(***************************************************************************)
(* Small instances of the clients of SyncClient.                           *)
(***************************************************************************)
EXTENDS SyncSafety, TLC

CONSTANTS p1, p2, x, y

NbrOf(S, edges) == [u \in S |-> {v \in S : {u, v} \in edges}]

\* An edge between two clients.
EdgeNode == 0 .. 1
EdgeNbr == NbrOf(EdgeNode, {{0, 1}})
EdgeRange == (p1 :> 0) @@ (p2 :> 1)

\* A path 0 - 2 - 1 and an edge 0 - 1 inside the first partition.
PathNode == 0 .. 2
PathNbr == NbrOf(PathNode, {{0, 1}, {0, 2}, {1, 2}})
PathFirst == (p1 :> 0) @@ (p2 :> 2)
PathLast == (p1 :> 1) @@ (p2 :> 2)

\* Both clients on one server, or each on one of its own.
TwoHomes == {(p1 :> x) @@ (p2 :> y)}
AnyHomes == TwoHomes \cup {(p1 :> x) @@ (p2 :> x)}
=============================================================================
