--------------------------- MODULE MCReplication ---------------------------
(***************************************************************************)
(* The topologies of tests/integration/replication-multimaster.tcl, with   *)
(* as many servers as the run scripts start, and the properties.           *)
(***************************************************************************)
EXTENDS ActiveReplication, TLC

CONSTANTS a, b, c

Mesh(S) == [s \in S |-> S \ {s}]
Ring == (a :> {c}) @@ (b :> {a}) @@ (c :> {b})

\* A mesh, with and without forwarding, and a ring.
MeshOrRing ==
    LET few == (a :> 2) @@ (b :> 1) @@ (c :> 0) IN
    {[masters |-> Mesh(Servers), noForward |-> f, writes |-> few] : f \in BOOLEAN} \cup
    {[masters |-> Ring, noForward |-> FALSE, writes |-> [s \in Servers |-> 2]]}

\* Nothing is in flight.
Quiet == \A s \in Servers : \A m \in net.masters[s] : pos[s][m] = Len(stream[m])

\* Every write reaches every server (the test "replicates to all nodes"), and
\* the forwarded copies die out.
Delivered ==
    <>[](Quiet /\ \A s, t \in Servers : Done(s) = Done(t))
=============================================================================
