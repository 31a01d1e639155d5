------------------------------- MODULE MCWait -------------------------------
(***************************************************************************)
(* The properties of SyncWait.                                             *)
(***************************************************************************)
EXTENDS SyncWait, TLC

CONSTANTS c1, c2, r1

\* Two clients that write and wait with one replica, or one client that may write
\* more with two replicas; in both a connection may be lost.
Both == [replicas |-> {r1}, commands |-> [c \in Clients |-> 2], drops |-> 1]
Alone == [replicas |-> Replicas, commands |-> (c1 :> 3 @@ c2 :> 0), drops |-> 1]
BothOrAlone == {Both, Alone}

\* A WAIT for as many replicas as there are is answered at last, although
\* connections may be lost in between.
Answered == \A c \in Clients : Blocked(c) ~> ~Blocked(c)
=============================================================================
