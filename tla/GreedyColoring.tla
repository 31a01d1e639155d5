--------------------------- MODULE GreedyColoring ---------------------------
(***************************************************************************)
(* What the colouring clients promise: the colours on the server are the   *)
(* ones a sequential greedy colouring would write, one whole node at a     *)
(* time, in some order of the nodes.  A node without a colour has the      *)
(* value 0 that add_graph stored.                                          *)
(***************************************************************************)
EXTENDS Integers, FiniteSets

CONSTANTS Node, Nbr

VARIABLES color, colored

LeastFree(c, S) == c \in Nat \ S /\ \A d \in 0 .. (c - 1) : d \in S

GInit ==
    /\ color = [n \in Node |-> 0]
    /\ colored = {}

\* Node u gets the least colour that none of its neighbours has now.
ColorNode(u) ==
    /\ u \notin colored
    /\ LeastFree(color'[u], {color[v] : v \in Nbr[u]})
    /\ color' = [color EXCEPT ![u] = color'[u]]
    /\ colored' = colored \cup {u}

GNext == \E u \in Node : ColorNode(u)

GSpec == GInit /\ [][GNext]_<<color, colored>>
=============================================================================
