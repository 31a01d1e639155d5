--------------------------- MODULE FifoBroadcast ---------------------------
(***************************************************************************)
(* What a group of active replicas promises: a write is executed where its *)
(* client sent it, and every other server executes the writes of each      *)
(* server once and in the order in which that server executed them.  The   *)
(* writes of two servers may interleave differently at different servers.  *)
(***************************************************************************)
EXTENDS Naturals, Sequences

CONSTANT Servers

\* executed[s]: the commands server s has executed, in order.  A command is
\* named by the server it was sent to and a number of that server's.
VARIABLE executed

Init == executed = [s \in Servers |-> <<>>]

\* What s has executed.
Done(s) == {executed[s][i] : i \in DOMAIN executed[s]}

Execute(s, c) == executed' = [executed EXCEPT ![s] = Append(@, c)]

\* s executes a command of its own, with a number greater than those before.
Write(s) ==
    \E c \in Done(s)' :
       /\ c.origin = s
       /\ \A t \in Servers : \A d \in Done(t) : d.origin = s => d.n < c.n
       /\ Execute(s, c)

\* s executes the next command of o that it has not executed.
Replay(s, o) ==
    \E c \in Done(o) \ Done(s) :
       /\ c.origin = o
       /\ \A d \in Done(o) : d.origin = o /\ d.n < c.n => d \in Done(s)
       /\ Execute(s, c)

Next == \E s \in Servers :
           Write(s) \/ \E o \in Servers \ {s} : Replay(s, o)

Spec == Init /\ [][Next]_executed
=============================================================================
