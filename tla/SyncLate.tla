------------------------------ MODULE SyncLate ------------------------------
(***************************************************************************)
(* SyncSafety with a history variable: the pairs <<p, q>> of clients such  *)
(* that q asked for the lock of an edge while p, at the other end, had it, *)
(* and p still has it.                                                     *)
(***************************************************************************)
EXTENDS SyncSafety

VARIABLE late

Asks(q, p) ==
    /\ pc[q] # "setFlag" /\ pc'[q] = "setFlag"
    /\ nbr'[q] = node[p] /\ Holds(p, node[q])

LateNext ==
    /\ Next
    /\ late' = {a \in Proc \X Proc :
                  (a \in late \/ Asks(a[2], a[1])) /\ Holds(a[1], node[a[2]])'}

LateInit == Init /\ late = {}

LateSpec == LateInit /\ [][LateNext]_<<vars, late>> /\ Fairness

\* With WAIT for all the replicas, a client that asks for a lock after the other
\* end has got it waits in acquire_lock until it is released, also across
\* servers.
LatecomerWaits == \A a \in late : ~Holds(a[2], node[a[1]])

-----------------------------------------------------------------------------
(***************************************************************************)
(* The inductive invariant.                                                *)
(***************************************************************************)
\* WAIT returns when all servers have the write.
WaitsForAll == IsFiniteSet(Servers) /\ Required >= Cardinality(Servers) - 1

\* p is at a write, and m is that write.
Current(m, p) ==
    /\ pc[p] \in WritePC /\ (pc[p] = "release" => locks[p] # {})
    /\ m.key = Written(p).key /\ m.val = Written(p).val

\* All that is in flight of p is the write it is waiting for, perhaps repeated.
SentInv ==
    \A s \in Servers : \A t \in Servers \ {s} : \A i \in 1 .. Len(chan[s][t]) :
       Current(chan[s][t][i], chan[s][t][i].by)

\* The flag of a client that has got past the WAIT of setFlag is up on every server.
FlagEverywhere ==
    \A p \in Proc : \A v \in Node :
       Holds(p, v) \/ (nbr[p] = v /\ pc[p] \in LockPC) =>
          \A t \in Servers : db[t][FlagKey(node[p], v)] = 1

\* A latecomer q is in acquire_lock; from the SET of the turn on its server has it
\* waiting, and so has what it has read.
Tardy(p, q) ==
    /\ Holds(p, node[q]) /\ nbr[q] = node[p]
    /\ pc[q] \in LockPC \cup {"setFlag"}
    /\ pc[q] \in LockPC \ {"setTurn"} \/ (pc[q] = "setTurn" /\ waiting[q]) =>
          Get(q, TurnKey(node[q], node[p])) = node[q]
    /\ pc[q] = "getTurn" => otherFlag[q] = 1
    /\ pc[q] = "waitFlag" => turnNew[q] = node[q]

LateInv == \A a \in late : a \in Proc \X Proc /\ Tardy(a[1], a[2])
=============================================================================
