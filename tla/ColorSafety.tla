---------------------------- MODULE ColorSafety ----------------------------
(***************************************************************************)
(* What the clients of ColorClient guarantee when the graph and the        *)
(* partitions are the ones the run scripts produce: node ids 0 .. N-1, and *)
(* disjoint ranges.                                                        *)
(***************************************************************************)
EXTENDS ColorClient

CONSTANT N

\* The ids are contiguous from 0, so that keys[i] is the node i.
ASSUME ContiguousIds == N \in Nat /\ Node = 0 .. (N - 1)

\* No node is in two partitions, and no partition reaches beyond the graph.
ASSUME DisjointPartitions ==
    /\ \A p, q \in Proc : p # q => Last[p] < First[q] \/ Last[q] < First[p]
    /\ \A p \in Proc : Last[p] < N

-----------------------------------------------------------------------------
\* The parts of process_node.
LockPC == {"setFlag", "setTurn", "getFlag", "getTurn", "waitTurn", "waitFlag"}
ReadPC == {"pick", "getStatus", "getColor"} \cup LockPC
WorkPC == ReadPC \cup {"setStatus", "release"}
PCs == WorkPC \cup {"start", "loop", "done", "exit"}

\* Every variable has a value of its kind.
TypeOK ==
    /\ flag \in [FlagKeys -> {Nil, 0, 1}]
    /\ turn \in [Arc -> Node \cup {Nil, 0}]
    /\ color \in [Node -> Nat]
    /\ status \in [Node -> {Nil, 1}]
    /\ monitor \in [Proc -> {Nil, 1}]
    /\ pc \in [Proc -> PCs]
    /\ cur \in [Proc -> Nat]
    /\ node \in [Proc -> Node \cup {Nil}]
    /\ todo \in [Proc -> SUBSET Node]
    /\ nbr \in [Proc -> Node \cup {Nil}]
    /\ seen \in [Proc -> [Node -> Nat \cup {Nil}]]
    /\ locks \in [Proc -> SUBSET Node]
    /\ otherFlag \in [Proc -> {Nil, 0, 1}]
    /\ turnNew \in [Proc -> Node \cup {Nil, 0}]
    /\ conn \in [Proc -> BOOLEAN]

-----------------------------------------------------------------------------
\* p, colouring node[p], holds the lock it shares with v.
Holds(p, v) == pc[p] \in ReadPC \cup {"setStatus"} /\ v \in locks[p]

\* The nodes that have got their colour.
Colored ==
    {u \in Node : \/ status[u] = 1
                  \/ \E p \in Proc : node[p] = u /\ pc[p] = "setStatus"}

\* acquire_lock gives the lock of an edge to one of its ends at a time, also
\* when the owner of the other end reads, writes or dies between any two of
\* its commands.
EdgeMutex ==
    \A p, q \in Proc :
       p # q /\ Holds(p, node[q]) => ~Holds(q, node[p])

\* The colours a client has read are the colours its neighbours have at the
\* moment it writes its own, although the reads are separate commands: no
\* neighbour can be coloured between the read and the write.
ReadsAreCurrent ==
    \A p \in Proc :
       pc[p] = "pick" =>
          \A n \in Nbr[node[p]] \ todo[p] : seen[p][n] = color[n]

\* Two adjacent nodes never have the same colour once both are coloured,
\* which is what check_color.py tests at the end of a run.
ProperColoring ==
    \A u, v \in Colored : v \in Nbr[u] => color[u] # color[v]

\* A node uses at most as many colours as it has neighbours, plus one.
DegreeBound == \A u \in Colored : color[u] <= Cardinality(Nbr[u])

\* A client that reports to the monitoring server has coloured its whole
\* partition: before it reports, main prints "colored all nodes".
ReportMeansColored ==
    \A p \in Proc : monitor[p] = 1 =>
       \A u \in First[p] .. Last[p] : status[u] = 1

\* The colours change as in a sequential greedy colouring.
Greedy == INSTANCE GreedyColoring WITH colored <- Colored
RefinesGreedy == Greedy!GSpec

\* Once a node is marked as coloured its colour never changes.
ColorIsFinal ==
    [][\A u \in Node :
          status[u] = 1 => color'[u] = color[u] /\ status'[u] = 1]_vars

-----------------------------------------------------------------------------
(***************************************************************************)
(* The inductive invariant behind EdgeMutex, ReadsAreCurrent and           *)
(* ProperColoring.                                                         *)
(***************************************************************************)
\* Where a client is in its partition and in the list of the neighbours.
Position(p) ==
    /\ First[p] <= cur[p]
    /\ pc[p] \in WorkPC =>
          /\ cur[p] <= Last[p]
          /\ node[p] = cur[p]
          /\ todo[p] \subseteq Nbr[node[p]]
          /\ \A n \in locks[p] : n \in Nbr[node[p]] /\ External(p, n)
    /\ pc[p] \in ReadPC => locks[p] \cap todo[p] = {}
    /\ pc[p] \in ReadPC \ {"pick"} => nbr[p] \in Nbr[node[p]] \ todo[p]
    /\ pc[p] \in LockPC \cup {"getStatus"} =>
          External(p, nbr[p]) /\ nbr[p] \notin locks[p]

PositionInv == \A p \in Proc : Position(p)

\* A node is marked exactly when its owner has passed set_status on it.
StatusInv ==
    \A p \in Proc : \A u \in First[p] .. Last[p] :
       status[u] = 1 <=> u < cur[p] \/ (u = cur[p] /\ pc[p] = "release")

\* p has raised its flag towards v, has written the turn of the edge, and has
\* seen what lets it leave the waiting loop.
Raised(p, v) ==
    Holds(p, v) \/ (nbr[p] = v /\ pc[p] \in LockPC \ {"setFlag"})
Contends(p, v) ==
    Holds(p, v) \/ (nbr[p] = v /\ pc[p] \in LockPC \ {"setFlag", "setTurn"})
Entered(p, v) ==
    \/ Holds(p, v)
    \/ nbr[p] = v /\ pc[p] = "getTurn" /\ otherFlag[p] # 1
    \/ nbr[p] = v /\ pc[p] = "waitFlag" /\ turnNew[p] # node[p]

\* A raised flag stays up until its owner lowers it.  Only the garbage
\* releases of the owner of v can break this, and only after v is marked.
FlagInv ==
    \A p \in Proc : \A v \in Node :
       Raised(p, v) /\ status[v] # 1 => flag[FlagKey(node[p], v)] = 1

TurnInv ==
    \A p \in Proc : \A v \in Node :
       Contends(p, v) /\ status[v] # 1 =>
          turn[TurnKey(node[p], v)] \in {node[p], v}

\* Peterson's argument: if p may enter, the turn makes the other end wait.
PetersonInv ==
    \A p, q \in Proc :
       p # q /\ Entered(p, node[q]) /\ Contends(q, node[p]) =>
          turn[TurnKey(node[p], node[q])] = node[q]

\* What p has read of n stays true: n is a node of p, or has its final
\* colour, or cannot be coloured before p releases the lock.
Settled(p, n) == ~External(p, n) \/ status[n] = 1 \/ n \in locks[p]

SnapshotInv ==
    \A p \in Proc : pc[p] \in ReadPC =>
       \A n \in Nbr[node[p]] \ todo[p] :
          /\ pc[p] = "pick" \/ n # nbr[p] =>
                seen[p][n] = color[n] /\ Settled(p, n)
          /\ pc[p] = "getColor" /\ n = nbr[p] => Settled(p, n)

IInv ==
    /\ TypeOK /\ PositionInv /\ StatusInv /\ FlagInv /\ TurnInv
    /\ PetersonInv /\ SnapshotInv /\ ProperColoring

\* A flag that is up is the one its owner has raised for the node it is colouring,
\* and has not lowered yet.
InLock(p, v) == Raised(p, v) \/ (pc[p] = "release" /\ v \in locks[p] \cap todo[p])

FlagsOwned ==
    \A p \in Proc : \A u \in First[p] .. Last[p] : \A v \in Nbr[u] :
       flag[FlagKey(u, v)] = 1 => node[p] = u /\ InLock(p, v)

-----------------------------------------------------------------------------
\* Without failures every client gets to its end: the clients neither
\* deadlock on the locks of several edges nor starve in acquire_lock.
Termination == \A p \in Proc : <>(pc[p] \in {"done", "exit"})

\* p has a raised flag on the server.
FlagUp(p) ==
    \E u \in First[p] .. Last[p] : \E v \in Nbr[u] : flag[FlagKey(u, v)] = 1

\* A client that fails while none of its flags is up blocks nobody.
FailureIsContained ==
    []<>(\E q \in Proc : ~conn[q] /\ FlagUp(q)) \/ \A p \in Proc : <>Ended(p)
=============================================================================
