---------------------------- MODULE ColorClient ----------------------------
(***************************************************************************)
(* The colouring client of src/color/1server/color.c, run by several       *)
(* processes against one Redis/KeyDB server.  Every client walks over the  *)
(* nodes of its partition; for each of them it reads the colours of the    *)
(* neighbours, taking a Peterson lock on the edge to every neighbour of    *)
(* another partition that is not coloured yet, writes the least colour it  *)
(* has not seen, marks the node as coloured and releases the locks.        *)
(*                                                                         *)
(* One step of the model is one redisCommand of the code: the server runs  *)
(* commands one at a time, so a command is atomic, and anything may happen *)
(* between two commands of a client.                                       *)
(***************************************************************************)
EXTENDS Integers, FiniteSets

CONSTANTS
    Proc,       \* the client processes
    First,      \* argv[1] of each client, first_node_id_of_first_task
    Last,       \* argv[2] of each client, last_node_id_of_last_task
    Node,       \* the ids of the nodes with a key node_<id>_neighbours
    Nbr,        \* the sets under these keys
    MayFail     \* the clients that may die or lose a connection

\* The value of a key that does not exist.
Nil == -1

ASSUME GraphAssumption ==
    /\ Node \subseteq Nat
    /\ IsFiniteSet(Node)
    /\ Nbr \in [Node -> SUBSET Node]
    /\ \A u \in Node : u \notin Nbr[u]
    /\ \A u, v \in Node : v \in Nbr[u] => u \in Nbr[v]

ASSUME ProcAssumption ==
    /\ IsFiniteSet(Proc)
    /\ First \in [Proc -> Nat]
    /\ Last \in [Proc -> Nat]
    /\ MayFail \subseteq Proc

VARIABLES
    \* the keys of the server
    flag,       \* flag_<bothId>_<node>
    turn,       \* turn_<bothId>
    color,      \* node_<id>_color
    status,     \* node_<id>_status
    \* the key <hostname>_status of the monitoring server
    monitor,
    \* the local state of the clients
    pc,         \* the next command of the client
    cur,        \* i of the loop of main
    node,       \* node_name of process_node
    todo,       \* the neighbours the current loop has not reached
    nbr,        \* the neighbour the current iteration is about
    seen,       \* nbr_color_list
    locks,      \* the neighbours whose locks_array entry holds a lock
    otherFlag,  \* other_flag of acquire_lock
    turnNew,    \* turn_var_new of acquire_lock
    conn        \* FALSE once the client is dead or cut off from the server

store == <<flag, turn, color, status>>
local == <<pc, cur, node, todo, nbr, seen, locks, otherFlag, turnNew>>
vars == <<flag, turn, color, status, monitor, pc, cur, node, todo, nbr, seen,
          locks, otherFlag, turnNew, conn>>

-----------------------------------------------------------------------------
\* bothId: the ids of an edge, the smaller one first.
BothId(u, v) == IF v < u THEN <<v, u>> ELSE <<u, v>>

\* lock_key_1 of node u for its lock with v; lock_key_2 is FlagKey(v, u).
FlagKey(u, v) == <<BothId(u, v), u>>
TurnKey(u, v) == BothId(u, v)

Arc == {a \in Node \X Node : a[2] \in Nbr[a[1]]}
FlagKeys == {k \in Arc \X Node : k[2] \in {k[1][1], k[1][2]}}

\* keys[i] of main: fetch_keys sorts the nodes by id, and the list is indexed
\* from 0.
Key(i) == CHOOSE n \in Node : Cardinality({m \in Node : m < n}) = i

\* Mutant: the upper end of the range is off by one.
ExternalOffByOne(p, n) == n < First[p] \/ n > Last[p] + 1

\* The test of read_color_of_neighbors that decides whether a lock is needed.
External(p, n) == n < First[p] \/ n > Last[p]

\* Mutant: a missing key counts as coloured.
GetStatusOfMissing(n) == IF status[n] = Nil THEN 1 ELSE status[n]

\* get_status: a missing key counts as status 0.
GetStatusOf(n) == IF status[n] = Nil THEN 0 ELSE status[n]

\* The next neighbour in the order of sort_neighbours.
IsNext(S, n) == n \in S /\ \A m \in S : n <= m

\* Mutant: the search starts at 1.
IsLeastFreeFromOne(c, S) ==
    c \in Nat \ (S \cup {0}) /\ \A d \in 1 .. (c - 1) : d \in S

\* The result of getMinimalValueNotInArray(arr, len, 0, 1000): the least
\* natural number that is not an element of the array.
IsLeastFree(c, S) == c \notin S /\ \A d \in 0 .. (c - 1) : d \in S
Color == 0 .. Cardinality(Node)

-----------------------------------------------------------------------------
Init ==
    /\ flag = [k \in FlagKeys |-> Nil]
    /\ turn = [e \in Arc |-> Nil]
    /\ color = [n \in Node |-> 0]
    /\ status = [n \in Node |-> Nil]
    /\ monitor = [p \in Proc |-> Nil]
    /\ pc = [p \in Proc |-> "start"]
    /\ cur = First
    /\ node = [p \in Proc |-> Nil]
    /\ todo = [p \in Proc |-> {}]
    /\ nbr = [p \in Proc |-> Nil]
    /\ seen = [p \in Proc |-> [n \in Node |-> Nil]]
    /\ locks = [p \in Proc |-> {}]
    /\ otherFlag = [p \in Proc |-> Nil]
    /\ turnNew = [p \in Proc |-> Nil]
    /\ conn = [p \in Proc |-> TRUE]

At(p, l) == conn[p] /\ pc[p] = l
Goto(p, l) == pc' = [pc EXCEPT ![p] = l]

\* main up to the loop: exit with status 1 for an empty range, a refused
\* connection or a graph without keys.
Start(p) ==
    /\ At(p, "start")
    /\ \/ /\ First[p] > Last[p] \/ Node = {} \/ p \in MayFail
          /\ Goto(p, "exit")
       \/ /\ First[p] <= Last[p] /\ Node # {}
          /\ Goto(p, "loop")
    /\ UNCHANGED <<store, monitor, cur, node, todo, nbr, seen, locks,
                   otherFlag, turnNew, conn>>

\* One iteration of the loop of main, up to the first neighbour:
\* get_all_neighbours, check_boundary_node (whose result is not used) and
\* sort_neighbours.  keys[i] beyond the end of the list is undefined, and the
\* client is taken to die on it; ranges inside the graph exclude the case.
ProcessNode(p) ==
    /\ At(p, "loop")
    /\ cur[p] <= Last[p]
    /\ IF cur[p] < Cardinality(Node)
       THEN LET u == Key(cur[p]) IN
            /\ node' = [node EXCEPT ![p] = u]
            /\ todo' = [todo EXCEPT ![p] = Nbr[u]]
            /\ seen' = [seen EXCEPT ![p] = [n \in Node |-> Nil]]
            /\ locks' = [locks EXCEPT ![p] = {}]
            /\ Goto(p, "pick")
            /\ UNCHANGED conn
       ELSE /\ conn' = [conn EXCEPT ![p] = FALSE]
            /\ UNCHANGED <<pc, node, todo, seen, locks>>
    /\ UNCHANGED <<store, monitor, cur, nbr, otherFlag, turnNew>>

\* The head of the loop of read_color_of_neighbors.
PickNeighbour(p) ==
    /\ At(p, "pick")
    /\ \E n \in todo[p] :
          /\ IsNext(todo[p], n)
          /\ nbr' = [nbr EXCEPT ![p] = n]
          /\ todo' = [todo EXCEPT ![p] = @ \ {n}]
          /\ Goto(p, IF External(p, n) THEN "getStatus" ELSE "getColor")
    /\ UNCHANGED <<store, monitor, cur, node, seen, locks, otherFlag, turnNew,
                   conn>>

\* get_status of an external neighbour: a lock is taken only if it is 0.
GetStatus(p) ==
    /\ At(p, "getStatus")
    /\ Goto(p, IF GetStatusOf(nbr[p]) = 0 THEN "setFlag" ELSE "getColor")
    /\ UNCHANGED <<store, monitor, cur, node, todo, nbr, seen, locks,
                   otherFlag, turnNew, conn>>

-----------------------------------------------------------------------------
\* acquire_lock for the edge between node[p] and nbr[p].

SetFlag(p) ==
    /\ At(p, "setFlag")
    /\ flag' = [flag EXCEPT ![FlagKey(node[p], nbr[p])] = 1]
    /\ Goto(p, "setTurn")
    /\ UNCHANGED <<turn, color, status, monitor, cur, node, todo, nbr, seen,
                   locks, otherFlag, turnNew, conn>>

\* Mutants: the turn is not written, or is set to the neighbour.
SetTurnDropped(p) ==
    /\ At(p, "setTurn")
    /\ Goto(p, "getFlag")
    /\ UNCHANGED <<store, monitor, cur, node, todo, nbr, seen, locks,
                   otherFlag, turnNew, conn>>

SetTurnToNeighbour(p) ==
    /\ At(p, "setTurn")
    /\ turn' = [turn EXCEPT ![TurnKey(node[p], nbr[p])] = nbr[p]]
    /\ Goto(p, "getFlag")
    /\ UNCHANGED <<flag, color, status, monitor, cur, node, todo, nbr, seen,
                   locks, otherFlag, turnNew, conn>>

SetTurn(p) ==
    /\ At(p, "setTurn")
    /\ turn' = [turn EXCEPT ![TurnKey(node[p], nbr[p])] = node[p]]
    /\ Goto(p, "getFlag")
    /\ UNCHANGED <<flag, color, status, monitor, cur, node, todo, nbr, seen,
                   locks, otherFlag, turnNew, conn>>

GetFlag(p) ==
    /\ At(p, "getFlag")
    /\ otherFlag' = [otherFlag EXCEPT ![p] = flag[FlagKey(nbr[p], node[p])]]
    /\ Goto(p, "getTurn")
    /\ UNCHANGED <<store, monitor, cur, node, todo, nbr, seen, locks, turnNew,
                   conn>>

\* Mutants: the turn compared the other way round; the flag ignored.
MustWaitSwapped(p, f, t) == f = 1 /\ t # node[p]
MustWaitOnTurn(p, f, t) == t = node[p]

\* The condition of the while loop of acquire_lock on the values f and t of
\* other_flag and turn_var_new, and the exit from the loop.
MustWait(p, f, t) == f = 1 /\ t = node[p]

LoopOrEnter(p, f, t) ==
    IF MustWait(p, f, t)
    THEN Goto(p, "waitTurn") /\ UNCHANGED locks
    ELSE Goto(p, "getColor") /\ locks' = [locks EXCEPT ![p] = @ \cup {nbr[p]}]

GetTurn(p) ==
    /\ At(p, "getTurn")
    /\ turnNew' = [turnNew EXCEPT ![p] = turn[TurnKey(node[p], nbr[p])]]
    /\ LoopOrEnter(p, otherFlag[p], turn[TurnKey(node[p], nbr[p])])
    /\ UNCHANGED <<store, monitor, cur, node, todo, nbr, seen, otherFlag, conn>>

\* The body of the while loop reads the turn first, then the flag.
WaitTurn(p) ==
    /\ At(p, "waitTurn")
    /\ turnNew' = [turnNew EXCEPT ![p] = turn[TurnKey(node[p], nbr[p])]]
    /\ Goto(p, "waitFlag")
    /\ UNCHANGED <<store, monitor, cur, node, todo, nbr, seen, locks,
                   otherFlag, conn>>

WaitFlag(p) ==
    /\ At(p, "waitFlag")
    /\ otherFlag' = [otherFlag EXCEPT ![p] = flag[FlagKey(nbr[p], node[p])]]
    /\ LoopOrEnter(p, flag[FlagKey(nbr[p], node[p])], turnNew[p])
    /\ UNCHANGED <<store, monitor, cur, node, todo, nbr, seen, turnNew, conn>>

-----------------------------------------------------------------------------
\* Mutant: the node is marked before its colour is written.
GetColorMarks(p) ==
    /\ At(p, "getColor")
    /\ seen' = [seen EXCEPT ![p][nbr[p]] = color[nbr[p]]]
    /\ status' = IF todo[p] = {} THEN [status EXCEPT ![node[p]] = 1] ELSE status
    /\ Goto(p, "pick")
    /\ UNCHANGED <<flag, turn, color, monitor, cur, node, todo, nbr, locks,
                   otherFlag, turnNew, conn>>

\* get_node_color of the neighbour of the current iteration.
GetColor(p) ==
    /\ At(p, "getColor")
    /\ seen' = [seen EXCEPT ![p][nbr[p]] = color[nbr[p]]]
    /\ Goto(p, "pick")
    /\ UNCHANGED <<store, monitor, cur, node, todo, nbr, locks, otherFlag,
                   turnNew, conn>>

\* getMinimalValueNotInArray and set_node_color.
SetColor(p) ==
    /\ At(p, "pick")
    /\ todo[p] = {}
    /\ \E c \in Color :
          /\ IsLeastFree(c, {seen[p][n] : n \in Nbr[node[p]]})
          /\ color' = [color EXCEPT ![node[p]] = c]
    /\ Goto(p, "setStatus")
    /\ UNCHANGED <<flag, turn, status, monitor, cur, node, todo, nbr, seen,
                   locks, otherFlag, turnNew, conn>>

SetStatus(p) ==
    /\ At(p, "setStatus")
    /\ status' = [status EXCEPT ![node[p]] = 1]
    /\ todo' = [todo EXCEPT ![p] = Nbr[node[p]]]
    /\ Goto(p, "release")
    /\ UNCHANGED <<flag, turn, color, monitor, cur, node, nbr, seen, locks,
                   otherFlag, turnNew, conn>>

\* The locks that p built for the nodes it is done with: the strings a freed
\* locks_array may leave on the heap.
StaleLocks(p) ==
    {a \in Arc : /\ \E i \in First[p] .. (cur[p] - 1) : a[1] = Key(i)
                 /\ External(p, a[2])
                 /\ flag[FlagKey(a[1], a[2])] # Nil}

\* release_lock on a locks_array entry that malloc left uninitialised: SET of
\* a key nobody reads, or of a key of a stale lock.
ReleaseGarbage(p) ==
    \/ UNCHANGED <<flag, turn>>
    \/ \E a \in StaleLocks(p) :
          \/ /\ flag' = [flag EXCEPT ![FlagKey(a[1], a[2])] = 0]
             /\ UNCHANGED turn
          \/ /\ flag' = [flag EXCEPT ![FlagKey(a[2], a[1])] = 0]
             /\ UNCHANGED turn
          \/ /\ turn' = [turn EXCEPT ![TurnKey(a[1], a[2])] = 0]
             /\ UNCHANGED flag

\* One iteration of the loop of process_node that releases the locks: it runs
\* over all the neighbours, with and without a lock.
ReleaseLock(p) ==
    /\ At(p, "release")
    /\ \E n \in todo[p] :
          /\ IsNext(todo[p], n)
          /\ todo' = [todo EXCEPT ![p] = @ \ {n}]
          /\ IF n \in locks[p]
             THEN /\ flag' = [flag EXCEPT ![FlagKey(node[p], n)] = 0]
                  /\ UNCHANGED turn
             ELSE ReleaseGarbage(p)
    /\ UNCHANGED <<color, status, monitor, pc, cur, node, nbr, seen, locks,
                   otherFlag, turnNew, conn>>

\* Mutant: the loop that releases the locks stops one entry early.
NextNodeEarly(p) ==
    /\ At(p, "release")
    /\ Cardinality(todo[p]) <= 1
    /\ cur' = [cur EXCEPT ![p] = @ + 1]
    /\ Goto(p, "loop")
    /\ UNCHANGED <<store, monitor, node, todo, nbr, seen, locks, otherFlag,
                   turnNew, conn>>

\* The end of process_node and the step of the loop of main.
NextNode(p) ==
    /\ At(p, "release")
    /\ todo[p] = {}
    /\ cur' = [cur EXCEPT ![p] = @ + 1]
    /\ Goto(p, "loop")
    /\ UNCHANGED <<store, monitor, node, todo, nbr, seen, locks, otherFlag,
                   turnNew, conn>>

\* The end of main: a new connection to the monitoring server and
\* set_status_to_monitor, which only prints an error if it fails.
Report(p) ==
    /\ At(p, "loop")
    /\ cur[p] > Last[p]
    /\ \/ monitor' = [monitor EXCEPT ![p] = 1]
       \/ p \in MayFail /\ UNCHANGED monitor
    /\ Goto(p, "done")
    /\ UNCHANGED <<store, cur, node, todo, nbr, seen, locks, otherFlag,
                   turnNew, conn>>

-----------------------------------------------------------------------------
\* A client dies or loses its connection: from here on it changes nothing on
\* the server, because hiredis answers NULL to every later command.
Fail(p) ==
    /\ p \in MayFail
    /\ conn[p]
    /\ pc[p] \notin {"start", "exit", "done"}
    /\ conn' = [conn EXCEPT ![p] = FALSE]
    /\ UNCHANGED <<store, monitor, local>>

\* After the loss of the connection every NULL reply up to the end of main is
\* checked: get_node_color, set_node_color, set_status and release_lock test
\* their reply, check_boundary_node and acquire_lock dereference it.
FallsThrough(p) ==
    \/ pc[p] = "loop" /\ cur[p] > Last[p]
    \/ /\ cur[p] = Last[p]
       /\ \/ pc[p] \in {"setStatus", "release"}
          \/ /\ \/ pc[p] \in {"pick", "getColor"}
                \/ pc[p] = "getTurn" /\ otherFlag[p] # 1
             /\ \A n \in todo[p] : ~External(p, n)

\* A client without a connection that gets to the end of main still reports.
ReportAfterLoss(p) ==
    /\ ~conn[p]
    /\ FallsThrough(p)
    /\ monitor[p] = Nil
    /\ monitor' = [monitor EXCEPT ![p] = 1]
    /\ UNCHANGED <<store, local, conn>>

\* The commands of a client whose connection works.
Step(p) ==
    \/ Start(p) \/ ProcessNode(p) \/ PickNeighbour(p) \/ GetStatus(p)
    \/ SetFlag(p) \/ SetTurn(p) \/ GetFlag(p) \/ GetTurn(p)
    \/ WaitTurn(p) \/ WaitFlag(p) \/ GetColor(p)
    \/ SetColor(p) \/ SetStatus(p) \/ ReleaseLock(p) \/ NextNode(p)
    \/ Report(p)

Ended(p) == ~conn[p] \/ pc[p] \in {"exit", "done"}

\* All the clients have ended.
Terminated ==
    /\ \A p \in Proc : Ended(p)
    /\ UNCHANGED vars

Next ==
    \/ \E p \in Proc : Step(p) \/ Fail(p) \/ ReportAfterLoss(p)
    \/ Terminated

Spec == Init /\ [][Next]_vars

\* A client is a sequential program and the server answers every command, so
\* a client that works does its next step sooner or later.
FairSpec == Spec /\ \A p \in Proc : WF_vars(Step(p))
=============================================================================
