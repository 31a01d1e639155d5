----------------------------- MODULE SyncClient -----------------------------
(***************************************************************************)
(* The colouring client of src/color/sync/color.c.  It is the algorithm of *)
(* the 1server client, but each client talks to one of several servers     *)
(* that replicate to one another, and every write is a SET followed by     *)
(* WAIT for a number of replicas, repeated until enough have acknowledged  *)
(* it.  The servers execute each other's writes in the order of the server *)
(* they were sent to, which is FifoBroadcast.                              *)
(***************************************************************************)
EXTENDS Integers, FiniteSets, Sequences

CONSTANTS
    Proc, First, Last,      \* the clients and their ranges of nodes
    Node, Nbr,              \* the graph, already loaded on every server
    Servers,
    Homes,                  \* the ways the clients may be paired with servers
    Required,               \* argv[6]: num_of_replicas
    Retries,                \* bound: the WAITs of a client that time out
    MayFail                 \* the clients that may die or lose the connection

Nil == -1

\* Node ids from 0 on (keys[i] is the node i) and ranges inside the graph.
ASSUME SyncAssumption ==
    /\ IsFiniteSet(Node) /\ Node # {}
    /\ Node \subseteq Nat /\ \A u \in Node : 0 .. u \subseteq Node
    /\ Nbr \in [Node -> SUBSET Node]
    /\ \A u \in Node : u \notin Nbr[u] /\ \A v \in Nbr[u] : u \in Nbr[v]
    /\ First \in [Proc -> Node] /\ Last \in [Proc -> Node]
    /\ Homes \subseteq [Proc -> Servers] /\ Required \in Nat /\ Retries \in Nat

VARIABLES
    home,       \* argv[3] of each client; it does not change
    db,         \* db[s][k]: the value of key k at server s
    chan,       \* chan[s][t]: the writes of s that t has not executed
    monitor,    \* <hostname>_status on the monitoring server
    pc, cur, node, todo, nbr, seen, locks, otherFlag, turnNew,
    waiting,    \* TRUE from the SET of write_with_wait to the reply to its WAIT
    retries,    \* the WAITs of the client that have timed out
    conn

client == <<cur, node, todo, nbr, seen, locks, otherFlag, turnNew>>
vars == <<home, db, chan, monitor, pc, client, waiting, retries, conn>>

-----------------------------------------------------------------------------
\* bothId, and the keys made from it.
BothId(u, v) == IF v < u THEN <<v, u>> ELSE <<u, v>>
FlagKey(u, v) == <<"flag", BothId(u, v), u>>
TurnKey(u, v) == <<"turn", BothId(u, v)>>
ColorKey(u) == <<"color", u>>
StatusKey(u) == <<"status", u>>
Keys ==
    UNION {{ColorKey(u), StatusKey(u)} \cup UNION {{FlagKey(u, v), TurnKey(u, v)}
              : v \in Nbr[u]} : u \in Node}

External(p, n) == n < First[p] \/ n > Last[p]

\* The order of sort_neighbours, which is also that of locks_array.
Least(S) == CHOOSE n \in S : \A m \in S : n <= m

\* getMinimalValueNotInArray(arr, len, 0, 1000).
LeastFree(S) == CHOOSE c \in 0 .. Cardinality(S) :
                   c \notin S /\ \A d \in 0 .. (c - 1) : d \in S

Init ==
    /\ home \in Homes
    /\ db = [s \in Servers |-> [k \in Keys |-> IF k[1] = "color" THEN 0 ELSE Nil]]
    /\ chan = [s \in Servers |-> [t \in Servers \ {s} |-> <<>>]]
    /\ monitor = [p \in Proc |-> Nil]
    /\ pc = [p \in Proc |-> "start"]
    /\ cur = First
    /\ node = [p \in Proc |-> Nil]
    /\ todo = [p \in Proc |-> {}]
    /\ nbr = [p \in Proc |-> Nil]
    /\ seen = [p \in Proc |-> {}]
    /\ locks = [p \in Proc |-> {}]
    /\ otherFlag = [p \in Proc |-> Nil]
    /\ turnNew = [p \in Proc |-> Nil]
    /\ waiting = [p \in Proc |-> FALSE]
    /\ retries = [p \in Proc |-> 0]
    /\ conn = [p \in Proc |-> TRUE]

At(p, l) == conn[p] /\ pc[p] = l
Goto(p, l) == pc' = [pc EXCEPT ![p] = l]

\* Everything but the local variables of the clients.
Shared == <<home, db, chan, monitor, waiting, retries, conn>>

\* A read goes to the server of the client.
Get(p, k) == db[home[p]][k]

-----------------------------------------------------------------------------
\* main up to its loop: the early returns for an empty range and a refused
\* connection.
Start(p) ==
    /\ At(p, "start")
    /\ \/ (First[p] > Last[p] \/ p \in MayFail) /\ Goto(p, "exit")
       \/ First[p] <= Last[p] /\ Goto(p, "loop")
    /\ UNCHANGED <<Shared, client>>

\* Where the loop of read_color_of_neighbors goes with the neighbours S left.
NextNeighbour(S) == IF S = {} THEN "setColor" ELSE "pick"

\* process_node up to read_color_of_neighbors.
ProcessNode(p) ==
    /\ At(p, "loop")
    /\ cur[p] <= Last[p]
    /\ node' = [node EXCEPT ![p] = cur[p]]
    /\ todo' = [todo EXCEPT ![p] = Nbr[cur[p]]]
    /\ seen' = [seen EXCEPT ![p] = {}]
    /\ locks' = [locks EXCEPT ![p] = {}]
    /\ Goto(p, NextNeighbour(Nbr[cur[p]]))
    /\ UNCHANGED <<Shared, cur, nbr, otherFlag, turnNew>>

\* The next neighbour; an external one whose status is missing, which
\* get_status reports as 0, is locked.
PickNeighbour(p) ==
    /\ At(p, "pick")
    /\ LET n == Least(todo[p]) IN
       /\ nbr' = [nbr EXCEPT ![p] = n]
       /\ todo' = [todo EXCEPT ![p] = @ \ {n}]
       /\ Goto(p, IF External(p, n) /\ Get(p, StatusKey(n)) = Nil
                     THEN "setFlag" ELSE "getColor")
    /\ UNCHANGED <<Shared, cur, node, seen, locks, otherFlag, turnNew>>

\* The reads of acquire_lock: the flag of the other end and the turn, and in
\* the waiting loop the turn first.
GetFlag(p) ==
    /\ At(p, "getFlag")
    /\ otherFlag' = [otherFlag EXCEPT ![p] = Get(p, FlagKey(nbr[p], node[p]))]
    /\ Goto(p, "getTurn")
    /\ UNCHANGED <<Shared, cur, node, todo, nbr, seen, locks, turnNew>>

\* Mutant: the turn is compared the other way round.
LoopOrEnterSwapped(p, f, t) ==
    IF f = 1 /\ t # node[p]
    THEN Goto(p, "waitTurn") /\ UNCHANGED locks
    ELSE Goto(p, "getColor") /\ locks' = [locks EXCEPT ![p] = @ \cup {nbr[p]}]

LoopOrEnter(p, f, t) ==
    IF f = 1 /\ t = node[p]
    THEN Goto(p, "waitTurn") /\ UNCHANGED locks
    ELSE Goto(p, "getColor") /\ locks' = [locks EXCEPT ![p] = @ \cup {nbr[p]}]

GetTurn(p) ==
    /\ At(p, "getTurn")
    /\ turnNew' = [turnNew EXCEPT ![p] = Get(p, TurnKey(node[p], nbr[p]))]
    /\ LoopOrEnter(p, otherFlag[p], turnNew'[p])
    /\ UNCHANGED <<Shared, cur, node, todo, nbr, seen, otherFlag>>

WaitTurn(p) ==
    /\ At(p, "waitTurn")
    /\ turnNew' = [turnNew EXCEPT ![p] = Get(p, TurnKey(node[p], nbr[p]))]
    /\ Goto(p, "waitFlag")
    /\ UNCHANGED <<Shared, cur, node, todo, nbr, seen, locks, otherFlag>>

WaitFlag(p) ==
    /\ At(p, "waitFlag")
    /\ otherFlag' = [otherFlag EXCEPT ![p] = Get(p, FlagKey(nbr[p], node[p]))]
    /\ LoopOrEnter(p, otherFlag'[p], turnNew[p])
    /\ UNCHANGED <<Shared, cur, node, todo, nbr, seen, turnNew>>

GetColor(p) ==
    /\ At(p, "getColor")
    /\ seen' = [seen EXCEPT ![p] = @ \cup {Get(p, ColorKey(nbr[p]))}]
    /\ Goto(p, NextNeighbour(todo[p]))
    /\ UNCHANGED <<Shared, cur, node, todo, nbr, locks, otherFlag, turnNew>>

-----------------------------------------------------------------------------
\* write_with_wait.  The writes of acquire_lock, set_node_color and
\* release_lock, and what follows each of them.
WritePC == {"setFlag", "setTurn", "setColor", "setStatus", "release"}

\* Mutant: the status is written before the colour.
WrittenSwapped(p) ==
    CASE pc[p] = "setFlag" -> [key |-> FlagKey(node[p], nbr[p]), val |-> 1]
      [] pc[p] = "setTurn" -> [key |-> TurnKey(node[p], nbr[p]), val |-> node[p]]
      [] pc[p] = "setColor" -> [key |-> StatusKey(node[p]), val |-> 1]
      [] pc[p] = "setStatus" -> [key |-> ColorKey(node[p]), val |-> LeastFree(seen[p])]
      [] pc[p] = "release" -> [key |-> FlagKey(node[p], Least(locks[p])), val |-> 0]

Written(p) ==
    CASE pc[p] = "setFlag" -> [key |-> FlagKey(node[p], nbr[p]), val |-> 1]
      [] pc[p] = "setTurn" -> [key |-> TurnKey(node[p], nbr[p]), val |-> node[p]]
      [] pc[p] = "setColor" -> [key |-> ColorKey(node[p]), val |-> LeastFree(seen[p])]
      [] pc[p] = "setStatus" -> [key |-> StatusKey(node[p]), val |-> 1]
      [] pc[p] = "release" -> [key |-> FlagKey(node[p], Least(locks[p])), val |-> 0]

Following(p) ==
    CASE pc[p] = "setFlag" -> "setTurn"
      [] pc[p] = "setTurn" -> "getFlag"
      [] pc[p] = "setColor" -> "setStatus"
      [] OTHER -> "release"

\* Mutant: a lock is released on the server of the client only.
SetLocally(p) ==
    /\ conn[p] /\ pc[p] \in WritePC /\ ~waiting[p]
    /\ pc[p] = "release" => locks[p] # {}
    /\ LET w == Written(p)  s == home[p] IN
       /\ db' = [db EXCEPT ![s][w.key] = w.val]
       /\ chan' = IF pc[p] = "release" THEN chan
                  ELSE [chan EXCEPT ![s] = [t \in Servers \ {s} |->
                     Append(chan[s][t], [key |-> w.key, val |-> w.val, by |-> p])]]
    /\ waiting' = [waiting EXCEPT ![p] = TRUE]
    /\ UNCHANGED <<home, monitor, pc, client, retries, conn>>

\* The SET, at the server of the client, which sends it to the other servers.
Set(p) ==
    /\ conn[p] /\ pc[p] \in WritePC /\ ~waiting[p]
    /\ pc[p] = "release" => locks[p] # {}
    /\ LET w == Written(p)  s == home[p] IN
       /\ db' = [db EXCEPT ![s][w.key] = w.val]
       /\ chan' = [chan EXCEPT ![s] = [t \in Servers \ {s} |->
                     Append(chan[s][t], [key |-> w.key, val |-> w.val, by |-> p])]]
    /\ waiting' = [waiting EXCEPT ![p] = TRUE]
    /\ UNCHANGED <<home, monitor, pc, client, retries, conn>>

\* Mutant: every replica counts as caught up.
CaughtAll(p) == Servers \ {home[p]}

\* The replicas that have executed all the writes of p.
Caught(p) ==
    {t \in Servers \ {home[p]} : \A i \in 1 .. Len(chan[home[p]][t]) :
        chan[home[p]][t][i].by # p}

\* WAIT reports enough replicas.
WaitReturns(p) ==
    /\ conn[p] /\ waiting[p]
    /\ Cardinality(Caught(p)) >= Required
    /\ waiting' = [waiting EXCEPT ![p] = FALSE]
    /\ Goto(p, Following(p))
    /\ locks' = IF pc[p] = "release"
                   THEN [locks EXCEPT ![p] = @ \ {Least(@)}] ELSE locks
    /\ UNCHANGED <<home, db, chan, monitor, cur, node, todo, nbr, seen, otherFlag, turnNew,
                   retries, conn>>

\* WAIT gives up after its timeout, and the loop writes again.
WaitTimesOut(p) ==
    /\ conn[p] /\ waiting[p]
    /\ Required > 0 /\ retries[p] < Retries
    /\ waiting' = [waiting EXCEPT ![p] = FALSE]
    /\ retries' = [retries EXCEPT ![p] = @ + 1]
    /\ UNCHANGED <<home, db, chan, monitor, pc, client, conn>>

\* Server t executes the next write of server s.
Apply(s, t) ==
    /\ chan[s][t] # <<>>
    /\ db' = [db EXCEPT ![t][Head(chan[s][t]).key] = Head(chan[s][t]).val]
    /\ chan' = [chan EXCEPT ![s][t] = Tail(@)]
    /\ UNCHANGED <<home, monitor, pc, client, waiting, retries, conn>>

-----------------------------------------------------------------------------
\* Mutant: the locks are not released.
NextNodeEarly(p) ==
    /\ At(p, "release")
    /\ ~waiting[p]
    /\ cur' = [cur EXCEPT ![p] = @ + 1]
    /\ Goto(p, "loop")
    /\ UNCHANGED <<Shared, node, todo, nbr, seen, locks, otherFlag, turnNew>>

\* The end of process_node and of an iteration of main.
NextNode(p) ==
    /\ At(p, "release")
    /\ ~waiting[p] /\ locks[p] = {}
    /\ cur' = [cur EXCEPT ![p] = @ + 1]
    /\ Goto(p, "loop")
    /\ UNCHANGED <<Shared, node, todo, nbr, seen, locks, otherFlag, turnNew>>

\* The end of main: set_status_to_monitor on a new connection.
Report(p) ==
    /\ At(p, "loop")
    /\ cur[p] > Last[p]
    /\ \/ monitor' = [monitor EXCEPT ![p] = 1]
       \/ p \in MayFail /\ UNCHANGED monitor
    /\ Goto(p, "done")
    /\ UNCHANGED <<home, db, chan, waiting, retries, conn, client>>

\* A client dies or loses the connection to its server.
Fail(p) ==
    /\ p \in MayFail
    /\ conn[p]
    /\ pc[p] \notin {"start", "exit", "done"}
    /\ conn' = [conn EXCEPT ![p] = FALSE]
    /\ UNCHANGED <<home, db, chan, monitor, pc, client, waiting, retries>>

\* Without a connection write_with_wait and get_node_color return, while
\* check_boundary_node and acquire_lock dereference the missing reply: a client
\* that is on its last node and past its last lock goes on to report.
FallsThrough(p) ==
    \/ pc[p] = "loop" /\ cur[p] > Last[p]
    \/ /\ cur[p] = Last[p]
       /\ \/ pc[p] \in {"setColor", "setStatus", "release"}
          \/ /\ \/ pc[p] \in {"pick", "getColor"}
                \/ pc[p] = "getTurn" /\ otherFlag[p] # 1
             /\ \A n \in todo[p] : ~External(p, n)

ReportAfterLoss(p) ==
    /\ ~conn[p]
    /\ FallsThrough(p)
    /\ monitor[p] = Nil
    /\ monitor' = [monitor EXCEPT ![p] = 1]
    /\ UNCHANGED <<home, db, chan, pc, client, waiting, retries, conn>>

-----------------------------------------------------------------------------
Step(p) ==
    \/ Start(p) \/ ProcessNode(p) \/ PickNeighbour(p)
    \/ GetFlag(p) \/ GetTurn(p) \/ WaitTurn(p) \/ WaitFlag(p) \/ GetColor(p)
    \/ Set(p) \/ WaitReturns(p) \/ NextNode(p) \/ Report(p)

Next ==
    \/ \E p \in Proc : Step(p) \/ WaitTimesOut(p) \/ Fail(p) \/ ReportAfterLoss(p)
    \/ \E s \in Servers : \E t \in Servers \ {s} : Apply(s, t)

Spec == Init /\ [][Next]_vars

\* A client goes on with its program, and replication makes progress.
Fairness ==
    /\ \A p \in Proc : WF_vars(Step(p))
    /\ \A s \in Servers : \A t \in Servers \ {s} : WF_vars(Apply(s, t))

FairSpec == Spec /\ Fairness
=============================================================================
