----------------------------- MODULE SyncSafety -----------------------------
(***************************************************************************)
(* What the clients of SyncClient guarantee when no node is in two of the  *)
(* ranges, and the inductive invariant behind it.                          *)
(***************************************************************************)
EXTENDS SyncClient

\* No node is in two ranges.
ASSUME DisjointRanges ==
    \A u \in Node : \A p, q \in Proc : ~External(p, u) /\ ~External(q, u) => p = q

-----------------------------------------------------------------------------
Owner(u) == CHOOSE p \in Proc : ~External(p, u)
AtHome(u, k) == db[home[Owner(u)]][k]

\* The parts of process_node.
LockPC == {"setTurn", "getFlag", "getTurn", "waitTurn", "waitFlag"}
ReadPC == {"pick", "setFlag", "getColor"} \cup LockPC
WorkPC == ReadPC \cup {"setColor", "setStatus", "release"}

\* p holds the lock it shares with v, and has not begun to release its locks.
Holds(p, v) == v \in locks[p] /\ pc[p] \in WorkPC \ {"release"}

Quiet == \A s \in Servers : \A t \in Servers \ {s} : chan[s][t] = <<>>

\* All clients were started with the same server.
OneServer == \A p, q \in Proc : home[p] = home[q]

\* check_color.py compares the colours of the ends of every edge: on no server
\* are two marked neighbours seen with the same colour.
ProperColoring ==
    \A s \in Servers : \A u \in Node : \A v \in Nbr[u] :
       db[s][StatusKey(u)] = 1 /\ db[s][StatusKey(v)] = 1 =>
          db[s][ColorKey(u)] # db[s][ColorKey(v)]

\* It holds for the clients of one server, whose commands that server orders,
\* however late the other servers get them.
ProperOnOneServer == OneServer => ProperColoring

\* set_node_color writes the colour before the status and the servers keep the
\* order: a server that shows a node as marked shows its final colour, so a
\* client may skip the lock of a neighbour it finds marked.
MarkedIsColored ==
    \A s \in Servers : \A u \in Node :
       db[s][StatusKey(u)] = 1 => db[s][ColorKey(u)] = AtHome(u, ColorKey(u))

\* The colour of a marked node changes on no server: a SET that
\* write_with_wait repeats after a timeout undoes nothing.
ColorIsFinal ==
    [][\A s \in Servers : \A u \in Node :
          db[s][StatusKey(u)] = 1 =>
             db'[s][ColorKey(u)] = db[s][ColorKey(u)] /\ db'[s][StatusKey(u)] = 1]_vars

\* When nothing is in flight the servers agree on every key with one writer:
\* on the colours, the statuses and the flags, though not on the turns.
Converged ==
    Quiet => \A s, t \in Servers : \A k \in Keys :
                k[1] # "turn" => db[s][k] = db[t][k]

\* Without failures all clients get to their end, although the turn of a lock
\* can differ between the servers.
Termination == [](\A p \in Proc : conn[p]) => <>(\A p \in Proc : pc[p] \in {"done", "exit"})

-----------------------------------------------------------------------------
(***************************************************************************)
(* The inductive invariant.                                                *)
(***************************************************************************)
Value == Nat \cup {Nil}
Message == [key : Keys, val : Value, by : Proc]
PCs == WorkPC \cup {"start", "loop", "done", "exit"}

\* Every variable has a value of its kind.
TypeOK ==
    /\ home \in [Proc -> Servers]
    /\ db \in [Servers -> [Keys -> Value]]
    /\ DOMAIN chan = Servers
    /\ \A s \in Servers : chan[s] \in [Servers \ {s} -> Seq(Message)]
    /\ monitor \in [Proc -> {Nil, 1}]
    /\ pc \in [Proc -> PCs]
    /\ cur \in [Proc -> Nat]
    /\ node \in [Proc -> Node \cup {Nil}]
    /\ todo \in [Proc -> SUBSET Node]
    /\ nbr \in [Proc -> Node \cup {Nil}]
    /\ seen \in [Proc -> SUBSET Value]
    /\ locks \in [Proc -> SUBSET Node]
    /\ otherFlag \in [Proc -> Value]
    /\ turnNew \in [Proc -> Value]
    /\ waiting \in [Proc -> BOOLEAN]
    /\ retries \in [Proc -> Nat]
    /\ conn \in [Proc -> BOOLEAN]

\* Where a client is in its range and in the list of the neighbours.
Position(p) ==
    /\ First[p] <= cur[p]
    /\ IsFiniteSet(seen[p])
    /\ pc[p] \in WorkPC =>
          /\ cur[p] <= Last[p]
          /\ node[p] = cur[p]
          /\ todo[p] \subseteq Nbr[node[p]]
          /\ \A n \in locks[p] : n \in Nbr[node[p]] /\ External(p, n)
    /\ pc[p] \in ReadPC => locks[p] \cap todo[p] = {}
    /\ pc[p] \in ReadPC \ {"pick"} => nbr[p] \in Nbr[node[p]] \ todo[p]
    /\ pc[p] \in LockPC \cup {"setFlag"} => External(p, nbr[p]) /\ nbr[p] \notin locks[p]
    /\ pc[p] = "pick" => todo[p] # {}
    /\ pc[p] = "setColor" => todo[p] = {}
    /\ waiting[p] => pc[p] \in WritePC /\ (pc[p] = "release" => locks[p] # {})

PositionInv == \A p \in Proc : Position(p)

\* The keys of u that only the owner of u writes.
OwnKeys(u) == {ColorKey(u), StatusKey(u)} \cup {FlagKey(u, v) : v \in Nbr[u]}

\* What is in flight from s was written by a client of s, to keys of its nodes.
SenderInv ==
    \A s \in Servers : \A t \in Servers \ {s} : \A i \in 1 .. Len(chan[s][t]) :
       /\ home[chan[s][t][i].by] = s
       /\ \A u \in Node : chan[s][t][i].key \in OwnKeys(u) => ~External(chan[s][t][i].by, u)

\* c has no write to k.
Lacks(c, k) == \A i \in 1 .. Len(c) : c[i].key # k

\* Executing c turns the value a of k into b.
Ends(c, k, a, b) ==
    \/ a = b /\ Lacks(c, k)
    \/ \E i \in 1 .. Len(c) :
          c[i].key = k /\ c[i].val = b /\ \A j \in (i + 1) .. Len(c) : c[j].key # k

\* Every server gets, for each of these keys, the value at the home of the owner.
DeliveryInv ==
    \A p \in Proc : \A u \in First[p] .. Last[p] : \A k \in OwnKeys(u) :
       \A t \in Servers \ {home[p]} :
          Ends(chan[home[p]][t], k, db[t][k], db[home[p]][k])

\* k has the value v on every server, and nobody has written it.
Untouched(k, v) ==
    \A s \in Servers : db[s][k] = v /\ \A t \in Servers \ {s} : Lacks(chan[s][t], k)

Unowned(u) == \A p \in Proc : External(p, u)

\* How far the owner of u is with u.
Ahead(p, u) == u > cur[p] \/ (u = cur[p] /\ pc[p] \notin {"setColor", "setStatus", "release"})
Painting(p, u) == u = cur[p] /\ pc[p] = "setColor"
Painted(p, u) == u < cur[p] \/ (u = cur[p] /\ pc[p] \in {"setStatus", "release"})

\* The colour is written after the neighbours are read, the status after that; a
\* repeated write of the colour has the same value.
StageInv ==
    /\ \A u \in Node : Unowned(u) =>
          \A k \in OwnKeys(u) : Untouched(k, IF k = ColorKey(u) THEN 0 ELSE Nil)
    /\ \A p \in Proc : \A u \in First[p] .. Last[p] :
          /\ Ahead(p, u) => Untouched(ColorKey(u), 0)
          /\ Ahead(p, u) \/ Painting(p, u) => Untouched(StatusKey(u), Nil)
          /\ Painting(p, u) =>
                \/ ~waiting[p] /\ Untouched(ColorKey(u), 0)
                \/ db[home[p]][ColorKey(u)] = LeastFree(seen[p])

\* All writes of the colour of u that are in flight are the same, and the status
\* of u is behind the colour.
InOrder(c, u, a, b) ==
    \A i \in 1 .. Len(c) :
       /\ c[i].key = ColorKey(u) => c[i].val = b
       /\ c[i].key = StatusKey(u) =>
             c[i].val = 1 /\ (a = b \/ \E j \in 1 .. (i - 1) : c[j].key = ColorKey(u))

ColorsInv ==
    \A p \in Proc : \A u \in First[p] .. Last[p] :
       LET s == home[p] IN
       /\ db[s][StatusKey(u)] \in {Nil, 1}
       /\ \A t \in Servers \ {s} :
             /\ InOrder(chan[s][t], u, db[t][ColorKey(u)], db[s][ColorKey(u)])
             /\ ~Lacks(chan[s][t], StatusKey(u)) => db[s][StatusKey(u)] = 1
             /\ db[t][StatusKey(u)] \in {Nil, 1}
             /\ db[t][StatusKey(u)] = 1 => /\ db[s][StatusKey(u)] = 1
                                           /\ db[t][ColorKey(u)] = db[s][ColorKey(u)]

\* The part of the invariant that holds wherever the clients are.
ChannelsInv ==
    TypeOK /\ PositionInv /\ SenderInv /\ DeliveryInv /\ StageInv /\ ColorsInv

-----------------------------------------------------------------------------
\* p has raised its flag towards v, has written the turn of the edge, and has
\* seen what lets it leave the waiting loop.
Raised(p, v) ==
    \/ Holds(p, v)
    \/ nbr[p] = v /\ (pc[p] \in LockPC \/ (pc[p] = "setFlag" /\ waiting[p]))
Contends(p, v) ==
    \/ Holds(p, v)
    \/ nbr[p] = v /\ (pc[p] \in LockPC \ {"setTurn"} \/ (pc[p] = "setTurn" /\ waiting[p]))
Entered(p, v) ==
    \/ Holds(p, v)
    \/ nbr[p] = v /\ pc[p] = "getTurn" /\ otherFlag[p] # 1
    \/ nbr[p] = v /\ pc[p] = "waitFlag" /\ turnNew[p] # node[p]

\* A raised flag is up at the home of the client.
FlagInv ==
    \A p \in Proc : \A v \in Node :
       Raised(p, v) => Get(p, FlagKey(node[p], v)) = 1

TurnInv ==
    OneServer => \A p \in Proc : \A v \in Node :
       Contends(p, v) => Get(p, TurnKey(node[p], v)) \in {node[p], v}

\* Peterson's argument: if p may enter, the turn makes the other end wait.
PetersonInv ==
    OneServer => \A p, q \in Proc :
       p # q /\ Entered(p, node[q]) /\ Contends(q, node[p]) =>
          Get(p, TurnKey(node[p], node[q])) = node[q]

\* What p has read of n stays true: n is a node of p, or has its final
\* colour, or cannot be coloured before p releases the lock.
Settled(p, n) == ~External(p, n) \/ Get(p, StatusKey(n)) = 1 \/ n \in locks[p]

SnapshotInv ==
    OneServer => \A p \in Proc : pc[p] \in ReadPC \cup {"setColor"} =>
       \A n \in Nbr[node[p]] \ todo[p] :
          /\ pc[p] \in {"pick", "setColor"} \/ n # nbr[p] =>
                Get(p, ColorKey(n)) \in seen[p] /\ Settled(p, n)
          /\ pc[p] = "getColor" => Settled(p, n)

\* The colours at the server differ as soon as both have been acknowledged.
PaintedInv ==
    OneServer => \A p, q \in Proc : \A u \in First[p] .. Last[p] : \A v \in First[q] .. Last[q] :
       v \in Nbr[u] /\ Painted(p, u) /\ Painted(q, v) =>
          Get(p, ColorKey(u)) # Get(p, ColorKey(v))

SyncInv ==
    ChannelsInv /\ FlagInv /\ TurnInv /\ PetersonInv /\ SnapshotInv /\ PaintedInv
=============================================================================
