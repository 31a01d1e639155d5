# Verification of the distributed graph colouring

The repository colours the nodes of a graph with several client processes that
share one Redis or KeyDB server, or several replicated ones. This directory
holds TLA+ models of that program and of the parts of KeyDB it rests on, the TLC
runs that check them on small instances, and TLAPS proofs of the main safety
properties for every value of the constants.

## 1. The system and its parts

| part | source | module |
|---|---|---|
| client, one server | `src/color/1server/color.c` | `ColorClient` |
| client, replicated servers | `src/color/sync/color.c` | `SyncClient` |
| partitioning | `src/scripts/master_run_experiment.sh` | `Partition` |
| completion monitor | `src/scripts/master_run_code.sh` | `Completion` |
| graph loader | `src/KeyDB_1/src/custom.cpp`, `src/redis/src/custom.c` | `AddGraph` |
| active replication | `src/KeyDB_1/src/replication.cpp` | `ActiveReplication` |
| replication backlog | `replication.cpp`, `networking.cpp` of KeyDB | `ReplicationBacklog` |
| WAIT | `replication.cpp`, `server.cpp` of KeyDB | `SyncWait` |
| fastlock | `src/KeyDB_1/src/fastlock.cpp` | `FastLock` |
| validator | `src/color/1server/check_color.py` | the property `ProperColoring` |

How they interact: the loader stores the graph, with the colour 0 for every
node, and passes it on to the replicas. The partitioning gives each client a
range of node ids. The clients talk to each other only through keys of the
servers. The sync client follows each write by a WAIT; the servers exchange
their writes by the active replication, whose bytes go through the backlog. At
its end a client sets a key on the monitoring server, where the completion
monitor counts. Inside KeyDB all that is protected by fastlocks.

How the models fit together:

- `ColorClient` assumes a symmetric graph and disjoint ranges; `AddGraphProofs`
  and `ColorSafetyProofs` prove that the loader and the script provide them.
- `SyncClient` assumes that each server executes the writes of another one once
  and in order (`FifoBroadcast`); `ActiveReplication` is shown to implement that.
- `SyncClient` takes WAIT for a true count; `SyncWait` shows that it is.
- `Completion` composes the clients of `ColorClient` with the script.

What is hard about it:

- one lock is four Redis commands, and any other client can run between two;
- a client holds the locks of several edges while it waits for one more;
- `release_lock` also runs on entries of `locks_array` that nobody initialised;
- with several servers the flags and turns of a lock arrive late, and the two
  servers can execute two writes of the turn in different orders;
- a client can die, or lose its connection, between any two commands; many
  failed commands are only logged;
- copies of one write arrive over several paths;
- a replica has no buffer of its own, only a position in a buffer that is
  overwritten, moved and trimmed while it is read.

## 2. Modules

| module | what it is |
|---|---|
| `ColorClient`, `ColorSafety` | the client of `1server/color.c`, any number of them; its properties and the inductive invariant |
| `GreedyColoring` | abstract: a sequential greedy colouring |
| `Completion` | `check_completion` beside the clients |
| `MCColor`, `MCCompletion`, `ColorSafetyProofs` | instances for TLC; the proofs about the clients, the script and the partitions |
| `Partition`, `MCPartition` | `get_partition`; its proofs are in `ColorSafetyProofs`, which relies on them |
| `AddGraph`, `MCAddGraph`, `AddGraphProofs` | the `add_graph` command on a master and a replica |
| `SyncClient`, `SyncSafety` | the client of `sync/color.c`; its properties and the inductive invariants |
| `SyncLate` | a history variable for one of them, and what it needs |
| `MCSync`, `MCSyncLate`, `SyncProofs` | instances for TLC; the proofs |
| `FifoBroadcast` | abstract: every write is executed once everywhere, in its server's order |
| `ActiveReplication`, `MCReplication`, `ReplicationProofs` | RREPLAY between active replicas |
| `ReplicationBacklog`, `BacklogSafety` | the circular buffer the replicas are served from; its properties and the inductive invariant |
| `MCBacklog`, `BacklogProofs` | its instance for TLC; the proofs |
| `SyncWait`, `MCWait`, `SyncWaitProofs` | the WAIT command |
| `FifoLock` | abstract: a first-come first-served lock |
| `FastLock`, `MCFastLock`, `FastLockProofs` | the ticket lock |
| `NatLemmas` | the least-number principle, for the proofs |

Several modules have a variable that never changes: `net`, `home`, `set`. Init
chooses it from a small set of networks, pairings or settings, so that one run
covers them all. A property that is not meant for one of them says so in its
antecedent.

### ColorClient

One action is one Redis command with the local code up to the next one. The
server runs commands one at a time, so a command is atomic.

| variable | in the code |
|---|---|
| `flag`, `turn`, `color`, `status` | the keys of the server; `Nil` is a missing key |
| `monitor` | `<hostname>_status` on the monitoring server |
| `cur` | `i` in the loop of `main` |
| `node`, `todo`, `nbr` | the node of `process_node`, the neighbours still to visit, the current one |
| `seen` | `nbr_color_list` |
| `locks` | the neighbours whose `locks_array` entry was filled |
| `otherFlag`, `turnNew` | the replies `other_flag` and `turn_var_new` |
| `conn` | FALSE once the client is dead or cut off |

| action | in the code |
|---|---|
| `Start` | `main` up to its loop, with its early returns |
| `ProcessNode` | `process_node` up to `read_color_of_neighbors` |
| `PickNeighbour`, `GetStatus` | the loop over the sorted neighbours, `get_status` |
| `SetFlag`, `SetTurn`, `GetFlag`, `GetTurn`, `WaitTurn`, `WaitFlag` | the commands of `acquire_lock`, in order |
| `GetColor`, `SetColor`, `SetStatus` | `get_node_color`, `getMinimalValueNotInArray` with `set_node_color`, `set_status` |
| `ReleaseLock`, `NextNode` | one iteration of the release loop, the end of `process_node` |
| `Report` | the end of `main` |
| `Fail`, `ReportAfterLoss` | death or loss of the connection; a client that still gets to the end |

Three abstractions need a word:

- *Uninitialised locks.* `locks_array` comes from `malloc`, and the release loop
  covers every entry. For an entry without a lock, `ReleaseGarbage` chooses:
  nothing that matters is written, or 0 goes to a flag or turn key of a lock the
  client built for an earlier node, which is what a freed array can leave behind.
- *Lost connections.* hiredis answers NULL to every later command. `FallsThrough`
  lists where the code survives that to the end of `main`: only on the last
  node, and only past the last dereference of a reply.
- *`keys[i]` past the end of the list* is undefined. The model lets the client
  die; `DisjointPartitions` keeps the ranges inside the graph, so neither the
  runs nor the proofs depend on that choice.

### Completion, Partition, AddGraph

`Completion` adds one variable, `watch`, to the clients: the script empties the
monitoring server (`Flush`), counts the reports (`Completed`) and closes the
servers (`Close`). A count that is too small changes nothing and is a stutter.

In `Partition` one step (`Iterate`) is one iteration of the loop of
`get_partition`; the variables have the names of the script's.

In `AddGraph` one step is one line of the file (`AddEdge`, `Skip` for
WRONGTYPE, `AddTwice` for the assertion of `dbAdd`), on the master or on the
replica. A server does nothing else in the middle of the command. `Finish` is
the end of `call()`: the command goes to the replica if it counted a change. The
replica is assumed to have the same file. A file that cannot be opened is an
empty one. `given` and `unseen` are history, to state the properties.

### SyncClient and ActiveReplication

`SyncClient` has the control of `ColorClient`; the keys are per server (`db`),
and `chan` holds the writes one server has not yet got from another. A write is
`Set`, then `WaitReturns` or `WaitTimesOut` with a repeated `Set`. `Caught` is
the count of WAIT. `Apply` executes a write on another server.

A message of `ActiveReplication` is the sequence of its envelopes, each with the
id of a server and its timestamp. `Replay` is `replicaReplayCommand`: `Opened`
says how far the envelopes are opened before one is cancelled, `Recorded` which
timestamps are noted on the way back, and the command is executed and forwarded
only if all were opened.

### ReplicationBacklog, SyncWait, FastLock

A byte of the backlog is represented by its offset in the stream, so that what a
replica receives can be compared with what it should. Feeding (`Feed`, with
growing and closing of replicas) happens in batches, sending (`Send`) at any
time. `FullSync`, `PartialSync`, `PutOnline`, `Lose`, `Free` are the life of a
replica; `Trim` and `Configure` change the size.

In `SyncWait` the offset of the stream is its length. `BeforeSleep` handles the
clients that have timed out and then all waiting ones in one pass, with the
remembered result (`CanReuse`), and sends the request for acknowledgements.

In `FastLock` one action is one access to memory that other threads can see, or
one system call. The memory is sequentially consistent.

## 3. Runs

| run | instance | result |
|---|---|---|
| `pair` | complete graph on 4 nodes, 2 clients, both may fail | holds, 276,678 states |
| `triangle` | 3 pairwise adjacent clients and the script, no failures | holds, 131,249 states |
| `report` | as `pair` | violated (section 5) |
| `partition` | ids up to 12, up to 8 partitions | holds, 4,004 states |
| `addgraph` | 3 nodes, 5 files, 4 commands, every choice of keys of another type | holds, 78,739 states |
| `sync` | 3 nodes, 2 clients on one or on two servers, WAIT for one replica, a timeout, one client may fail | holds, 436,468 states |
| `sync_proper` | an edge between clients of two servers | violated (section 5) |
| `replication` | 3 servers in a mesh, with and without forwarding, or in a ring | holds, 103,383 states |
| `backlog` | 2 replicas, 5 settings, stream up to offset 6 | holds, 568,484 states |
| `backlog_psync` | 1 replica that resumes, stream up to offset 8 | violated (section 5) |
| `wait` | 2 clients and 1 replica, or 1 client and 2 replicas, one lost connection | holds, 327,422 states |
| `fastlock` | 2 threads, 4 tickets, 2 bits, nesting up to 2 | holds, 8,792 states |

The clients (`pair`, `triangle`, `report`):

- `EdgeMutex`: at most one end of an edge holds its lock.
- `ReadsAreCurrent`: what a client has read is still true when it picks a colour.
- `ProperColoring`: adjacent coloured nodes differ; what `check_color.py` tests.
- `DegreeBound`: a colour is at most the degree of its node.
- `ColorIsFinal`: the colour of a marked node never changes.
- `RefinesGreedy`: the colours change as in `GreedyColoring`.
- `IInv`: the inductive invariant of the proofs.
- `FailureIsContained`: clients get stuck only on a flag a dead client left up.
- `Termination`: without failures every client ends.
- `ClosedIsColored`: without failures the servers are closed only when all clients
  have ended, all nodes are coloured and marked, and all locks are free.
- `Noticed`: the script gets to its end, if no report came before its `flushall`.
- `ReportMeansColored`: a client that has reported has coloured its partition.

The scripts and the loader (`partition`, `addgraph`):

- `Disjoint`, `Covering`: the ranges share no id and miss none.
- `Balanced`: their sizes differ by at most one; a range is empty only if there
  are more partitions than nodes.
- `Symmetric`: the neighbour sets are symmetric, after every line.
- `ColoredIsLinked`: a node has a colour if and only if it has neighbours.
- `StoresTheFiles`: the graph of the master is that of the files it was given.
- `ReplicaAgrees`: the replica gets the graph, and the colours but for those that
  a load without new edges has reset.

The replicated servers (`sync`, `sync_proper`, `replication`):

- `ProperOnOneServer`: clients of one server colour properly, also with WAIT.
- `MarkedIsColored`: no server shows a mark before the final colour.
- `LatecomerWaits`: who asks for a lock after the other end has got it waits.
- `Converged`: servers agree on every key with one writer when all is delivered.
- `ColorIsFinal`, `Termination`: as above, on every server, with repeated SETs.
- `RefinesFifo`: each write is executed once everywhere, in its server's order.
- `NothingSkipped`: what the timestamp check drops has been executed.
- `Delivered`: every write gets everywhere and the copies die out.

KeyDB (`backlog`, `backlog_psync`, `wait`, `fastlock`):

The first four are about a backlog that is used as `Regular` says: no CONFIG SET, and
once the backlog has been full every replica has a snapshot of its own and the stream
has not started at 0 (section 5 says what happens otherwise).

- `BufferHolds`: what a connected replica still has to get is in the buffer.
- `SendsSomething`: `writeToClient` never writes 0 bytes while data is pending.
- `Faithful`, `SendsTheStream`: a replica gets the stream as it was fed.
- `CaughtUp`: a replica that stays connected gets all of it.
- `ReplyIsTrue`: WAIT never counts a replica that has not executed the write.
- `EnoughReplicas`: without a timeout WAIT returns with what was asked for.
- `Answered`: a WAIT is answered at last, although connections are lost.
- `Mutex`, `OwnerHolds`: one holder, and `m_pidOwner` is right.
- `NoLostWakeup`: nobody sleeps on when the lock is passed to them.
- `RefinesFifo`: the lock is a queue (`FifoLock`).
- `Granted`: who asks gets the lock. `Released`: who unlocks returns, unless
  overtaken; a thread with the same bit may then keep the loop of `unlock_futex`
  going.

The type invariants `TypeOK` are in no cfg: they are part of a proved invariant. The
inductive invariants of section 4 were checked by TLC before they were proved (put
`INVARIANT BInv` in the cfg, for instance); only `IInv` of the clients is kept in one.

*Bounds.* The complete graph on four nodes gives each node one neighbour of its
own client and two of the other, so a client holds one external lock while it
waits for another. The triangle is the smallest cycle of clients. `partition`
tries divisions with and without a remainder, one partition, and more partitions
than nodes. `addgraph` has repeated, reversed, self and skipped edges. In `sync`
one client has two nodes with an external neighbour each. In a mesh of three a
write arrives by two paths, in a ring only by forwarding. In `backlog` the stream
is longer than two backlogs, so that it wraps, grows and is trimmed. In `wait`
two clients are needed for the remembered result, two replicas for counts other
than all or none. In `fastlock` the tickets wrap around.

*Fairness.* Weak fairness of the commands of each client: a client is a
sequential process and the server answers every command. Failures, timeouts and
new writes are never forced. Weak fairness also of the servers: they keep reading
from their masters (`Apply`, `Replay`), the event loop keeps turning (`BatchEnd`,
`Free`, `Send`, `BeforeSleep`), a transfer of a snapshot ends (`PutOnline`), and in
`SyncWait` a replica reconnects. `Flush` and `Close` are fair because the script is
a loop with a `sleep`. In `FastLock` a thread in the middle of a lock or an unlock
goes on; strong fairness of `Unlock` says that a thread which has the lock gives it
back at last, though it may lock again in between.

## 4. Proofs

| module | theorem | states |
|---|---|---|
| `ColorSafetyProofs` | `TypeCorrect`, `Invariance` | `TypeOK`, `IInv` |
| | `MutualExclusion` | `EdgeMutex` |
| | `ReadsStayCurrent` | `ReadsAreCurrent` |
| | `ColoringIsProper` | `ProperColoring` |
| | `ColorsAreBounded` | `DegreeBound` |
| | `ColorsAreFinal` | `ColorIsFinal`, an action property |
| | `ImplementsGreedy` | `RefinesGreedy`, a refinement |
| | `ClosedMeansColored` | `ClosedIsColored` |
| | `PartitionsAreDisjoint`, `PartitionsCover`, `PartitionsAreBalanced` | `Disjoint`, `Covering`, `Balanced` |
| `AddGraphProofs` | `NeighboursAreSymmetric` | `Symmetric` |
| | `FilesAreStored` | `StoresTheFiles` |
| | `GraphsInvariant` | `AgreeInv` |
| | `ColoredNodesAreLinked` | `ColoredIsLinked` |
| | `ReplicaGraphAgrees` | `ReplicaAgrees` |
| `SyncProofs` | `ChannelsInvariant`, `SyncInvariant` | `ChannelsInv`, `SyncInv` |
| | `ServersConverge` | `Converged` |
| | `MarkedNodesAreColored` | `MarkedIsColored` |
| | `MarkedColorsAreFinal` | `ColorIsFinal`, an action property |
| | `OneServerIsProper` | `ProperOnOneServer` |
| | `LateInvariant`, `LatecomersWait` | `LateOK`, `LatecomerWaits` |
| `ReplicationProofs` | `ReplicationInvariant` | `RInv` |
| | `ReplicationSkipsNothing` | `NothingSkipped` |
| | `ReplicationIsFifo` | `RefinesFifo`, a refinement |
| `BacklogProofs` | `BacklogInvariance` | `BInv` |
| | `BacklogHolds` | `BufferHolds` |
| | `BacklogFaithful` | `Faithful` |
| | `BacklogSends` | `SendsSomething` |
| | `BacklogResizes` | `ResizeAssert`, the assertion of `resizeReplicationBacklog` |
| `SyncWaitProofs` | `WaitInvariant` | `WInv` |
| | `WaitRepliesTruly` | `ReplyIsTrue` |
| | `WaitForEnough` | `EnoughReplicas`, an action property |
| `FastLockProofs` | `MutualExclusion` | `Mutex` |
| | `OwnerIsRight` | `OwnerHolds` |
| | `TicketsInLine` | `TicketInv` |
| | `Wakeups` | `NoLostWakeup` |
| | `LockIsFifo` | `RefinesFifo`, a refinement |

Each holds for every value of the constants that satisfies the assumptions named
below.

*The clients.* The theorems hold for every finite graph, every number of clients
and every set of clients that may fail. They assume `GraphAssumption` (symmetric
neighbour sets, no self loops), `ContiguousIds` (ids `0 .. N-1`, because `main`
uses an id as an index) and `DisjointPartitions`. The symmetry is
`NeighboursAreSymmetric`, the disjoint ranges are `PartitionsAreDisjoint` and
`PartitionsCover`; the rest holds for the graph files of the repository.

`ProperColoring` alone is not inductive: a client could be about to write a
colour from a stale read. `SnapshotInv` rules that out: each colour read belongs
to a node of the same client, to a marked node, or to a node whose lock the
client holds. That a held lock keeps the other end from writing is
`PetersonInv`: if one end may enter and the other contends, the turn makes the
other one wait. It needs `FlagInv` and `TurnInv` (raised flags stay raised, and
only the ends write the turn), which the garbage releases could break. They do
not, because a client's earlier nodes are marked (`StatusInv`), and these
invariants only speak of edges to unmarked nodes. The proofs first show what any
step may do to flags, turns, marks, cursors and colours (`LockSteps`, `EdgeStep`,
`MarkStep`, `CursorStep`, `ColorStep`, `ColoredStep`), and then derive each
invariant from that. `ColorsAreBounded` counts: all numbers below the least free
colour are used by neighbours (`LeastFreeBound`).

*The script.* `ClosedMeansColored` assumes that no client fails (with failures the
run `report` shows the opposite) and `Covered`, that every node is in a partition,
which is `PartitionsCover`. `WatchInv` says that who has reported is at the end of
`main`; `FlagsOwned`, that a raised flag belongs to a lock its owner is asking for
or holds, so that none is left when all have ended.

*The partitions.* The key is `LoopInv`: `current_start`, the sizes of the ranges
still to make and the remainder always add up to `end_node + 1`, so the last
range ends at `end_node`. `RangeInv` says that the ranges so far cover exactly
the ids below `current_start`.

*The loader.* For any set of files, any number of loads and any keys of another
type. `Symmetric` is inductive with the types. `StoresTheFiles` only speaks of a
server between two commands; `StoreInv` extends it to the middle of a load: an
edge of a given file that is not stored is in a line still to come. No step
changes which keys are of another type (`KindStep`), so the edges that are
skipped stay the same. `ColoredIsLinked` and `ReplicaAgrees` need `AgreeInv`, which
speaks of the stream between the servers: an edge of the master that the replica
lacks is in a line it is still to read or in a load not yet passed on (`EdgesInv`),
and the last command in the stream that touches a node gives it the colour it has
on the master (`ColorsInv`).

*The sync client.* For any servers, any pairing of clients and servers, any number
of replicas WAIT asks for, timeouts and failures, with disjoint ranges
(`DisjointRanges`, again `PartitionsAreDisjoint`). `ChannelsInv` is about the writes
in flight. `DeliveryInv`: for a key with one writer, executing what is on the channel
turns the value of a server into that at the writer's home, so servers agree when
nothing is in flight. `StageInv` and `ColorsInv`: the writes of a node's colour in
flight all have the same value and its mark comes behind them, although `Set` is
repeated after a timeout. For clients of one server `SyncInv` adds Peterson's
argument as for `ColorClient` (`FlagInv`, `TurnInv`, `PetersonInv`, `SnapshotInv`);
`PaintedInv` then says that neighbours differ at the home, and `ColorsInv` carries
that to the other servers. Nothing of the sort holds for clients of two servers,
see section 5. `LatecomersWait` is what does hold there, if WAIT waits for all replicas
(`WaitsForAll`): all that is in flight of a client is the write it is waiting for
(`SentInv`), so the flag of a client in its lock is up everywhere
(`FlagEverywhere`), and the latecomer reads it and its own turn (`Tardy`).

*Active replication.* In every topology, with any number of servers and writes,
forwarding or not. An envelope is a promise: who put it on had by then fed all that
the servers inside it had fed (`WellWrapped`). So a recorded timestamp covers
executed writes only (`NothingSkipped`), and a write that is executed is the next one
of its origin, or the check would have dropped it or an earlier one would be missing
from its envelope. That is the step of `FifoBroadcast`.

*The backlog.* For any replicas, sizes, lengths of commands, limits and lost
connections. `Window` says that the buffer shows the end of the stream: the byte of
offset `o` is at `(o - 1 - start) % size`. The buffer does not know whether it is full
or empty, so the data of a replica must leave one byte of room (`FitInv`), and that
rests on `repl_lowest_off`, which is set at the end of a batch and stale within one.
`LowestInv` says that it is a lower bound all the same, and that the start of the batch
is one where there is none. `EndInv` is needed for replicas that join within a batch:
when the batch turns out not to fit and all are closed, they have nothing left to
send while they wait to be freed (`ClosedInv`, unless a limit is set). That is the case
where every replica has a snapshot of its own (`Core`). PSYNC and a shared snapshot put
a replica at an older position, which no bound protects; that is safe while the stream
still fits (`WholeInv`), and the run `backlog_psync` and section 5 show that it is not
afterwards. The rest is arithmetic of `%`: two positions less than a turn apart have
different indexes (`ModEqual`), and a resize moves the window to its own start
(`ResizedOK`).

*WAIT.* For any clients, finite sets of replicas and lost connections. The loop of
`processClientsWaitingReplicas` is a fold over the waiting clients; its value is a run
of the loop (`LoopExists`), and each iteration keeps that the remembered count is
true for the remembered offset. `AckInv` (the master never knows of more than a
replica has executed) and `OffsetInv` (a client waits for its last write or more) make
the count true for the client.

*The lock.* For any finite set of threads, with fewer threads than tickets. A
thread holds the lock when its ticket is `m_active`; `TicketInv` says that the
threads in the line have the tickets from `m_active` to `m_avail`, one each, so
two holders would share one. `OwnerInv` ties `m_pidOwner` to the program counters.
`Wakeups` also needs `BitsAssumption`: there are at most as many threads as bits,
and the number of tickets is a multiple of the number of bits, so that no two
threads of the line share a bit. `SleepInv` then says that the bit of a sleeping
thread stays set until it is woken. For `LockIsFifo` the abstract queue is the
sequence of the threads by the distance of their tickets from `m_active`, without a
gap (`LineInv`).

*How the proofs are built.* Inductions are arguments about a least counterexample:
`NatLemmas` proves the least-number principle from the well-founded order of the
finite sets, and from it that loops have runs and bounded sets a greatest element.
Facts about finite sets that rest on the library (`FiniteFacts` in the two colouring
proofs) are a hypothesis of the lemmas and are established once, at the end of the
module. Leaves are left to Zenon unless they name another prover: they are
first-order once the arithmetic has a step of its own.

Only model-checked: the liveness properties (`Termination`, `FailureIsContained`,
`Noticed`, `Delivered`, `CaughtUp`, `Answered`, `Granted`, `Released`), which are out of
the prover's reach. Every safety property, action property and refinement that a passing
run checks is also proved.

## 5. Findings

- `report`: `main` prints "colored all nodes" (`color.c:628`) and sets its status
  on the monitoring server (`color.c:636`) without looking at the outcome of its
  writes. If the connection is lost on the last node of the partition, that node
  stays without colour and mark, and the client reports all the same.
- `sync_proper`: two clients on different servers that take a lock at the same
  time each write the turn on their own server. Each server then executes the
  other one's write, so each ends with the turn of the other client. Both enter,
  and both choose the same colour. WAIT does not help, because it only says that
  the write has been executed. A client that comes later does wait
  (`LatecomerWaits`).
- `backlog_psync`: `addReplyReplicationBacklog` does not lower `repl_lowest_off`,
  so `feedReplicationBacklog` may overwrite bytes that a replica still needs after
  a partial resynchronisation.

The models also show the following, which is why some properties have an
antecedent. No run is kept for them; the instance is given in brackets.

- A second `add_graph` of the same file sets the colours to 0 without counting a
  change, so `call()` does not pass it on (`unseen` in `ReplicaAgrees`).
- A self loop of a new node stops the server in `dbAdd` (`AddTwice`).
- Two active replicas that write one key at the same time keep different values;
  `Converged` leaves out the turns for that reason.
- The report of a client that ends before `flushall` is erased; `Noticed` says so.
- When a batch feeds a multiple of the backlog size without replicas, the
  assertion of `flushReplBacklogToClients` fails [`FlushAssert` as an invariant,
  one replica, size 2].
- A replica that is about to be closed is still sent bytes that have been
  overwritten [`SendsTheStream`, one replica, size 3, `hardLimit` 4, offsets to 8].
- A replica may join the snapshot of one that is being closed, whose data is no
  longer kept [`BufferHolds` without `Regular`, two replicas, size 3, `diskless`
  FALSE, offsets to 7].
- With `Start` 0, trimming leaves a buffer that the unsent data fills exactly, and
  `writeToClient` takes full for empty [`SendsSomething` without `Regular`, size 2].
- After a resize `repl_backlog_off` is older than the first byte of the buffer
  until the next feed [`bl.off = moff - bl.histlen + 1`, size 2, `sizes` {4}].

## 6. Not modelled

- The loop of `getMinimalValueNotInArray`, which is modelled by what it returns
  (`IsLeastFree`). Its bound of 1000 colours is not reached by the model.
- The throughput statistics added to KeyDB: a window of counts that is only
  printed, on one thread.
- The handshake and the reconnection of active replicas, the backlog on disk, and
  freeing the backlog after a time without replicas.
- Weak memory in `FastLock`: the code uses acquire and release accesses.
- Node statuses in `AddGraph`: the loader does not touch them.
- `redis_writer.c`, a load generator, and the ssh and log copying parts of the
  scripts, which are pure I/O.
- The rest of the vendored Redis and KeyDB servers (data types, persistence,
  cluster, scripting, modules), which is nearly all of the code under `src/`. The
  project uses it as a store with atomic commands and has not changed it.

What could follow: the composition of `ReplicationBacklog` with `ActiveReplication`,
and three threads with liveness for `FastLock`, which takes more than five minutes.
