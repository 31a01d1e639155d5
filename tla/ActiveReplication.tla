------------------------- MODULE ActiveReplication -------------------------
(***************************************************************************)
(* Multi-master replication of KeyDB: each server executes the writes of   *)
(* its clients, feeds them to its replicas wrapped in an RREPLAY command,  *)
(* and forwards what it replays, wrapped once more.  An envelope holds the *)
(* uuid and the MVCC timestamp of the server that wrapped the command; the *)
(* envelopes end the loops that forwarding in a mesh or a ring would make. *)
(*                                                                         *)
(* The links are TCP connections that partial resynchronisation resumes    *)
(* where they broke, so a link is a position in the master's stream.  Only *)
(* the order of one server's timestamps is ever used (incrementMvccTstamp  *)
(* increases them strictly), so a timestamp is its rank.                   *)
(***************************************************************************)
EXTENDS Naturals, Sequences, FiniteSetsExt

CONSTANTS
    Servers,
    Networks        \* the ways the servers may be set up, of which one is used:
                    \* masters[s], the servers that s replicates from, noForward
                    \* (multi-master-no-forward), and a bound on the writes of
                    \* the clients of each server

ASSUME Topology ==
    \A n \in Networks : /\ n.masters \in [Servers -> SUBSET Servers]
                        /\ n.noForward \in BOOLEAN /\ n.writes \in [Servers -> Nat]

VARIABLES
    net,            \* the network, which does not change
    executed,       \* executed[s]: the commands s executed, in order
    stream,         \* stream[s]: what s fed to its replication backlog
    pos,            \* pos[s][m]: how much of the stream of its master m s has processed
    remote          \* remote[s][o]: g_mapremote[o].mvcc at s

vars == <<net, executed, stream, pos, remote>>

Init ==
    /\ net \in Networks
    /\ executed = [s \in Servers |-> <<>>]
    /\ stream = [s \in Servers |-> <<>>]
    /\ pos = [s \in Servers |-> [m \in Servers |-> 0]]
    /\ remote = [s \in Servers |-> [o \in Servers |-> 0]]

-----------------------------------------------------------------------------
\* Mutant: a message goes out with the timestamp of the one before it.
FeedOldStamp(s, msg) ==
    stream' = [stream EXCEPT ![s] =
                  Append(@, <<[uuid |-> s, mvcc |-> Len(@)]>> \o msg)]

\* replicationFeedSlavesCore: the command goes out in an envelope of s with
\* the next timestamp.  A message is its envelopes, the outermost first; the
\* last one was put on by the server that got the command from a client, and
\* names the command.
Feed(s, msg) ==
    stream' = [stream EXCEPT ![s] =
                  Append(@, <<[uuid |-> s, mvcc |-> Len(@) + 1]>> \o msg)]

Command(msg) == LET e == msg[Len(msg)] IN [origin |-> e.uuid, n |-> e.mvcc]

\* A client of s writes.
ClientWrite(s) ==
    /\ Len(SelectSeq(executed[s], LAMBDA c : c.origin = s)) < net.writes[s]
    /\ executed' = [executed EXCEPT ![s] =
                       Append(@, [origin |-> s, n |-> Len(stream[s]) + 1])]
    /\ Feed(s, <<>>)
    /\ UNCHANGED <<net, pos, remote>>

\* Mutant: one of the two reasons to cancel is missing.
CancelledOwnOnly(s, e) == e.uuid = s

\* Our own command has come back, or the wrapping server's stream has already
\* been seen up to here on another path.
Cancelled(s, e) == e.uuid = s \/ remote[s][e.uuid] >= e.mvcc

\* The envelopes that replicaReplayCommand opens before one is cancelled.
Opened(s, msg) ==
    {i \in 1 .. Len(msg) : \A j \in 1 .. i : ~Cancelled(s, msg[j])}

\* Mutant: the timestamp after the last one seen is recorded.
RecordedAhead(s, msg) ==
    [o \in Servers |->
       LET seen == {msg[i].mvcc : i \in {j \in Opened(s, msg) : msg[j].uuid = o}}
       IN  IF seen = {} THEN remote[s][o] ELSE Max(seen) + 1]

\* The timestamps recorded on the way out of the nested replay: a replayed
\* command counts as executed also when what is inside it was cancelled.
Recorded(s, msg) ==
    [o \in Servers |->
       LET seen == {msg[i].mvcc : i \in {j \in Opened(s, msg) : msg[j].uuid = o}}
       IN  IF seen = {} THEN remote[s][o] ELSE Max(seen)]

\* s reads the next command of its master m.
Replay(s, m) ==
    /\ m \in net.masters[s] /\ pos[s][m] < Len(stream[m])
    /\ pos' = [pos EXCEPT ![s][m] = @ + 1]
    /\ LET msg == stream[m][pos[s][m] + 1]
           executes == Opened(s, msg) = 1 .. Len(msg)
       IN
       /\ remote' = [remote EXCEPT ![s] = Recorded(s, msg)]
       /\ executed' = IF executes
                         THEN [executed EXCEPT ![s] = Append(@, Command(msg))]
                         ELSE executed
       /\ IF executes /\ ~net.noForward THEN Feed(s, msg) ELSE UNCHANGED stream
    /\ UNCHANGED net

Next == \E s \in Servers : ClientWrite(s) \/ \E m \in Servers : Replay(s, m)

\* A server keeps reading from each of its masters.
Fairness == \A s, m \in Servers : WF_vars(Replay(s, m))

Spec == Init /\ [][Next]_vars /\ Fairness

-----------------------------------------------------------------------------
Commands == [origin : Servers, n : Nat]
Envelopes == [uuid : Servers, mvcc : Nat]

\* Every variable has a value of its kind.
TypeOK ==
    /\ net \in Networks
    /\ executed \in [Servers -> Seq(Commands)]
    /\ stream \in [Servers -> Seq(Seq(Envelopes))]
    /\ pos \in [Servers -> [Servers -> Nat]]
    /\ remote \in [Servers -> [Servers -> Nat]]

\* Whatever the topology, replicaReplayCommand executes the writes of each
\* server at most once, in their order and without a gap, although copies of
\* one write arrive on several paths and a cancelled copy is not forwarded.
Fifo == INSTANCE FifoBroadcast
RefinesFifo == Fifo!Spec

\* What s has executed.
Done(s) == {executed[s][i] : i \in DOMAIN executed[s]}

\* The commands in the first k messages of the stream of o.
Fed(o, k) == {Command(stream[o][i]) : i \in 1 .. k}

\* A server that has recorded the timestamp of another has executed all the
\* writes that the other one had executed by then: what the timestamp check of
\* replicaReplayCommand drops is never news.
NothingSkipped ==
    \A s, o \in Servers : s # o =>
       remote[s][o] <= Len(stream[o]) /\ Fed(o, remote[s][o]) \subseteq Done(s)

\* The envelopes of the j-th message of o are messages of the servers that put them
\* on, around the same command; and o, which forwards them, has fed all that those
\* servers had fed by then.
WellWrapped(o, j) ==
    LET msg == stream[o][j] IN
    /\ msg # <<>> /\ msg[1] = [uuid |-> o, mvcc |-> j]
    /\ \A i \in 1 .. Len(msg) : LET e == msg[i] IN
          /\ e.mvcc \in 1 .. Len(stream[e.uuid])
          /\ Command(stream[e.uuid][e.mvcc]) = Command(msg)
          /\ Fed(e.uuid, e.mvcc) \subseteq Fed(o, j)

StreamInv == \A o \in Servers : \A j \in 1 .. Len(stream[o]) : WellWrapped(o, j)

\* A server has executed what it has fed; when it forwards, it has fed all it has
\* executed.  It has executed what it has read from its masters.
ExecutedInv ==
    \A s \in Servers :
       /\ Fed(s, Len(stream[s])) \subseteq Done(s)
       /\ ~net.noForward => Done(s) \subseteq Fed(s, Len(stream[s]))
       /\ \A m \in net.masters[s] :
             pos[s][m] <= Len(stream[m]) /\ Fed(m, pos[s][m]) \subseteq Done(s)

\* An executed command is the one its origin has fed under that number, and a
\* server has recorded the numbers of the commands of others it has executed.
OriginInv ==
    \A s \in Servers : \A c \in Done(s) :
       /\ c.n \in 1 .. Len(stream[c.origin])
       /\ Command(stream[c.origin][c.n]) = c
       /\ c.origin # s => c.n <= remote[s][c.origin]

RInv == TypeOK /\ StreamInv /\ ExecutedInv /\ NothingSkipped /\ OriginInv
=============================================================================
