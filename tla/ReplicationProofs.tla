------------------------- MODULE ReplicationProofs -------------------------
(***************************************************************************)
(* Active replication executes every write once, in the order of its       *)
(* server and without a gap, in every topology and for any number of       *)
(* servers and writes.                                                     *)
(***************************************************************************)
EXTENDS ActiveReplication, NatLemmas

\* Zenon proves the leaves that name no other prover.
USE ZenonT(20)

\* What TypeOK says of the values of the functions.
LEMMA Types ==
    ASSUME TypeOK
    PROVE  /\ \A s \in Servers : /\ executed[s] \in Seq(Commands) /\ Len(stream[s]) \in Nat
                                  /\ stream[s] \in Seq(Seq(Envelopes))
           /\ \A s, o \in Servers : pos[s][o] \in Nat /\ remote[s][o] \in Nat
<1>1. \A s \in Servers : executed[s] \in Seq(Commands) /\ stream[s] \in Seq(Seq(Envelopes))
  BY DEF TypeOK
<1>2. \A s \in Servers : Len(stream[s]) \in Nat
  BY SMT, <1>1
<1>3. \A s \in Servers : pos[s] \in [Servers -> Nat] /\ remote[s] \in [Servers -> Nat]
  BY DEF TypeOK
<1>4. \A s, o \in Servers : pos[s][o] \in Nat /\ remote[s][o] \in Nat
  BY <1>3
<1> QED
  BY <1>1, <1>2, <1>4

\* A master is a server.
LEMMA MastersAreServers ==
    ASSUME TypeOK, NEW s \in Servers, NEW m \in net.masters[s]
    PROVE  m \in Servers
<1>1. net \in Networks
  BY DEF TypeOK
<1>2. net.masters \in [Servers -> SUBSET Servers]
  BY <1>1, Topology DEF Topology
<1> QED
  BY <1>2

\* The same after a step, for the streams.
LEMMA StreamTypes ==
    ASSUME TypeOK'
    PROVE  \A s \in Servers : Len(stream'[s]) \in Nat
<1>1. stream' \in [Servers -> Seq(Seq(Envelopes))]
  BY DEF TypeOK, Envelopes
<1>2. \A s \in Servers : stream'[s] \in Seq(Seq(Envelopes))
  BY <1>1
<1> QED
  BY SMT, <1>2

\* A message that is fed ends with the command it wraps; one without envelopes
\* gets its command named by the envelope put on.
LEMMA Wrapped ==
    ASSUME NEW e \in Envelopes, NEW msg \in Seq(Envelopes)
    PROVE  LET new == <<e>> \o msg IN
           /\ new \in Seq(Envelopes) /\ Len(new) = Len(msg) + 1 /\ new # <<>>
           /\ new[1] = e /\ \A i \in 1 .. Len(msg) : new[i + 1] = msg[i]
           /\ Command(new) = IF msg = <<>> THEN [origin |-> e.uuid, n |-> e.mvcc] ELSE Command(msg)
<1> DEFINE new == <<e>> \o msg
<1>1. new \in Seq(Envelopes) /\ Len(new) = Len(msg) + 1
  BY SMT
<1>2. new[1] = e /\ \A i \in 1 .. Len(msg) : new[i + 1] = msg[i]
  BY SMT
<1>3. CASE msg = <<>>
  BY SMT, <1>1, <1>2, <1>3 DEF Command
<1>4. CASE msg # <<>>
  <2>1. Len(msg) \in 1 .. Len(msg)
    BY SMT, <1>4
  <2>2. new[Len(msg) + 1] = msg[Len(msg)]
    BY <2>1, <1>2
  <2> QED
    BY SMT, <1>1, <1>2, <2>2, <1>4 DEF Command
<1> QED
  BY <1>3, <1>4

\* To execute a command adds it to what the server has executed.
LEMMA DoneStep ==
    ASSUME NEW s, NEW c \in Commands, executed[s] \in Seq(Commands),
           executed'[s] = Append(executed[s], c)
    PROVE  Done(s)' = Done(s) \cup {c}
<1> DEFINE q == executed[s]
           r == Append(q, c)
<1>1. Len(r) = Len(q) + 1 /\ r[Len(q) + 1] = c /\ \A i \in 1 .. Len(q) : r[i] = q[i]
  BY SMT
<1>2. DOMAIN r = 1 .. Len(r) /\ DOMAIN q = 1 .. Len(q) /\ Len(q) \in Nat
  BY SMT
<1>3. Done(s)' = {r[i] : i \in DOMAIN r} /\ Done(s) = {q[i] : i \in DOMAIN q}
  BY DEF Done
<1> HIDE DEF q, r
<1>4. DOMAIN r = DOMAIN q \cup {Len(q) + 1}
  BY SMT, <1>1, <1>2
<1> QED
  BY SMT, <1>1, <1>2, <1>3, <1>4

\* A step leaves the messages of every stream where they are.
Grown ==
    \A o \in Servers : /\ Len(stream[o]) <= Len(stream'[o])
                       /\ \A i \in 1 .. Len(stream[o]) : stream'[o][i] = stream[o][i]

\* Feeding a message leaves the other streams and the messages fed before.
LEMMA FeedStep ==
    ASSUME TypeOK, NEW s \in Servers, NEW msg \in Seq(Envelopes), Feed(s, msg)
    PROVE  LET e == [uuid |-> s, mvcc |-> Len(stream[s]) + 1]  new == <<e>> \o msg IN
           /\ stream' \in [Servers -> Seq(Seq(Envelopes))]
           /\ \A o \in Servers \ {s} : stream'[o] = stream[o]
           /\ Len(stream'[s]) = Len(stream[s]) + 1
           /\ stream'[s][Len(stream[s]) + 1] = new
           /\ Grown
<1> DEFINE e == [uuid |-> s, mvcc |-> Len(stream[s]) + 1]
           new == <<e>> \o msg
<1>1. stream \in [Servers -> Seq(Seq(Envelopes))] /\ stream[s] \in Seq(Seq(Envelopes))
  BY DEF TypeOK
<1>2. e \in Envelopes
  BY SMT, <1>1 DEF Envelopes
<1>3. new \in Seq(Envelopes)
  BY <1>2, Wrapped
<1>4. stream' = [stream EXCEPT ![s] = Append(stream[s], new)]
  BY <1>1 DEF Feed
<1> HIDE DEF new
<1>5. Append(stream[s], new) \in Seq(Seq(Envelopes))
      /\ Len(Append(stream[s], new)) = Len(stream[s]) + 1
      /\ Append(stream[s], new)[Len(stream[s]) + 1] = new
      /\ \A i \in 1 .. Len(stream[s]) : Append(stream[s], new)[i] = stream[s][i]
  BY SMT, <1>1, <1>3
<1>6. stream'[s] = Append(stream[s], new) /\ \A o \in Servers \ {s} : stream'[o] = stream[o]
  BY <1>1, <1>4
<1>7. stream' \in [Servers -> Seq(Seq(Envelopes))]
  BY <1>1, <1>4, <1>5
<1>8. Grown
  <2> SUFFICES ASSUME NEW o \in Servers
               PROVE  /\ Len(stream[o]) <= Len(stream'[o])
                      /\ \A i \in 1 .. Len(stream[o]) : stream'[o][i] = stream[o][i]
    BY DEF Grown
  <2>1. Len(stream[o]) \in Nat
    BY SMT, <1>1
  <2>2. CASE o = s
    BY SMT, <2>1, <2>2, <1>5, <1>6
  <2>3. CASE o # s
    BY SMT, <2>1, <2>3, <1>6
  <2> QED
    BY <2>2, <2>3
<1> QED
  BY <1>5, <1>6, <1>7, <1>8 DEF new

\* Fed after the step.
FedNext(o, k) == {Command(stream'[o][i]) : i \in 1 .. k}

\* Streams only grow: an earlier message stays where it is, so Fed keeps its value.
LEMMA FedKept ==
    ASSUME TypeOK, Grown, NEW o \in Servers, NEW k \in Nat, k <= Len(stream[o])
    PROVE  FedNext(o, k) = Fed(o, k)
<1>1. \A i \in 1 .. k : i \in 1 .. Len(stream[o])
  BY SMT DEF TypeOK
<1>2. \A i \in 1 .. k : Command(stream'[o][i]) = Command(stream[o][i])
  BY <1>1 DEF Grown
<1> QED
  BY <1>2 DEF Fed, FedNext

\* A message fed adds its command to Fed.
LEMMA FedNew ==
    ASSUME TypeOK, Grown, NEW s \in Servers
    PROVE  LET k == Len(stream[s]) IN
           FedNext(s, k + 1) = Fed(s, k) \cup {Command(stream'[s][k + 1])}
<1> DEFINE k == Len(stream[s])
<1>1. k \in Nat
  BY SMT DEF TypeOK
<1>2. FedNext(s, k) = Fed(s, k)
  BY SMT, <1>1, FedKept
<1> HIDE DEF k
<1>3. 1 .. k + 1 = 1 .. k \cup {k + 1}
  BY SMT, <1>1
<1>4. FedNext(s, k + 1) = FedNext(s, k) \cup {Command(stream'[s][k + 1])}
  BY <1>3 DEF FedNext
<1> QED
  BY <1>2, <1>4 DEF k

\* What is opened of a message is recorded, and a record only goes up.
LEMMA RecordedStep ==
    ASSUME TypeOK, NEW s \in Servers, NEW msg \in Seq(Envelopes),
           \A i \in 1 .. Len(msg) : msg[i].mvcc <= Len(stream[msg[i].uuid])
    PROVE  /\ Recorded(s, msg) \in [Servers -> Nat]
           /\ \A o \in Servers : remote[s][o] <= Recorded(s, msg)[o]
           /\ \A i \in Opened(s, msg) : msg[i].mvcc <= Recorded(s, msg)[msg[i].uuid]
           /\ \A o \in Servers : \/ Recorded(s, msg)[o] = remote[s][o]
                                 \/ \E i \in Opened(s, msg) : /\ msg[i].uuid = o
                                                              /\ msg[i].mvcc = Recorded(s, msg)[o]
<1> DEFINE Seen(o) == {msg[i].mvcc : i \in {j \in Opened(s, msg) : msg[j].uuid = o}}
           rec == Recorded(s, msg)
<1>1. \A i \in 1 .. Len(msg) : msg[i] \in Envelopes
  BY SMT
<1>2. \A i \in Opened(s, msg) : i \in 1 .. Len(msg) /\ ~Cancelled(s, msg[i])
  BY SMT DEF Opened
<1>3. ASSUME NEW o \in Servers
      PROVE  /\ rec[o] \in Nat /\ remote[s][o] <= rec[o]
             /\ \A i \in Opened(s, msg) : msg[i].uuid = o => msg[i].mvcc <= rec[o]
             /\ rec[o] = remote[s][o] \/ \E i \in Opened(s, msg) : msg[i].uuid = o /\ msg[i].mvcc = rec[o]
  <2>1. rec[o] = IF Seen(o) = {} THEN remote[s][o] ELSE Max(Seen(o))
    BY DEF Recorded
  <2>2. Seen(o) \in SUBSET Nat /\ \A x \in Seen(o) : x <= Len(stream[o])
    BY <1>1, <1>2 DEF Envelopes
  <2>3. remote[s][o] \in Nat /\ Len(stream[o]) \in Nat
    BY SMT DEF TypeOK
  <2>4. \A x \in Seen(o) : remote[s][o] <= x
    BY SMT, <1>1, <1>2, <2>3 DEF Cancelled, Envelopes
  <2>5. CASE Seen(o) = {}
    BY SMT, <2>1, <2>3, <2>5
  <2>6. CASE Seen(o) # {}
    <3> HIDE DEF Seen
    <3>1. Max(Seen(o)) \in Seen(o) /\ \A x \in Seen(o) : x <= Max(Seen(o))
      BY <2>2, <2>3, <2>6, MaxOfBounded
    <3>2. rec[o] = Max(Seen(o))
      BY <2>1, <2>6
    <3>3. rec[o] \in Seen(o) /\ \A x \in Seen(o) : x <= rec[o]
      BY <3>1, <3>2
    <3> HIDE DEF rec
    <3> USE DEF Seen
    <3> QED
      BY <3>3, <2>2, <2>4
  <2> QED
    BY <2>5, <2>6
<1>4. rec = [o \in Servers |-> rec[o]]
  BY DEF Recorded
<1> HIDE DEF rec
<1>5. rec \in [Servers -> Nat]
  BY <1>3, <1>4
<1>6. \A i \in Opened(s, msg) : msg[i].uuid \in Servers
  BY <1>1, <1>2 DEF Envelopes
<1> QED
  BY <1>3, <1>5, <1>6 DEF rec

-----------------------------------------------------------------------------
\* What ClientWrite does: one more message in the stream of s, and its command
\* among those that s has executed.
LEMMA WriteShape ==
    ASSUME RInv, NEW s \in Servers, ClientWrite(s)
    PROVE  LET k == Len(stream[s]) + 1  e == [uuid |-> s, mvcc |-> k] IN
           /\ TypeOK' /\ Grown
           /\ \A t \in Servers \ {s} : executed'[t] = executed[t] /\ stream'[t] = stream[t]
           /\ Done(s)' = Done(s) \cup {[origin |-> s, n |-> k]}
           /\ Len(stream'[s]) = k /\ stream'[s][k] = <<e>>
           /\ Command(stream'[s][k]) = [origin |-> s, n |-> k]
<1> DEFINE k == Len(stream[s]) + 1
           e == [uuid |-> s, mvcc |-> k]
           c == [origin |-> s, n |-> k]
<1>1. TypeOK
  BY DEF RInv
<1>2. k \in Nat /\ e \in Envelopes /\ c \in Commands /\ <<>> \in Seq(Envelopes)
  BY SMT, <1>1 DEF TypeOK, Envelopes, Commands
<1>3. Feed(s, <<>>) /\ net' = net /\ pos' = pos /\ remote' = remote
      /\ executed' = [executed EXCEPT ![s] = Append(executed[s], c)]
  BY <1>1 DEF ClientWrite, TypeOK
<1>4. <<e>> \o <<>> = <<e>>
  BY SMT, <1>2
<1>5. /\ stream' \in [Servers -> Seq(Seq(Envelopes))]
      /\ \A t \in Servers \ {s} : stream'[t] = stream[t]
      /\ Len(stream'[s]) = k /\ stream'[s][k] = <<e>>
      /\ Grown
  BY <1>1, <1>2, <1>3, <1>4, FeedStep
<1>6. executed[s] \in Seq(Commands) /\ executed \in [Servers -> Seq(Commands)]
  BY <1>1 DEF TypeOK
<1> HIDE DEF c
<1>7. Append(executed[s], c) \in Seq(Commands)
  BY SMT, <1>2, <1>6
<1>8. executed' \in [Servers -> Seq(Commands)] /\ executed'[s] = Append(executed[s], c)
      /\ \A t \in Servers \ {s} : executed'[t] = executed[t]
  BY <1>3, <1>6, <1>7
<1>9. Done(s)' = Done(s) \cup {c}
  BY <1>2, <1>6, <1>8, DoneStep
<1>10. TypeOK'
  BY <1>1, <1>3, <1>5, <1>8 DEF TypeOK
<1>11. Command(stream'[s][k]) = c
  BY SMT, <1>5 DEF Command, c
<1> QED
  BY <1>5, <1>8, <1>9, <1>10, <1>11 DEF c

\* What the envelopes of a message of a stream are.
LEMMA Envelope ==
    ASSUME TypeOK, NEW m \in Servers, NEW j \in 1 .. Len(stream[m]), WellWrapped(m, j)
    PROVE  LET msg == stream[m][j] IN
           /\ msg \in Seq(Envelopes) /\ msg # <<>> /\ msg[1] = [uuid |-> m, mvcc |-> j]
           /\ Len(msg) \in 1 .. Len(msg) /\ Command(msg) \in Commands
           /\ Command(msg) = [origin |-> msg[Len(msg)].uuid, n |-> msg[Len(msg)].mvcc]
           /\ \A i \in 1 .. Len(msg) :
                 /\ msg[i] \in Envelopes /\ msg[i].uuid \in Servers /\ msg[i].mvcc \in Nat
                 /\ msg[i].mvcc \in 1 .. Len(stream[msg[i].uuid])
                 /\ msg[i].mvcc <= Len(stream[msg[i].uuid])
                 /\ Command(stream[msg[i].uuid][msg[i].mvcc]) = Command(msg)
                 /\ Fed(msg[i].uuid, msg[i].mvcc) \subseteq Fed(m, j)
<1> DEFINE msg == stream[m][j]
<1>1. msg \in Seq(Envelopes)
  <2>1. stream[m] \in Seq(Seq(Envelopes))
    BY Types
  <2> QED
    BY SMT, <2>1
<1>2. msg # <<>> /\ msg[1] = [uuid |-> m, mvcc |-> j]
      /\ \A i \in 1 .. Len(msg) :
            /\ msg[i].mvcc \in 1 .. Len(stream[msg[i].uuid])
            /\ Command(stream[msg[i].uuid][msg[i].mvcc]) = Command(msg)
            /\ Fed(msg[i].uuid, msg[i].mvcc) \subseteq Fed(m, j)
  BY DEF WellWrapped
<1> HIDE DEF msg
<1>3. Len(msg) \in 1 .. Len(msg)
  BY SMT, <1>1, <1>2
<1>4. \A i \in 1 .. Len(msg) : msg[i] \in Envelopes
  BY SMT, <1>1
<1>5. \A i \in 1 .. Len(msg) : msg[i].uuid \in Servers /\ msg[i].mvcc \in Nat
  BY <1>4 DEF Envelopes
<1>6. \A o \in Servers : Len(stream[o]) \in Nat
  BY Types
<1>7. \A i \in 1 .. Len(msg) : msg[i].mvcc <= Len(stream[msg[i].uuid])
  BY SMT, <1>2, <1>5, <1>6
<1>8. Command(msg) = [origin |-> msg[Len(msg)].uuid, n |-> msg[Len(msg)].mvcc]
  BY DEF Command
<1>9. Command(msg) \in Commands
  BY SMT, <1>3, <1>5, <1>8 DEF Commands
<1> QED
  BY <1>1, <1>2, <1>3, <1>4, <1>5, <1>7, <1>8, <1>9 DEF msg

\* A command that replicaReplayCommand cancels has been executed already.
LEMMA CancelledIsOld ==
    ASSUME RInv, NEW s \in Servers, NEW m \in Servers, NEW j \in 1 .. Len(stream[m]),
           NEW i \in 1 .. Len(stream[m][j]), Cancelled(s, stream[m][j][i])
    PROVE  Command(stream[m][j]) \in Done(s)
<1> DEFINE msg == stream[m][j]
           e == msg[i]
<1>1. TypeOK /\ WellWrapped(m, j)
  BY DEF RInv, StreamInv
<1>2. e.mvcc \in Nat
  BY <1>1, Envelope
<1>3. e.uuid \in Servers /\ e.mvcc \in 1 .. Len(stream[e.uuid]) /\ Command(stream[e.uuid][e.mvcc]) = Command(msg)
  BY <1>1, Envelope
<1>4. CASE e.uuid = s
  <2>1. Command(msg) \in Fed(s, Len(stream[s]))
    BY <1>3, <1>4 DEF Fed
  <2> QED
    BY <2>1 DEF RInv, ExecutedInv
<1>5. CASE e.uuid # s
  <2>1. remote[s][e.uuid] \in Nat /\ remote[s][e.uuid] >= e.mvcc
    <3>1. remote[s][e.uuid] \in Nat
      BY <1>1, <1>3, Types
    <3>2. remote[s][e.uuid] >= e.mvcc
      BY <1>5 DEF Cancelled
    <3> QED
      BY <3>1, <3>2
  <2>2. e.mvcc \in 1 .. remote[s][e.uuid]
    <3> HIDE DEF e
    <3> QED
      BY SMT, <2>1, <1>2, <1>3
  <2>3. Command(msg) \in Fed(e.uuid, remote[s][e.uuid])
    BY <2>2, <1>3 DEF Fed
  <2> QED
    BY <2>3, <1>3, <1>5 DEF RInv, NothingSkipped
<1> QED
  BY <1>4, <1>5

\* What Replay does: the command of the message it reads is among those s has
\* executed afterwards, whether it was executed now or cancelled as old; and s
\* forwards a message only if it executes it.
LEMMA ReplayShape ==
    ASSUME RInv, NEW s \in Servers, NEW m \in Servers, Replay(s, m)
    PROVE  LET j == pos[s][m] + 1
               msg == stream[m][j]
               c == Command(msg)
               e == [uuid |-> s, mvcc |-> Len(stream[s]) + 1]
               executes == Opened(s, msg) = 1 .. Len(msg)
           IN
           /\ j \in 1 .. Len(stream[m]) /\ msg \in Seq(Envelopes) /\ c \in Commands
           /\ WellWrapped(m, j)
           /\ TypeOK' /\ Grown /\ net' = net
           /\ \A t \in Servers \ {s} : /\ executed'[t] = executed[t] /\ stream'[t] = stream[t]
                                       /\ pos'[t] = pos[t] /\ remote'[t] = remote[t]
           /\ pos'[s] = [pos[s] EXCEPT ![m] = j]
           /\ remote'[s] = Recorded(s, msg)
           /\ executes => executed' = [executed EXCEPT ![s] = Append(executed[s], c)]
           /\ ~executes => executed' = executed /\ c \in Done(s)
           /\ Done(s)' = Done(s) \cup {c}
           /\ \/ stream' = stream /\ (executes => net.noForward)
              \/ /\ ~net.noForward
                 /\ Len(stream'[s]) = Len(stream[s]) + 1
                 /\ stream'[s][Len(stream[s]) + 1] = <<e>> \o msg
<1> DEFINE j == pos[s][m] + 1
           msg == stream[m][j]
           c == Command(msg)
           e == [uuid |-> s, mvcc |-> Len(stream[s]) + 1]
           executes == Opened(s, msg) = 1 .. Len(msg)
<1>1. TypeOK
  BY DEF RInv
<1>2. j \in 1 .. Len(stream[m])
  <2>1. pos[s][m] \in Nat /\ Len(stream[m]) \in Nat
    BY <1>1, Types
  <2>2. pos[s][m] < Len(stream[m])
    BY DEF Replay
  <2> QED
    BY SMT, <2>1, <2>2
<1>3. msg \in Seq(Envelopes) /\ WellWrapped(m, j)
  <2>1. stream[m] \in Seq(Seq(Envelopes))
    BY <1>1, Types
  <2> QED
    BY SMT, <1>2, <2>1 DEF RInv, StreamInv
<1>4. c \in Commands
  BY <1>1, <1>2, <1>3, Envelope
<1>5. /\ pos' = [pos EXCEPT ![s][m] = j] /\ net' = net
      /\ remote' = [remote EXCEPT ![s] = Recorded(s, msg)]
      /\ executed' = IF executes THEN [executed EXCEPT ![s] = Append(executed[s], c)] ELSE executed
      /\ IF executes /\ ~net.noForward THEN Feed(s, msg) ELSE stream' = stream
  BY <1>1 DEF Replay, TypeOK
<1>6. ~executes => c \in Done(s)
  <2> SUFFICES ASSUME ~executes
               PROVE  c \in Done(s)
    OBVIOUS
  <2>1. PICK i \in 1 .. Len(msg) : Cancelled(s, msg[i])
    BY SMT, <1>3 DEF Opened
  <2> QED
    BY <1>2, <2>1, CancelledIsOld
<1>7. Recorded(s, msg) \in [Servers -> Nat]
  <2>1. \A i \in 1 .. Len(msg) : msg[i].mvcc <= Len(stream[msg[i].uuid])
    BY <1>1, <1>2, <1>3, Envelope
  <2> QED
    BY <1>1, <1>3, <2>1, RecordedStep
<1> HIDE DEF msg, c, executes
<1>8. /\ executed' \in [Servers -> Seq(Commands)]
      /\ Done(s)' = Done(s) \cup {c}
      /\ \A t \in Servers \ {s} : executed'[t] = executed[t]
  <2>1. executed \in [Servers -> Seq(Commands)] /\ executed[s] \in Seq(Commands)
    BY <1>1 DEF TypeOK
  <2>2. CASE executes
    <3>1. executed' = [executed EXCEPT ![s] = Append(executed[s], c)]
      BY <1>5, <2>2
    <3>2. Append(executed[s], c) \in Seq(Commands)
      BY SMT, <1>4, <2>1
    <3>3. executed'[s] = Append(executed[s], c)
      BY <2>1, <3>1
    <3>4. Done(s)' = Done(s) \cup {c}
      BY <1>4, <2>1, <3>3, DoneStep
    <3> QED
      BY <2>1, <3>1, <3>2, <3>4
  <2>3. CASE ~executes
    BY <1>5, <1>6, <2>1, <2>3 DEF Done
  <2> QED
    BY <2>2, <2>3
<1>9. /\ stream' \in [Servers -> Seq(Seq(Envelopes))] /\ Grown
      /\ \A t \in Servers \ {s} : stream'[t] = stream[t]
      /\ \/ stream' = stream /\ (executes => net.noForward)
         \/ /\ ~net.noForward
            /\ Len(stream'[s]) = Len(stream[s]) + 1
            /\ stream'[s][Len(stream[s]) + 1] = <<e>> \o msg
  <2>1. CASE executes /\ ~net.noForward
    <3>1. Feed(s, msg)
      BY <1>5, <2>1
    <3> QED
      BY <1>1, <1>3, <2>1, <3>1, FeedStep
  <2>2. CASE ~(executes /\ ~net.noForward)
    <3>1. stream' = stream
      BY <1>5, <2>2
    <3>2. \A o \in Servers : Len(stream[o]) \in Nat
      BY SMT, <1>1 DEF TypeOK
    <3>3. net.noForward \in BOOLEAN
      BY <1>1, Topology DEF TypeOK, Topology
    <3> QED
      BY SMT, <1>1, <2>2, <3>1, <3>2, <3>3 DEF Grown, TypeOK
  <2> QED
    BY <2>1, <2>2
<1>10. pos' \in [Servers -> [Servers -> Nat]] /\ pos'[s] = [pos[s] EXCEPT ![m] = j]
       /\ \A t \in Servers \ {s} : pos'[t] = pos[t]
  <2>1. pos \in [Servers -> [Servers -> Nat]] /\ pos[s] \in [Servers -> Nat] /\ j \in Nat
    BY SMT, <1>1 DEF TypeOK
  <2> HIDE DEF j
  <2> QED
    BY <1>5, <2>1
<1>11. remote' \in [Servers -> [Servers -> Nat]] /\ remote'[s] = Recorded(s, msg)
       /\ \A t \in Servers \ {s} : remote'[t] = remote[t]
  <2>1. remote \in [Servers -> [Servers -> Nat]]
    BY <1>1 DEF TypeOK
  <2> QED
    BY <1>5, <1>7, <2>1
<1>12. TypeOK'
  BY <1>1, <1>5, <1>8, <1>9, <1>10, <1>11 DEF TypeOK
<1>13. (executes => executed' = [executed EXCEPT ![s] = Append(executed[s], c)])
       /\ (~executes => executed' = executed)
  BY <1>5
<1> QED
  BY <1>2, <1>3, <1>4, <1>5, <1>6, <1>8, <1>9, <1>10, <1>11, <1>12, <1>13 DEF msg, c, executes

-----------------------------------------------------------------------------
\* A message stays well wrapped as the streams grow.
LEMMA WrappedKept ==
    ASSUME TypeOK, TypeOK', Grown, NEW o \in Servers, NEW j \in 1 .. Len(stream[o]), WellWrapped(o, j)
    PROVE  WellWrapped(o, j)'
<1> DEFINE msg == stream[o][j]
<1>1. stream'[o][j] = msg
  BY DEF Grown
<1>2. msg # <<>> /\ msg[1] = [uuid |-> o, mvcc |-> j]
  BY Envelope
<1>3. FedNext(o, j) = Fed(o, j)
  <2>1. j \in Nat /\ j <= Len(stream[o])
    BY SMT DEF TypeOK
  <2> QED
    BY <2>1, FedKept
<1>4. ASSUME NEW i \in 1 .. Len(msg)
      PROVE  /\ msg[i].mvcc \in 1 .. Len(stream'[msg[i].uuid])
             /\ Command(stream'[msg[i].uuid][msg[i].mvcc]) = Command(msg)
             /\ FedNext(msg[i].uuid, msg[i].mvcc) \subseteq FedNext(o, j)
  <2> DEFINE u == msg[i].uuid
             k == msg[i].mvcc
  <2>1. /\ u \in Servers /\ k \in Nat /\ k \in 1 .. Len(stream[u]) /\ k <= Len(stream[u])
        /\ Command(stream[u][k]) = Command(msg) /\ Fed(u, k) \subseteq Fed(o, j)
    BY Envelope
  <2> HIDE DEF msg, u, k
  <2>2. Len(stream[u]) <= Len(stream'[u]) /\ stream'[u][k] = stream[u][k]
    BY <2>1 DEF Grown
  <2>3. FedNext(u, k) = Fed(u, k)
    BY <2>1, FedKept
  <2>4. Len(stream[u]) \in Nat /\ Len(stream'[u]) \in Nat
    BY <2>1, Types, StreamTypes
  <2>5. k \in 1 .. Len(stream'[u])
    BY SMT, <2>1, <2>2, <2>4
  <2> QED
    BY <1>3, <2>1, <2>2, <2>3, <2>5 DEF u, k
<1> QED
  BY <1>1, <1>2, <1>4 DEF WellWrapped, Fed, FedNext

\* What a server has executed still is what its origin has fed under its number.
LEMMA OriginKept ==
    ASSUME TypeOK, TypeOK', Grown, OriginInv, NEW s \in Servers, NEW c \in Done(s)
    PROVE  /\ c \in Commands
           /\ c.n \in 1 .. Len(stream'[c.origin])
           /\ Command(stream'[c.origin][c.n]) = c
<1>1. c \in Commands
  BY SMT DEF TypeOK, Done
<1>2. c.origin \in Servers /\ c.n \in Nat
  BY <1>1 DEF Commands
<1>3. c.n \in 1 .. Len(stream[c.origin]) /\ Command(stream[c.origin][c.n]) = c
  BY DEF OriginInv
<1>4. Len(stream[c.origin]) \in Nat /\ Len(stream'[c.origin]) \in Nat
  BY <1>2, Types, StreamTypes
<1>5. Len(stream[c.origin]) <= Len(stream'[c.origin]) /\ stream'[c.origin][c.n] = stream[c.origin][c.n]
  BY <1>2, <1>3 DEF Grown
<1> QED
  BY SMT, <1>1, <1>2, <1>3, <1>4, <1>5

\* ClientWrite preserves the invariant.
LEMMA WriteInv ==
    ASSUME RInv, NEW s \in Servers, ClientWrite(s)
    PROVE  RInv'
<1> DEFINE L == Len(stream[s])
           k == L + 1
           c == [origin |-> s, n |-> k]
<1>1. TypeOK /\ StreamInv /\ ExecutedInv /\ NothingSkipped /\ OriginInv
  BY DEF RInv
<1>2. /\ TypeOK' /\ Grown
      /\ \A t \in Servers \ {s} : executed'[t] = executed[t] /\ stream'[t] = stream[t]
      /\ Done(s)' = Done(s) \cup {c}
      /\ Len(stream'[s]) = k /\ stream'[s][k] = <<[uuid |-> s, mvcc |-> k]>>
      /\ Command(stream'[s][k]) = c
  BY WriteShape
<1>3. net' = net /\ pos' = pos /\ remote' = remote
  BY DEF ClientWrite
<1>4. L \in Nat /\ k \in Nat /\ \A o \in Servers : Len(stream[o]) \in Nat /\ Len(stream'[o]) \in Nat
  BY <1>1, <1>2, Types, StreamTypes
<1>5. \A o \in Servers : Len(stream[o]) <= Len(stream'[o])
  BY <1>2 DEF Grown
<1>6. \A t \in Servers : Done(t) \subseteq Done(t)'
  <2>1. \A t \in Servers \ {s} : Done(t)' = Done(t)
    BY SMT, <1>2 DEF Done
  <2> HIDE DEF c
  <2> QED
    BY <1>2, <2>1
<1> HIDE DEF c
<1>7. StreamInv'
  <2> SUFFICES ASSUME NEW o \in Servers, NEW j \in 1 .. Len(stream'[o])
               PROVE  WellWrapped(o, j)'
    BY DEF StreamInv
  <2>1. CASE j \in 1 .. Len(stream[o])
    BY <1>1, <1>2, <2>1, WrappedKept DEF StreamInv
  <2>2. CASE j \notin 1 .. Len(stream[o])
    <3>1. o = s /\ j = k
      BY SMT, <1>2, <1>4, <2>2
    <3> DEFINE msg == <<[uuid |-> s, mvcc |-> k]>>
    <3>2. stream'[s][k] = msg /\ msg # <<>> /\ Len(msg) = 1 /\ msg[1] = [uuid |-> s, mvcc |-> k]
      BY <1>2
    <3>3. msg[1].uuid = s /\ msg[1].mvcc = k
      BY <3>2
    <3>4. k \in 1 .. Len(stream'[s])
      BY SMT, <1>2, <1>4
    <3> HIDE DEF k, msg
    <3>5. \A i \in 1 .. Len(msg) : i = 1
      BY SMT, <3>2
    <3> QED
      BY <3>1, <3>2, <3>3, <3>4, <3>5 DEF WellWrapped
  <2> QED
    BY <2>1, <2>2
<1>8. ExecutedInv'
  <2> SUFFICES ASSUME NEW t \in Servers
               PROVE  /\ FedNext(t, Len(stream'[t])) \subseteq Done(t)'
                      /\ ~net.noForward => Done(t)' \subseteq FedNext(t, Len(stream'[t]))
                      /\ \A m \in net.masters[t] : pos[t][m] <= Len(stream'[m])
                                                   /\ FedNext(m, pos[t][m]) \subseteq Done(t)'
    BY <1>3 DEF ExecutedInv, Fed, FedNext
  <2>1. /\ Fed(t, Len(stream[t])) \subseteq Done(t)
        /\ ~net.noForward => Done(t) \subseteq Fed(t, Len(stream[t]))
        /\ \A m \in net.masters[t] : pos[t][m] <= Len(stream[m]) /\ Fed(m, pos[t][m]) \subseteq Done(t)
    BY <1>1 DEF ExecutedInv
  <2>2. ASSUME NEW m \in net.masters[t]
        PROVE  pos[t][m] <= Len(stream'[m]) /\ FedNext(m, pos[t][m]) \subseteq Done(t)'
    <3>1. m \in Servers
      BY <1>1, MastersAreServers
    <3>2. pos[t][m] \in Nat
      BY <1>1, <3>1, Types
    <3>3. FedNext(m, pos[t][m]) = Fed(m, pos[t][m])
      BY <1>1, <1>2, <2>1, <3>1, <3>2, FedKept
    <3>4. pos[t][m] <= Len(stream'[m])
      BY SMT, <1>4, <1>5, <2>1, <3>1, <3>2
    <3> QED
      BY <1>6, <2>1, <3>3, <3>4
  <2>3. FedNext(t, Len(stream'[t])) \subseteq Done(t)'
        /\ (~net.noForward => Done(t)' \subseteq FedNext(t, Len(stream'[t])))
    <3>1. CASE t = s
      <4>1. FedNext(s, k) = Fed(s, L) \cup {c}
        BY <1>1, <1>2, FedNew
      <4> QED
        BY <1>2, <2>1, <3>1, <4>1
    <3>2. CASE t # s
      <4>1. Len(stream'[t]) = Len(stream[t]) /\ Done(t)' = Done(t)
        BY SMT, <1>2, <3>2 DEF Done
      <4>2. FedNext(t, Len(stream[t])) = Fed(t, Len(stream[t]))
        BY SMT, <1>1, <1>2, <1>4, FedKept
      <4> QED
        BY <2>1, <4>1, <4>2
    <3> QED
      BY <3>1, <3>2
  <2> QED
    BY <2>2, <2>3
<1>9. NothingSkipped'
  <2> SUFFICES ASSUME NEW t \in Servers, NEW o \in Servers, t # o
               PROVE  remote[t][o] <= Len(stream'[o]) /\ FedNext(o, remote[t][o]) \subseteq Done(t)'
    BY <1>3 DEF NothingSkipped, Fed, FedNext
  <2>1. remote[t][o] <= Len(stream[o]) /\ Fed(o, remote[t][o]) \subseteq Done(t)
    BY <1>1 DEF NothingSkipped
  <2>2. remote[t][o] \in Nat
    BY <1>1, Types
  <2>3. FedNext(o, remote[t][o]) = Fed(o, remote[t][o])
    BY <1>1, <1>2, <2>1, <2>2, FedKept
  <2>4. remote[t][o] <= Len(stream'[o])
    BY SMT, <1>4, <1>5, <2>1, <2>2
  <2> QED
    BY <1>6, <2>1, <2>3, <2>4
<1>10. OriginInv'
  <2> SUFFICES ASSUME NEW t \in Servers, NEW d \in Done(t)'
               PROVE  /\ d.n \in 1 .. Len(stream'[d.origin])
                      /\ Command(stream'[d.origin][d.n]) = d
                      /\ d.origin # t => d.n <= remote[t][d.origin]
    BY <1>3 DEF OriginInv
  <2>1. CASE d \in Done(t)
    BY <1>1, <1>2, <2>1, OriginKept DEF OriginInv
  <2>2. CASE d \notin Done(t)
    <3>1. t = s /\ d = c
      BY SMT, <1>2, <2>2 DEF Done
    <3>2. d.origin = s /\ d.n = k
      BY <3>1 DEF c
    <3> QED
      BY SMT, <1>2, <1>4, <3>1, <3>2
  <2> QED
    BY <2>1, <2>2
<1> QED
  BY <1>2, <1>7, <1>8, <1>9, <1>10 DEF RInv

\* Replay preserves the invariant.
LEMMA ReplayInv ==
    ASSUME RInv, NEW s \in Servers, NEW m \in Servers, Replay(s, m)
    PROVE  RInv'
<1> DEFINE L == Len(stream[s])
           j == pos[s][m] + 1
           msg == stream[m][j]
           c == Command(msg)
           e == [uuid |-> s, mvcc |-> L + 1]
           executes == Opened(s, msg) = 1 .. Len(msg)
<1>1. TypeOK /\ StreamInv /\ ExecutedInv /\ NothingSkipped /\ OriginInv
  BY DEF RInv
<1>read. j \in 1 .. Len(stream[m]) /\ msg \in Seq(Envelopes) /\ WellWrapped(m, j)
  BY ReplayShape
<1>step. TypeOK' /\ Grown /\ net' = net
  BY ReplayShape
<1>others. \A t \in Servers \ {s} : /\ executed'[t] = executed[t] /\ stream'[t] = stream[t]
                                    /\ pos'[t] = pos[t] /\ remote'[t] = remote[t]
  BY ReplayShape
<1>own. pos'[s] = [pos[s] EXCEPT ![m] = j] /\ remote'[s] = Recorded(s, msg)
  BY ReplayShape
<1>done. Done(s)' = Done(s) \cup {c} /\ (~executes => c \in Done(s))
  BY ReplayShape
<1>fed. \/ stream' = stream /\ (executes => net.noForward)
        \/ ~net.noForward /\ Len(stream'[s]) = L + 1 /\ stream'[s][L + 1] = <<e>> \o msg
  BY ReplayShape
<1>3. /\ msg # <<>> /\ Len(msg) \in 1 .. Len(msg)
      /\ c = [origin |-> msg[Len(msg)].uuid, n |-> msg[Len(msg)].mvcc]
      /\ \A i \in 1 .. Len(msg) :
            /\ msg[i].uuid \in Servers /\ msg[i].mvcc \in Nat
            /\ msg[i].mvcc \in 1 .. Len(stream[msg[i].uuid])
            /\ msg[i].mvcc <= Len(stream[msg[i].uuid])
            /\ Command(stream[msg[i].uuid][msg[i].mvcc]) = c
            /\ Fed(msg[i].uuid, msg[i].mvcc) \subseteq Fed(m, j)
  BY <1>1, <1>read, Envelope
<1>4. /\ \A o \in Servers : remote[s][o] <= Recorded(s, msg)[o]
      /\ \A i \in Opened(s, msg) : msg[i].mvcc <= Recorded(s, msg)[msg[i].uuid]
      /\ \A o \in Servers : \/ Recorded(s, msg)[o] = remote[s][o]
                            \/ \E i \in Opened(s, msg) : /\ msg[i].uuid = o
                                                         /\ msg[i].mvcc = Recorded(s, msg)[o]
  <2>1. \A i \in 1 .. Len(msg) : msg[i].mvcc <= Len(stream[msg[i].uuid])
    BY <1>3
  <2> HIDE DEF msg
  <2> QED
    BY <1>1, <1>read, <2>1, RecordedStep
<1>5. \A i \in Opened(s, msg) : i \in 1 .. Len(msg) /\ msg[i].uuid # s
  <2> HIDE DEF msg
  <2>1. \A i \in Opened(s, msg) : i \in 1 .. Len(msg) /\ ~Cancelled(s, msg[i])
    BY SMT DEF Opened
  <2> QED
    BY <2>1 DEF Cancelled
<1>6. j \in Nat /\ j <= Len(stream[m]) /\ L \in Nat /\ pos[s][m] \in Nat
      /\ \A o \in Servers : Len(stream[o]) \in Nat /\ Len(stream'[o]) \in Nat
  <2>1. pos[s][m] \in Nat /\ L \in Nat
        /\ \A o \in Servers : Len(stream[o]) \in Nat /\ Len(stream'[o]) \in Nat
    BY <1>1, <1>step, Types, StreamTypes
  <2>2. j \in 1 .. Len(stream[m])
    BY <1>read
  <2> QED
    BY SMT, <2>1, <2>2
<1>7. \A o \in Servers : Len(stream[o]) <= Len(stream'[o])
  BY <1>step DEF Grown
<1> HIDE DEF j, msg, c, executes
<1>8. \A t \in Servers : Done(t) \subseteq Done(t)'
  <2>1. \A t \in Servers \ {s} : Done(t)' = Done(t)
    BY <1>others DEF Done
  <2> QED
    BY <1>done, <2>1
<1>9. Fed(m, j) \subseteq Done(s)'
  <2>1. Fed(m, pos[s][m]) \subseteq Done(s)
    BY <1>1 DEF Replay, ExecutedInv
  <2>2. Fed(m, j) \subseteq Fed(m, pos[s][m]) \cup {c}
    <3>1. \A i \in 1 .. j : i \in 1 .. pos[s][m] \/ i = j
      BY SMT, <1>6 DEF j
    <3>2. c = Command(stream[m][j])
      BY DEF c, msg
    <3> QED
      BY <3>1, <3>2 DEF Fed
  <2> QED
    BY <1>done, <2>1, <2>2
<1>10. ASSUME NEW o \in Servers, NEW k \in Nat, k <= Len(stream[o])
       PROVE  FedNext(o, k) = Fed(o, k) /\ k <= Len(stream'[o])
  <2>1. FedNext(o, k) = Fed(o, k)
    BY <1>1, <1>step, <1>10, FedKept
  <2> QED
    BY SMT, <2>1, <1>6, <1>7, <1>10
<1>11. ASSUME stream' # stream
       PROVE  /\ Len(stream'[s]) = L + 1 /\ stream'[s][L + 1] = <<e>> \o msg
              /\ Command(<<e>> \o msg) = c /\ FedNext(s, L + 1) = Fed(s, L) \cup {c}
              /\ Done(s)' \subseteq FedNext(s, L + 1)
  <2>1. ~net.noForward /\ Len(stream'[s]) = L + 1 /\ stream'[s][L + 1] = <<e>> \o msg
    BY <1>fed, <1>11
  <2>2. e \in Envelopes
    BY SMT, <1>6 DEF Envelopes
  <2>3. Command(<<e>> \o msg) = c
    BY <1>read, <1>3, <2>2, Wrapped DEF c
  <2>4. FedNext(s, L + 1) = Fed(s, L) \cup {c}
    BY <1>1, <1>step, <2>1, <2>3, FedNew
  <2>5. Done(s) \subseteq Fed(s, L)
    BY <1>1, <2>1 DEF ExecutedInv
  <2> QED
    <3> HIDE DEF e
    <3> QED
      BY <1>done, <2>1, <2>3, <2>4, <2>5
<1>12. StreamInv'
  <2> SUFFICES ASSUME NEW o \in Servers, NEW k \in 1 .. Len(stream'[o])
               PROVE  WellWrapped(o, k)'
    BY DEF StreamInv
  <2>1. CASE k \in 1 .. Len(stream[o])
    BY <1>1, <1>step, <2>1, WrappedKept DEF StreamInv
  <2>2. CASE k \notin 1 .. Len(stream[o])
    <3> DEFINE new == <<e>> \o msg
    <3>1. stream' # stream
      BY <2>2
    <3>2. o = s
      BY <1>others, <2>2
    <3>3. k = L + 1
      BY SMT, <1>6, <1>11, <2>2, <3>1, <3>2
    <3>4. e \in Envelopes
      BY SMT, <1>6 DEF Envelopes
    <3>5. /\ Len(new) = Len(msg) + 1 /\ new # <<>> /\ new[1] = e
          /\ \A i \in 1 .. Len(msg) : new[i + 1] = msg[i]
      BY <1>read, <3>4, Wrapped
    <3>6. stream'[s][k] = new /\ Command(new) = c /\ Done(s)' \subseteq FedNext(s, k)
      BY <1>11, <3>1, <3>3
    <3>7. e.uuid = s /\ e.mvcc = k
      BY <3>3
    <3>8. Len(msg) \in Nat
      BY SMT, <1>read
    <3> HIDE DEF new, e
    <3>9. ASSUME NEW i \in 1 .. Len(new)
          PROVE  /\ new[i].mvcc \in 1 .. Len(stream'[new[i].uuid])
                 /\ Command(stream'[new[i].uuid][new[i].mvcc]) = c
                 /\ FedNext(new[i].uuid, new[i].mvcc) \subseteq FedNext(s, k)
      <4>1. CASE i = 1
        BY <3>2, <3>5, <3>6, <3>7, <4>1
      <4>2. CASE i # 1
        <5> DEFINE u == msg[i - 1].uuid
                   n == msg[i - 1].mvcc
        <5>1. i - 1 \in 1 .. Len(msg) /\ (i - 1) + 1 = i
          BY SMT, <3>5, <3>8, <4>2
        <5>2. new[i] = msg[i - 1]
          BY <3>5, <5>1
        <5>3. /\ u \in Servers /\ n \in Nat /\ n \in 1 .. Len(stream[u]) /\ n <= Len(stream[u])
              /\ Command(stream[u][n]) = c /\ Fed(u, n) \subseteq Fed(m, j)
          BY <1>3, <5>1
        <5> HIDE DEF u, n
        <5>4. FedNext(u, n) = Fed(u, n) /\ n <= Len(stream'[u])
          BY <1>10, <5>3
        <5>5. stream'[u][n] = stream[u][n]
          BY <1>step, <5>3 DEF Grown
        <5>6. n \in 1 .. Len(stream'[u])
          BY SMT, <1>6, <5>3, <5>4
        <5>7. FedNext(u, n) \subseteq FedNext(s, k)
          BY <1>9, <3>6, <5>3, <5>4
        <5> QED
          BY <5>2, <5>3, <5>5, <5>6, <5>7 DEF u, n
      <4> QED
        BY <4>1, <4>2
    <3>10. new[1] = [uuid |-> s, mvcc |-> k]
      BY <3>3, <3>5 DEF e
    <3>11. WellWrapped(s, k)'
      <4>1. stream'[s][k] = new /\ new # <<>> /\ Command(new) = c
        BY <3>5, <3>6
      <4> HIDE DEF c
      <4> QED
        BY <3>9, <3>10, <4>1 DEF WellWrapped, Fed, FedNext
    <3> QED
      BY <3>2, <3>11
  <2> QED
    BY <2>1, <2>2
<1>13. ExecutedInv'
  <2> SUFFICES ASSUME NEW t \in Servers
               PROVE  /\ FedNext(t, Len(stream'[t])) \subseteq Done(t)'
                      /\ ~net.noForward => Done(t)' \subseteq FedNext(t, Len(stream'[t]))
                      /\ \A o \in net.masters[t] : pos'[t][o] <= Len(stream'[o])
                                                   /\ FedNext(o, pos'[t][o]) \subseteq Done(t)'
    BY <1>step DEF ExecutedInv, Fed, FedNext
  <2>1. /\ Fed(t, Len(stream[t])) \subseteq Done(t)
        /\ ~net.noForward => Done(t) \subseteq Fed(t, Len(stream[t]))
        /\ \A o \in net.masters[t] : pos[t][o] <= Len(stream[o]) /\ Fed(o, pos[t][o]) \subseteq Done(t)
    BY <1>1 DEF ExecutedInv
  <2>2. ASSUME NEW o \in net.masters[t]
        PROVE  pos'[t][o] <= Len(stream'[o]) /\ FedNext(o, pos'[t][o]) \subseteq Done(t)'
    <3>1. o \in Servers
      BY <1>1, MastersAreServers
    <3>2. CASE t = s /\ o = m
      <4>1. pos'[s][m] = j
        BY <1>1, <1>own DEF TypeOK
      <4> QED
        BY <1>6, <1>9, <1>10, <3>2, <4>1
    <3>3. CASE ~(t = s /\ o = m)
      <4>1. pos'[t][o] = pos[t][o]
        BY <1>1, <1>own, <1>others, <3>1, <3>3 DEF TypeOK
      <4>2. pos[t][o] \in Nat
        BY <1>1, <3>1, Types
      <4>3. FedNext(o, pos[t][o]) = Fed(o, pos[t][o]) /\ pos[t][o] <= Len(stream'[o])
        BY <1>10, <2>1, <3>1, <4>2
      <4> QED
        BY <1>8, <2>1, <4>1, <4>3
    <3> QED
      BY <3>2, <3>3
  <2>3. FedNext(t, Len(stream'[t])) \subseteq Done(t)'
        /\ (~net.noForward => Done(t)' \subseteq FedNext(t, Len(stream'[t])))
    <3>1. FedNext(t, Len(stream[t])) = Fed(t, Len(stream[t]))
      BY SMT, <1>6, <1>10
    <3>2. CASE t # s
      <4>1. Len(stream'[t]) = Len(stream[t]) /\ Done(t)' = Done(t)
        BY <1>others, <3>2 DEF Done
      <4> QED
        BY <2>1, <3>1, <4>1
    <3>3. CASE t = s /\ stream' = stream
      <4>1. ~net.noForward => c \in Done(s)
        BY SMT, <1>done, <1>fed, <1>6, <3>3
      <4> QED
        BY <1>done, <2>1, <3>1, <3>3, <4>1
    <3>4. CASE t = s /\ stream' # stream
      BY <1>done, <1>11, <2>1, <3>4
    <3> QED
      BY <3>2, <3>3, <3>4
  <2> QED
    BY <2>2, <2>3
<1>14. NothingSkipped'
  <2> SUFFICES ASSUME NEW t \in Servers, NEW o \in Servers, t # o
               PROVE  remote'[t][o] <= Len(stream'[o]) /\ FedNext(o, remote'[t][o]) \subseteq Done(t)'
    BY DEF NothingSkipped, Fed, FedNext
  <2>1. CASE remote'[t][o] = remote[t][o]
    <3>1. remote[t][o] <= Len(stream[o]) /\ Fed(o, remote[t][o]) \subseteq Done(t)
      BY <1>1 DEF NothingSkipped
    <3>2. remote[t][o] \in Nat
      BY <1>1, Types
    <3>3. FedNext(o, remote[t][o]) = Fed(o, remote[t][o]) /\ remote[t][o] <= Len(stream'[o])
      BY <1>10, <3>1, <3>2
    <3> QED
      BY <1>8, <2>1, <3>1, <3>3
  <2>2. CASE remote'[t][o] # remote[t][o]
    <3>1. t = s
      BY <1>others, <2>2
    <3>2. PICK i \in Opened(s, msg) : msg[i].uuid = o /\ msg[i].mvcc = remote'[s][o]
      <4>1. Recorded(s, msg)[o] # remote[s][o]
        BY <1>own, <2>2, <3>1
      <4>2. \E i \in Opened(s, msg) : msg[i].uuid = o /\ msg[i].mvcc = Recorded(s, msg)[o]
        BY <1>4, <4>1
      <4> QED
        BY <1>own, <4>2
    <3>3. i \in 1 .. Len(msg)
      BY <1>5
    <3> DEFINE n == msg[i].mvcc
    <3>4. n \in Nat /\ n <= Len(stream[o]) /\ Fed(o, n) \subseteq Fed(m, j)
      BY <1>3, <3>2, <3>3
    <3>5. remote'[s][o] = n
      BY <3>2
    <3> HIDE DEF n
    <3>6. FedNext(o, n) = Fed(o, n) /\ n <= Len(stream'[o])
      BY <1>10, <3>4
    <3> QED
      BY <1>9, <3>1, <3>4, <3>5, <3>6
  <2> QED
    BY <2>1, <2>2
<1>15. OriginInv'
  <2> SUFFICES ASSUME NEW t \in Servers, NEW d \in Done(t)'
               PROVE  /\ d.n \in 1 .. Len(stream'[d.origin])
                      /\ Command(stream'[d.origin][d.n]) = d
                      /\ d.origin # t => d.n <= remote'[t][d.origin]
    BY DEF OriginInv
  <2>1. CASE d \in Done(t)
    <3>1. d \in Commands /\ d.n \in 1 .. Len(stream'[d.origin]) /\ Command(stream'[d.origin][d.n]) = d
      BY <1>1, <1>step, <2>1, OriginKept
    <3>2. d.origin \in Servers /\ d.n \in Nat
      BY <3>1 DEF Commands
    <3>3. d.origin # t => d.n <= remote[t][d.origin]
      BY <1>1, <2>1 DEF OriginInv
    <3>4. remote[t][d.origin] \in Nat /\ remote'[t][d.origin] \in Nat
          /\ remote[t][d.origin] <= remote'[t][d.origin]
      <4>1. remote[t][d.origin] \in Nat
        BY <1>1, <3>2, Types
      <4>2. remote' \in [Servers -> [Servers -> Nat]]
        BY <1>step DEF TypeOK
      <4>3. remote'[t][d.origin] \in Nat
        BY <3>2, <4>2
      <4>4. CASE t = s
        BY <1>own, <1>4, <3>2, <4>1, <4>3, <4>4
      <4>5. CASE t # s
        BY SMT, <1>others, <4>1, <4>5
      <4> QED
        BY <4>1, <4>3, <4>4, <4>5
    <3> QED
      BY SMT, <3>1, <3>2, <3>3, <3>4
  <2>2. CASE d \notin Done(t)
    <3>1. t = s /\ d = c /\ executes
      <4>1. t = s
        BY <1>others, <2>2 DEF Done
      <4> QED
        BY <1>done, <2>2, <4>1
    <3> DEFINE i == Len(msg)
               u == msg[i].uuid
               n == msg[i].mvcc
    <3>2. i \in Opened(s, msg) /\ i \in 1 .. Len(msg)
      BY <1>3, <3>1 DEF executes
    <3>3. d.origin = u /\ d.n = n
      BY <1>3, <3>1
    <3>4. /\ u \in Servers /\ n \in Nat /\ n \in 1 .. Len(stream[u]) /\ n <= Len(stream[u])
          /\ Command(stream[u][n]) = c
      BY <1>3, <3>2
    <3>5. n <= remote'[s][u]
      BY <1>own, <1>4, <3>2
    <3> HIDE DEF i, u, n
    <3>6. stream'[u][n] = stream[u][n]
      BY <1>step, <3>4 DEF Grown
    <3>7. n \in 1 .. Len(stream'[u])
      BY SMT, <1>6, <1>7, <3>4
    <3> QED
      BY <3>1, <3>3, <3>4, <3>5, <3>6, <3>7
  <2> QED
    BY <2>1, <2>2
<1> QED
  BY <1>step, <1>12, <1>13, <1>14, <1>15 DEF RInv

-----------------------------------------------------------------------------
\* The servers start with nothing executed, fed, read or recorded.
LEMMA InitInv ==
    ASSUME Init
    PROVE  RInv
<1>1. TypeOK
  BY SMT DEF Init, TypeOK
<1>2. \A s \in Servers : /\ Len(stream[s]) = 0 /\ Done(s) = {}
                         /\ \A o \in Servers : Fed(s, 0) = {} /\ pos[s][o] = 0 /\ remote[s][o] = 0
  BY SMT DEF Init, Done, Fed
<1>3. StreamInv
  BY SMT, <1>2 DEF StreamInv
<1>4. ExecutedInv
  BY SMT, <1>1, <1>2, MastersAreServers DEF ExecutedInv
<1>5. NothingSkipped
  BY SMT, <1>2 DEF NothingSkipped
<1>6. OriginInv
  BY <1>2 DEF OriginInv
<1> QED
  BY <1>1, <1>3, <1>4, <1>5, <1>6 DEF RInv

\* Every step of ActiveReplication preserves the invariant.
LEMMA StepInv ==
    ASSUME RInv, [Next]_vars
    PROVE  RInv'
<1>1. CASE UNCHANGED vars
  <2>1. net' = net /\ executed' = executed /\ stream' = stream /\ pos' = pos /\ remote' = remote
    BY <1>1 DEF vars
  <2>2. TypeOK'
    BY <2>1 DEF RInv, TypeOK, Commands, Envelopes
  <2>3. StreamInv'
    <3>1. Grown
      <4>1. \A o \in Servers : Len(stream[o]) \in Nat
        BY Types DEF RInv
      <4> QED
        BY SMT, <2>1, <4>1 DEF Grown
    <3> SUFFICES ASSUME NEW o \in Servers, NEW j \in 1 .. Len(stream[o])
                 PROVE  WellWrapped(o, j)'
      BY <2>1 DEF StreamInv
    <3> QED
      BY <2>2, <3>1, WrappedKept DEF RInv, StreamInv
  <2>4. \A o : Done(o)' = Done(o) /\ \A k : FedNext(o, k) = Fed(o, k)
    BY <2>1 DEF FedNext, Fed, Done
  <2>5. ExecutedInv'
    <3> SUFFICES ASSUME NEW t \in Servers
                 PROVE  /\ FedNext(t, Len(stream[t])) \subseteq Done(t)'
                        /\ ~net.noForward => Done(t)' \subseteq FedNext(t, Len(stream[t]))
                        /\ \A m \in net.masters[t] : pos[t][m] <= Len(stream[m])
                                                     /\ FedNext(m, pos[t][m]) \subseteq Done(t)'
      BY <2>1 DEF ExecutedInv, Fed, FedNext
    <3> QED
      BY <2>4 DEF RInv, ExecutedInv
  <2>6. NothingSkipped'
    <3> SUFFICES ASSUME NEW t \in Servers, NEW o \in Servers, t # o
                 PROVE  remote[t][o] <= Len(stream[o]) /\ FedNext(o, remote[t][o]) \subseteq Done(t)'
      BY <2>1 DEF NothingSkipped, Fed, FedNext
    <3> QED
      BY <2>4 DEF RInv, NothingSkipped
  <2>7. OriginInv'
    BY SMT, <2>1 DEF RInv, OriginInv, Done
  <2> QED
    BY <2>2, <2>3, <2>5, <2>6, <2>7 DEF RInv
<1>2. CASE Next
  <2>1. PICK s \in Servers : ClientWrite(s) \/ \E m \in Servers : Replay(s, m)
    BY <1>2 DEF Next
  <2> QED
    BY <2>1, WriteInv, ReplayInv
<1> QED
  BY <1>1, <1>2

\* In every topology, with any number of servers and writes, the invariant of active
\* replication holds: what an envelope promises, what a server has read and executed,
\* and what it has recorded of the others.
THEOREM ReplicationInvariant == Spec => []RInv
<1>1. Init => RInv
  BY InitInv
<1>2. RInv /\ [Next]_vars => RInv'
  BY StepInv
<1> QED
  BY <1>1, <1>2, PTL DEF Spec

\* What the timestamp check of replicaReplayCommand drops has been executed.
THEOREM ReplicationSkipsNothing == Spec => []NothingSkipped
<1>1. RInv => NothingSkipped
  BY DEF RInv
<1> QED
  BY <1>1, ReplicationInvariant, PTL

-----------------------------------------------------------------------------
\* A write of a client is a Write of the broadcast: its number is new.
LEMMA WriteRefines ==
    ASSUME RInv, NEW s \in Servers, ClientWrite(s)
    PROVE  Fifo!Write(s)
<1> DEFINE k == Len(stream[s]) + 1
           c == [origin |-> s, n |-> k]
<1>1. TypeOK /\ OriginInv
  BY DEF RInv
<1>2. Done(s)' = Done(s) \cup {c}
  BY WriteShape
<1>3. executed' = [executed EXCEPT ![s] = Append(executed[s], c)]
  BY <1>1 DEF ClientWrite, TypeOK
<1>4. ASSUME NEW t \in Servers, NEW d \in Done(t), d.origin = s
      PROVE  d.n < k
  <2>1. d.n \in 1 .. Len(stream[s])
    BY <1>1, <1>4 DEF OriginInv
  <2>2. Len(stream[s]) \in Nat
    BY <1>1, Types
  <2> QED
    BY SMT, <2>1, <2>2
<1>5. c.origin = s /\ c.n = k
  OBVIOUS
<1> HIDE DEF c, k
<1>6. c \in Fifo!Done(s)' /\ Fifo!Execute(s, c)
  BY <1>2, <1>3 DEF Fifo!Done, Fifo!Execute, Done
<1>7. \A t \in Servers : \A d \in Fifo!Done(t) : d.origin = s => d.n < c.n
  BY <1>4, <1>5 DEF Fifo!Done, Done
<1> QED
  BY <1>5, <1>6, <1>7 DEF Fifo!Write

\* A command read from a master is cancelled, or is the next one of its origin
\* that the server has not executed.
LEMMA ReplayRefines ==
    ASSUME RInv, NEW s \in Servers, NEW m \in Servers, Replay(s, m), executed' # executed
    PROVE  \E o \in Servers \ {s} : Fifo!Replay(s, o)
<1> DEFINE j == pos[s][m] + 1
           msg == stream[m][j]
           c == Command(msg)
           executes == Opened(s, msg) = 1 .. Len(msg)
           o == msg[Len(msg)].uuid
           n == msg[Len(msg)].mvcc
<1>1. TypeOK /\ ExecutedInv /\ OriginInv
  BY DEF RInv
<1>2. j \in 1 .. Len(stream[m]) /\ WellWrapped(m, j)
  BY ReplayShape
<1>3. executes /\ executed' = [executed EXCEPT ![s] = Append(executed[s], c)]
  BY ReplayShape
<1>4. Done(s)' = Done(s) \cup {c}
  BY ReplayShape
<1>5. Len(msg) \in 1 .. Len(msg) /\ c = [origin |-> o, n |-> n]
  BY <1>1, <1>2, Envelope
<1>6. /\ o \in Servers /\ n \in Nat /\ n \in 1 .. Len(stream[o]) /\ Command(stream[o][n]) = c
      /\ Fed(o, n) \subseteq Fed(m, j)
  <2>1. \A i \in 1 .. Len(msg) :
           /\ msg[i].uuid \in Servers /\ msg[i].mvcc \in Nat
           /\ msg[i].mvcc \in 1 .. Len(stream[msg[i].uuid])
           /\ Command(stream[msg[i].uuid][msg[i].mvcc]) = c
           /\ Fed(msg[i].uuid, msg[i].mvcc) \subseteq Fed(m, j)
    BY <1>1, <1>2, Envelope
  <2> HIDE DEF msg, c, j
  <2> QED
    BY <1>5, <2>1
<1>7. c.origin = o /\ c.n = n
  BY SMT, <1>5
<1>8. Fed(m, j) \subseteq Done(s)'
  <2>1. Fed(m, pos[s][m]) \subseteq Done(s)
    BY <1>1 DEF Replay, ExecutedInv
  <2>2. pos[s][m] \in Nat
    BY <1>1, Types
  <2>3. \A i \in 1 .. j : i \in 1 .. pos[s][m] \/ i = j
    BY SMT, <2>2
  <2> HIDE DEF j
  <2>4. Fed(m, j) \subseteq Fed(m, pos[s][m]) \cup {c}
    BY <2>3 DEF Fed
  <2> QED
    BY <1>4, <2>1, <2>4
<1>9. o # s /\ ~(remote[s][o] >= n)
  <2>1. Len(msg) \in Opened(s, msg)
    BY <1>3, <1>5
  <2>2. ~Cancelled(s, msg[Len(msg)])
    <3>1. Len(msg) \in 1 .. Len(msg) /\ \A i \in 1 .. Len(msg) : ~Cancelled(s, msg[i])
      BY <2>1 DEF Opened
    <3> QED
      BY <3>1
  <2> QED
    BY <2>2 DEF Cancelled
<1> HIDE DEF j, msg, c, executes, o, n
<1>10. c \in Done(o)
  <2>1. c \in Fed(o, Len(stream[o]))
    BY <1>6 DEF Fed
  <2> QED
    BY <1>1, <1>6, <2>1 DEF ExecutedInv
<1>11. c \notin Done(s)
  <2> SUFFICES ASSUME c \in Done(s)
               PROVE  FALSE
    OBVIOUS
  <2>1. n <= remote[s][o]
    BY <1>1, <1>7, <1>9 DEF OriginInv
  <2>2. remote[s][o] \in Nat
    BY <1>1, <1>6, Types
  <2> QED
    BY <1>6, <1>9, <2>1, <2>2
<1>12. ASSUME NEW d \in Done(o), d.origin = o, d.n < n
       PROVE  d \in Done(s)
  <2>1. d.n \in 1 .. Len(stream[o]) /\ Command(stream[o][d.n]) = d
    BY <1>1, <1>6, <1>12 DEF OriginInv
  <2>2. Len(stream[o]) \in Nat
    BY <1>1, <1>6, Types
  <2>3. d.n \in 1 .. n
    BY SMT, <1>6, <1>12, <2>1, <2>2
  <2>4. d \in Fed(o, n)
    BY <2>1, <2>3 DEF Fed
  <2>5. d # c
    BY SMT, <1>6, <1>7, <1>12
  <2> QED
    BY <1>4, <1>6, <1>8, <2>4, <2>5
<1>13. c \in Fifo!Done(o) \ Fifo!Done(s) /\ Fifo!Execute(s, c)
  BY <1>3, <1>10, <1>11 DEF Fifo!Done, Fifo!Execute, Done
<1>14. \A d \in Fifo!Done(o) : d.origin = o /\ d.n < c.n => d \in Fifo!Done(s)
  BY <1>7, <1>12 DEF Fifo!Done, Done
<1>15. Fifo!Replay(s, o)
  BY <1>7, <1>13, <1>14 DEF Fifo!Replay
<1> QED
  BY <1>6, <1>9, <1>15

\* In every topology, with any number of servers and writes, active replication
\* executes the writes of each server at most once, in their order and without a gap.
THEOREM ReplicationIsFifo == Spec => RefinesFifo
<1>1. Init => Fifo!Init
  BY DEF Init, Fifo!Init
<1>2. RInv /\ [Next]_vars => [Fifo!Next]_executed
  <2> SUFFICES ASSUME RInv, Next, executed' # executed
               PROVE  Fifo!Next
    BY DEF vars
  <2>1. PICK s \in Servers : ClientWrite(s) \/ \E m \in Servers : Replay(s, m)
    BY DEF Next
  <2>2. Fifo!Write(s) \/ \E o \in Servers \ {s} : Fifo!Replay(s, o)
    BY <2>1, WriteRefines, ReplayRefines
  <2> QED
    BY <2>2 DEF Fifo!Next
<1> QED
  BY <1>1, <1>2, ReplicationInvariant, PTL DEF Spec, RefinesFifo, Fifo!Spec
=============================================================================
