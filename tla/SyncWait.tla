------------------------------ MODULE SyncWait ------------------------------
(***************************************************************************)
(* The WAIT command of KeyDB, on which write_with_wait of the colouring    *)
(* client rests: a client blocks until enough replicas have acknowledged   *)
(* the offset of its last write, or a timeout.  The clients of one server, *)
(* the stream to its replicas and their acknowledgements are modelled.     *)
(***************************************************************************)
EXTENDS Integers, Sequences, FiniteSets

CONSTANTS
    Clients, Replicas,
    MaxAcks,        \* replicationCron sends no more while so many are under way
    Settings        \* which replicas there are, with bounds on the commands of each
                    \* client and on the connections that are lost

ASSUME WaitAssumption ==
    /\ MaxAcks \in Nat \ {0} /\ IsFiniteSet(Replicas)
    /\ Settings \subseteq [replicas : SUBSET Replicas, commands : [Clients -> Nat], drops : Nat]

VARIABLES
    set,        \* the setting, which does not change
    stream,     \* what the replicas are fed: "write" or "getack", the offset is its length
    woff,       \* of a client: the offset after its last command
    waiting,    \* clients_waiting_acks
    bpop,       \* of a client: reploffset and numreplicas of its WAIT, and if it may time out
    reply,      \* of a client: the reply of its last WAIT, -1 for none
    written,    \* of a client: the offset of its last write (to state the properties)
    commands,   \* how many commands a client has sent
    getAck,     \* get_ack_from_slaves
    online,     \* the replicas in g_pserver->slaves with SLAVE_STATE_ONLINE
    ackOff,     \* repl_ack_off of a replica
    reploff,    \* of a replica: the offset it has executed
    acks,       \* REPLCONF ACK commands on their way
    drops       \* how many connections have been lost

clientVars == <<woff, waiting, bpop, reply, written, commands>>
replicaVars == <<online, ackOff, reploff, acks, drops>>
vars == <<set, stream, getAck, clientVars, replicaVars>>

moff == Len(stream)

Init ==
    /\ set \in Settings
    /\ stream = <<>>
    /\ woff = [c \in Clients |-> 0]
    /\ waiting = <<>>
    /\ bpop = [c \in Clients |-> [reploffset |-> 0, numreplicas |-> 0, timeout |-> FALSE]]
    /\ reply = [c \in Clients |-> -1]
    /\ written = [c \in Clients |-> 0]
    /\ commands = [c \in Clients |-> 0]
    /\ getAck = FALSE
    /\ online = set.replicas
    /\ ackOff = [r \in Replicas |-> 0]
    /\ reploff = [r \in Replicas |-> 0]
    /\ acks = [r \in Replicas |-> <<>>]
    /\ drops = 0

Blocked(c) == \E i \in 1 .. Len(waiting) : waiting[i] = c

\* replicationCountAcksByOffset
CountAcks(offset) == Cardinality({r \in online : ackOff[r] >= offset})

-----------------------------------------------------------------------------
\* A blocked client has no command processed.
MayCall(c) == ~Blocked(c) /\ commands[c] < set.commands[c]

\* processCommand of a command that writes.
Write(c) ==
    /\ MayCall(c)
    /\ stream' = Append(stream, "write")
    /\ woff' = [woff EXCEPT ![c] = moff + 1]
    /\ written' = [written EXCEPT ![c] = moff + 1]
    /\ reply' = [reply EXCEPT ![c] = -1]
    /\ commands' = [commands EXCEPT ![c] = @ + 1]
    /\ UNCHANGED <<set, waiting, bpop, getAck, replicaVars>>

\* waitCommand
Wait(c, n, timeout) ==
    /\ MayCall(c)
    /\ IF CountAcks(woff[c]) >= n
       THEN /\ reply' = [reply EXCEPT ![c] = CountAcks(woff[c])]
            /\ UNCHANGED <<waiting, bpop, getAck>>
       ELSE /\ waiting' = <<c>> \o waiting
            /\ bpop' = [bpop EXCEPT ![c] = [reploffset |-> woff[c], numreplicas |-> n,
                                            timeout |-> timeout]]
            /\ reply' = [reply EXCEPT ![c] = -1]
            /\ getAck' = TRUE
    /\ woff' = [woff EXCEPT ![c] = moff]
    /\ commands' = [commands EXCEPT ![c] = @ + 1]
    /\ UNCHANGED <<set, stream, written, replicaVars>>

-----------------------------------------------------------------------------
\* Mutant: the remembered result is used whatever offset it was for.
CanReuseAnyOffset(last, c) == last.offset # 0 /\ last.num >= bpop[c].numreplicas

\* The last satisfied client asked for as much.
CanReuse(last, c) ==
    /\ last.offset # 0
    /\ last.offset >= bpop[c].reploffset
    /\ last.num >= bpop[c].numreplicas

\* Mutant: one replica less is enough.
ProcessWaitingOneLess(last, c) ==
    LET num == CountAcks(bpop[c].reploffset) IN
    IF num + 1 >= bpop[c].numreplicas
    THEN [offset |-> bpop[c].reploffset, num |-> num,
          reply |-> [last.reply EXCEPT ![c] = num], waiting |-> last.waiting]
    ELSE [last EXCEPT !.waiting = Append(@, c)]

\* One iteration of processClientsWaitingReplicas: the client is answered and
\* unblocked, or stays in the list.
ProcessWaiting(last, c) ==
    LET num == CountAcks(bpop[c].reploffset) IN
    IF CanReuse(last, c)
    THEN [last EXCEPT !.reply[c] = last.num]
    ELSE IF num >= bpop[c].numreplicas
    THEN [offset |-> bpop[c].reploffset, num |-> num,
          reply |-> [last.reply EXCEPT ![c] = num], waiting |-> last.waiting]
    ELSE [last EXCEPT !.waiting = Append(@, c)]

\* replyToBlockedClientTimedOut for a client in WAIT
Expire(last, c) == [last EXCEPT !.reply[c] = CountAcks(bpop[c].reploffset)]

\* The list of waiting clients after i of them: the last satisfied one, the replies
\* and who still waits.
Processed(expired) ==
    LET loop[i \in 0 .. Len(waiting)] ==
          IF i = 0
          THEN [offset |-> 0, num |-> 0, reply |-> reply, waiting |-> <<>>]
          ELSE IF waiting[i] \in expired
          THEN Expire(loop[i - 1], waiting[i])
          ELSE ProcessWaiting(loop[i - 1], waiting[i])
    IN  loop

\* beforeSleep: handleBlockedClientsTimeout for the clients whose time is up,
\* processClientsWaitingReplicas, and the request for acknowledgements.
BeforeSleep(expired) ==
    LET end == Processed(expired)[Len(waiting)] IN
    /\ \A c \in expired : Blocked(c) /\ bpop[c].timeout
    /\ reply' = end.reply
    /\ waiting' = end.waiting
    /\ stream' = IF getAck THEN Append(stream, "getack") ELSE stream
    /\ getAck' = FALSE
    /\ UNCHANGED <<set, woff, bpop, written, commands, replicaVars>>

-----------------------------------------------------------------------------
\* The replica executes the next command of the stream; GETACK makes it send the
\* offset it has executed so far.
Apply(r) ==
    /\ r \in online /\ reploff[r] < moff
    /\ reploff' = [reploff EXCEPT ![r] = @ + 1]
    /\ IF stream[reploff[r] + 1] = "getack"
       THEN acks' = [acks EXCEPT ![r] = Append(@, reploff[r])]
       ELSE UNCHANGED acks
    /\ UNCHANGED <<set, stream, getAck, clientVars, online, ackOff, drops>>

\* Mutant: only a replica without a connection tries to send.
CronAckNever(r) ==
    /\ r \notin online /\ Len(acks[r]) < MaxAcks
    /\ UNCHANGED vars

\* replicationCron of the replica sends an acknowledgement from time to time.
CronAck(r) ==
    /\ r \in online /\ Len(acks[r]) < MaxAcks
    /\ acks' = [acks EXCEPT ![r] = Append(@, reploff[r])]
    /\ UNCHANGED <<set, stream, getAck, clientVars, online, ackOff, reploff, drops>>

\* replconfCommand with ACK.
ReceiveAck(r) ==
    /\ acks[r] # <<>>
    /\ acks' = [acks EXCEPT ![r] = Tail(@)]
    /\ ackOff' = [ackOff EXCEPT ![r] = IF Head(acks[r]) > @ THEN Head(acks[r]) ELSE @]
    /\ UNCHANGED <<set, stream, getAck, clientVars, online, reploff, drops>>

\* The connection of a replica is lost, with what is on its way.
Drop(r) ==
    /\ r \in online /\ drops < set.drops
    /\ online' = online \ {r}
    /\ acks' = [acks EXCEPT ![r] = <<>>]
    /\ drops' = drops + 1
    /\ UNCHANGED <<set, stream, getAck, clientVars, ackOff, reploff>>

\* It comes back as a new client of the master, by a partial resynchronisation or
\* with a snapshot.
Reconnect(r) ==
    /\ r \in set.replicas \ online
    /\ online' = online \cup {r}
    /\ ackOff' = [ackOff EXCEPT ![r] = 0]
    /\ \E offset \in {reploff[r], moff} : reploff' = [reploff EXCEPT ![r] = offset]
    /\ UNCHANGED <<set, stream, getAck, clientVars, acks, drops>>

-----------------------------------------------------------------------------
Next ==
    \/ \E c \in Clients :
          Write(c) \/ \E n \in 1 .. Cardinality(set.replicas), timeout \in BOOLEAN : Wait(c, n, timeout)
    \/ \E expired \in SUBSET Clients : BeforeSleep(expired)
    \/ \E r \in Replicas : Apply(r) \/ CronAck(r) \/ ReceiveAck(r) \/ Drop(r) \/ Reconnect(r)

Spec == Init /\ [][Next]_vars

\* The event loop goes on, and so do the replicas that are connected.
FairSpec ==
    /\ Spec
    /\ WF_vars(BeforeSleep({}))
    /\ \A r \in Replicas :
          /\ WF_vars(Apply(r)) /\ WF_vars(CronAck(r))
          /\ WF_vars(ReceiveAck(r)) /\ WF_vars(Reconnect(r))

-----------------------------------------------------------------------------
\* Every variable has a value of its kind.
TypeOK ==
    /\ set \in Settings
    /\ stream \in Seq({"write", "getack"})
    /\ woff \in [Clients -> Nat] /\ written \in [Clients -> Nat]
    /\ waiting \in Seq(Clients)
    /\ bpop \in [Clients -> [reploffset : Nat, numreplicas : Nat, timeout : BOOLEAN]]
    /\ reply \in [Clients -> Int]
    /\ commands \in [Clients -> Nat]
    /\ getAck \in BOOLEAN
    /\ online \in SUBSET set.replicas
    /\ ackOff \in [Replicas -> Nat] /\ reploff \in [Replicas -> Nat]
    /\ acks \in [Replicas -> Seq(Nat)]
    /\ drops \in Nat

\* What WAIT replied is true: that many replicas have executed the last write of
\* the client, and all before it.  A remembered count, an old acknowledgement or a
\* connection that was lost and taken up again does not make it count too many.
ReplyIsTrue ==
    \A c \in Clients : reply[c] <= Cardinality({r \in set.replicas : reploff[r] >= written[c]})

\* A client that gave no timeout is only told of at least as many replicas as it
\* asked for.
EnoughReplicas ==
    [][\A c \in Clients : Blocked(c) /\ ~Blocked(c)' /\ ~bpop[c].timeout
          => reply'[c] >= bpop[c].numreplicas]_vars

\* The master never knows more than a replica has executed.
AckInv ==
    \A r \in Replicas :
       /\ ackOff[r] <= reploff[r] /\ reploff[r] <= moff
       /\ \A i \in 1 .. Len(acks[r]) : acks[r][i] <= reploff[r]

\* A client waits for its last write or more.
OffsetInv ==
    \A c \in Clients :
       /\ written[c] <= woff[c] /\ woff[c] <= moff
       /\ Blocked(c) => written[c] <= bpop[c].reploffset

WInv == TypeOK /\ ReplyIsTrue /\ AckInv /\ OffsetInv
=============================================================================
