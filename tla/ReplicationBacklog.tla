------------------------ MODULE ReplicationBacklog ------------------------
(***************************************************************************)
(* The replication backlog of KeyDB, a circular buffer that all replicas   *)
(* are served from: a replica has no output buffer of its own but a        *)
(* position in the stream (repl_curr_off), and writeToClient sends it the  *)
(* bytes of the buffer from there to repl_end_off.  Feeding happens in     *)
(* batches under the global lock; the threads of the replicas send at any  *)
(* time.  A byte of the stream is represented by its offset.               *)
(***************************************************************************)
EXTENDS Integers, Sequences, FiniteSetsExt

CONSTANTS
    Replicas,
    Settings,       \* the settings the server may run with, of which one is used:
                    \*   size: repl-backlog-size at the start
                    \*   sizes: the values of CONFIG SET repl-backlog-size
                    \*   hardLimit: client-output-buffer-limit of replicas; 0 is none
                    \*   failing: the replicas that may lose their connection
                    \*   diskless: repl-diskless-sync, no replica joins a running BGSAVE
                    \*   partial: TRUE if the replicas try PSYNC
    Start,          \* master_repl_offset when the backlog is created
    MinSize,        \* CONFIG_REPL_BACKLOG_MIN_SIZE
    Lens,           \* the lengths of the commands
    MaxOff          \* bound on master_repl_offset

ASSUME BacklogAssumption ==
    /\ \A o \in Settings : /\ o.size \in Nat /\ o.size >= MinSize /\ o.hardLimit \in Nat
                          /\ o.sizes \subseteq Nat /\ o.failing \subseteq Replicas
                          /\ o.diskless \in BOOLEAN /\ o.partial \in BOOLEAN
    /\ Start \in Nat /\ MinSize \in Nat \ {0} /\ Lens \subseteq Nat \ {0} /\ MaxOff \in Nat

VARIABLES
    set,        \* the settings, which do not change
    moff,       \* master_repl_offset
    bl,         \* the backlog and the variables repl_backlog_*, repl_batch_idxStart
    batchOff,   \* repl_batch_offStart
    lowest,     \* repl_lowest_off
    config,     \* repl_backlog_config_size
    state, curr, end,   \* of a replica: replstate, repl_curr_off, repl_end_off
    closing,    \* "asap": CLIENT_CLOSE_ASAP; "lost": that, and no connection; or "no"
    base,       \* the offset of the snapshot a replica got, -1 for none
    received    \* the bytes a replica has got after that

replicas == <<state, closing, curr, end, base, received>>
vars == <<set, moff, bl, batchOff, lowest, config, replicas>>

\* createReplicationBacklog, within a batch.
Init ==
    /\ set \in Settings
    /\ moff = Start
    /\ bl = [buf |-> [i \in 0 .. (set.size - 1) |-> 0], size |-> set.size, idx |-> 0,
             histlen |-> 0, off |-> Start + 1, start |-> Start, batchIdx |-> 0]
    /\ batchOff = Start
    /\ lowest = -1
    /\ config = set.size
    /\ state = [r \in Replicas |-> "none"]
    /\ closing = [r \in Replicas |-> "no"]
    /\ curr = [r \in Replicas |-> -1]
    /\ end = [r \in Replicas |-> -1]
    /\ base = [r \in Replicas |-> -1]
    /\ received = [r \in Replicas |-> <<>>]

InBatch == batchOff >= 0

\* canFeedReplicaReplBuffer, and not CLIENT_CLOSE_ASAP.
Listening == {r \in Replicas : state[r] # "none" /\ closing[r] = "no"}

\* freeClientAsync
CloseAsap(R) ==
    closing' = [r \in Replicas |-> IF r \in R /\ closing[r] = "no" THEN "asap" ELSE closing[r]]

\* getReplIndexFromOffset; the % of C++ rounds towards zero.
Index(b, offset) ==
    IF offset >= b.start THEN (offset - b.start) % b.size
                         ELSE -((b.start - offset) % b.size)

-----------------------------------------------------------------------------
\* Mutant: the old repl_backlog_start stays.
ResizedKeepsStart(b, earliest, n) ==
    LET hot == IF earliest = -1 THEN 0 ELSE moff - earliest
        newsize == Max({n, MinSize, hot})
        from == Index(b, earliest)
    IN
    [b EXCEPT !.buf = [i \in 0 .. (newsize - 1) |->
                         IF i < hot THEN b.buf[(from + i) % b.size] ELSE 0],
              !.size = newsize, !.histlen = hot, !.idx = hot]

\* resizeReplicationBacklog moves what replicas still need to the start of a new
\* buffer; without replicas the new buffer is empty.
Resized(b, earliest, n) ==
    LET hot == IF earliest = -1 THEN 0 ELSE moff - earliest
        newsize == Max({n, MinSize, hot})
        from == Index(b, earliest)
        buf == [i \in 0 .. (newsize - 1) |->
                  IF i < hot THEN b.buf[(from + i) % b.size] ELSE 0]
        new == [b EXCEPT !.buf = buf, !.size = newsize, !.histlen = hot, !.idx = hot]
    IN
    IF b.size = Max({n, MinSize}) THEN b
    ELSE IF earliest = -1 THEN [new EXCEPT !.off = moff + 1, !.start = moff]
    ELSE [new EXCEPT !.start = earliest,
                     !.batchIdx = IF @ < 0 THEN @
                                  ELSE IF @ < from THEN @ - from + b.size ELSE @ - from]

\* Its assertion on the bytes it has moved; the server stops where it fails.
CanResize(b, earliest) ==
    LET from == Index(b, earliest) IN
    earliest = -1 \/ moff - earliest = b.idx - from + IF b.idx < from THEN b.size ELSE 0

\* The loop of feedReplicationBacklog that copies n bytes, and what follows it.
Filled(b, n) ==
    LET histlen == Min({b.histlen + n, b.size}) IN
    [b EXCEPT !.buf = [i \in 0 .. (b.size - 1) |->
                         LET new == {k \in 1 .. n : (b.idx + k - 1) % b.size = i}
                         IN  IF new = {} THEN b.buf[i] ELSE moff + Max(new)],
              !.idx = (b.idx + n) % b.size,
              !.histlen = histlen,
              !.off = moff + n - histlen + 1]

\* feedReplicationBacklog of n bytes.  Before it overwrites what may be needed it
\* closes the replicas that are too far behind and grows the backlog.
Feed(n) ==
    /\ InBatch
    /\ moff + n <= MaxOff
    /\ LET lower == IF lowest = -1 THEN batchOff ELSE lowest
           Needs(o) == moff + n - o + 1
           over == {r \in Listening : set.hardLimit > 0 /\ Needs(curr[r]) > set.hardLimit}
           rest == Listening \ over
           min == Min({curr[r] : r \in rest})
       IN
       IF Needs(lower) <= bl.size
       THEN /\ bl' = Filled(bl, n)
            /\ UNCHANGED <<batchOff, lowest, closing>>
       ELSE /\ CloseAsap(over)
            /\ IF rest = {}
               THEN /\ lowest' = -1
                    /\ batchOff' = moff + n
                    /\ bl' = Filled(bl, n)
               ELSE /\ lowest' = min
                    /\ Needs(min) > bl.size => CanResize(bl, min)
                    /\ bl' = Filled(IF Needs(min) > bl.size
                                       THEN Resized(bl, min, Max({2 * bl.size, Needs(min)}))
                                       ELSE bl, n)
                    /\ UNCHANGED batchOff
    /\ moff' = moff + n
    /\ UNCHANGED <<set, config, state, curr, end, base, received>>

-----------------------------------------------------------------------------
\* runAndPropogateToReplicas
BatchStart ==
    /\ ~InBatch
    /\ batchOff' = moff
    /\ bl' = [bl EXCEPT !.batchIdx = bl.idx]
    /\ UNCHANGED <<set, moff, lowest, config, replicas>>

\* flushReplBacklogToClients at the end of the batch, with its assertion.
BatchEnd ==
    /\ InBatch
    /\ IF batchOff = moff
       THEN UNCHANGED <<closing, end, lowest>>
       ELSE IF moff - batchOff > bl.size
       THEN /\ CloseAsap({r \in Replicas : state[r] # "none"})
            /\ lowest' = -1
            /\ UNCHANGED end
       ELSE /\ bl.batchIdx # bl.idx
            /\ end' = [r \in Replicas |-> IF r \in Listening THEN moff ELSE end[r]]
            /\ lowest' = IF Listening = {} THEN -1 ELSE Min({curr[r] : r \in Listening})
            /\ UNCHANGED closing
    /\ batchOff' = -1
    /\ bl' = [bl EXCEPT !.batchIdx = -1]
    /\ UNCHANGED <<set, moff, config, state, curr, base, received>>

\* Full resynchronisation: a BGSAVE is started for the replica, by syncCommand or
\* by replicationCron, or syncCommand lets it join the one another waits for.
FullSync(r) ==
    /\ state[r] = "none"
    /\ \E offset \in {moff} \cup {base[q] : q \in {q \in Replicas : ~set.diskless /\ InBatch
                                                              /\ state[q] = "wait"}} :
          /\ base' = [base EXCEPT ![r] = offset]
          /\ curr' = [curr EXCEPT ![r] = offset]
    /\ end' = [end EXCEPT ![r] = moff]
    /\ state' = [state EXCEPT ![r] = "wait"]
    /\ received' = [received EXCEPT ![r] = <<>>]
    /\ UNCHANGED <<set, moff, bl, batchOff, lowest, config, closing>>

\* Mutant: the byte asked for is taken to be the last one received.
PartialSyncSkipsOne(r) ==
    LET offset == base[r] + Len(received[r]) + 1 IN
    /\ InBatch
    /\ set.partial /\ state[r] = "none" /\ base[r] # -1
    /\ offset >= bl.off /\ offset < bl.off + bl.histlen
    /\ curr' = [curr EXCEPT ![r] = offset]
    /\ end' = [end EXCEPT ![r] = moff]
    /\ state' = [state EXCEPT ![r] = "online"]
    /\ UNCHANGED <<set, moff, bl, batchOff, lowest, config, closing, base, received>>

\* masterTryPartialResynchronization accepts, and addReplyReplicationBacklog.
PartialSync(r) ==
    LET offset == base[r] + Len(received[r]) + 1 IN
    /\ InBatch
    /\ set.partial /\ state[r] = "none" /\ base[r] # -1
    /\ offset >= bl.off /\ offset <= bl.off + bl.histlen
    /\ curr' = [curr EXCEPT ![r] = IF bl.histlen = 0 THEN moff ELSE offset - 1]
    /\ end' = [end EXCEPT ![r] = moff]
    /\ state' = [state EXCEPT ![r] = "online"]
    /\ UNCHANGED <<set, moff, bl, batchOff, lowest, config, closing, base, received>>

\* putSlaveOnline: the snapshot has been transferred.
PutOnline(r) ==
    /\ state[r] = "wait" /\ closing[r] # "lost"
    /\ state' = [state EXCEPT ![r] = "online"]
    /\ UNCHANGED <<set, moff, bl, batchOff, lowest, config, closing, curr, end, base, received>>

\* The server notices that the connection is gone.
Lose(r) ==
    /\ r \in set.failing /\ state[r] # "none"
    /\ closing' = [closing EXCEPT ![r] = "lost"]
    /\ UNCHANGED <<set, moff, bl, batchOff, lowest, config, state, curr, end, base, received>>

\* freeClientsInAsyncFreeQueue; a replica without its snapshot has to start again.
Free(r) ==
    /\ ~InBatch
    /\ closing[r] # "no"
    /\ closing' = [closing EXCEPT ![r] = "no"]
    /\ state' = [state EXCEPT ![r] = "none"]
    /\ base' = IF state[r] = "wait" THEN [base EXCEPT ![r] = -1] ELSE base
    /\ UNCHANGED <<set, moff, bl, batchOff, lowest, config, curr, end, received>>

\* Mutant: data that wraps around is not sent.
ChunkWithoutWrap(r) ==
    LET c == Index(bl, curr[r])  e == Index(bl, end[r]) IN IF e >= c THEN e - c ELSE 0

\* What connWrite is asked to send in one go: up to the end position, or to the
\* end of the buffer when the data wraps around.
Chunk(r) ==
    LET c == Index(bl, curr[r])  e == Index(bl, end[r])
    IN  IF e >= c THEN e - c ELSE bl.size - c

Pending(r) == state[r] = "online" /\ closing[r] # "lost" /\ curr[r] # end[r]

\* A read outside of the buffer gives no byte of the stream.
ByteAt(i) == IF i \in DOMAIN bl.buf THEN bl.buf[i] ELSE 0

\* writeToClient; the socket takes n of these bytes.  An assertion stops the server
\* that would go past the end position.
Send(r, n) ==
    /\ Pending(r)
    /\ n <= Chunk(r) /\ curr[r] + n <= end[r]
    /\ received' = [received EXCEPT ![r] =
                      @ \o [i \in 1 .. n |-> ByteAt(Index(bl, curr[r]) + i - 1)]]
    /\ curr' = [curr EXCEPT ![r] = @ + n]
    /\ UNCHANGED <<set, moff, bl, batchOff, lowest, config, state, closing, end, base>>

\* trimReplicationBacklog, called by replicationCron.
Trim ==
    /\ ~InBatch
    /\ bl.size > config
    /\ ~(lowest > 0 /\ moff - lowest + 1 > config)
    /\ CanResize(bl, lowest)
    /\ bl' = Resized(bl, lowest, config)
    /\ UNCHANGED <<set, moff, batchOff, lowest, config, replicas>>

\* CONFIG SET repl-backlog-size, updateReplBacklogSize.
Configure(n) ==
    /\ InBatch
    /\ config' = n
    /\ bl.size = Max({n, MinSize}) \/ CanResize(bl, lowest)
    /\ bl' = Resized(bl, lowest, n)
    /\ UNCHANGED <<set, moff, batchOff, lowest, replicas>>

-----------------------------------------------------------------------------
Next ==
    \/ BatchStart \/ BatchEnd \/ Trim
    \/ \E n \in Lens : Feed(n)
    \/ \E n \in set.sizes : Configure(n)
    \/ \E r \in Replicas :
          \/ FullSync(r) \/ PartialSync(r) \/ PutOnline(r) \/ Lose(r) \/ Free(r)
          \/ \E n \in 1 .. MaxOff : Send(r, n)

Spec == Init /\ [][Next]_vars

\* The event loops end their batches, free what is closed, finish the transfer of
\* snapshots and write to every socket that takes data.
FairSpec ==
    /\ Spec
    /\ WF_vars(BatchEnd)
    /\ \A r \in Replicas :
          WF_vars(PutOnline(r)) /\ WF_vars(Free(r)) /\ WF_vars(\E n \in 1 .. MaxOff : Send(r, n))
=============================================================================
