--------------------------- MODULE BacklogSafety ---------------------------
(***************************************************************************)
(* What the replicas may expect of the backlog, and the inductive          *)
(* invariant behind it.                                                    *)
(***************************************************************************)
EXTENDS ReplicationBacklog

\* addReplyReplicationBacklog sets the offsets "so that a future writeToClient will
\* send the backlog from the given offset to the current end": the bytes a replica
\* has received are those that follow its snapshot, in order.
SendsTheStream ==
    \A r \in Replicas : \A i \in 1 .. Len(received[r]) : received[r][i] = base[r] + i

\* Every replica gets a snapshot of its own whenever it connects: none resumes by
\* PSYNC, and none joins the BGSAVE of another.
OwnSnapshots == ~set.partial /\ (set.diskless \/ \A q, r \in Replicas : q = r)

\* The stream still fits in the backlog, so that nothing has been overwritten.
NotYetFull == moff - Start < set.size

\* When the replicas can rely on the backlog.  CONFIG SET within a batch drops what
\* has not been flushed.  In a backlog that has been full, the bytes for a replica
\* that resumes, or that joins the BGSAVE of one that is being closed, may be gone.
\* And trimReplicationBacklog takes an offset of 0 for the lack of a replica.
Regular == set.sizes = {} /\ (NotYetFull \/ (OwnSnapshots /\ Start > 0))

\* Every replica gets the stream, whatever is fed, grown, trimmed or wrapped around
\* between two sends; not with a limit, where a replica that is being closed is
\* still sent bytes that have been overwritten.
Faithful == Regular /\ set.hardLimit = 0 => SendsTheStream

\* What a connected replica has not been sent yet is in the buffer, where
\* getReplIndexFromOffset looks for it.
BufferHolds ==
    Regular => \A r \in Listening : \A o \in (curr[r] + 1) .. moff :
       curr[r] >= bl.start /\ bl.buf[Index(bl, o - 1)] = o

\* writeToClient has something to write when data is pending, so its loop ends.
SendsSomething == Regular => \A r \in Listening : Pending(r) => Chunk(r) > 0

\* The assertion of flushReplBacklogToClients: when a batch has fed bytes that
\* still fit, the write position has moved.
FlushAssert ==
    InBatch /\ batchOff # moff /\ moff - batchOff <= bl.size => bl.batchIdx # bl.idx

\* Unless an assertion stops the server, every replica that stays connected gets all
\* of the stream once no more is written.
CaughtUp ==
    []Regular /\ []FlushAssert =>
        \A r \in Replicas :
            <>[](r \in Listening) => <>[](base[r] + Len(received[r]) = moff)

-----------------------------------------------------------------------------
(***************************************************************************)
(* The inductive invariant.                                                *)
(***************************************************************************)
Fields == {"buf", "size", "idx", "histlen", "off", "start", "batchIdx"}
Offsets == Nat \cup {-1}

\* The buffer has repl_backlog_size bytes, and the write position is one of them.
BacklogOK(b) ==
    /\ DOMAIN b = Fields
    /\ b.size \in Nat /\ b.size >= MinSize /\ b.idx \in 0 .. (b.size - 1)
    /\ b.start \in Nat /\ b.buf \in [0 .. (b.size - 1) -> Nat]

\* Every variable has a value of its kind.
TypeOK ==
    /\ moff \in Nat /\ batchOff \in Offsets /\ lowest \in Offsets /\ config \in Nat
    /\ BacklogOK(bl)
    /\ state \in [Replicas -> {"none", "wait", "online"}]
    /\ closing \in [Replicas -> {"no", "asap", "lost"}]
    /\ curr \in [Replicas -> Offsets] /\ end \in [Replicas -> Offsets]
    /\ base \in [Replicas -> Offsets] /\ received \in [Replicas -> Seq(Nat)]

\* The buffer is a window on the stream that ends at offset m: the write position
\* is that of m, and the last bytes are where getReplIndexFromOffset looks for them.
Window(b, m) ==
    /\ Start <= b.start /\ b.start <= m
    /\ b.idx % b.size = (m - b.start) % b.size
    /\ \A o \in (b.start + 1) .. m : m - o < b.size => b.buf[(o - 1 - b.start) % b.size] = o

\* The data of a connected replica fits, with room for one byte more.
FitInv ==
    \A r \in Listening :
       /\ bl.start <= curr[r] /\ curr[r] <= end[r] /\ end[r] <= moff
       /\ moff - curr[r] < bl.size

\* repl_lowest_off, or the start of the batch when there is none, is a lower bound
\* of the positions of the connected replicas.
LowestInv ==
    /\ config = set.size /\ batchOff <= moff
    /\ lowest # -1 => bl.start <= lowest /\ lowest <= moff /\ moff - lowest < bl.size
    /\ \A r \in Listening :
          IF lowest # -1 THEN lowest <= curr[r]
          ELSE IF InBatch THEN batchOff <= curr[r] ELSE curr[r] = moff

\* A replica that joins within the batch has nothing to send before its end.
EndInv == InBatch => \A r \in Listening : end[r] <= batchOff \/ curr[r] = end[r]

\* A position is where the snapshot and the bytes received since lead to.
PositionInv ==
    \A r \in Replicas :
       /\ state[r] # "none" => base[r] # -1 /\ base[r] + Len(received[r]) = curr[r]
       /\ state[r] = "wait" => received[r] = <<>>

\* Without a limit, a replica that is being closed has nothing to send.
ClosedInv ==
    set.hardLimit = 0 =>
       SendsTheStream /\ \A r \in Replicas : closing[r] = "asap" => curr[r] = end[r]

\* When every replica has a snapshot of its own.
Core ==
    /\ TypeOK /\ Window(bl, moff) /\ FitInv /\ LowestInv /\ EndInv /\ PositionInv /\ ClosedInv

\* While the stream still fits: every position since Start is good, whichever replica
\* resumes there or shares the snapshot of another.
WholeInv ==
    /\ TypeOK /\ Window(bl, moff) /\ PositionInv /\ SendsTheStream
    /\ bl.start = Start /\ bl.size = set.size /\ config = set.size
    /\ bl.off = Start + 1 /\ bl.histlen = moff - Start
    /\ InBatch => Start <= batchOff
    /\ lowest # -1 => Start <= lowest /\ lowest <= moff
    /\ \A r \in Replicas :
          /\ base[r] # -1 => Start <= base[r]
          /\ state[r] # "none" => Start <= curr[r] /\ curr[r] <= end[r] /\ end[r] <= moff

BInv ==
    /\ set \in Settings /\ moff \in Nat
    /\ set.sizes = {} /\ OwnSnapshots /\ Start > 0 => Core
    /\ set.sizes = {} /\ NotYetFull => WholeInv

\* The assertion of resizeReplicationBacklog on the number of bytes that it moves
\* holds for every position it may be called with.
ResizeAssert ==
    Regular =>
       /\ lowest # -1 => CanResize(bl, lowest)
       /\ \A r \in Listening : CanResize(bl, curr[r])
=============================================================================
