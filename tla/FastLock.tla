------------------------------ MODULE FastLock ------------------------------
(***************************************************************************)
(* fastlock, the recursive ticket lock of KeyDB (the global lock, the lock *)
(* of every client and of the backlog): a thread takes a ticket, spins     *)
(* until it is served, and after a while sleeps on a futex.  The bits of   *)
(* `futex' say which tickets may be asleep.  One action is one access to   *)
(* memory that other threads can see, or one system call.                  *)
(***************************************************************************)
EXTENDS Integers, FiniteSets, Sequences

CONSTANTS
    Threads,
    Tickets,    \* 2^16: m_active and m_avail are 16 bits wide
    Bits,       \* 32: the bits of futex
    MaxDepth,   \* bound on the nesting of a thread
    NoThread    \* the -1 of m_pidOwner

ASSUME LockAssumption ==
    /\ IsFiniteSet(Threads) /\ NoThread \notin Threads
    /\ Tickets \in Nat /\ Bits \in Nat \ {0} /\ MaxDepth \in Nat \ {0}
    /\ Cardinality(Threads) < Tickets

\* No two threads of the line share a bit of futex: KeyDB runs fewer threads than
\* there are bits, and the tickets wrap around where the bits do.
ASSUME BitsAssumption ==
    Cardinality(Threads) <= Bits /\ Tickets % Bits = 0

VARIABLES
    active, avail,      \* m_ticket
    owner, depth,       \* m_pidOwner, m_depth
    futex,              \* the set of bits that are set
    pc, ticket,         \* of a thread: where it is; myticket, then activeNew of its unlock
    wake,               \* of a thread: ticketT.u, the ticket pair it has read last
    nesting             \* of a thread: the depth fastlock_lock_recursive is to restore

words == <<active, avail, owner, depth, futex>>
vars == <<words, pc, ticket, wake, nesting>>

Ticket == 0 .. (Tickets - 1)

\* The next ticket; 16 bits wrap around.
Succ(x) == IF x = Tickets - 1 THEN 0 ELSE x + 1

\* The bit of a ticket in futex.
Bit(x) == x % Bits

Goto(t, l) == pc' = [pc EXCEPT ![t] = l]

\* Local variables that are no longer used get their first value.
Forget(t) == wake' = [wake EXCEPT ![t] = <<0, 0>>]

\* fastlock_init
Init ==
    /\ active = 0 /\ avail = 0
    /\ owner = NoThread /\ depth = 0
    /\ futex = {}
    /\ pc = [t \in Threads |-> "out"]
    /\ ticket = [t \in Threads |-> 0]
    /\ wake = [t \in Threads |-> <<0, 0>>]
    /\ nesting = [t \in Threads |-> 0]

-----------------------------------------------------------------------------
(* fastlock_lock *)

\* A thread calls fastlock_lock, or takes up the lock it gave up for a while
\* with fastlock_lock_recursive.
Lock(t) ==
    /\ pc[t] = "out" /\ owner # t
    /\ Goto(t, "take")
    /\ UNCHANGED <<words, ticket, wake, nesting>>

\* The owner, by fastlock_lock or fastlock_trylock.
LockAgain(t) ==
    /\ pc[t] = "in" /\ owner = t /\ depth < MaxDepth
    /\ depth' = depth + 1
    /\ UNCHANGED <<active, avail, owner, futex, pc, ticket, wake, nesting>>

TakeTicket(t) ==
    /\ pc[t] = "take"
    /\ ticket' = [ticket EXCEPT ![t] = avail]
    /\ avail' = Succ(avail)
    /\ Goto(t, "spin")
    /\ UNCHANGED <<active, owner, depth, futex, wake, nesting>>

\* Either loop of fastlock_lock, with or without a worker.
Served(t) ==
    /\ pc[t] = "spin"
    /\ active = ticket[t]
    /\ Goto(t, "served")
    /\ UNCHANGED <<words, ticket, wake, nesting>>

\* loopLimit iterations have passed: fastlock_sleep.
GiveUpSpinning(t) ==
    /\ pc[t] = "spin"
    /\ active # ticket[t]
    /\ wake' = [wake EXCEPT ![t] = <<active, avail>>]
    /\ Goto(t, "mask")
    /\ UNCHANGED <<words, ticket, nesting>>

SetMask(t) ==
    /\ pc[t] = "mask"
    /\ futex' = futex \cup {Bit(ticket[t])}
    /\ Goto(t, "check")
    /\ UNCHANGED <<active, avail, owner, depth, ticket, wake, nesting>>

\* Mutant: no second look at the ticket, and the kernel is given what is there now.
CheckAgainTooLate(t) ==
    /\ pc[t] = "check"
    /\ wake' = [wake EXCEPT ![t] = <<active, avail>>]
    /\ Goto(t, "wait")
    /\ UNCHANGED <<words, ticket, nesting>>

\* "double check the lock wasn't release"
CheckAgain(t) ==
    /\ pc[t] = "check"
    /\ IF active = ticket[t] THEN Goto(t, "unmask") /\ Forget(t)
                             ELSE Goto(t, "wait") /\ UNCHANGED wake
    /\ UNCHANGED <<words, ticket, nesting>>

\* FUTEX_WAIT_BITSET sleeps only if the ticket pair is still the one read.
FutexWait(t) ==
    /\ pc[t] = "wait"
    /\ Goto(t, IF wake[t] = <<active, avail>> THEN "asleep" ELSE "unmask")
    /\ Forget(t)
    /\ UNCHANGED <<words, ticket, nesting>>

\* Mutant: the bit is not cleared.
ClearMaskNever(t) ==
    /\ pc[t] = "unmask"
    /\ Goto(t, "spin")
    /\ UNCHANGED <<words, ticket, wake, nesting>>

ClearMask(t) ==
    /\ pc[t] = "unmask"
    /\ futex' = futex \ {Bit(ticket[t])}
    /\ Goto(t, "spin")
    /\ UNCHANGED <<active, avail, owner, depth, ticket, wake, nesting>>

\* The end of fastlock_lock, fastlock_trylock and fastlock_lock_recursive; nobody
\* else looks at m_depth.
Enter(t) ==
    /\ pc[t] = "served"
    /\ owner' = t
    /\ depth' = IF nesting[t] > 0 THEN nesting[t] ELSE 1
    /\ nesting' = [nesting EXCEPT ![t] = 0]
    /\ Goto(t, "in")
    /\ UNCHANGED <<active, avail, futex, ticket, wake>>

-----------------------------------------------------------------------------
(* fastlock_trylock *)

TryLock(t) ==
    /\ pc[t] = "out" /\ owner # t /\ nesting[t] = 0
    /\ active = avail
    /\ wake' = [wake EXCEPT ![t] = <<active, avail>>]
    /\ Goto(t, "try")
    /\ UNCHANGED <<words, ticket, nesting>>

\* Mutant: only m_avail is compared and exchanged, as if fetch_add would do.
CompareExchangeAvail(t) ==
    /\ pc[t] = "try"
    /\ ticket' = [ticket EXCEPT ![t] = wake[t][1]]
    /\ avail' = Succ(avail)
    /\ Goto(t, "served")
    /\ UNCHANGED <<active, owner, depth, futex, wake, nesting>>

\* With fWeak the exchange may fail for no reason.
CompareExchange(t) ==
    /\ pc[t] = "try"
    /\ \/ /\ wake[t] = <<active, avail>>
          /\ ticket' = [ticket EXCEPT ![t] = active]
          /\ avail' = Succ(avail)
          /\ Goto(t, "served")
       \/ /\ Goto(t, "out")
          /\ UNCHANGED <<avail, ticket>>
    /\ Forget(t)
    /\ UNCHANGED <<active, owner, depth, futex, nesting>>

-----------------------------------------------------------------------------
(* fastlock_unlock *)

\* An inner unlock.
UnlockInner(t) ==
    /\ pc[t] = "in" /\ depth > 1
    /\ depth' = depth - 1
    /\ UNCHANGED <<active, avail, owner, futex, pc, ticket, wake, nesting>>

\* Mutant: m_pidOwner keeps its value.
UnlockKeepsOwner(t, keep) ==
    /\ pc[t] = "in"
    /\ IF keep THEN nesting' = [nesting EXCEPT ![t] = depth]
               ELSE depth = 1 /\ UNCHANGED nesting
    /\ depth' = 0
    /\ Goto(t, "pass")
    /\ UNCHANGED <<active, avail, owner, futex, ticket, wake>>

\* The outer one; keep is TRUE in fastlock_unlock_recursive.
Unlock(t, keep) ==
    /\ pc[t] = "in"
    /\ IF keep THEN nesting' = [nesting EXCEPT ![t] = depth]
               ELSE depth = 1 /\ UNCHANGED nesting
    /\ depth' = 0
    /\ owner' = NoThread
    /\ Goto(t, "pass")
    /\ UNCHANGED <<active, avail, futex, ticket, wake>>

\* Mutant: unlock_futex gets the ticket that has just been served.
PassOnOldTicket(t) ==
    /\ pc[t] = "pass"
    /\ active' = Succ(active)
    /\ ticket' = [ticket EXCEPT ![t] = active]
    /\ Goto(t, "look")
    /\ UNCHANGED <<avail, owner, depth, futex, wake, nesting>>

\* Mutant: m_active is set to m_avail, past the threads that wait.
PassOnToNewest(t) ==
    /\ pc[t] = "pass"
    /\ active' = avail
    /\ ticket' = [ticket EXCEPT ![t] = avail]
    /\ Goto(t, "look")
    /\ UNCHANGED <<avail, owner, depth, futex, wake, nesting>>

\* The store to m_active lets the next thread in.
PassOn(t) ==
    /\ pc[t] = "pass"
    /\ active' = Succ(active)
    /\ ticket' = [ticket EXCEPT ![t] = Succ(active)]
    /\ Goto(t, "look")
    /\ UNCHANGED <<avail, owner, depth, futex, wake, nesting>>

\* unlock_futex, the test of the bit.
LookForSleeper(t) ==
    /\ pc[t] = "look"
    /\ IF Bit(ticket[t]) \in futex THEN Goto(t, "wake") /\ UNCHANGED ticket
                                   ELSE Goto(t, "out") /\ ticket' = [ticket EXCEPT ![t] = 0]
    /\ UNCHANGED <<words, wake, nesting>>

\* unlock_futex, FUTEX_WAKE_BITSET; it tries again unless one thread was woken.
WakeSleeper(t) ==
    LET sleepers == {u \in Threads : pc[u] = "asleep" /\ Bit(ticket[u]) = Bit(ticket[t])} IN
    /\ pc[t] = "wake"
    /\ pc' = [u \in Threads |->
                IF u \in sleepers THEN "unmask"
                ELSE IF u # t THEN pc[u]
                ELSE IF Cardinality(sleepers) = 1 THEN "out" ELSE "look"]
    /\ ticket' = IF Cardinality(sleepers) = 1 THEN [ticket EXCEPT ![t] = 0] ELSE ticket
    /\ UNCHANGED <<words, wake, nesting>>

-----------------------------------------------------------------------------
Waiting(t) ==
    \/ TakeTicket(t) \/ Served(t) \/ GiveUpSpinning(t) \/ SetMask(t)
    \/ CheckAgain(t) \/ FutexWait(t) \/ ClearMask(t) \/ Enter(t)

Unlocking(t) ==
    UnlockInner(t) \/ PassOn(t) \/ LookForSleeper(t) \/ WakeSleeper(t)

Next ==
    \E t \in Threads :
       \/ Lock(t) \/ LockAgain(t) \/ Waiting(t)
       \/ TryLock(t) \/ CompareExchange(t)
       \/ Unlocking(t) \/ \E keep \in BOOLEAN : Unlock(t, keep)

Spec == Init /\ [][Next]_vars

\* A thread that has begun to lock or unlock goes on, and every thread that has
\* the lock gives it back some time.
FairSpec ==
    /\ Spec
    /\ \A t \in Threads :
          /\ WF_vars(Waiting(t)) /\ WF_vars(Unlocking(t))
          /\ SF_vars(\E keep \in BOOLEAN : Unlock(t, keep))

-----------------------------------------------------------------------------
\* The threads between their ticket and the end of their turn.
Queued == {t \in Threads : pc[t] \in {"spin", "mask", "check", "wait", "asleep", "unmask",
                                      "served", "in", "pass"}}

\* The threads whose turn it is, or who think so.
Holders == {t \in Threads : pc[t] \in {"served", "in", "pass"}}

\* Tickets from a to x.
Distance(a, x) == IF x >= a THEN x - a ELSE x - a + Tickets

-----------------------------------------------------------------------------
Labels == {"out", "take", "spin", "mask", "check", "wait", "asleep", "unmask",
           "served", "in", "try", "pass", "look", "wake"}

\* Types.
TypeOK ==
    /\ active \in Ticket /\ avail \in Ticket
    /\ owner \in Threads \cup {NoThread} /\ depth \in 0 .. MaxDepth
    /\ futex \subseteq 0 .. (Bits - 1)
    /\ pc \in [Threads -> Labels] /\ ticket \in [Threads -> Ticket]
    /\ wake \in [Threads -> Ticket \X Ticket] /\ nesting \in [Threads -> 0 .. MaxDepth]

\* At most one thread has the lock, across the wrap around of the tickets and a
\* fastlock_trylock that races with the fetch_add of fastlock_lock.
Mutex == \A t, u \in Holders : t = u

\* m_pidOwner, which decides without a ticket whether a lock is a recursive one,
\* names a thread only while it has the lock.
OwnerHolds == owner # NoThread => Holders = {owner} /\ depth > 0

\* Behind them: the tickets from m_active to m_avail are those of the queued
\* threads, one each.
TicketInv ==
    /\ Distance(active, avail) = Cardinality(Queued)
    /\ \A t \in Queued : Distance(active, ticket[t]) < Distance(active, avail)
    /\ \A t, u \in Queued : ticket[t] = ticket[u] => t = u

\* A thread has the lock on the ticket m_active, m_pidOwner is the thread between
\* its lock and its unlock, and fastlock_trylock expects a pair of equal tickets.
OwnerInv ==
    /\ \A t \in Holders : ticket[t] = active
    /\ \A t \in Threads : /\ pc[t] = "try" => wake[t][1] = wake[t][2]
                          /\ owner = t <=> pc[t] = "in"
                          /\ pc[t] = "in" => depth > 0

IInv == TypeOK /\ TicketInv /\ OwnerInv

\* A thread whose turn has come is not left asleep: the thread that passed the
\* lock on is still about to wake it.
NoLostWakeup ==
    \A t \in Threads : pc[t] = "asleep" /\ active = ticket[t] =>
       \E u \in Threads : pc[u] \in {"look", "wake"} /\ ticket[u] = ticket[t]
                          /\ Bit(ticket[t]) \in futex

\* What it rests on: a thread gives up only before its turn, and its bit is set
\* until it clears it.
SleepInv ==
    \A t \in Threads :
       /\ pc[t] \in {"mask", "check", "wait"} => wake[t][1] # ticket[t]
       /\ pc[t] \in {"check", "wait", "asleep", "unmask"} => Bit(ticket[t]) \in futex

-----------------------------------------------------------------------------
\* The line: behind each ticket from m_active to m_avail is the thread that drew it.
Line ==
    [i \in 1 .. Distance(active, avail) |->
        CHOOSE t \in Queued : Distance(active, ticket[t]) = i - 1]

Fifo == INSTANCE FifoLock WITH line <- Line

\* The lock is a first-come first-served queue: threads get in at the end of the line,
\* and only the first one leaves it.
RefinesFifo == Fifo!Spec

\* No ticket between m_active and m_avail is lost.
LineInv ==
    \A d \in 0 .. (Distance(active, avail) - 1) :
       \E t \in Queued : Distance(active, ticket[t]) = d
=============================================================================
