--------------------------- MODULE FastLockProofs ---------------------------
(***************************************************************************)
(* Mutual exclusion and the order of fastlock, for fewer threads than      *)
(* tickets.                                                                *)
(***************************************************************************)
EXTENDS FastLock, FiniteSetTheorems, SequenceTheorems, TLAPS

\* Zenon proves the leaves that name no other prover.
USE ZenonT(20)

-----------------------------------------------------------------------------
(* Facts about tickets. *)

\* There is a ticket, and its number is a natural.
LEMMA TicketZero == 0 \in Ticket /\ Ticket \subseteq Nat
<1>1. Cardinality(Threads) \in Nat
  BY LockAssumption, FS_CardinalityType
<1> QED BY SMT, <1>1, LockAssumption DEF Ticket

\* The next ticket is a ticket.
LEMMA SuccType == \A x \in Ticket : Succ(x) \in Ticket
BY SMT, LockAssumption DEF Succ, Ticket

\* Distances are smaller than the number of tickets, and tell tickets apart.
LEMMA DistanceFacts ==
  \A a, x, y \in Ticket :
     /\ Distance(a, x) \in 0 .. (Tickets - 1)
     /\ Distance(a, x) = 0 <=> a = x
     /\ Distance(a, x) = Distance(a, y) => x = y
BY SMT, LockAssumption DEF Distance, Ticket

\* fetch_add on m_avail makes the line one longer, as long as it does not wrap.
LEMMA DistanceAdd ==
  \A a, x \in Ticket : Distance(a, x) + 1 < Tickets => Distance(a, Succ(x)) = Distance(a, x) + 1
BY SMT, LockAssumption DEF Distance, Ticket, Succ

\* Passing the lock on makes all distances one shorter.
LEMMA DistanceSub ==
  \A a, x \in Ticket : a # x => Distance(Succ(a), x) = Distance(a, x) - 1
BY SMT, LockAssumption DEF Distance, Ticket, Succ

\* The queued threads are finitely many, fewer than there are tickets.
LEMMA QueuedFinite ==
  /\ IsFiniteSet(Queued) /\ Cardinality(Queued) \in Nat /\ Cardinality(Queued) < Tickets
  /\ IsFiniteSet(Queued') /\ Cardinality(Queued') \in Nat /\ Cardinality(Queued') < Tickets
<1>1. Queued \in SUBSET Threads /\ Queued' \in SUBSET Threads
  BY DEF Queued
<1>2. IsFiniteSet(Threads) /\ Cardinality(Threads) < Tickets /\ Tickets \in Nat
  BY LockAssumption
<1>3. /\ IsFiniteSet(Queued) /\ Cardinality(Queued) <= Cardinality(Threads)
      /\ IsFiniteSet(Queued') /\ Cardinality(Queued') <= Cardinality(Threads)
  BY <1>1, <1>2, FS_Subset
<1>4. Cardinality(Queued) \in Nat /\ Cardinality(Queued') \in Nat /\ Cardinality(Threads) \in Nat
  BY <1>2, <1>3, FS_CardinalityType
<1> QED BY SMT, <1>2, <1>3, <1>4

-----------------------------------------------------------------------------
(* Type correctness. *)

\* The types hold in the initial state.
LEMMA TypeInit == Init => TypeOK
BY SMT, LockAssumption, TicketZero DEF Init, TypeOK, Labels

\* Every step keeps the types.
LEMMA TypeNext == TypeOK /\ [Next]_vars => TypeOK'
<1> SUFFICES ASSUME TypeOK, [Next]_vars PROVE TypeOK'
  OBVIOUS
<1> USE LockAssumption, SuccType DEF Goto, Forget, words
<1>0. 0 \in Ticket
  BY TicketZero
<1>b. \A x \in Ticket : Bit(x) \in 0 .. (Bits - 1)
  BY SMT, TicketZero DEF Bit
<1>1. CASE UNCHANGED vars
  BY <1>1 DEF TypeOK, vars
<1> SUFFICES ASSUME NEW t \in Threads,
                    \/ Lock(t) \/ LockAgain(t) \/ Waiting(t) \/ TryLock(t)
                    \/ CompareExchange(t) \/ Unlocking(t) \/ \E keep \in BOOLEAN : Unlock(t, keep)
             PROVE  TypeOK'
  BY <1>1 DEF Next
<1>2. CASE Lock(t)
  BY <1>2 DEF Lock, TypeOK, Labels
<1>2a. CASE LockAgain(t)
  BY SMT, <1>2a DEF LockAgain, TypeOK
<1>3. CASE TakeTicket(t)
  BY <1>3 DEF TakeTicket, TypeOK, Labels
<1>4. CASE Served(t)
  BY <1>4 DEF Served, TypeOK, Labels
<1>4a. CASE GiveUpSpinning(t)
  BY <1>4a DEF GiveUpSpinning, TypeOK, Labels
<1>5. CASE SetMask(t) \/ ClearMask(t)
  BY <1>5, <1>b DEF SetMask, ClearMask, TypeOK, Labels
<1>6. CASE CheckAgain(t)
  <2>1. pc' \in [Threads -> Labels]
    BY SMT, <1>6 DEF CheckAgain, TypeOK, Labels
  <2>2. wake' \in [Threads -> Ticket \X Ticket]
    BY SMT, <1>6, <1>0 DEF CheckAgain, TypeOK
  <2> QED BY <1>6, <2>1, <2>2 DEF CheckAgain, TypeOK
<1>6a. CASE FutexWait(t)
  BY <1>6a, <1>0 DEF FutexWait, TypeOK, Labels
<1>7. CASE Enter(t)
  BY SMT, <1>7 DEF Enter, TypeOK, Labels
<1>8. CASE TryLock(t)
  BY <1>8 DEF TryLock, TypeOK, Labels
<1>9. CASE CompareExchange(t)
  BY SMT, <1>9, <1>0 DEF CompareExchange, TypeOK, Labels
<1>10. CASE UnlockInner(t)
  BY SMT, <1>10 DEF UnlockInner, TypeOK
<1>11. ASSUME NEW keep \in BOOLEAN, Unlock(t, keep) PROVE TypeOK'
  BY SMT, <1>11 DEF Unlock, TypeOK, Labels
<1>12. CASE PassOn(t)
  BY <1>12 DEF PassOn, TypeOK, Labels
<1>13. CASE LookForSleeper(t)
  BY <1>13, <1>0 DEF LookForSleeper, TypeOK, Labels
<1>14. CASE WakeSleeper(t)
  BY <1>14, <1>0 DEF WakeSleeper, TypeOK, Labels
<1> QED BY <1>2, <1>2a, <1>3, <1>4, <1>4a, <1>5, <1>6, <1>6a, <1>7, <1>8, <1>9, <1>10, <1>11, <1>12, <1>13, <1>14
        DEF Waiting, Unlocking

-----------------------------------------------------------------------------
(* What one step of a thread does to the line. *)

\* The steps of a thread, as in Next.
Step(t) ==
    \/ Lock(t) \/ LockAgain(t) \/ Waiting(t) \/ TryLock(t) \/ CompareExchange(t)
    \/ Unlocking(t) \/ \E keep \in BOOLEAN : Unlock(t, keep)

\* Nothing happens to the line.
Stays ==
    /\ UNCHANGED <<active, avail>> /\ Queued' = Queued
    /\ \A u \in Queued : ticket'[u] = ticket[u]

\* A thread takes the next ticket.
Joins(t) ==
    /\ t \in Threads \ Queued /\ Queued' = Queued \cup {t}
    /\ active' = active /\ avail' = Succ(avail)
    /\ ticket' = [ticket EXCEPT ![t] = avail]

\* The thread with the lock leaves.
Leaves(t) ==
    /\ t \in Holders /\ Queued' = Queued \ {t}
    /\ active' = Succ(active) /\ avail' = avail
    /\ \A u \in Queued \ {t} : ticket'[u] = ticket[u]

\* Each step of a thread is one of these three; fastlock_trylock joins an empty line.
LEMMA LineStep ==
  ASSUME IInv, NEW t \in Threads, Step(t)
  PROVE  Stays \/ Joins(t) \/ Leaves(t)
<1> USE DEF Goto, Forget, words, Queued, IInv
<1>2. CASE Lock(t)
  BY <1>2 DEF Lock, TypeOK, Stays
<1>3. CASE LockAgain(t)
  BY <1>3 DEF LockAgain, TypeOK, Stays
<1>4. CASE TakeTicket(t)
  BY <1>4 DEF TakeTicket, TypeOK, Joins
<1>5. CASE Served(t)
  BY <1>5 DEF Served, TypeOK, Stays
<1>6. CASE GiveUpSpinning(t)
  BY <1>6 DEF GiveUpSpinning, TypeOK, Stays
<1>7. CASE SetMask(t) \/ ClearMask(t)
  BY <1>7 DEF SetMask, ClearMask, TypeOK, Stays
<1>8. CASE CheckAgain(t)
  BY <1>8 DEF CheckAgain, TypeOK, Stays
<1>9. CASE FutexWait(t)
  BY <1>9 DEF FutexWait, TypeOK, Stays
<1>10. CASE Enter(t)
  BY <1>10 DEF Enter, TypeOK, Stays
<1>11. CASE TryLock(t)
  BY <1>11 DEF TryLock, TypeOK, Stays
<1>12. CASE CompareExchange(t)
  BY SMT, <1>12 DEF CompareExchange, TypeOK, OwnerInv, Stays, Joins
<1>13. CASE UnlockInner(t)
  BY <1>13 DEF UnlockInner, TypeOK, Stays
<1>14. ASSUME NEW keep \in BOOLEAN, Unlock(t, keep) PROVE Stays
  BY <1>14 DEF Unlock, TypeOK, Stays
<1>15. CASE PassOn(t)
  BY <1>15 DEF PassOn, TypeOK, Leaves, Holders
<1>16. CASE LookForSleeper(t)
  BY <1>16 DEF LookForSleeper, TypeOK, Stays
<1>17. CASE WakeSleeper(t)
  BY <1>17 DEF WakeSleeper, TypeOK, Stays
<1> QED BY <1>2, <1>3, <1>4, <1>5, <1>6, <1>7, <1>8, <1>9, <1>10, <1>11, <1>12, <1>13,
           <1>14, <1>15, <1>16, <1>17 DEF Step, Waiting, Unlocking

-----------------------------------------------------------------------------
(* The tickets of the line. *)

\* Nothing happens to the line: TicketInv stays.
LEMMA TicketStays == ASSUME IInv, Stays PROVE TicketInv'
BY SMT DEF IInv, TicketInv, Stays, Distance

\* A new ticket is one past all others, and there is room for it.
LEMMA TicketJoins == ASSUME IInv, TypeOK', NEW t, Joins(t) PROVE TicketInv'
<1>1. active \in Ticket /\ avail \in Ticket /\ ticket \in [Threads -> Ticket]
  BY DEF IInv, TypeOK
<1>2. Cardinality(Queued') = Cardinality(Queued) + 1
  BY QueuedFinite, FS_AddElement DEF Joins
<1>3. Distance(active, avail) = Cardinality(Queued)
  BY DEF IInv, TicketInv
<1>4. Distance(active, Succ(avail)) = Distance(active, avail) + 1
  BY <1>1, <1>2, <1>3, QueuedFinite, DistanceAdd, LockAssumption
<1>5. Distance(active, avail)' = Cardinality(Queued)'
  BY <1>2, <1>3, <1>4 DEF Joins, Distance
<1>6. /\ ticket'[t] = avail
      /\ \A u \in Queued : u # t /\ u \in Threads /\ ticket'[u] = ticket[u] /\ ticket[u] \in Ticket
  BY <1>1 DEF Joins, Queued
<1>7. \A u \in Queued : Distance(active, ticket[u]) < Distance(active, avail) /\ ticket[u] # avail
  <2> TAKE u \in Queued
  <2>1. Distance(active, ticket[u]) < Distance(active, avail)
    BY DEF IInv, TicketInv
  <2>2. Distance(active, avail) \in 0 .. (Tickets - 1)
    BY <1>1, DistanceFacts
  <2> QED BY SMT, <2>1, <2>2, LockAssumption
<1>8. Distance(active, avail) \in Int /\ \A u \in Queued : Distance(active, ticket[u]) \in Int
  BY SMT, <1>1, <1>6, DistanceFacts, LockAssumption
<1>9. \A u \in Queued' : Distance(active, ticket'[u]) < Distance(active, Succ(avail))
  BY SMT, <1>4, <1>6, <1>7, <1>8 DEF Joins
<1>10. (\A u \in Queued : Distance(active, ticket[u]) < Distance(active, avail))'
  BY <1>9 DEF Joins, Distance
<1>11. \A u, v \in Queued : ticket[u] = ticket[v] => u = v
  BY DEF IInv, TicketInv
<1>12. (\A u, v \in Queued : ticket[u] = ticket[v] => u = v)'
  BY SMT, <1>6, <1>7, <1>11 DEF Joins
<1> QED BY <1>5, <1>10, <1>12 DEF TicketInv

\* The thread that leaves had the first ticket; all others move up.
LEMMA TicketLeaves == ASSUME IInv, NEW t, Leaves(t) PROVE TicketInv'
<1>1. active \in Ticket /\ avail \in Ticket /\ ticket \in [Threads -> Ticket]
  BY DEF IInv, TypeOK
<1>2. t \in Queued /\ ticket[t] = active
  BY DEF Leaves, Holders, Queued, IInv, OwnerInv
<1>3. Cardinality(Queued') = Cardinality(Queued) - 1
  BY <1>2, QueuedFinite, FS_RemoveElement DEF Leaves
<1>4. Distance(active, avail) = Cardinality(Queued)
  BY DEF IInv, TicketInv
<1>5. active # avail
  <2>1. Distance(active, avail) \in 0 .. (Tickets - 1) /\ (Distance(active, avail) = 0 <=> active = avail)
    BY <1>1, DistanceFacts
  <2> QED BY SMT, <1>3, <1>4, <2>1, QueuedFinite
<1>6. Distance(Succ(active), avail) = Distance(active, avail) - 1
  BY <1>1, <1>5, DistanceSub
<1>7. Distance(active, avail)' = Cardinality(Queued)'
  BY <1>3, <1>4, <1>6 DEF Leaves, Distance
<1>8. \A u \in Queued \ {t} : /\ ticket'[u] = ticket[u] /\ ticket[u] \in Ticket /\ ticket[u] # active
                              /\ Distance(active, ticket[u]) < Distance(active, avail)
  BY <1>1, <1>2 DEF Leaves, IInv, TicketInv, Queued
<1>9. \A u \in Queued \ {t} : Distance(Succ(active), ticket[u]) = Distance(active, ticket[u]) - 1
  BY <1>1, <1>8, DistanceSub
<1>10. /\ Distance(active, avail) \in Int
       /\ \A u \in Queued \ {t} : Distance(active, ticket[u]) \in Int
  BY SMT, <1>1, <1>8, DistanceFacts, LockAssumption
<1>11. \A u \in Queued' : Distance(Succ(active), ticket'[u]) < Distance(Succ(active), avail)
  BY SMT, <1>6, <1>8, <1>9, <1>10 DEF Leaves
<1>12. (\A u \in Queued : Distance(active, ticket[u]) < Distance(active, avail))'
  BY <1>11 DEF Leaves, Distance
<1>13. (\A u, v \in Queued : ticket[u] = ticket[v] => u = v)'
  BY SMT, <1>8 DEF Leaves, IInv, TicketInv
<1> QED BY <1>7, <1>12, <1>13 DEF TicketInv

-----------------------------------------------------------------------------
(* The holder and m_pidOwner. *)

\* Two holders have the same ticket, so they are the same thread.
LEMMA OneHolder == IInv => Mutex
BY SMT DEF IInv, TicketInv, OwnerInv, Mutex, Holders, Queued

\* Every step keeps OwnerInv.
LEMMA OwnerStep == ASSUME IInv, NEW t \in Threads, Step(t) PROVE OwnerInv'
<1> USE LockAssumption DEF Goto, Forget, words, Holders, OwnerInv, IInv, TypeOK
<1>1. CASE Lock(t)
  BY <1>1 DEF Lock
<1>2. CASE LockAgain(t)
  BY SMT, <1>2 DEF LockAgain
<1>3. CASE TakeTicket(t)
  BY <1>3 DEF TakeTicket
<1>4. CASE Served(t)
  BY <1>4 DEF Served
<1>5. CASE GiveUpSpinning(t)
  BY <1>5 DEF GiveUpSpinning
<1>6. CASE SetMask(t) \/ ClearMask(t)
  BY SMT, <1>6 DEF SetMask, ClearMask
<1>7. CASE CheckAgain(t)
  BY SMT, <1>7 DEF CheckAgain
<1>8. CASE FutexWait(t)
  BY <1>8 DEF FutexWait
<1>9. CASE UnlockInner(t)
  BY SMT, <1>9 DEF UnlockInner
<1>10. CASE LookForSleeper(t)
  BY SMT, <1>10 DEF LookForSleeper
<1>11. CASE TryLock(t)
  BY <1>11 DEF TryLock
<1>12. CASE Enter(t)
  BY SMT, <1>12, OneHolder DEF Enter, Mutex
<1>13. CASE CompareExchange(t)
  BY SMT, <1>13 DEF CompareExchange
<1>14. ASSUME NEW keep \in BOOLEAN, Unlock(t, keep) PROVE OwnerInv'
  BY <1>14 DEF Unlock
<1>15. CASE PassOn(t)
  BY SMT, <1>15, OneHolder DEF PassOn, Mutex
<1>16. CASE WakeSleeper(t)
  BY <1>16 DEF WakeSleeper
<1> QED BY <1>1, <1>2, <1>3, <1>4, <1>5, <1>6, <1>7, <1>8, <1>9,
           <1>10, <1>11, <1>12, <1>13, <1>14, <1>15, <1>16 DEF Step, Waiting, Unlocking

-----------------------------------------------------------------------------
(* The theorems. *)

\* The initial state satisfies the invariant: nobody has a ticket.
LEMMA InvInit == Init => IInv
<1> SUFFICES ASSUME Init PROVE IInv
  OBVIOUS
<1>1. Queued = {} /\ Holders = {}
  BY DEF Init, Queued, Holders
<1>2. Cardinality(Queued) = 0 /\ Distance(active, avail) = 0
  BY SMT, <1>1, FS_EmptySet DEF Init, Distance
<1>3. TicketInv
  BY <1>1, <1>2 DEF TicketInv
<1>4. OwnerInv
  BY <1>1, LockAssumption DEF Init, OwnerInv
<1> QED BY <1>3, <1>4, TypeInit DEF IInv

\* Every step keeps the invariant.
LEMMA InvNext == IInv /\ [Next]_vars => IInv'
<1> SUFFICES ASSUME IInv, [Next]_vars PROVE IInv'
  OBVIOUS
<1>1. TypeOK'
  BY TypeNext DEF IInv
<1>2. CASE UNCHANGED vars
  <2>1. Queued' = Queued /\ Holders' = Holders
    BY <1>2 DEF vars, words, Queued, Holders
  <2>2. TicketInv'
    BY <1>2, <2>1 DEF vars, words, IInv, TicketInv, Distance
  <2>3. OwnerInv'
    BY <1>2, <2>1 DEF vars, words, IInv, OwnerInv
  <2> QED BY <1>1, <2>2, <2>3 DEF IInv
<1>3. ASSUME NEW t \in Threads, Step(t) PROVE IInv'
  <2>1. TicketInv'
    BY <1>1, <1>3, LineStep, TicketStays, TicketJoins, TicketLeaves
  <2> QED BY <1>1, <1>3, <2>1, OwnerStep DEF IInv
<1> QED BY <1>2, <1>3 DEF Next, Step

\* The invariant holds, whatever the interleaving of lock, trylock and unlock.
THEOREM Invariance == Spec => []IInv
BY InvInit, InvNext, PTL DEF Spec

\* The tickets between m_active and m_avail belong to the threads in the line, one
\* each.
THEOREM TicketsInLine == Spec => []TicketInv
<1>1. IInv => TicketInv
  BY DEF IInv
<1> QED BY <1>1, Invariance, PTL

\* At most one thread has the lock, for every number of threads below the number
\* of tickets.
THEOREM MutualExclusion == Spec => []Mutex
BY Invariance, OneHolder, PTL

\* m_pidOwner names a thread only while it alone has the lock, so that the test for
\* a recursive lock is right.
THEOREM OwnerIsRight == Spec => []OwnerHolds
<1>1. IInv => OwnerHolds
  BY SMT, OneHolder DEF IInv, OwnerInv, OwnerHolds, TypeOK, Mutex, Holders
<1> QED BY <1>1, Invariance, PTL

\* Types, with a ticket that stays in its 16 bits.
THEOREM TypeCorrect == Spec => []TypeOK
<1>1. IInv => TypeOK
  BY DEF IInv
<1> QED BY <1>1, Invariance, PTL

-----------------------------------------------------------------------------
(* The bits of the sleepers. *)

\* A number and its quotient and remainder.
LEMMA DivMod ==
  \A x \in Nat : \A b \in Nat \ {0} :
     x = b * (x \div b) + (x % b) /\ x % b \in 0 .. (b - 1) /\ x \div b \in Nat
BY SMT

\* Different multiples of b are at least b apart.
LEMMA MultiplesApart ==
  ASSUME NEW b \in Nat \ {0}, NEW p \in Nat, NEW q \in Nat, b * p < b * q
  PROVE  b * q - b * p >= b
<1>1. b * q - b * p = b * (q - p)
  BY SMT
<1>2. q > p
  <2> SUFFICES ASSUME q <= p PROVE FALSE
    BY SMT
  <2>1. p - q \in Nat
    BY SMT
  <2>2. b * (p - q) >= 0 /\ b * (p - q) \in Int
    BY SMT, <2>1
  <2>3. b * p = b * q + b * (p - q)
    BY SMT, <2>1
  <2> QED BY SMT, <2>2, <2>3
<1>3. PICK d \in Nat : q - p = d + 1
  <2>1. q - p - 1 \in Nat
    BY SMT, <1>2
  <2> QED BY SMT, <2>1
<1>4. b * (q - p) = b * d + b /\ b * d >= 0 /\ b * d \in Int
  BY SMT, <1>3
<1> QED BY SMT, <1>1, <1>4

\* Different tickets with the same bit are at least Bits apart, both ways round.
LEMMA BitsApart ==
  ASSUME NEW x \in Ticket, NEW y \in Ticket, x < y, Bit(x) = Bit(y)
  PROVE  y - x >= Bits /\ x - y + Tickets >= Bits
<1>1. x \in Nat /\ y \in Nat /\ y < Tickets /\ Bits \in Nat \ {0} /\ Tickets \in Nat
  BY SMT, TicketZero, LockAssumption DEF Ticket
<1>2. PICK p \in Nat, q \in Nat, r \in Nat : x = Bits * p + r /\ y = Bits * q + r
  <2>1. x = Bits * (x \div Bits) + (x % Bits) /\ x \div Bits \in Nat /\ x % Bits \in 0 .. (Bits - 1)
    BY <1>1, DivMod
  <2>2. y = Bits * (y \div Bits) + (y % Bits) /\ y \div Bits \in Nat
    BY <1>1, DivMod
  <2>3. x % Bits = y % Bits
    BY DEF Bit
  <2>4. x % Bits \in Nat
    BY SMT, <1>1, <2>1
  <2> QED BY <2>1, <2>2, <2>3, <2>4
<1>3. PICK k \in Nat : Tickets = Bits * k
  <2>1. Tickets = Bits * (Tickets \div Bits) + (Tickets % Bits) /\ Tickets \div Bits \in Nat
    BY <1>1, DivMod
  <2>2. Bits * (Tickets \div Bits) \in Int
    BY SMT, <1>1, <2>1
  <2>3. Tickets % Bits = 0
    BY BitsAssumption
  <2>4. Tickets = Bits * (Tickets \div Bits)
    BY SMT, <2>1, <2>2, <2>3
  <2> QED BY <2>1, <2>4
<1>4. Bits * p \in Nat /\ Bits * q \in Nat /\ Bits * k \in Nat
  BY SMT, <1>1, <1>2, <1>3
<1>5. y - x >= Bits
  BY SMT, <1>1, <1>2, <1>4, MultiplesApart
<1>6. Bits * (p + k) = Bits * p + Bits * k /\ p + k \in Nat
  BY SMT, <1>1, <1>2, <1>3
<1>7. x - y + Tickets = Bits * (p + k) - Bits * q
  BY SMT, <1>1, <1>2, <1>3, <1>4, <1>6
<1>8. Bits * q < Bits * (p + k)
  BY SMT, <1>1, <1>2, <1>3, <1>4, <1>6
<1>9. Bits * (p + k) - Bits * q >= Bits
  BY <1>1, <1>6, <1>8, MultiplesApart
<1> QED BY <1>5, <1>7, <1>9

\* Threads of the line have bits of their own.
LEMMA OwnBits ==
  ASSUME IInv, NEW t \in Queued, NEW u \in Queued, Bit(ticket[t]) = Bit(ticket[u])
  PROVE  t = u
<1>1. /\ active \in Ticket /\ avail \in Ticket /\ ticket[t] \in Ticket /\ ticket[u] \in Ticket
      /\ Tickets \in Nat /\ Bits \in Nat
  BY LockAssumption DEF IInv, TypeOK, Queued
<1>2. Distance(active, avail) <= Bits
  <2>1. Queued \in SUBSET Threads /\ IsFiniteSet(Threads)
    BY LockAssumption DEF Queued
  <2>2. Cardinality(Queued) <= Cardinality(Threads)
    BY <2>1, FS_Subset
  <2>3. Cardinality(Queued) \in Nat /\ Cardinality(Threads) \in Nat
    BY <2>1, QueuedFinite, FS_CardinalityType
  <2> QED BY SMT, <1>1, <2>2, <2>3, BitsAssumption DEF IInv, TicketInv
<1>3. /\ Distance(active, avail) \in 0 .. (Tickets - 1)
      /\ Distance(active, ticket[t]) \in 0 .. (Tickets - 1)
      /\ Distance(active, ticket[u]) \in 0 .. (Tickets - 1)
  BY <1>1, DistanceFacts
<1>4. Distance(active, ticket[t]) < Bits /\ Distance(active, ticket[u]) < Bits
  BY SMT, <1>1, <1>2, <1>3 DEF IInv, TicketInv
<1>5. ~(ticket[t] < ticket[u])
  <2> SUFFICES ASSUME ticket[t] < ticket[u] PROVE FALSE
    OBVIOUS
  <2>1. ticket[u] - ticket[t] >= Bits /\ ticket[t] - ticket[u] + Tickets >= Bits
    BY <1>1, BitsApart
  <2> QED BY SMT, <1>1, <1>4, <2>1, TicketZero DEF Distance, Ticket
<1>6. ~(ticket[u] < ticket[t])
  <2> SUFFICES ASSUME ticket[u] < ticket[t] PROVE FALSE
    OBVIOUS
  <2>1. ticket[t] - ticket[u] >= Bits /\ ticket[u] - ticket[t] + Tickets >= Bits
    BY <1>1, BitsApart
  <2> QED BY SMT, <1>1, <1>4, <2>1, TicketZero DEF Distance, Ticket
<1>7. ticket[t] = ticket[u]
  <2>1. ticket[t] \in Nat /\ ticket[u] \in Nat
    BY <1>1, TicketZero
  <2> QED BY SMT, <1>5, <1>6, <2>1
<1> QED BY <1>7 DEF IInv, TicketInv

\* Every step keeps SleepInv: nobody clears the bit of another.
LEMMA SleepStep == ASSUME IInv, SleepInv, NEW t \in Threads, Step(t) PROVE SleepInv'
<1> USE DEF Goto, Forget, words, SleepInv, IInv, TypeOK
<1>1. CASE Lock(t)
  BY <1>1 DEF Lock
<1>2. CASE LockAgain(t)
  BY <1>2 DEF LockAgain
<1>3. CASE Served(t)
  BY <1>3 DEF Served
<1>4. CASE GiveUpSpinning(t)
  BY <1>4 DEF GiveUpSpinning
<1>5. CASE CheckAgain(t)
  BY <1>5 DEF CheckAgain
<1>6. CASE Enter(t)
  BY <1>6 DEF Enter
<1>7. CASE TryLock(t)
  BY <1>7 DEF TryLock
<1>8. CASE CompareExchange(t)
  BY <1>8 DEF CompareExchange
<1>9. CASE UnlockInner(t)
  BY <1>9 DEF UnlockInner
<1>10. CASE LookForSleeper(t)
  BY <1>10 DEF LookForSleeper
<1>11. CASE WakeSleeper(t)
  BY <1>11 DEF WakeSleeper
<1>12. CASE TakeTicket(t)
  BY <1>12 DEF TakeTicket
<1>13. CASE FutexWait(t)
  BY <1>13 DEF FutexWait
<1>14. CASE SetMask(t)
  BY <1>14 DEF SetMask
<1>15. CASE ClearMask(t)
  BY <1>15, OwnBits DEF ClearMask, Queued
<1>16. CASE PassOn(t)
  BY <1>16 DEF PassOn
<1>17. ASSUME NEW keep \in BOOLEAN, Unlock(t, keep) PROVE SleepInv'
  BY <1>17 DEF Unlock
<1> QED BY <1>1, <1>2, <1>3, <1>4, <1>5, <1>6, <1>7, <1>8, <1>9,
           <1>10, <1>11, <1>12, <1>13, <1>14, <1>15, <1>16, <1>17 DEF Step, Waiting, Unlocking

\* Every step keeps NoLostWakeup: a thread falls asleep only before its turn, and the
\* thread that passes the lock to a sleeper finds the bit.
LEMMA WakeupStep ==
  ASSUME IInv, SleepInv, NoLostWakeup, NEW t \in Threads, Step(t), SleepInv'
  PROVE  NoLostWakeup'
<1> USE DEF Goto, Forget, words, SleepInv, NoLostWakeup, IInv, TypeOK
<1>1. CASE Lock(t)
  BY <1>1 DEF Lock
<1>2. CASE LockAgain(t)
  BY <1>2 DEF LockAgain
<1>3. CASE Served(t)
  BY <1>3 DEF Served
<1>4. CASE GiveUpSpinning(t)
  BY SMT, <1>4 DEF GiveUpSpinning
<1>5. CASE CheckAgain(t)
  BY SMT, <1>5 DEF CheckAgain
<1>6. CASE Enter(t)
  BY <1>6 DEF Enter
<1>7. CASE TryLock(t)
  BY SMT, <1>7 DEF TryLock
<1>8. CASE CompareExchange(t)
  <2> SUFFICES ASSUME NEW v \in Threads, pc'[v] = "asleep", active' = ticket'[v]
               PROVE  \E u \in Threads : /\ pc'[u] \in {"look", "wake"} /\ ticket'[u] = ticket'[v]
                                         /\ Bit(ticket'[v]) \in futex'
    BY DEF Bit
  <2>0. v # t
    BY SMT, <1>8 DEF CompareExchange
  <2>a. ticket'[v] = ticket[v]
    BY <1>8, <2>0 DEF CompareExchange
  <2>b. pc'[v] = pc[v]
    BY SMT, <1>8, <2>0 DEF CompareExchange
  <2>c. active' = active /\ futex' = futex
    BY <1>8 DEF CompareExchange
  <2>1. pc[v] = "asleep" /\ ticket'[v] = ticket[v] /\ active = ticket[v] /\ futex' = futex
    BY <2>a, <2>b, <2>c
  <2>2. PICK u \in Threads : pc[u] \in {"look", "wake"} /\ ticket[u] = ticket[v] /\ Bit(ticket[v]) \in futex
    BY <2>1
  <2>3. pc'[u] = pc[u] /\ ticket'[u] = ticket[u]
    BY SMT, <1>8, <2>2 DEF CompareExchange
  <2> QED BY <2>1, <2>2, <2>3
<1>9. CASE UnlockInner(t)
  BY <1>9 DEF UnlockInner
<1>10. CASE LookForSleeper(t)
  <2> SUFFICES ASSUME NEW v \in Threads, pc'[v] = "asleep", active' = ticket'[v]
               PROVE  \E u \in Threads : /\ pc'[u] \in {"look", "wake"} /\ ticket'[u] = ticket'[v]
                                         /\ Bit(ticket'[v]) \in futex'
    BY DEF Bit
  <2>0. v # t
    BY <1>10 DEF LookForSleeper
  <2>a. ticket'[v] = ticket[v] /\ pc'[v] = pc[v]
    BY <1>10, <2>0 DEF LookForSleeper
  <2>b. active' = active /\ futex' = futex
    BY <1>10 DEF LookForSleeper
  <2>1. pc[v] = "asleep" /\ ticket'[v] = ticket[v] /\ active = ticket[v] /\ futex' = futex
    BY <2>a, <2>b
  <2>2. PICK u \in Threads : pc[u] \in {"look", "wake"} /\ ticket[u] = ticket[v] /\ Bit(ticket[v]) \in futex
    BY <2>1
  <2>3. pc'[u] \in {"look", "wake"} /\ ticket'[u] = ticket[u]
    BY <1>10, <2>2 DEF LookForSleeper
  <2> QED BY <2>1, <2>2, <2>3
<1>11. CASE WakeSleeper(t)
  <2> SUFFICES ASSUME NEW v \in Threads, pc'[v] = "asleep", active' = ticket'[v]
               PROVE  \E u \in Threads : /\ pc'[u] \in {"look", "wake"} /\ ticket'[u] = ticket'[v]
                                         /\ Bit(ticket'[v]) \in futex'
    BY DEF Bit
  <2>1. v # t /\ pc[v] = "asleep" /\ ticket'[v] = ticket[v] /\ active = ticket[v] /\ futex' = futex
    BY <1>11 DEF WakeSleeper
  <2>2. PICK u \in Threads : pc[u] \in {"look", "wake"} /\ ticket[u] = ticket[v] /\ Bit(ticket[v]) \in futex
    BY <2>1
  <2>3. u # t
    BY <1>11, <2>1, <2>2 DEF WakeSleeper
  <2>4. pc'[u] = pc[u] /\ ticket'[u] = ticket[u]
    BY <1>11, <2>2, <2>3 DEF WakeSleeper
  <2> QED BY <2>1, <2>2, <2>3, <2>4
<1>12. CASE TakeTicket(t)
  BY <1>12 DEF TakeTicket
<1>13. CASE FutexWait(t)
  BY SMT, <1>13 DEF FutexWait
<1>14. CASE SetMask(t)
  BY <1>14 DEF SetMask
<1>15. CASE ClearMask(t)
  BY <1>15 DEF ClearMask
<1>16. CASE PassOn(t)
  BY SMT, <1>16 DEF PassOn
<1>17. ASSUME NEW keep \in BOOLEAN, Unlock(t, keep) PROVE NoLostWakeup'
  BY <1>17 DEF Unlock
<1> QED BY <1>1, <1>2, <1>3, <1>4, <1>5, <1>6, <1>7, <1>8, <1>9,
           <1>10, <1>11, <1>12, <1>13, <1>14, <1>15, <1>16, <1>17 DEF Step, Waiting, Unlocking

\* Nobody is left asleep when the turn has come, if the threads are no more than the
\* bits of futex.
THEOREM Wakeups == Spec => []NoLostWakeup
<1>1. Init => SleepInv /\ NoLostWakeup
  BY DEF Init, SleepInv, NoLostWakeup
<1>2. IInv /\ SleepInv /\ NoLostWakeup /\ [Next]_vars => SleepInv' /\ NoLostWakeup'
  <2> SUFFICES ASSUME IInv, SleepInv, NoLostWakeup, [Next]_vars PROVE SleepInv' /\ NoLostWakeup'
    OBVIOUS
  <2>1. CASE UNCHANGED vars
    BY <2>1 DEF vars, words, SleepInv, NoLostWakeup
  <2>2. ASSUME NEW t \in Threads, Step(t) PROVE SleepInv' /\ NoLostWakeup'
    BY <2>2, SleepStep, WakeupStep
  <2> QED BY <2>1, <2>2 DEF Next, Step
<1> QED BY <1>1, <1>2, Invariance, PTL DEF Spec

-----------------------------------------------------------------------------
(* The line is first-come first-served. *)

\* LineInv holds initially, and every step keeps it: the thread that joins has the
\* ticket after the last one, and when the first one leaves all others move up.
LEMMA LineStays == ASSUME LineInv, Stays PROVE LineInv'
<1>1. Distance(active', avail') = Distance(active, avail)
  BY DEF Stays
<1>2. \A u \in Queued : Distance(active', ticket'[u]) = Distance(active, ticket[u])
  BY DEF Stays
<1>3. Queued' = Queued
  BY DEF Stays
<1>4. \A d \in 0 .. (Distance(active', avail') - 1) : \E u \in Queued' : Distance(active', ticket'[u]) = d
  BY <1>1, <1>2, <1>3 DEF LineInv
<1> QED BY <1>4 DEF LineInv, Distance

\* The same when a thread joins.
LEMMA LineJoins == ASSUME IInv, TypeOK', LineInv, NEW t, Joins(t) PROVE LineInv'
<1>1. active \in Ticket /\ avail \in Ticket /\ ticket \in [Threads -> Ticket]
  BY DEF IInv, TypeOK
<1>2. Distance(active, avail) = Cardinality(Queued) /\ Cardinality(Queued') = Cardinality(Queued) + 1
  BY QueuedFinite, FS_AddElement DEF Joins, IInv, TicketInv
<1>3. Distance(active, Succ(avail)) = Distance(active, avail) + 1 /\ Distance(active, avail) \in Nat
  BY <1>1, <1>2, QueuedFinite, DistanceAdd, LockAssumption
<1>4. /\ ticket'[t] = avail /\ active' = active /\ avail' = Succ(avail) /\ Queued' = Queued \cup {t}
      /\ \A u \in Queued : ticket'[u] = ticket[u]
  BY <1>1 DEF Joins, Queued
<1>5. ASSUME NEW d \in 0 .. (Distance(active, avail))
      PROVE  \E u \in Queued' : Distance(active', ticket'[u]) = d
  <2>1. CASE d = Distance(active, avail)
    BY <1>4, <2>1
  <2>2. CASE d \in 0 .. (Distance(active, avail) - 1)
    BY <1>4, <2>2 DEF LineInv
  <2> QED BY SMT, <1>3, <2>1, <2>2
<1>6. \A d \in 0 .. (Distance(active', avail') - 1) : \E u \in Queued' : Distance(active', ticket'[u]) = d
  BY SMT, <1>3, <1>4, <1>5
<1> QED BY <1>6 DEF LineInv, Distance

\* And when the first thread of the line leaves it.
LEMMA LineLeaves == ASSUME IInv, LineInv, NEW t, Leaves(t) PROVE LineInv'
<1>1. active \in Ticket /\ avail \in Ticket /\ ticket \in [Threads -> Ticket]
  BY DEF IInv, TypeOK
<1>2. t \in Queued /\ t \in Threads /\ ticket[t] = active
  BY DEF Leaves, Holders, Queued, IInv, OwnerInv
<1>3. /\ Distance(active, avail) \in Nat
      /\ \A u \in Queued : ticket[u] \in Ticket /\ (Distance(active, ticket[u]) = 0 <=> ticket[u] = active)
  BY SMT, <1>1, DistanceFacts, LockAssumption DEF Queued
<1>4. active # avail
  BY SMT, <1>1, <1>2, <1>3, DistanceFacts DEF IInv, TicketInv
<1>5. Distance(Succ(active), avail) = Distance(active, avail) - 1
  BY <1>1, <1>4, DistanceSub
<1>6. \A u \in Queued : u # t => u \in Queued' /\ ticket'[u] = ticket[u] /\ ticket[u] # active
  BY <1>2 DEF Leaves, IInv, TicketInv
<1>7. ASSUME NEW d \in 0 .. (Distance(active, avail) - 2)
      PROVE  \E u \in Queued' : Distance(Succ(active), ticket'[u]) = d
  <2>1. d + 1 \in 0 .. (Distance(active, avail) - 1)
    BY SMT, <1>3
  <2>2. PICK u \in Queued : Distance(active, ticket[u]) = d + 1
    BY <2>1 DEF LineInv
  <2>3. u # t
    BY SMT, <1>2, <1>3, <2>2
  <2>4. Distance(Succ(active), ticket[u]) = Distance(active, ticket[u]) - 1
    BY <1>1, <1>3, <1>6, <2>3, DistanceSub
  <2> QED BY SMT, <1>3, <1>6, <2>2, <2>3, <2>4
<1>8. active' = Succ(active) /\ avail' = avail
  BY DEF Leaves
<1>9. \A d \in 0 .. (Distance(active', avail') - 1) : \E u \in Queued' : Distance(active', ticket'[u]) = d
  BY SMT, <1>3, <1>5, <1>7, <1>8
<1> QED BY <1>9 DEF LineInv, Distance

\* Which threads are in the line: behind each ticket there is one, and only one.
LineFacts ==
    /\ Distance(active, avail) \in Nat
    /\ Line = [i \in 1 .. Distance(active, avail) |-> Line[i]]
    /\ \A i \in 1 .. Distance(active, avail) : Line[i] \in Queued /\ Distance(active, ticket[Line[i]]) = i - 1
    /\ \A i \in 1 .. Distance(active, avail) : \A u \in Queued :
          Distance(active, ticket[u]) = i - 1 => Line[i] = u

\* This follows from the invariants.
LEMMA LineIs == IInv /\ LineInv => LineFacts
<1> SUFFICES ASSUME IInv, LineInv PROVE LineFacts
  OBVIOUS
<1> DEFINE D == Distance(active, avail)
           At(i) == CHOOSE t \in Queued : Distance(active, ticket[t]) = i - 1
<1>1. active \in Ticket /\ avail \in Ticket /\ \A u \in Queued : ticket[u] \in Ticket
  BY DEF IInv, TypeOK, Queued
<1>2. D \in Nat
  BY SMT, <1>1, DistanceFacts, LockAssumption
<1>3. Line = [i \in 1 .. D |-> At(i)]
  BY DEF Line
<1>4. ASSUME NEW i \in 1 .. D
      PROVE  At(i) \in Queued /\ Distance(active, ticket[At(i)]) = i - 1
  <2>1. i - 1 \in 0 .. (D - 1)
    BY SMT, <1>2
  <2>2. \E t \in Queued : Distance(active, ticket[t]) = i - 1
    BY <2>1 DEF LineInv
  <2> QED BY <2>2
<1> HIDE DEF At, D
<1>5. \A i \in 1 .. D : Line[i] = At(i)
  BY <1>3
<1>6. \A i \in 1 .. D : Line[i] \in Queued /\ Distance(active, ticket[Line[i]]) = i - 1
  BY <1>4, <1>5
<1>7. \A u, v \in Queued : Distance(active, ticket[u]) = Distance(active, ticket[v]) => u = v
  BY SMT, <1>1, DistanceFacts DEF IInv, TicketInv
<1>8. \A i \in 1 .. D : \A u \in Queued : Distance(active, ticket[u]) = i - 1 => Line[i] = u
  BY <1>6, <1>7
<1>9. Line = [i \in 1 .. D |-> Line[i]]
  BY <1>3
<1> QED BY <1>2, <1>6, <1>8, <1>9 DEF D, LineFacts

\* A sequence with one more element, and one without its first, as functions.
LEMMA SeqFunctions ==
  ASSUME NEW S, NEW q \in Seq(S)
  PROVE  /\ \A x \in S : Append(q, x) = [i \in 1 .. (Len(q) + 1) |-> IF i = Len(q) + 1 THEN x ELSE q[i]]
         /\ Len(q) # 0 => q # <<>> /\ Tail(q) = [i \in 1 .. (Len(q) - 1) |-> q[i + 1]]
<1> DEFINE n == Len(q)
<1>0. n \in Nat /\ \A p \in Seq(S) : p \in [1 .. Len(p) -> S]
  BY LenProperties
<1>1. ASSUME NEW x \in S
      PROVE  Append(q, x) = [i \in 1 .. (n + 1) |-> IF i = n + 1 THEN x ELSE q[i]]
  <2> DEFINE p == Append(q, x)
  <2>1. p \in Seq(S) /\ Len(p) = n + 1 /\ (\A i \in 1 .. n : p[i] = q[i]) /\ p[n + 1] = x
    BY SMT, AppendProperties
  <2>2. p \in [1 .. (n + 1) -> S]
    BY <1>0, <2>1
  <2> HIDE DEF p, n
  <2>3. \A i \in 1 .. (n + 1) : p[i] = IF i = n + 1 THEN x ELSE q[i]
    BY SMT, <1>0, <2>1
  <2>4. p = [i \in 1 .. (n + 1) |-> IF i = n + 1 THEN x ELSE q[i]]
    BY <2>2, <2>3
  <2> QED BY <2>4 DEF p
<1>2. ASSUME n # 0
      PROVE  q # <<>> /\ Tail(q) = [i \in 1 .. (n - 1) |-> q[i + 1]]
  <2> DEFINE p == Tail(q)
  <2>0. q # <<>>
    BY SMT, <1>2
  <2>1. p \in Seq(S) /\ Len(p) = n - 1 /\ \A i \in 1 .. Len(p) : p[i] = q[i + 1]
    BY <2>0, HeadTailProperties
  <2>2. p \in [1 .. (n - 1) -> S]
    BY <1>0, <2>1
  <2> HIDE DEF p, n
  <2>3. p = [i \in 1 .. (n - 1) |-> q[i + 1]]
    BY <2>1, <2>2
  <2> QED BY <2>0, <2>3 DEF p
<1> QED BY <1>1, <1>2

\* Also in the next state.
LEMMA LineIsNext == (IInv /\ LineInv => LineFacts)'
BY LineIs, PTL

\* LineFacts of the next state, with the primes at the variables.
LEMMA LineFactsNext ==
  ASSUME IInv', LineInv'
  PROVE  /\ Line' = [i \in 1 .. Distance(active', avail') |-> Line'[i]]
         /\ \A i \in 1 .. Distance(active', avail') :
               Line'[i] \in Queued' /\ Distance(active', ticket'[Line'[i]]) = i - 1
         /\ \A i \in 1 .. Distance(active', avail') : \A u \in Queued' :
               Distance(active', ticket'[u]) = i - 1 => Line'[i] = u
<1>1. LineFacts'
  BY LineIsNext
<1> QED BY <1>1 DEF LineFacts, Distance

\* The line is a sequence of threads.
LEMMA LineSeq ==
  ASSUME IInv, LineInv
  PROVE  /\ Line \in Seq(Threads) /\ Len(Line) = Distance(active, avail)
         /\ Distance(active, avail) \in Nat /\ DOMAIN Line = 1 .. Distance(active, avail)
<1> DEFINE D == Distance(active, avail)
<1>1. D \in Nat /\ Line = [i \in 1 .. D |-> Line[i]] /\ \A i \in 1 .. D : Line[i] \in Threads
  BY LineIs DEF LineFacts, Queued
<1> HIDE DEF D
<1>2. Line \in [1 .. D -> Threads]
  BY <1>1
<1>3. Line \in Seq(Threads) /\ Len(Line) = D /\ DOMAIN Line = 1 .. D
  BY SMT, <1>1, <1>2
<1> QED BY <1>1, <1>3 DEF D

\* A step that leaves the line alone.
LEMMA FifoStays == ASSUME IInv, LineInv, IInv', LineInv', Stays PROVE Line' = Line
<1> DEFINE D == Distance(active, avail)
<1>1. /\ active' = active /\ avail' = avail /\ Queued' = Queued /\ \A u \in Queued : ticket'[u] = ticket[u]
  BY DEF Stays
<1>2. /\ D \in Nat /\ Line = [i \in 1 .. D |-> Line[i]]
      /\ \A i \in 1 .. D : \A u \in Queued : Distance(active, ticket[u]) = i - 1 => Line[i] = u
  BY LineIs DEF LineFacts
<1>3. /\ Line' = [i \in 1 .. D |-> Line'[i]]
      /\ \A i \in 1 .. D : Line'[i] \in Queued /\ Distance(active, ticket[Line'[i]]) = i - 1
  BY <1>1, LineFactsNext
<1> HIDE DEF D
<1>4. \A i \in 1 .. D : Line'[i] = Line[i]
  BY <1>2, <1>3
<1> QED BY <1>2, <1>3, <1>4

\* A new thread is the last one.
LEMMA FifoJoins ==
  ASSUME IInv, LineInv, IInv', LineInv', NEW t, Joins(t)
  PROVE  Line' = Append(Line, t) /\ \A i \in DOMAIN Line : Line[i] # t
<1> DEFINE D == Distance(active, avail)
<1>1. active \in Ticket /\ avail \in Ticket /\ ticket \in [Threads -> Ticket]
  BY DEF IInv, TypeOK
<1>2. D = Cardinality(Queued) /\ Cardinality(Queued') = Cardinality(Queued) + 1
  BY QueuedFinite, FS_AddElement DEF Joins, IInv, TicketInv
<1>3. Distance(active, Succ(avail)) = D + 1
  BY <1>1, <1>2, QueuedFinite, DistanceAdd, LockAssumption
<1>4. /\ ticket'[t] = avail /\ active' = active /\ avail' = Succ(avail) /\ Queued' = Queued \cup {t}
      /\ t \notin Queued /\ t \in Threads /\ \A u \in Queued : ticket'[u] = ticket[u]
  BY <1>1 DEF Joins, Queued
<1>5. Line \in Seq(Threads) /\ Len(Line) = D /\ D \in Nat /\ DOMAIN Line = 1 .. D
  BY LineSeq
<1>6. /\ \A i \in 1 .. D : Line[i] \in Queued
      /\ \A i \in 1 .. D : \A u \in Queued : Distance(active, ticket[u]) = i - 1 => Line[i] = u
  BY LineIs DEF LineFacts
<1>7. /\ Line' = [i \in 1 .. (D + 1) |-> Line'[i]]
      /\ \A i \in 1 .. (D + 1) : Line'[i] \in Queued \cup {t} /\ Distance(active, ticket'[Line'[i]]) = i - 1
      /\ \A i \in 1 .. (D + 1) : \A u \in Queued \cup {t} : Distance(active, ticket'[u]) = i - 1 => Line'[i] = u
  BY <1>3, <1>4, LineFactsNext
<1>8. Distance(active, ticket'[t]) = D
  BY <1>4
<1> HIDE DEF D
<1>9. Line'[D + 1] = t
  BY SMT, <1>5, <1>7, <1>8
<1>10. \A i \in 1 .. D : Line'[i] = Line[i]
  <2> SUFFICES ASSUME NEW i \in 1 .. D PROVE Line'[i] = Line[i]
    OBVIOUS
  <2>1. i \in 1 .. (D + 1) /\ i - 1 # D
    BY SMT, <1>5
  <2>2. Line'[i] \in Queued
    BY <1>7, <1>8, <2>1
  <2> QED BY <1>4, <1>6, <1>7, <2>1, <2>2
<1>11. Append(Line, t) = [i \in 1 .. (D + 1) |-> IF i = D + 1 THEN t ELSE Line[i]]
  BY SMT, <1>4, <1>5, SeqFunctions
<1>12. \A i \in 1 .. (D + 1) : Line'[i] = IF i = D + 1 THEN t ELSE Line[i]
  BY SMT, <1>5, <1>9, <1>10
<1> QED BY SMT, <1>4, <1>5, <1>6, <1>7, <1>11, <1>12

\* The thread that leaves is the first one.
LEMMA FifoLeaves ==
  ASSUME IInv, LineInv, IInv', LineInv', NEW t, Leaves(t)
  PROVE  Line # <<>> /\ Line' = Tail(Line)
<1> DEFINE D == Distance(active, avail)
<1>1. active \in Ticket /\ avail \in Ticket /\ ticket \in [Threads -> Ticket]
  BY DEF IInv, TypeOK
<1>2. t \in Queued /\ t \in Threads /\ ticket[t] = active
  BY DEF Leaves, Holders, Queued, IInv, OwnerInv
<1>3. \A u \in Queued : ticket[u] \in Ticket /\ (Distance(active, ticket[u]) = 0 <=> ticket[u] = active)
  BY <1>1, DistanceFacts, LockAssumption DEF Queued
<1>4. active # avail
  BY SMT, <1>1, <1>2, <1>3, DistanceFacts DEF IInv, TicketInv
<1>5. Line \in Seq(Threads) /\ Len(Line) = D /\ D \in Nat /\ DOMAIN Line = 1 .. D
  BY LineSeq
<1>6. D # 0 /\ Distance(Succ(active), avail) = D - 1
  BY <1>1, <1>4, DistanceFacts, DistanceSub
<1>7. \A u \in Queued : u # t => /\ u \in Queued' /\ ticket'[u] = ticket[u]
                                 /\ Distance(Succ(active), ticket[u]) = Distance(active, ticket[u]) - 1
  BY <1>1, <1>2, <1>3, DistanceSub DEF Leaves, IInv, TicketInv
<1>8. \A i \in 1 .. D : Line[i] \in Queued /\ Distance(active, ticket[Line[i]]) = i - 1
  BY LineIs DEF LineFacts
<1>9. active' = Succ(active) /\ avail' = avail
  BY DEF Leaves
<1>10. /\ Line' = [i \in 1 .. (D - 1) |-> Line'[i]]
       /\ \A i \in 1 .. (D - 1) : \A u \in Queued' : Distance(Succ(active), ticket'[u]) = i - 1 => Line'[i] = u
  BY <1>6, <1>9, LineFactsNext
<1>11. Distance(active, ticket[t]) = 0
  BY <1>2, <1>3
<1> HIDE DEF D
<1>12. \A i \in 1 .. (D - 1) : Line'[i] = Line[i + 1]
  <2> SUFFICES ASSUME NEW i \in 1 .. (D - 1) PROVE Line'[i] = Line[i + 1]
    OBVIOUS
  <2>1. i + 1 \in 1 .. D /\ (i + 1) - 1 = i /\ i # 0
    BY SMT, <1>5
  <2>2. Line[i + 1] \in Queued /\ Distance(active, ticket[Line[i + 1]]) = i
    BY <1>8, <2>1
  <2>3. Line[i + 1] # t
    BY <1>11, <2>1, <2>2
  <2>4. Distance(Succ(active), ticket'[Line[i + 1]]) = i - 1
    BY <1>7, <2>2, <2>3
  <2> QED BY <1>7, <1>10, <2>2, <2>3, <2>4
<1>13. Line # <<>> /\ Tail(Line) = [i \in 1 .. (D - 1) |-> Line[i + 1]]
  BY <1>5, <1>6, SeqFunctions
<1> QED BY <1>10, <1>12, <1>13

\* fastlock is a first-come first-served lock: the threads get it in the order of their
\* tickets, and a thread that fastlock_trylock lets in has met an empty line.
THEOREM LockIsFifo == Spec => RefinesFifo
<1>1. Init => LineInv /\ Fifo!Init
  <2> SUFFICES ASSUME Init PROVE LineInv /\ Fifo!Init
    OBVIOUS
  <2>1. Distance(active, avail) = 0
    BY SMT DEF Init, Distance
  <2>2. LineInv
    BY SMT, <2>1 DEF LineInv
  <2>3. Line = <<>>
    BY SMT, <2>1 DEF Line
  <2> QED BY <2>2, <2>3 DEF Fifo!Init
<1>2. ASSUME IInv, LineInv, IInv', [Next]_vars PROVE LineInv' /\ [Fifo!Next]_Line
  <2>1. CASE UNCHANGED vars
    <3>1. Stays
      BY <2>1 DEF vars, words, Stays, Queued
    <3> QED BY <1>2, <3>1, LineStays, FifoStays
  <2>2. ASSUME NEW t \in Threads, Step(t) PROVE LineInv' /\ [Fifo!Next]_Line
    <3>1. CASE Stays
      BY <1>2, <3>1, LineStays, FifoStays
    <3>2. CASE Joins(t)
      <4>1. LineInv'
        BY <1>2, <3>2, LineJoins DEF IInv
      <4>2. Line' = Append(Line, t) /\ \A i \in DOMAIN Line : Line[i] # t
        BY <1>2, <3>2, <4>1, FifoJoins
      <4> QED BY <4>1, <4>2 DEF Fifo!Next, Fifo!Request
    <3>3. CASE Leaves(t)
      <4>1. LineInv'
        BY <1>2, <3>3, LineLeaves
      <4>2. Line # <<>> /\ Line' = Tail(Line)
        BY <1>2, <3>3, <4>1, FifoLeaves
      <4> QED BY <4>1, <4>2 DEF Fifo!Next, Fifo!Release
    <3> QED BY <1>2, <2>2, <3>1, <3>2, <3>3, LineStep
  <2> QED BY <1>2, <2>1, <2>2 DEF Next, Step
<1> QED BY <1>1, <1>2, Invariance, PTL DEF Spec, RefinesFifo, Fifo!Spec
=============================================================================
