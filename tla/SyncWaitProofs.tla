--------------------------- MODULE SyncWaitProofs ---------------------------
(***************************************************************************)
(* What WAIT replies is true, with any number of clients and replicas and  *)
(* however often the connections of the replicas are lost.                 *)
(***************************************************************************)
EXTENDS SyncWait, NatLemmas

\* Zenon proves the leaves that name no other prover.
USE ZenonT(20)

\* The values of the loop of processClientsWaitingReplicas.
LoopStates == [offset : Nat, num : Int, reply : [Clients -> Int], waiting : Seq(Clients)]

\* Its i-th iteration.
Iteration(expired, last, i) ==
    IF waiting[i] \in expired THEN Expire(last, waiting[i]) ELSE ProcessWaiting(last, waiting[i])

\* v is a right answer to the WAIT of c.
RightAnswer(expired, c, v) ==
    /\ v <= CountAcks(bpop[c].reploffset)
    /\ c \notin expired => v >= bpop[c].numreplicas

\* What holds after i iterations: the remembered count is that of the remembered
\* offset, who has been answered has been answered right, and who has not been still
\* waits.
LoopInv(expired, last, i) ==
    /\ last.offset # 0 => last.num = CountAcks(last.offset)
    /\ \A c \in Clients : last.reply[c] = reply[c] \/ (Blocked(c) /\ RightAnswer(expired, c, last.reply[c]))
    /\ \A j \in 1 .. Len(last.waiting) : Blocked(last.waiting[j])
    /\ \A j \in 1 .. i : \/ \E k \in 1 .. Len(last.waiting) : last.waiting[k] = waiting[j]
                         \/ RightAnswer(expired, waiting[j], last.reply[waiting[j]])

\* What listAddNodeHead does to the elements: the new one is the first and the
\* others move one place.
LEMMA HeadAdded ==
    ASSUME NEW S, NEW e \in S, NEW s \in Seq(S)
    PROVE  \A i \in 1 .. Len(<<e>> \o s) :
              \/ i = 1 /\ (<<e>> \o s)[i] = e
              \/ i - 1 \in 1 .. Len(s) /\ (<<e>> \o s)[i] = s[i - 1]
BY SMT

-----------------------------------------------------------------------------
\* The replicas of a setting are finitely many.
LEMMA ReplicasFinite ==
    ASSUME TypeOK
    PROVE  set.replicas \in SUBSET Replicas /\ IsFiniteSet(set.replicas) /\ online \in SUBSET set.replicas
<1>1. set \in [replicas : SUBSET Replicas, commands : [Clients -> Nat], drops : Nat]
      /\ online \in SUBSET set.replicas
  BY WaitAssumption DEF TypeOK, WaitAssumption
<1>2. set.replicas \in SUBSET Replicas
  BY <1>1
<1> QED
  BY <1>1, <1>2, WaitAssumption, FewerElements DEF WaitAssumption

\* A lower offset has been acknowledged by as many replicas or more.
LEMMA CountAcksMonotone ==
    ASSUME TypeOK, NEW a \in Nat, NEW b \in Nat, a <= b
    PROVE  CountAcks(a) \in Nat /\ CountAcks(b) \in Nat /\ CountAcks(b) <= CountAcks(a)
<1> DEFINE A == {r \in online : ackOff[r] >= a}
           B == {r \in online : ackOff[r] >= b}
<1>1. \A r \in online : ackOff[r] \in Nat
  BY ReplicasFinite DEF TypeOK
<1>2. B \in SUBSET A
  BY SMT, <1>1
<1>3. A \in SUBSET set.replicas /\ IsFiniteSet(set.replicas)
  BY ReplicasFinite
<1>4. CountAcks(a) = Cardinality(A) /\ CountAcks(b) = Cardinality(B)
  BY DEF CountAcks
<1> HIDE DEF A, B
<1>5. IsFiniteSet(A)
  BY <1>3, FewerElements
<1>6. Cardinality(B) \in Nat /\ Cardinality(A) \in Nat /\ Cardinality(B) <= Cardinality(A)
  BY <1>2, <1>5, FewerElements
<1> QED
  BY <1>4, <1>6

\* An iteration maps states of the loop to states of the loop.
LEMMA IterationType ==
    ASSUME TypeOK, NEW expired, NEW last \in LoopStates, NEW i \in 1 .. Len(waiting)
    PROVE  Iteration(expired, last, i) \in LoopStates
<1> DEFINE c == waiting[i]
           num == CountAcks(bpop[c].reploffset)
<1>1. c \in Clients
  BY SMT DEF TypeOK
<1>2. bpop[c] \in [reploffset : Nat, numreplicas : Nat, timeout : BOOLEAN]
  BY <1>1 DEF TypeOK
<1>3. bpop[c].reploffset \in Nat
  BY <1>2
<1>4. num \in Nat
  <2> HIDE DEF c
  <2>1. bpop[c].reploffset <= bpop[c].reploffset
    BY SMT, <1>3
  <2> QED
    BY <1>3, <2>1, CountAcksMonotone
<1>5. /\ last.offset \in Nat /\ last.num \in Int /\ last.reply \in [Clients -> Int]
      /\ last.waiting \in Seq(Clients)
      /\ last = [offset |-> last.offset, num |-> last.num, reply |-> last.reply, waiting |-> last.waiting]
  BY DEF LoopStates
<1> DEFINE answered(v) == [last EXCEPT !.reply[c] = v]
           kept == [last EXCEPT !.waiting = Append(@, c)]
           told == [offset |-> bpop[c].reploffset, num |-> num,
                    reply |-> [last.reply EXCEPT ![c] = num], waiting |-> last.waiting]
<1>6. Iteration(expired, last, i) \in {answered(num), answered(last.num), kept, told}
  BY DEF Iteration, Expire, ProcessWaiting
<1> HIDE DEF c, num
<1>7. ASSUME NEW v \in Int
      PROVE  answered(v) \in LoopStates
  BY <1>1, <1>5 DEF LoopStates
<1>8. kept \in LoopStates
  <2>1. Append(last.waiting, c) \in Seq(Clients)
    BY SMT, <1>1, <1>5
  <2> QED
    BY <1>5, <2>1 DEF LoopStates
<1>9. told \in LoopStates
  <2>1. [last.reply EXCEPT ![c] = num] \in [Clients -> Int]
    BY SMT, <1>1, <1>4, <1>5
  <2> QED
    BY SMT, <1>3, <1>4, <1>5, <2>1 DEF LoopStates
<1>10. num \in Int
  BY SMT, <1>4
<1> HIDE DEF answered, kept, told
<1> QED
  BY <1>5, <1>6, <1>7, <1>8, <1>9, <1>10

\* The loop is what its definition says: it has a run, and its states are of its type.
LEMMA ProcessedRuns ==
    ASSUME TypeOK, NEW expired
    PROVE  LET p == Processed(expired)  n == Len(waiting) IN
           /\ p \in [0 .. n -> LoopStates]
           /\ p[0] = [offset |-> 0, num |-> 0, reply |-> reply, waiting |-> <<>>]
           /\ \A i \in 1 .. n : p[i] = Iteration(expired, p[i - 1], i)
<1> DEFINE n == Len(waiting)
           s0 == [offset |-> 0, num |-> 0, reply |-> reply, waiting |-> <<>>]
           step == [i \in 1 .. n |-> [l \in LoopStates |-> Iteration(expired, l, i)]]
           Run(f) == f = [i \in 0 .. n |-> IF i = 0 THEN s0
                                           ELSE IF waiting[i] \in expired
                                           THEN Expire(f[i - 1], waiting[i])
                                           ELSE ProcessWaiting(f[i - 1], waiting[i])]
           p == Processed(expired)
<1>1. n \in Nat
  BY SMT DEF TypeOK
<1>2. s0 \in LoopStates
  BY SMT DEF TypeOK, LoopStates
<1>3. step \in [1 .. n -> [LoopStates -> LoopStates]]
  <2>1. \A i \in 1 .. n : \A l \in LoopStates : Iteration(expired, l, i) \in LoopStates
    BY IterationType
  <2> QED
    BY <2>1
<1>4. \A f : Run(f) <=> f = [i \in 0 .. n |-> IF i = 0 THEN s0 ELSE Iteration(expired, f[i - 1], i)]
  BY DEF Iteration
<1>5. p = CHOOSE f : Run(f)
  BY DEF Processed
<1> HIDE DEF n, s0, step, Run, p
<1>6. PICK f \in [0 .. n -> LoopStates] : f[0] = s0 /\ \A i \in 1 .. n : f[i] = step[i][f[i - 1]]
  BY SMT, <1>1, <1>2, <1>3, LoopExists
<1>7. Run(f)
  <2>1. ASSUME NEW i \in 1 .. n
        PROVE  f[i] = Iteration(expired, f[i - 1], i)
    <3>1. i - 1 \in 0 .. n
      BY SMT, <1>1
    <3>2. f[i - 1] \in LoopStates
      BY <1>6, <3>1
    <3>3. f[i] = step[i][f[i - 1]]
      BY <1>6
    <3> QED
      BY <3>2, <3>3 DEF step
  <2>2. \A i \in 0 .. n : i # 0 => i \in 1 .. n
    BY SMT, <1>1
  <2>3. f = [i \in 0 .. n |-> f[i]]
    BY <1>6
  <2>4. \A i \in 0 .. n : f[i] = IF i = 0 THEN s0 ELSE Iteration(expired, f[i - 1], i)
    BY <1>6, <2>1, <2>2
  <2>5. f = [i \in 0 .. n |-> IF i = 0 THEN s0 ELSE Iteration(expired, f[i - 1], i)]
    BY <2>3, <2>4
  <2> QED
    BY <1>4, <2>5
<1>8. Run(p)
  BY <1>5, <1>7
<1>9. p = [i \in 0 .. n |-> IF i = 0 THEN s0 ELSE Iteration(expired, p[i - 1], i)]
  BY <1>4, <1>8
<1>10. p[0] = s0 /\ \A i \in 1 .. n : p[i] = Iteration(expired, p[i - 1], i)
  <2>1. 0 \in 0 .. n /\ \A i \in 1 .. n : i \in 0 .. n /\ i # 0
    BY SMT, <1>1
  <2> QED
    BY <1>9, <2>1
<1>11. \A i \in 0 .. n : p[i] \in LoopStates
  <2> DEFINE T == {i \in 0 .. n : p[i] \notin LoopStates}
  <2> SUFFICES ASSUME T # {}
               PROVE  FALSE
    OBVIOUS
  <2>1. PICK i \in T : \A y \in T : i <= y
    <3>1. T \in SUBSET Nat
      BY SMT
    <3> HIDE DEF T
    <3> QED
      BY <3>1, LeastNat
  <2>2. i # 0
    BY <1>2, <1>10, <2>1
  <2>3. i \in 1 .. n /\ i - 1 \in 0 .. n /\ ~(i <= i - 1)
    BY SMT, <1>1, <2>1, <2>2
  <2>4. p[i - 1] \in LoopStates
    BY <2>1, <2>3
  <2>5. Iteration(expired, p[i - 1], i) \in LoopStates
    BY <2>3, <2>4, IterationType DEF n
  <2> QED
    BY <1>10, <2>1, <2>3, <2>5
<1>12. p \in [0 .. n -> LoopStates]
  BY <1>9, <1>11
<1> QED
  BY <1>10, <1>12 DEF p, n, s0

\* Every iteration preserves the invariant of the loop; a remembered count is only
\* used for an offset that is not higher than the one it was taken for.
LEMMA IterationInv ==
    ASSUME TypeOK, NEW expired, NEW last \in LoopStates, NEW i \in 1 .. Len(waiting),
           LoopInv(expired, last, i - 1)
    PROVE  LoopInv(expired, Iteration(expired, last, i), i)
<1> DEFINE c == waiting[i]
           num == CountAcks(bpop[c].reploffset)
           new == Iteration(expired, last, i)
<1> SUFFICES LoopInv(expired, new, i)
  OBVIOUS
<1>1. c \in Clients /\ Blocked(c)
  BY SMT DEF TypeOK, Blocked
<1>2. bpop[c] \in [reploffset : Nat, numreplicas : Nat, timeout : BOOLEAN]
  BY <1>1 DEF TypeOK
<1>3. bpop[c].reploffset \in Nat /\ bpop[c].numreplicas \in Nat
  BY <1>2
<1>4. num \in Nat
  <2> HIDE DEF c
  <2>1. bpop[c].reploffset <= bpop[c].reploffset
    BY SMT, <1>3
  <2> QED
    BY <1>3, <2>1, CountAcksMonotone
<1>5. /\ last.offset \in Nat /\ last.num \in Int /\ last.reply \in [Clients -> Int]
      /\ last.waiting \in Seq(Clients)
  BY DEF LoopStates
<1>6. /\ last.offset # 0 => last.num = CountAcks(last.offset)
      /\ \A d \in Clients : last.reply[d] = reply[d] \/ (Blocked(d) /\ RightAnswer(expired, d, last.reply[d]))
      /\ \A j \in 1 .. Len(last.waiting) : Blocked(last.waiting[j])
      /\ \A j \in 1 .. i - 1 : \/ \E k \in 1 .. Len(last.waiting) : last.waiting[k] = waiting[j]
                               \/ RightAnswer(expired, waiting[j], last.reply[waiting[j]])
  BY DEF LoopInv
<1>7. \A j \in 1 .. i : (j \in 1 .. i - 1 \/ j = i) /\ waiting[j] \in Clients
  <2>1. i \in Nat /\ \A j \in 1 .. i : j \in 1 .. Len(waiting)
    BY SMT DEF TypeOK
  <2>2. waiting \in Seq(Clients)
    BY DEF TypeOK
  <2>3. \A j \in 1 .. i : waiting[j] \in Clients
    BY SMT, <2>1, <2>2
  <2>4. \A j \in 1 .. i : j \in 1 .. i - 1 \/ j = i
    BY SMT, <2>1
  <2> QED
    BY <2>3, <2>4
<1>8. ASSUME NEW v \in Int, RightAnswer(expired, c, v),
             new.reply = [last.reply EXCEPT ![c] = v], new.waiting = last.waiting,
             new.offset # 0 => new.num = CountAcks(new.offset)
      PROVE  LoopInv(expired, new, i)
  <2> HIDE DEF c, new
  <2>1. new.reply[c] = v /\ \A d \in Clients \ {c} : new.reply[d] = last.reply[d]
    BY <1>1, <1>5, <1>8
  <2>2. \A d \in Clients : new.reply[d] = reply[d] \/ (Blocked(d) /\ RightAnswer(expired, d, new.reply[d]))
    BY <1>1, <1>6, <1>8, <2>1
  <2>3. ASSUME NEW j \in 1 .. i
        PROVE  \/ \E k \in 1 .. Len(new.waiting) : new.waiting[k] = waiting[j]
               \/ RightAnswer(expired, waiting[j], new.reply[waiting[j]])
    <3>1. CASE waiting[j] = c
      BY <1>8, <2>1, <3>1
    <3>2. CASE waiting[j] # c
      <4>1. j \in 1 .. i - 1 /\ waiting[j] \in Clients \ {c}
        BY <1>7, <3>2 DEF c
      <4> QED
        BY <1>6, <1>8, <2>1, <4>1
    <3> QED
      BY <3>1, <3>2
  <2> QED
    BY <1>6, <1>8, <2>2, <2>3 DEF LoopInv
<1>9. CASE c \in expired
  <2>1. new = [last EXCEPT !.reply[c] = num]
    BY <1>9 DEF Iteration, Expire
  <2> HIDE DEF new, num, c
  <2>2. new.reply = [last.reply EXCEPT ![c] = num] /\ new.waiting = last.waiting
        /\ new.offset = last.offset /\ new.num = last.num
    BY <2>1 DEF LoopStates
  <2>3. RightAnswer(expired, c, num)
    BY SMT, <1>4, <1>9 DEF RightAnswer, num
  <2>4. num \in Int
    BY SMT, <1>4
  <2> QED
    BY <1>6, <1>8, <2>2, <2>3, <2>4
<1>10. CASE c \notin expired /\ CanReuse(last, c)
  <2>1. new = [last EXCEPT !.reply[c] = last.num]
    BY <1>10 DEF Iteration, ProcessWaiting
  <2>2. /\ last.offset # 0 /\ last.offset >= bpop[c].reploffset
        /\ last.num >= bpop[c].numreplicas
    BY <1>10 DEF CanReuse
  <2>3. CountAcks(last.offset) <= num
    <3> HIDE DEF c
    <3>1. bpop[c].reploffset <= last.offset
      BY <1>3, <1>5, <2>2
    <3> QED
      BY <1>3, <1>5, <3>1, CountAcksMonotone
  <2> HIDE DEF new, num, c
  <2>4. new.reply = [last.reply EXCEPT ![c] = last.num] /\ new.waiting = last.waiting
        /\ new.offset = last.offset /\ new.num = last.num
    BY <2>1 DEF LoopStates
  <2>5. RightAnswer(expired, c, last.num)
    BY <1>6, <2>2, <2>3 DEF RightAnswer, num
  <2> QED
    BY <1>5, <1>6, <1>8, <2>4, <2>5
<1>11. CASE c \notin expired /\ ~CanReuse(last, c) /\ num >= bpop[c].numreplicas
  <2>1. new = [offset |-> bpop[c].reploffset, num |-> num,
               reply |-> [last.reply EXCEPT ![c] = num], waiting |-> last.waiting]
    BY <1>11 DEF Iteration, ProcessWaiting
  <2> HIDE DEF new, c
  <2>2. new.reply = [last.reply EXCEPT ![c] = num] /\ new.waiting = last.waiting
        /\ new.num = CountAcks(new.offset)
    BY <2>1
  <2> HIDE DEF num
  <2>3. RightAnswer(expired, c, num)
    BY SMT, <1>4, <1>11 DEF RightAnswer, num
  <2>4. num \in Int
    BY SMT, <1>4
  <2> QED
    BY <1>8, <2>2, <2>3, <2>4
<1>12. CASE c \notin expired /\ ~CanReuse(last, c) /\ ~(num >= bpop[c].numreplicas)
  <2>1. new = [last EXCEPT !.waiting = Append(@, c)]
    BY <1>12 DEF Iteration, ProcessWaiting
  <2> HIDE DEF new, num, c
  <2>2. new.waiting = Append(last.waiting, c) /\ new.reply = last.reply
        /\ new.offset = last.offset /\ new.num = last.num
    BY <2>1 DEF LoopStates
  <2>3. Len(new.waiting) = Len(last.waiting) + 1 /\ new.waiting[Len(last.waiting) + 1] = c
        /\ Len(last.waiting) \in Nat
        /\ \A k \in 1 .. Len(last.waiting) : new.waiting[k] = last.waiting[k]
    BY SMT, <1>1, <1>5, <2>2
  <2>4. \A k \in 1 .. Len(new.waiting) : k \in 1 .. Len(last.waiting) \/ k = Len(last.waiting) + 1
    BY SMT, <2>3
  <2>5. \A k \in 1 .. Len(new.waiting) : Blocked(new.waiting[k])
    BY <1>1, <1>6, <2>3, <2>4
  <2>6. Len(last.waiting) + 1 \in 1 .. Len(new.waiting)
        /\ \A k \in 1 .. Len(last.waiting) : k \in 1 .. Len(new.waiting)
    BY SMT, <2>3
  <2>7. ASSUME NEW j \in 1 .. i
        PROVE  \/ \E k \in 1 .. Len(new.waiting) : new.waiting[k] = waiting[j]
               \/ RightAnswer(expired, waiting[j], new.reply[waiting[j]])
    <3>1. CASE j = i
      BY <2>3, <2>6, <3>1 DEF c
    <3>2. CASE j \in 1 .. i - 1
      BY <1>6, <2>2, <2>3, <2>6, <3>2
    <3> QED
      BY <1>7, <3>1, <3>2
  <2> QED
    BY <1>6, <2>2, <2>5, <2>7 DEF LoopInv
<1> QED
  BY <1>9, <1>10, <1>11, <1>12

\* The invariant of the loop holds at its end.
LEMMA LoopResult ==
    ASSUME TypeOK, NEW expired
    PROVE  LET end == Processed(expired)[Len(waiting)] IN
           end \in LoopStates /\ LoopInv(expired, end, Len(waiting))
<1> DEFINE n == Len(waiting)
           p == Processed(expired)
           T == {i \in 0 .. n : ~LoopInv(expired, p[i], i)}
<1>1. n \in Nat
  BY SMT DEF TypeOK
<1>2. /\ p \in [0 .. n -> LoopStates]
      /\ p[0] = [offset |-> 0, num |-> 0, reply |-> reply, waiting |-> <<>>]
      /\ \A i \in 1 .. n : p[i] = Iteration(expired, p[i - 1], i)
  BY ProcessedRuns
<1> HIDE DEF p
<1>3. LoopInv(expired, p[0], 0)
  <2>1. p[0].offset = 0 /\ p[0].reply = reply /\ p[0].waiting = <<>>
    BY SMT, <1>2
  <2>2. Len(p[0].waiting) = 0
    BY <2>1
  <2> QED
    BY SMT, <2>1, <2>2 DEF LoopInv
<1>4. SUFFICES ASSUME T # {}
               PROVE  FALSE
  <2>1. n \in 0 .. n
    BY SMT, <1>1
  <2>2. p[n] \in LoopStates /\ LoopInv(expired, p[n], n)
    BY <1>2, <2>1
  <2> QED
    BY <2>2 DEF p, n
<1>5. PICK i \in T : \A y \in T : i <= y
  <2>1. T \in SUBSET Nat
    BY SMT, <1>1
  <2> HIDE DEF T
  <2> QED
    BY <1>4, <2>1, LeastNat
<1>6. i # 0
  BY <1>3, <1>5
<1>7. i \in 1 .. n /\ i - 1 \in 0 .. n /\ ~(i <= i - 1)
  BY SMT, <1>1, <1>5, <1>6
<1>8. p[i - 1] \in LoopStates /\ LoopInv(expired, p[i - 1], i - 1)
  BY <1>2, <1>5, <1>7
<1>9. LoopInv(expired, Iteration(expired, p[i - 1], i), i)
  BY <1>7, <1>8, IterationInv
<1> QED
  BY <1>2, <1>5, <1>7, <1>9

\* What beforeSleep does to the clients.
LEMMA BeforeSleepShape ==
    ASSUME TypeOK, NEW expired \in SUBSET Clients, BeforeSleep(expired)
    PROVE  /\ reply' \in [Clients -> Int] /\ waiting' \in Seq(Clients)
           /\ \A c \in Clients : Blocked(c)' => Blocked(c)
           /\ \A c \in Clients : \/ reply'[c] = reply[c]
                                 \/ Blocked(c) /\ reply'[c] <= CountAcks(bpop[c].reploffset)
           /\ \A c \in Clients : Blocked(c) /\ ~Blocked(c)' /\ ~bpop[c].timeout
                                    => reply'[c] >= bpop[c].numreplicas
<1> DEFINE end == Processed(expired)[Len(waiting)]
<1>1. end \in LoopStates /\ LoopInv(expired, end, Len(waiting))
  BY LoopResult
<1>2. reply' = end.reply /\ waiting' = end.waiting /\ \A c \in expired : bpop[c].timeout
  BY DEF BeforeSleep
<1> HIDE DEF end
<1>3. end.reply \in [Clients -> Int] /\ end.waiting \in Seq(Clients)
  BY <1>1 DEF LoopStates
<1>4. /\ \A c \in Clients : end.reply[c] = reply[c] \/ (Blocked(c) /\ RightAnswer(expired, c, end.reply[c]))
      /\ \A j \in 1 .. Len(end.waiting) : Blocked(end.waiting[j])
      /\ \A j \in 1 .. Len(waiting) : \/ \E k \in 1 .. Len(end.waiting) : end.waiting[k] = waiting[j]
                                      \/ RightAnswer(expired, waiting[j], end.reply[waiting[j]])
  BY <1>1 DEF LoopInv
<1>5. \A c : Blocked(c)' <=> \E k \in 1 .. Len(end.waiting) : end.waiting[k] = c
  BY <1>2 DEF Blocked
<1>6. \A c \in Clients : Blocked(c)' => Blocked(c)
  BY <1>4, <1>5
<1>7. \A c \in Clients : reply'[c] = reply[c] \/ (Blocked(c) /\ reply'[c] <= CountAcks(bpop[c].reploffset))
  BY <1>2, <1>4 DEF RightAnswer
<1>8. ASSUME NEW c \in Clients, Blocked(c), ~Blocked(c)', ~bpop[c].timeout
      PROVE  reply'[c] >= bpop[c].numreplicas
  <2>1. PICK j \in 1 .. Len(waiting) : waiting[j] = c
    BY <1>8 DEF Blocked
  <2>2. RightAnswer(expired, c, end.reply[c])
    BY <1>4, <1>5, <1>8, <2>1
  <2>3. c \notin expired
    BY <1>2, <1>8
  <2> QED
    BY <1>2, <2>2, <2>3 DEF RightAnswer
<1> QED
  BY <1>2, <1>3, <1>6, <1>7, <1>8

-----------------------------------------------------------------------------
\* What is acknowledged has been executed: a count of acknowledgements of an offset
\* at or after a write of a client counts replicas that have executed the write.
LEMMA CountIsTrue ==
    ASSUME TypeOK, AckInv, NEW w \in Nat, NEW off \in Nat, w <= off
    PROVE  CountAcks(off) <= Cardinality({r \in set.replicas : reploff[r] >= w})
<1> DEFINE A == {r \in online : ackOff[r] >= off}
           B == {r \in set.replicas : reploff[r] >= w}
<1>1. set.replicas \in SUBSET Replicas /\ IsFiniteSet(set.replicas) /\ online \in SUBSET set.replicas
  BY ReplicasFinite
<1>2. \A r \in Replicas : ackOff[r] \in Nat /\ reploff[r] \in Nat /\ ackOff[r] <= reploff[r]
  BY DEF TypeOK, AckInv
<1>3. A \in SUBSET B
  BY SMT, <1>1, <1>2
<1>4. B \in SUBSET set.replicas /\ CountAcks(off) = Cardinality(A)
  BY DEF CountAcks
<1> HIDE DEF A
<1> SUFFICES Cardinality(A) <= Cardinality(B)
  BY <1>4
<1> HIDE DEF B
<1>5. IsFiniteSet(B)
  BY <1>1, <1>4, FewerElements
<1> QED
  BY <1>3, <1>5, FewerElements

\* Replicas do not unexecute: what holds of a reply goes on to hold.
LEMMA ExecutedGrows ==
    ASSUME TypeOK, TypeOK', set' = set, NEW w \in Nat,
           \A r \in Replicas : reploff[r] <= reploff'[r]
    PROVE  LET A == Cardinality({r \in set.replicas : reploff[r] >= w})
               B == Cardinality({r \in set'.replicas : reploff'[r] >= w})
           IN  A \in Nat /\ B \in Nat /\ A <= B
<1> DEFINE A == {r \in set.replicas : reploff[r] >= w}
           B == {r \in set'.replicas : reploff'[r] >= w}
<1>1. set.replicas \in SUBSET Replicas /\ IsFiniteSet(set.replicas)
  BY ReplicasFinite
<1>2. \A r \in Replicas : reploff[r] \in Nat /\ reploff'[r] \in Nat
  BY DEF TypeOK
<1>3. A \in SUBSET B
  BY SMT, <1>1, <1>2
<1>4. B \in SUBSET set.replicas
  OBVIOUS
<1> SUFFICES Cardinality(A) \in Nat /\ Cardinality(B) \in Nat /\ Cardinality(A) <= Cardinality(B)
  OBVIOUS
<1> HIDE DEF A, B
<1>5. IsFiniteSet(B)
  BY <1>1, <1>4, FewerElements
<1> QED
  BY <1>3, <1>5, FewerElements

\* A step of the replicas leaves the invariant alone if it leaves what is
\* acknowledged executed.
LEMMA ReplicaStep ==
    ASSUME WInv, TypeOK', AckInv', UNCHANGED <<set, stream, clientVars>>,
           \A r \in Replicas : reploff[r] <= reploff'[r]
    PROVE  WInv'
<1>1. OffsetInv'
  BY DEF WInv, OffsetInv, Blocked, moff, clientVars
<1>2. ReplyIsTrue'
  <2> SUFFICES ASSUME NEW c \in Clients
               PROVE  reply'[c] <= Cardinality({r \in set'.replicas : reploff'[r] >= written'[c]})
    BY DEF ReplyIsTrue
  <2> DEFINE A == Cardinality({r \in set.replicas : reploff[r] >= written[c]})
             B == Cardinality({r \in set'.replicas : reploff'[r] >= written[c]})
  <2>1. reply' = reply /\ written' = written /\ set' = set
    BY DEF clientVars
  <2>2. reply[c] \in Int /\ written[c] \in Nat /\ reply[c] <= A
    BY DEF WInv, TypeOK, ReplyIsTrue
  <2>3. A \in Nat /\ B \in Nat /\ A <= B
    BY <2>1, <2>2, ExecutedGrows DEF WInv
  <2> SUFFICES reply[c] <= B
    BY <2>1
  <2> HIDE DEF A, B
  <2> QED
    BY SMT, <2>2, <2>3
<1> QED
  BY <1>1, <1>2 DEF WInv

\* A replica executes a command, and acknowledges no more than it has executed.
LEMMA ApplyInv ==
    ASSUME WInv, NEW r \in Replicas, Apply(r)
    PROVE  WInv'
<1> USE DEF WInv
<1>2. /\ reploff \in [Replicas -> Nat] /\ acks \in [Replicas -> Seq(Nat)] /\ ackOff \in [Replicas -> Nat]
      /\ moff \in Nat /\ moff' = moff
      /\ reploff[r] < moff /\ reploff' = [reploff EXCEPT ![r] = @ + 1] /\ ackOff' = ackOff
      /\ acks' = [acks EXCEPT ![r] = Append(@, reploff[r])] \/ acks' = acks
  BY SMT DEF TypeOK, Apply, moff
<1>1. TypeOK'
  <2>1. acks' \in [Replicas -> Seq(Nat)] /\ reploff' \in [Replicas -> Nat]
    <3>1. reploff[r] \in Nat /\ acks[r] \in Seq(Nat)
      BY <1>2
    <3>2. Append(acks[r], reploff[r]) \in Seq(Nat)
      BY SMT, <3>1
    <3>3. acks' \in [Replicas -> Seq(Nat)]
      <4> DEFINE a == Append(acks[r], reploff[r])
      <4>1. a \in Seq(Nat) /\ (acks' = [acks EXCEPT ![r] = a] \/ acks' = acks)
        BY <1>2, <3>2
      <4> HIDE DEF a
      <4>2. [acks EXCEPT ![r] = a] \in [Replicas -> Seq(Nat)]
        BY <1>2, <4>1
      <4> QED
        BY <1>2, <4>1, <4>2
    <3>4. reploff' \in [Replicas -> Nat]
      BY SMT, <1>2, <3>1
    <3> QED
      BY <3>3, <3>4
  <2> QED
    BY <2>1 DEF TypeOK, Apply, clientVars
<1>3. \A q \in Replicas : reploff[q] <= reploff'[q] /\ reploff'[q] \in Nat
  BY SMT, <1>2
<1>4. AckInv'
  <2> SUFFICES ASSUME NEW q \in Replicas
               PROVE  /\ ackOff'[q] <= reploff'[q] /\ reploff'[q] <= moff'
                      /\ \A i \in 1 .. Len(acks'[q]) : acks'[q][i] <= reploff'[q]
    BY DEF AckInv
  <2>1. /\ ackOff[q] <= reploff[q] /\ reploff[q] <= moff
        /\ \A i \in 1 .. Len(acks[q]) : acks[q][i] <= reploff[q]
    BY DEF AckInv
  <2>2. ackOff'[q] <= reploff'[q] /\ reploff'[q] <= moff'
    BY SMT, <1>2, <1>3, <2>1
  <2>3. \A i \in 1 .. Len(acks[q]) : acks[q][i] \in Nat /\ acks[q][i] <= reploff'[q]
    BY SMT, <1>2, <1>3, <2>1
  <2>4. acks'[q] = acks[q] \/ acks'[q] = Append(acks[q], reploff[q])
    BY <1>2
  <2>5. \A i \in 1 .. Len(acks'[q]) : acks'[q][i] <= reploff'[q]
    <3>1. acks[q] \in Seq(Nat) /\ reploff[q] \in Nat /\ reploff[q] <= reploff'[q]
      BY <1>2, <1>3
    <3>2. CASE acks'[q] = acks[q]
      BY <2>3, <3>2
    <3>3. CASE acks'[q] = Append(acks[q], reploff[q])
      BY SMT, <2>3, <3>1, <3>3
    <3> QED
      BY <2>4, <3>2, <3>3
  <2> QED
    BY <2>2, <2>5
<1> QED
  BY <1>1, <1>3, <1>4, ReplicaStep DEF Apply

\* A replica acknowledges what it has executed.
LEMMA CronAckInv ==
    ASSUME WInv, NEW r \in Replicas, CronAck(r)
    PROVE  WInv'
<1> USE DEF WInv
<1>1. TypeOK'
  BY SMT DEF TypeOK, CronAck, clientVars
<1>2. /\ reploff \in [Replicas -> Nat] /\ acks \in [Replicas -> Seq(Nat)]
      /\ moff' = moff /\ reploff' = reploff /\ ackOff' = ackOff
      /\ acks' = [acks EXCEPT ![r] = Append(@, reploff[r])]
  BY DEF TypeOK, CronAck, moff
<1>3. AckInv'
  BY SMT, <1>2 DEF AckInv
<1>4. \A q \in Replicas : reploff[q] <= reploff'[q]
  BY SMT, <1>2
<1> QED
  BY <1>1, <1>3, <1>4, ReplicaStep DEF CronAck

\* The master takes note of an acknowledgement.
LEMMA ReceiveAckInv ==
    ASSUME WInv, NEW r \in Replicas, ReceiveAck(r)
    PROVE  WInv'
<1> USE DEF WInv
<1>1. /\ reploff \in [Replicas -> Nat] /\ acks \in [Replicas -> Seq(Nat)] /\ ackOff \in [Replicas -> Nat]
      /\ moff' = moff /\ reploff' = reploff /\ acks[r] # <<>>
      /\ acks' = [acks EXCEPT ![r] = Tail(@)]
      /\ ackOff' = [ackOff EXCEPT ![r] = IF Head(acks[r]) > @ THEN Head(acks[r]) ELSE @]
  BY DEF TypeOK, ReceiveAck, moff
<1>2. /\ Head(acks[r]) = acks[r][1] /\ 1 \in 1 .. Len(acks[r]) /\ Head(acks[r]) \in Nat
      /\ Tail(acks[r]) \in Seq(Nat) /\ Len(Tail(acks[r])) = Len(acks[r]) - 1 /\ Len(acks[r]) \in Nat
      /\ \A i \in 1 .. Len(Tail(acks[r])) : Tail(acks[r])[i] = acks[r][i + 1] /\ i + 1 \in 1 .. Len(acks[r])
  <2>1. acks[r] \in Seq(Nat) /\ acks[r] # <<>>
    BY <1>1
  <2> QED
    BY SMT, <2>1
<1>3. acks' \in [Replicas -> Seq(Nat)] /\ ackOff' \in [Replicas -> Nat]
  BY <1>1, <1>2
<1>4. TypeOK'
  BY <1>3 DEF TypeOK, ReceiveAck, clientVars
<1>5. AckInv'
  <2> SUFFICES ASSUME NEW q \in Replicas
               PROVE  /\ ackOff'[q] <= reploff'[q] /\ reploff'[q] <= moff'
                      /\ \A i \in 1 .. Len(acks'[q]) : acks'[q][i] <= reploff'[q]
    BY DEF AckInv
  <2>1. /\ ackOff[q] <= reploff[q] /\ reploff[q] <= moff
        /\ \A i \in 1 .. Len(acks[q]) : acks[q][i] <= reploff[q]
    BY DEF AckInv
  <2>2. CASE q # r
    BY <1>1, <2>1, <2>2
  <2>3. CASE q = r
    <3>1. acks'[q] = Tail(acks[r]) /\ ackOff'[q] \in {acks[r][1], ackOff[q]}
      BY <1>1, <1>2, <2>3
    <3>2. \A i \in 1 .. Len(acks'[q]) : acks'[q][i] <= reploff'[q]
      BY <1>1, <1>2, <2>1, <2>3, <3>1
    <3>3. ackOff'[q] <= reploff'[q] /\ reploff'[q] <= moff'
      BY <1>1, <1>2, <2>1, <2>3, <3>1
    <3> QED
      BY <3>2, <3>3
  <2> QED
    BY <2>2, <2>3
<1>6. \A q \in Replicas : reploff[q] <= reploff'[q]
  BY SMT, <1>1
<1> QED
  BY <1>4, <1>5, <1>6, ReplicaStep DEF ReceiveAck

\* A connection is lost.
LEMMA DropInv ==
    ASSUME WInv, NEW r \in Replicas, Drop(r)
    PROVE  WInv'
<1> USE DEF WInv
<1>1. TypeOK'
  BY SMT DEF TypeOK, Drop, clientVars
<1>2. /\ reploff \in [Replicas -> Nat] /\ acks \in [Replicas -> Seq(Nat)]
      /\ moff' = moff /\ reploff' = reploff /\ ackOff' = ackOff
      /\ acks' = [acks EXCEPT ![r] = <<>>]
  BY DEF TypeOK, Drop, moff
<1>3. AckInv'
  BY SMT, <1>2 DEF AckInv
<1>4. \A q \in Replicas : reploff[q] <= reploff'[q]
  BY SMT, <1>2
<1> QED
  BY <1>1, <1>3, <1>4, ReplicaStep DEF Drop

\* A replica that comes back starts with nothing acknowledged.
LEMMA ReconnectInv ==
    ASSUME WInv, NEW r \in Replicas, Reconnect(r)
    PROVE  WInv'
<1> USE DEF WInv
<1>1. PICK offset \in {reploff[r], moff} : reploff' = [reploff EXCEPT ![r] = offset]
  BY DEF Reconnect
<1>2. /\ reploff \in [Replicas -> Nat] /\ acks \in [Replicas -> Seq(Nat)] /\ ackOff \in [Replicas -> Nat]
      /\ moff' = moff /\ moff \in Nat /\ acks' = acks /\ ackOff' = [ackOff EXCEPT ![r] = 0]
  BY SMT DEF TypeOK, Reconnect, moff
<1>3. offset \in Nat /\ reploff[r] <= offset /\ offset <= moff
  BY SMT, <1>2 DEF AckInv
<1>4. \A q \in Replicas : reploff[q] <= reploff'[q] /\ reploff'[q] \in Nat
  BY SMT, <1>1, <1>2, <1>3
<1>5. TypeOK'
  <2>1. reploff' \in [Replicas -> Nat] /\ ackOff' \in [Replicas -> Nat]
    BY <1>1, <1>2, <1>3
  <2>2. online' \in SUBSET set'.replicas
    BY DEF TypeOK, Reconnect
  <2> QED
    BY <2>1, <2>2 DEF TypeOK, Reconnect, clientVars
<1>6. AckInv'
  <2> SUFFICES ASSUME NEW q \in Replicas
               PROVE  /\ ackOff'[q] <= reploff'[q] /\ reploff'[q] <= moff'
                      /\ \A i \in 1 .. Len(acks'[q]) : acks'[q][i] <= reploff'[q]
    BY DEF AckInv
  <2>1. /\ ackOff[q] <= reploff[q] /\ reploff[q] <= moff
        /\ \A i \in 1 .. Len(acks[q]) : acks[q][i] <= reploff[q] /\ acks[q][i] \in Nat
    BY SMT, <1>2 DEF AckInv
  <2> QED
    BY SMT, <1>1, <1>2, <1>3, <1>4, <2>1
<1> QED
  BY <1>4, <1>5, <1>6, ReplicaStep DEF Reconnect

-----------------------------------------------------------------------------
\* A step of the clients keeps what the master knows of the replicas.
LEMMA ClientStep ==
    ASSUME WInv, moff' \in Nat, moff <= moff', UNCHANGED replicaVars
    PROVE  AckInv'
<1>1. moff \in Nat /\ \A r \in Replicas : reploff[r] \in Nat
  BY SMT DEF WInv, TypeOK, moff
<1> QED
  BY SMT, <1>1 DEF WInv, AckInv, replicaVars

\* A write is executed by no replica yet, and answers nothing.
LEMMA WriteInv ==
    ASSUME WInv, NEW c \in Clients, Write(c)
    PROVE  WInv'
<1> USE DEF WInv
<1>1. moff \in Nat /\ moff' = moff + 1
  BY SMT DEF TypeOK, Write, moff
<1>2. TypeOK'
  <2>1. stream' \in Seq({"write", "getack"})
    BY SMT DEF TypeOK, Write
  <2>2. woff' \in [Clients -> Nat] /\ written' \in [Clients -> Nat]
    BY SMT, <1>1 DEF TypeOK, Write
  <2>3. reply' \in [Clients -> Int] /\ commands' \in [Clients -> Nat]
    BY SMT DEF TypeOK, Write
  <2> QED
    BY <2>1, <2>2, <2>3 DEF TypeOK, Write, replicaVars
<1>3. AckInv'
  BY SMT, <1>1, ClientStep DEF Write
<1>4. OffsetInv'
  <2>1. /\ \A d \in Clients : woff[d] \in Nat /\ written[d] \in Nat
        /\ woff' = [woff EXCEPT ![c] = moff + 1] /\ written' = [written EXCEPT ![c] = moff + 1]
        /\ woff \in [Clients -> Nat] /\ written \in [Clients -> Nat]
        /\ bpop' = bpop /\ waiting' = waiting /\ ~Blocked(c)
    BY DEF TypeOK, Write, MayCall
  <2> QED
    BY SMT, <1>1, <2>1 DEF OffsetInv, Blocked
<1>5. ReplyIsTrue'
  <2> SUFFICES ASSUME NEW d \in Clients
               PROVE  reply'[d] <= Cardinality({r \in set'.replicas : reploff'[r] >= written'[d]})
    BY DEF ReplyIsTrue
  <2>1. /\ reply \in [Clients -> Int] /\ written' = [written EXCEPT ![c] = moff + 1]
        /\ written \in [Clients -> Nat] /\ written' \in [Clients -> Nat]
        /\ reply' = [reply EXCEPT ![c] = -1]
        /\ set' = set /\ reploff' = reploff
    BY <1>2 DEF TypeOK, Write, replicaVars
  <2>2. \A r \in Replicas : reploff[r] <= reploff'[r]
    BY SMT, <2>1 DEF TypeOK
  <2>3. CASE d = c
    <3>1. reply'[d] = -1 /\ written'[d] \in Nat
      BY <2>1, <2>3
    <3>2. Cardinality({r \in set'.replicas : reploff'[r] >= written'[d]}) \in Nat
      BY <1>2, <2>1, <2>2, <3>1, ExecutedGrows
    <3> QED
      BY SMT, <3>1, <3>2
  <2>4. CASE d # c
    <3>1. reply'[d] = reply[d] /\ written'[d] = written[d]
      BY <2>1, <2>4
    <3> QED
      BY <2>1, <3>1 DEF ReplyIsTrue
  <2> QED
    BY <2>3, <2>4
<1> QED
  BY <1>2, <1>3, <1>4, <1>5

\* WAIT: the client is answered at once with what has been acknowledged, or blocks.
LEMMA WaitInv ==
    ASSUME WInv, NEW c \in Clients, NEW n \in Nat, NEW timeout \in BOOLEAN, Wait(c, n, timeout)
    PROVE  WInv'
<1> USE DEF WInv
<1>1. /\ moff \in Nat /\ moff' = moff /\ ~Blocked(c)
      /\ set' = set /\ stream' = stream /\ written' = written /\ UNCHANGED replicaVars
      /\ woff' = [woff EXCEPT ![c] = moff] /\ commands' = [commands EXCEPT ![c] = @ + 1]
  BY SMT DEF TypeOK, Wait, moff, MayCall
<1>2. /\ woff \in [Clients -> Nat] /\ written \in [Clients -> Nat] /\ reply \in [Clients -> Int]
      /\ woff[c] \in Nat /\ written[c] \in Nat /\ written[c] <= woff[c] /\ waiting \in Seq(Clients)
  BY DEF TypeOK, OffsetInv
<1>3. CountAcks(woff[c]) \in Nat
  <2>1. woff[c] <= woff[c]
    BY SMT, <1>2
  <2> QED
    BY <1>2, <2>1, CountAcksMonotone
<1>4. AckInv'
  <2>1. moff' \in Nat /\ moff <= moff'
    BY SMT, <1>1
  <2> QED
    BY <1>1, <2>1, ClientStep
<1>w. CountAcks(woff[c]) \in Int /\ -1 \in Int
  BY SMT, <1>3
<1> DEFINE b == [reploffset |-> woff[c], numreplicas |-> n, timeout |-> timeout]
<1>5. \/ /\ reply' = [reply EXCEPT ![c] = CountAcks(woff[c])]
         /\ UNCHANGED <<waiting, bpop, getAck>>
      \/ /\ waiting' = <<c>> \o waiting /\ bpop' = [bpop EXCEPT ![c] = b]
         /\ reply' = [reply EXCEPT ![c] = -1] /\ getAck' = TRUE
  BY DEF Wait
<1>v. PICK v \in {CountAcks(woff[c]), -1} : reply' = [reply EXCEPT ![c] = v]
  BY <1>5
<1>6. /\ b \in [reploffset : Nat, numreplicas : Nat, timeout : BOOLEAN]
      /\ b.reploffset = woff[c]
  BY <1>2
<1> HIDE DEF b
<1>7. TypeOK'
  <2>1. reply' \in [Clients -> Int]
    <3>1. v \in Int
      BY <1>v, <1>w
    <3> QED
      BY <1>2, <1>v, <3>1
  <2>2. waiting' \in Seq(Clients)
    <3>1. <<c>> \o waiting \in Seq(Clients)
      BY SMT, <1>2
    <3> QED
      BY <1>2, <1>5, <3>1
  <2>3. bpop' \in [Clients -> [reploffset : Nat, numreplicas : Nat, timeout : BOOLEAN]]
    <3> DEFINE B == [reploffset : Nat, numreplicas : Nat, timeout : BOOLEAN]
    <3>1. bpop \in [Clients -> B] /\ b \in B
      BY <1>6 DEF TypeOK
    <3> SUFFICES bpop' \in [Clients -> B]
      OBVIOUS
    <3> HIDE DEF B
    <3>2. [bpop EXCEPT ![c] = b] \in [Clients -> B]
      BY <3>1
    <3> QED
      BY <1>5, <3>1, <3>2
  <2>4. woff' \in [Clients -> Nat] /\ commands' \in [Clients -> Nat] /\ getAck' \in BOOLEAN
    <3>1. woff' \in [Clients -> Nat]
      BY <1>1, <1>2
    <3>2. commands' \in [Clients -> Nat]
      <4>1. commands \in [Clients -> Nat] /\ commands' = [commands EXCEPT ![c] = @ + 1]
        BY <1>1 DEF TypeOK
      <4> QED
        BY SMT, <4>1
    <3>3. getAck' \in BOOLEAN
      BY <1>5 DEF TypeOK
    <3> QED
      BY <3>1, <3>2, <3>3
  <2> QED
    BY <1>1, <2>1, <2>2, <2>3, <2>4 DEF TypeOK, replicaVars
<1>8. OffsetInv'
  <2> SUFFICES ASSUME NEW d \in Clients
               PROVE  /\ written'[d] <= woff'[d] /\ woff'[d] <= moff'
                      /\ Blocked(d)' => written'[d] <= bpop'[d].reploffset
    BY DEF OffsetInv
  <2>1. /\ written[d] <= woff[d] /\ woff[d] <= moff /\ (Blocked(d) => written[d] <= bpop[d].reploffset)
        /\ written[d] \in Nat /\ woff[d] \in Nat
    BY <1>2 DEF OffsetInv
  <2>2. written'[d] <= woff'[d] /\ woff'[d] <= moff'
    BY SMT, <1>1, <1>2, <2>1
  <2>3. CASE d # c
    <3>1. bpop'[d] = bpop[d]
      <4>1. [bpop EXCEPT ![c] = b][d] = bpop[d]
        BY <2>3 DEF TypeOK
      <4> QED
        BY <1>5, <4>1
    <3>2. Blocked(d)' => Blocked(d)
      <4>1. waiting' = waiting \/ waiting' = <<c>> \o waiting
        BY <1>5
      <4>2. \A i \in 1 .. Len(<<c>> \o waiting) :
               \/ i = 1 /\ (<<c>> \o waiting)[i] = c
               \/ i - 1 \in 1 .. Len(waiting) /\ (<<c>> \o waiting)[i] = waiting[i - 1]
        BY <1>2, HeadAdded
      <4> QED
        BY <2>3, <4>1, <4>2 DEF Blocked
    <3> QED
      BY <1>1, <2>1, <2>2, <3>1, <3>2
  <2>4. CASE d = c
    <3>1. Blocked(c)' => bpop' = [bpop EXCEPT ![c] = b]
      BY <1>1, <1>5 DEF Blocked
    <3>2. Blocked(c)' => bpop'[c].reploffset = woff[c]
      BY <1>6, <3>1 DEF TypeOK
    <3> QED
      BY <1>1, <2>1, <2>2, <2>4, <3>2
  <2> QED
    BY <2>3, <2>4
<1>9. ReplyIsTrue'
  <2> SUFFICES ASSUME NEW d \in Clients
               PROVE  reply'[d] <= Cardinality({r \in set.replicas : reploff[r] >= written[d]})
    BY <1>1 DEF ReplyIsTrue, replicaVars
  <2> DEFINE N == Cardinality({r \in set.replicas : reploff[r] >= written[d]})
  <2>1. reply[d] <= N
    BY DEF ReplyIsTrue
  <2>2. N \in Nat
    <3>1. written[d] \in Nat /\ reploff \in [Replicas -> Nat]
      BY <1>2 DEF TypeOK
    <3>2. set' = set /\ reploff' = reploff
      BY <1>1 DEF replicaVars
    <3>3. \A r \in Replicas : reploff[r] <= reploff'[r]
      BY SMT, <3>1, <3>2
    <3> QED
      BY <1>7, <3>2, <3>3, <3>1, ExecutedGrows
  <2>3. CASE d # c
    <3>1. reply'[d] = reply[d]
      BY <1>2, <1>v, <2>3
    <3> QED
      BY <2>1, <3>1
  <2>4. CASE d = c
    <3>1. CountAcks(woff[c]) <= N
      BY <1>2, <2>4, CountIsTrue
    <3>2. reply'[c] \in {CountAcks(woff[c]), -1}
      BY <1>2, <1>v
    <3> HIDE DEF N
    <3>3. reply'[d] <= N
      BY SMT, <2>2, <2>4, <3>1, <3>2
    <3> QED
      BY <3>3 DEF N
  <2> QED
    BY <2>3, <2>4
<1> QED
  BY <1>4, <1>7, <1>8, <1>9

\* beforeSleep answers with counts of what has been acknowledged.
LEMMA BeforeSleepInv ==
    ASSUME WInv, NEW expired \in SUBSET Clients, BeforeSleep(expired)
    PROVE  WInv'
<1> USE DEF WInv
<1>1. /\ reply' \in [Clients -> Int] /\ waiting' \in Seq(Clients)
      /\ \A c \in Clients : Blocked(c)' => Blocked(c)
      /\ \A c \in Clients : \/ reply'[c] = reply[c]
                            \/ Blocked(c) /\ reply'[c] <= CountAcks(bpop[c].reploffset)
  BY BeforeSleepShape
<1>2. /\ set' = set /\ woff' = woff /\ bpop' = bpop /\ written' = written /\ commands' = commands
      /\ UNCHANGED replicaVars /\ getAck' = FALSE
      /\ stream' = stream \/ stream' = Append(stream, "getack")
  BY DEF BeforeSleep
<1>3. stream' \in Seq({"write", "getack"}) /\ moff \in Nat /\ moff' \in Nat /\ moff <= moff'
  <2>1. stream \in Seq({"write", "getack"})
    BY DEF TypeOK
  <2> QED
    BY SMT, <1>2, <2>1 DEF moff
<1>4. TypeOK'
  BY <1>1, <1>2, <1>3 DEF TypeOK, replicaVars
<1>5. AckInv'
  BY <1>2, <1>3, ClientStep
<1>6. \A c \in Clients : /\ written[c] \in Nat /\ woff[c] \in Nat
                         /\ bpop[c].reploffset \in Nat
  BY DEF TypeOK
<1>7. OffsetInv'
  <2>1. \A c \in Clients : woff'[c] <= moff'
    BY SMT, <1>2, <1>3, <1>6 DEF OffsetInv
  <2> QED
    BY <1>1, <1>2, <2>1 DEF OffsetInv
<1>8. ReplyIsTrue'
  <2> SUFFICES ASSUME NEW c \in Clients
               PROVE  reply'[c] <= Cardinality({r \in set.replicas : reploff[r] >= written[c]})
    BY <1>2 DEF ReplyIsTrue, replicaVars
  <2> DEFINE N == Cardinality({r \in set.replicas : reploff[r] >= written[c]})
             k == CountAcks(bpop[c].reploffset)
  <2>1. CASE reply'[c] = reply[c]
    BY <2>1 DEF ReplyIsTrue
  <2>2. CASE Blocked(c) /\ reply'[c] <= CountAcks(bpop[c].reploffset)
    <3>1. written[c] <= bpop[c].reploffset
      BY <2>2 DEF OffsetInv
    <3>2. k <= N
      BY <1>6, <3>1, CountIsTrue
    <3>3. k \in Nat
      <4>1. bpop[c].reploffset <= bpop[c].reploffset
        BY SMT, <1>6
      <4> QED
        BY <1>6, <4>1, CountAcksMonotone
    <3>4. N \in Nat
      <4>1. written[c] \in Nat /\ set' = set /\ \A r \in Replicas : reploff[r] <= reploff'[r]
        BY SMT, <1>2, <1>6 DEF TypeOK, replicaVars
      <4> QED
        BY <1>4, <4>1, ExecutedGrows
    <3>5. reply'[c] <= k /\ reply'[c] \in Int
      BY <1>1, <2>2
    <3> HIDE DEF N, k
    <3>6. reply'[c] <= N
      BY SMT, <3>2, <3>3, <3>4, <3>5
    <3> QED
      BY <3>6 DEF N
  <2> QED
    BY <1>1, <2>1, <2>2
<1> QED
  BY <1>4, <1>5, <1>7, <1>8

-----------------------------------------------------------------------------
\* At the start no write has been made, and every reply is none.
LEMMA InitInv == Init => WInv
<1> SUFFICES ASSUME Init
             PROVE  WInv
  OBVIOUS
<1>1. TypeOK
  <2>1. stream \in Seq({"write", "getack"}) /\ waiting \in Seq(Clients) /\ acks \in [Replicas -> Seq(Nat)]
    BY SMT DEF Init
  <2>2. bpop \in [Clients -> [reploffset : Nat, numreplicas : Nat, timeout : BOOLEAN]]
    BY DEF Init
  <2>3. online \in SUBSET set.replicas
    BY DEF Init
  <2>4. reply \in [Clients -> Int]
    BY SMT DEF Init
  <2> QED
    BY <2>1, <2>2, <2>3, <2>4 DEF Init, TypeOK
<1>2. AckInv
  BY SMT DEF Init, AckInv, moff
<1>3. OffsetInv
  BY SMT DEF Init, OffsetInv, moff, Blocked
<1>4. ReplyIsTrue
  <2> SUFFICES ASSUME NEW c \in Clients
               PROVE  reply[c] <= Cardinality({r \in set.replicas : reploff[r] >= written[c]})
    BY DEF ReplyIsTrue
  <2> DEFINE A == {r \in set.replicas : reploff[r] >= written[c]}
  <2>1. A \in SUBSET set.replicas /\ IsFiniteSet(set.replicas)
    BY <1>1, ReplicasFinite
  <2>2. reply[c] = -1
    BY DEF Init
  <2> HIDE DEF A
  <2>3. Cardinality(A) \in Nat
    BY <2>1, FewerElements
  <2>4. reply[c] <= Cardinality(A)
    BY SMT, <2>2, <2>3
  <2> QED
    BY <2>4 DEF A
<1> QED
  BY <1>1, <1>2, <1>3, <1>4 DEF WInv

\* Every step keeps the invariant.
LEMMA StepInv == WInv /\ [Next]_vars => WInv'
<1> SUFFICES ASSUME WInv, [Next]_vars
             PROVE  WInv'
  OBVIOUS
<1>1. CASE \E c \in Clients : Write(c)
  BY <1>1, WriteInv
<1>2. CASE \E c \in Clients : \E n \in 1 .. Cardinality(set.replicas), timeout \in BOOLEAN : Wait(c, n, timeout)
  <2>1. \A n \in 1 .. Cardinality(set.replicas) : n \in Nat
    <3>1. Cardinality(set.replicas) \in Nat
      BY ReplicasFinite, FewerElements DEF WInv
    <3> QED
      BY SMT, <3>1
  <2> QED
    BY <1>2, <2>1, WaitInv
<1>3. CASE \E expired \in SUBSET Clients : BeforeSleep(expired)
  BY <1>3, BeforeSleepInv
<1>4. CASE \E r \in Replicas : Apply(r) \/ CronAck(r) \/ ReceiveAck(r) \/ Drop(r) \/ Reconnect(r)
  BY <1>4, ApplyInv, CronAckInv, ReceiveAckInv, DropInv, ReconnectInv
<1>5. CASE UNCHANGED vars
  BY <1>5 DEF WInv, TypeOK, ReplyIsTrue, AckInv, OffsetInv, Blocked, moff, vars, clientVars, replicaVars
<1> QED
  BY <1>1, <1>2, <1>3, <1>4, <1>5 DEF Next

\* The inductive invariant of WAIT.
THEOREM WaitInvariant == Spec => []WInv
<1> QED
  BY InitInv, StepInv, PTL DEF Spec

\* What WAIT replies is true: at least that many replicas have executed the last
\* write of the client, however the counts of processClientsWaitingReplicas are reused
\* and whatever connections were lost since.
THEOREM WaitRepliesTruly == Spec => []ReplyIsTrue
<1>1. WInv => ReplyIsTrue
  BY DEF WInv
<1> QED
  BY WaitInvariant, <1>1, PTL

\* A client that gave no timeout is unblocked only with as many replicas as it
\* asked for.
THEOREM WaitForEnough == Spec => EnoughReplicas
<1> DEFINE Enough == \A c \in Clients : Blocked(c) /\ ~Blocked(c)' /\ ~bpop[c].timeout
                                          => reply'[c] >= bpop[c].numreplicas
<1>1. WInv /\ [Next]_vars => [Enough]_vars
  <2> SUFFICES ASSUME WInv, Next
               PROVE  Enough
    OBVIOUS
  <2>1. CASE \E expired \in SUBSET Clients : BeforeSleep(expired)
    BY <2>1, BeforeSleepShape DEF WInv
  <2>2. CASE waiting' = waiting
    BY <2>2 DEF Blocked
  <2>3. ASSUME NEW c \in Clients, NEW n, NEW timeout, Wait(c, n, timeout), waiting' # waiting
        PROVE  Enough
    <3>1. waiting \in Seq(Clients) /\ waiting' = <<c>> \o waiting
      BY <2>3 DEF WInv, TypeOK, Wait
    <3>2. \A i \in 1 .. Len(waiting) : i + 1 \in 1 .. Len(waiting') /\ waiting'[i + 1] = waiting[i]
      BY SMT, <3>1
    <3> QED
      BY <3>2 DEF Blocked
  <2>4. CASE \E r \in Replicas : Apply(r) \/ CronAck(r) \/ ReceiveAck(r) \/ Drop(r) \/ Reconnect(r)
    <3>1. waiting' = waiting
      BY <2>4 DEF Apply, CronAck, ReceiveAck, Drop, Reconnect, clientVars
    <3> QED
      BY <2>2, <3>1
  <2>5. CASE \E c \in Clients : Write(c)
    <3>1. waiting' = waiting
      BY <2>5 DEF Write
    <3> QED
      BY <2>2, <3>1
  <2> QED
    BY <2>1, <2>2, <2>3, <2>4, <2>5 DEF Next
<1> QED
  BY WaitInvariant, <1>1, PTL DEF Spec, EnoughReplicas
=============================================================================
