---------------------------- MODULE SyncProofs ----------------------------
(***************************************************************************)
(* Proofs about the colouring clients of src/color/sync, for every graph   *)
(* with ids from 0 on, every number of clients and of servers, all         *)
(* pairings of them and all disjoint ranges.                               *)
(***************************************************************************)
EXTENDS SyncLate, TLAPS

\* Zenon proves the leaves that name no other prover.
USE ZenonT(20)

-----------------------------------------------------------------------------
(* Facts about the graph and the keys. *)

\* Nodes are numbers, and adjacency is symmetric and irreflexive.
LEMMA NbrFacts ==
  /\ Node \subseteq Nat
  /\ \A u \in Node : Nbr[u] \subseteq Node
  /\ \A u \in Node : \A v \in Nbr[u] : u \in Nbr[v] /\ u # v
BY SyncAssumption

\* The ranges are made of nodes; a node is in the range of p if it is not external to p.
LEMMA RangeFacts ==
  ASSUME NEW p \in Proc
  PROVE  /\ First[p] \in Nat /\ Last[p] \in Nat
         /\ \A u \in First[p] .. Last[p] : u \in Node /\ u \in Nat /\ ~External(p, u)
         /\ \A u \in Node : ~External(p, u) => u \in First[p] .. Last[p]
<1>1. First[p] \in Node /\ Last[p] \in Node
  BY SyncAssumption
<1>2. First[p] \in Nat /\ Last[p] \in Nat /\ 0 .. Last[p] \subseteq Node
  BY <1>1, SyncAssumption
<1>3. \A u \in First[p] .. Last[p] : u \in Nat /\ u \in 0 .. Last[p]
  BY SMT, <1>2
<1>4. \A u \in Nat : ~External(p, u) <=> u \in First[p] .. Last[p]
  BY SMT, <1>2 DEF External
<1> QED
  BY <1>2, <1>3, <1>4, NbrFacts

\* Different operations use different keys, different nodes and edges too.
LEMMA KeysDiffer ==
  \A u, v, x, y \in Nat :
     /\ ColorKey(u) = ColorKey(x) => u = x
     /\ StatusKey(u) = StatusKey(x) => u = x
     /\ FlagKey(u, v) = FlagKey(x, y) => u = x /\ v = y
     /\ TurnKey(u, v) = TurnKey(x, y) => (u = x /\ v = y) \/ (u = y /\ v = x)
     /\ ColorKey(u) # StatusKey(x)
     /\ ColorKey(u) # FlagKey(x, y) /\ StatusKey(u) # FlagKey(x, y)
     /\ ColorKey(u) # TurnKey(x, y) /\ StatusKey(u) # TurnKey(x, y)
     /\ FlagKey(u, v) # TurnKey(x, y)
<1> TAKE u, v, x, y \in Nat
<1>1. ColorKey(u) = ColorKey(x) => u = x
  BY DEF ColorKey
<1>2. StatusKey(u) = StatusKey(x) => u = x
  BY DEF StatusKey
<1>3. FlagKey(u, v) = FlagKey(x, y) => u = x /\ v = y
  BY DEF FlagKey, BothId
<1>4. TurnKey(u, v) = TurnKey(x, y) => (u = x /\ v = y) \/ (u = y /\ v = x)
  BY DEF TurnKey, BothId
<1>5. ColorKey(u) # StatusKey(x)
  BY DEF ColorKey, StatusKey
<1>6. ColorKey(u) # FlagKey(x, y) /\ StatusKey(u) # FlagKey(x, y)
  BY DEF ColorKey, StatusKey, FlagKey
<1>7. ColorKey(u) # TurnKey(x, y) /\ StatusKey(u) # TurnKey(x, y)
  BY DEF ColorKey, StatusKey, TurnKey
<1>8. FlagKey(u, v) # TurnKey(x, y)
  BY DEF FlagKey, TurnKey
<1> QED
  BY <1>1, <1>2, <1>3, <1>4, <1>5, <1>6, <1>7, <1>8

\* Both ends of an edge compute the same key for the turn.
LEMMA TurnKeySym ==
  \A u, v \in Nat : TurnKey(u, v) = TurnKey(v, u)
BY SMT DEF TurnKey, BothId

\* The keys of a node and of an edge exist.
LEMMA KeysExist ==
  \A u \in Node :
     /\ ColorKey(u) \in Keys /\ StatusKey(u) \in Keys
     /\ OwnKeys(u) \subseteq Keys
     /\ \A v \in Nbr[u] : FlagKey(u, v) \in Keys /\ TurnKey(u, v) \in Keys
BY SMT DEF Keys, OwnKeys

\* A key of u is the colour, the status or a flag of u, and no key of another node.
LEMMA OwnKeysDiffer ==
  ASSUME NEW u \in Node, NEW x \in Node
  PROVE  /\ ColorKey(x) \in OwnKeys(u) <=> u = x
         /\ StatusKey(x) \in OwnKeys(u) <=> u = x
         /\ \A v \in Nbr[x] : FlagKey(x, v) \in OwnKeys(u) <=> u = x
         /\ \A v \in Nbr[x] : TurnKey(x, v) \notin OwnKeys(u)
<1>1. u \in Nat /\ x \in Nat /\ Nbr[u] \subseteq Nat /\ Nbr[x] \subseteq Nat
  BY NbrFacts
<1>2. ColorKey(x) \in OwnKeys(u) <=> u = x
  BY <1>1, KeysDiffer DEF OwnKeys
<1>3. StatusKey(x) \in OwnKeys(u) <=> u = x
  BY <1>1, KeysDiffer DEF OwnKeys
<1>4. ASSUME NEW v \in Nbr[x]
      PROVE  /\ FlagKey(x, v) \in OwnKeys(u) <=> u = x
             /\ TurnKey(x, v) \notin OwnKeys(u)
  <2>1. v \in Nat
    BY <1>1
  <2> QED
    BY SMT, <2>1, <1>1, KeysDiffer DEF OwnKeys
<1> QED
  BY <1>2, <1>3, <1>4

\* Every key but a turn is a key of a node.
LEMMA KeyHasNode ==
  ASSUME NEW k \in Keys, k[1] # "turn"
  PROVE  \E u \in Node : k \in OwnKeys(u)
<1>1. PICK u \in Node : k \in {ColorKey(u), StatusKey(u)} \cup
                           UNION {{FlagKey(u, v), TurnKey(u, v)} : v \in Nbr[u]}
  BY DEF Keys
<1>2. \A v \in Nbr[u] : k # TurnKey(u, v)
  BY SMT DEF TurnKey
<1> QED
  BY <1>1, <1>2 DEF OwnKeys

-----------------------------------------------------------------------------
(* Facts about what is in flight. *)

\* The elements of Append(c, m) and of Tail(c).
LEMMA SeqElements ==
  ASSUME NEW c \in Seq(Message), NEW m \in Message
  PROVE  /\ Append(c, m) \in Seq(Message) /\ Len(c) \in Nat
         /\ Len(Append(c, m)) = Len(c) + 1
         /\ \A i \in 1 .. Len(c) : Append(c, m)[i] = c[i]
         /\ Append(c, m)[Len(c) + 1] = m
         /\ c # <<>> => /\ Tail(c) \in Seq(Message) /\ Len(c) >= 1
                        /\ Len(Tail(c)) = Len(c) - 1 /\ Head(c) = c[1] /\ c[1] \in Message
                        /\ \A i \in 1 .. Len(Tail(c)) : Tail(c)[i] = c[i + 1]
BY SMT

\* What is in flight is a message.
LEMMA InFlight ==
  ASSUME NEW c \in Seq(Message)
  PROVE  /\ \A i \in 1 .. Len(c) : c[i] \in Message
         /\ c # <<>> => Head(c) = c[1] /\ 1 \in 1 .. Len(c)
         /\ Len(c) = 0 => 1 .. Len(c) = {}
BY SMT

\* A write that is sent comes last.
LEMMA LacksAppend ==
  ASSUME NEW c \in Seq(Message), NEW m \in Message, NEW k
  PROVE  Lacks(Append(c, m), k) <=> Lacks(c, k) /\ m.key # k
<1>1. /\ Len(c) \in Nat /\ Len(Append(c, m)) = Len(c) + 1
      /\ \A i \in 1 .. Len(c) : Append(c, m)[i] = c[i]
      /\ Append(c, m)[Len(c) + 1] = m
  BY SeqElements
<1> QED
  BY SMT, <1>1 DEF Lacks

\* The write that is executed is the first.
LEMMA LacksTail ==
  ASSUME NEW c \in Seq(Message), c # <<>>, NEW k
  PROVE  Lacks(c, k) <=> Lacks(Tail(c), k) /\ Head(c).key # k
<1>1. /\ Len(c) \in Nat /\ Len(c) >= 1 /\ Len(Tail(c)) = Len(c) - 1 /\ Head(c) = c[1]
      /\ \A i \in 1 .. Len(Tail(c)) : Tail(c)[i] = c[i + 1]
  BY SMT
<1>2. ASSUME Lacks(Tail(c), k), Head(c).key # k, NEW i \in 1 .. Len(c)
      PROVE  c[i].key # k
  <2>1. CASE i = 1
    BY <2>1, <1>1, <1>2
  <2>2. CASE i # 1
    <3>1. i - 1 \in 1 .. Len(Tail(c)) /\ Tail(c)[i - 1] = c[i]
      BY SMT, <2>2, <1>1
    <3> QED
      BY <3>1, <1>2 DEF Lacks
  <2> QED
    BY <2>1, <2>2
<1>3. ASSUME Lacks(c, k)
      PROVE  Lacks(Tail(c), k) /\ Head(c).key # k
  BY SMT, <1>1, <1>3 DEF Lacks
<1> QED
  BY <1>2, <1>3 DEF Lacks

\* Sending a write makes its value the one that the other server ends with.
LEMMA EndsAppend ==
  ASSUME NEW c \in Seq(Message), NEW m \in Message, NEW k, NEW a, NEW b
  PROVE  /\ m.key = k => Ends(Append(c, m), k, a, m.val)
         /\ m.key # k /\ Ends(c, k, a, b) => Ends(Append(c, m), k, a, b)
<1> DEFINE d == Append(c, m)
<1>1. /\ Len(c) \in Nat /\ Len(d) = Len(c) + 1
      /\ \A i \in 1 .. Len(c) : d[i] = c[i]
      /\ d[Len(c) + 1] = m
  BY SeqElements
<1> HIDE DEF d
<1>2. ASSUME m.key = k
      PROVE  Ends(d, k, a, m.val)
  <2>1. Len(d) \in 1 .. Len(d) /\ d[Len(d)] = m /\ (Len(d) + 1) .. Len(d) = {}
    BY SMT, <1>1
  <2> QED
    BY <2>1, <1>2 DEF Ends
<1>3. ASSUME m.key # k, Ends(c, k, a, b)
      PROVE  Ends(d, k, a, b)
  <2>1. CASE a = b /\ Lacks(c, k)
    BY SMT, <2>1, <1>1, <1>3 DEF Ends, Lacks
  <2>2. CASE \E i \in 1 .. Len(c) :
               c[i].key = k /\ c[i].val = b /\ \A j \in (i + 1) .. Len(c) : c[j].key # k
    <3>1. PICK i \in 1 .. Len(c) :
               c[i].key = k /\ c[i].val = b /\ \A j \in (i + 1) .. Len(c) : c[j].key # k
      BY <2>2
    <3>2. i \in 1 .. Len(d) /\ d[i] = c[i]
      BY SMT, <1>1
    <3>3. ASSUME NEW j \in (i + 1) .. Len(d)
          PROVE  d[j].key # k
      <4>1. CASE j = Len(d)
        BY <4>1, <1>1, <1>3
      <4>2. CASE j # Len(d)
        <5>1. j \in (i + 1) .. Len(c) /\ j \in 1 .. Len(c)
          BY SMT, <4>2, <1>1
        <5> QED
          BY <5>1, <1>1, <3>1
      <4> QED
        BY <4>1, <4>2
    <3> QED
      BY <3>1, <3>2, <3>3 DEF Ends
  <2> QED
    BY <2>1, <2>2, <1>3 DEF Ends
<1> QED
  BY <1>2, <1>3 DEF d

\* Executing the next write does not change what the server ends with.
LEMMA EndsTail ==
  ASSUME NEW c \in Seq(Message), c # <<>>, NEW k, NEW a, NEW b, Ends(c, k, a, b)
  PROVE  /\ Head(c).key = k => Ends(Tail(c), k, Head(c).val, b)
         /\ Head(c).key # k => Ends(Tail(c), k, a, b)
<1> DEFINE d == Tail(c)
<1>1. /\ Len(c) \in Nat /\ Len(c) >= 1 /\ Len(d) = Len(c) - 1 /\ Head(c) = c[1]
      /\ \A i \in 1 .. Len(d) : d[i] = c[i + 1]
  BY SMT
<1> HIDE DEF d
<1>2. CASE a = b /\ Lacks(c, k)
  <2>1. c[1].key # k /\ Lacks(d, k)
    BY SMT, <1>1, <1>2 DEF Lacks
  <2> QED
    BY <2>1, <1>1, <1>2 DEF Ends, d
<1>3. CASE \E i \in 1 .. Len(c) :
             c[i].key = k /\ c[i].val = b /\ \A j \in (i + 1) .. Len(c) : c[j].key # k
  <2>1. PICK i \in 1 .. Len(c) :
             c[i].key = k /\ c[i].val = b /\ \A j \in (i + 1) .. Len(c) : c[j].key # k
    BY <1>3
  <2>2. CASE i = 1
    <3>1. Lacks(d, k)
      BY SMT, <2>1, <2>2, <1>1 DEF Lacks
    <3> QED
      BY <3>1, <2>1, <2>2, <1>1 DEF Ends, d
  <2>3. CASE i # 1
    <3>1. i - 1 \in 1 .. Len(d) /\ d[i - 1] = c[i]
      BY SMT, <2>3, <1>1
    <3>2. \A j \in i .. Len(d) : d[j].key # k
      BY SMTT(20), <2>1, <2>3, <1>1
    <3>3. (i - 1) + 1 = i
      BY SMT
    <3>4. \A x : Ends(d, k, x, b)
      BY <2>1, <3>1, <3>2, <3>3 DEF Ends
    <3> QED
      BY <3>4 DEF d
  <2> QED
    BY <2>2, <2>3
<1> QED
  BY <1>2, <1>3 DEF Ends

\* Without writes of its keys in flight nothing is out of order.
LEMMA InOrderLacks ==
  ASSUME NEW c, NEW u, NEW a, NEW b, Lacks(c, ColorKey(u)), Lacks(c, StatusKey(u))
  PROVE  InOrder(c, u, a, b)
BY DEF InOrder, Lacks

\* A colour is sent with the value at home, a status after the colour.
LEMMA InOrderAppend ==
  ASSUME NEW c \in Seq(Message), NEW m \in Message, NEW u, NEW a, NEW b, InOrder(c, u, a,
         b),
         m.key = ColorKey(u) => m.val = b,
         m.key = StatusKey(u) => m.val = 1 /\ (a = b \/ ~Lacks(c, ColorKey(u)))
  PROVE  InOrder(Append(c, m), u, a, b)
<1> DEFINE d == Append(c, m)
<1>1. /\ Len(c) \in Nat /\ Len(d) = Len(c) + 1
      /\ \A i \in 1 .. Len(c) : d[i] = c[i]
      /\ d[Len(c) + 1] = m
  BY SeqElements
<1> HIDE DEF d
<1>2. ASSUME NEW i \in 1 .. Len(d)
      PROVE  /\ d[i].key = ColorKey(u) => d[i].val = b
             /\ d[i].key = StatusKey(u) =>
                   d[i].val = 1 /\ (a = b \/ \E j \in 1 .. (i - 1) : d[j].key = ColorKey(u))
  <2>1. CASE i = Len(d)
    <3>1. d[i] = m /\ i - 1 = Len(c)
      BY SMT, <2>1, <1>1
    <3>2. ~Lacks(c, ColorKey(u)) => \E j \in 1 .. Len(c) : d[j].key = ColorKey(u)
      BY <1>1 DEF Lacks
    <3> QED
      BY <3>1, <3>2
  <2>2. CASE i # Len(d)
    <3>1. i \in 1 .. Len(c) /\ d[i] = c[i] /\ \A j \in 1 .. (i - 1) : d[j] = c[j]
      BY SMT, <2>2, <1>1
    <3> QED
      BY <3>1 DEF InOrder
  <2> QED
    BY <2>1, <2>2
<1> QED
  BY <1>2 DEF InOrder, d

\* Executing the next write keeps the order; a status finds the colour in place.
LEMMA InOrderTail ==
  ASSUME NEW c \in Seq(Message), c # <<>>, NEW u \in Nat, NEW a, NEW b, InOrder(c, u, a,
         b)
  PROVE  /\ Head(c).key = ColorKey(u) => Head(c).val = b /\ InOrder(Tail(c), u, b, b)
         /\ Head(c).key = StatusKey(u) => Head(c).val = 1 /\ a = b
         /\ Head(c).key # ColorKey(u) => InOrder(Tail(c), u, a, b)
<1> DEFINE d == Tail(c)
<1>1. /\ Len(c) \in Nat /\ Len(c) >= 1 /\ Len(d) = Len(c) - 1 /\ Head(c) = c[1]
      /\ \A i \in 1 .. Len(d) : d[i] = c[i + 1]
  BY SMT
<1> HIDE DEF d
<1>2. /\ c[1].key = ColorKey(u) => c[1].val = b
      /\ c[1].key = StatusKey(u) => c[1].val = 1 /\ a = b
  <2>1. 1 \in 1 .. Len(c) /\ 1 .. (1 - 1) = {}
    BY SMT, <1>1
  <2> QED
    BY <2>1 DEF InOrder
<1>3. ASSUME NEW x, x = b \/ (x = a /\ c[1].key # ColorKey(u))
      PROVE  InOrder(d, u, x, b)
  <2>1. ASSUME NEW i \in 1 .. Len(d)
        PROVE  /\ d[i].key = ColorKey(u) => d[i].val = b
               /\ d[i].key = StatusKey(u) =>
                   d[i].val = 1 /\ (x = b \/ \E j \in 1 .. (i - 1) : d[j].key = ColorKey(u))
    <3>1. i + 1 \in 1 .. Len(c) /\ d[i] = c[i + 1] /\ (i + 1) - 1 = i
      BY SMT, <1>1
    <3>2. /\ c[i + 1].key = ColorKey(u) => c[i + 1].val = b
          /\ c[i + 1].key = StatusKey(u) =>
                c[i + 1].val = 1 /\ (a = b \/ \E j \in 1 .. i : c[j].key = ColorKey(u))
      BY <3>1 DEF InOrder
    <3>3. ASSUME NEW j \in 1 .. i, c[j].key = ColorKey(u), c[1].key # ColorKey(u)
          PROVE  \E l \in 1 .. (i - 1) : d[l].key = ColorKey(u)
      <4>1. j - 1 \in 1 .. (i - 1) /\ j - 1 \in 1 .. Len(d) /\ (j - 1) + 1 = j
        BY SMT, <3>3, <1>1
      <4>2. d[j - 1] = c[j]
        BY <4>1, <1>1
      <4> QED
        BY <4>1, <4>2, <3>3
    <3> QED
      BY <1>3, <3>1, <3>2, <3>3
  <2> QED
    BY <2>1 DEF InOrder
<1> QED
  BY <1>1, <1>2, <1>3 DEF d

-----------------------------------------------------------------------------
(* Facts about the choices of the client. *)

\* What the proofs use of finite sets and of least numbers.  It is a hypothesis up to
\* the end of this module, where NatLemmas is included and proves it: every proof that
\* sees the library takes several times as long.
FiniteFacts ==
    /\ IsFiniteSet({})
    /\ \A S, e : IsFiniteSet(S) => IsFiniteSet(S \cup {e})
    /\ \A S \in SUBSET Nat : S # {} => Least(S) \in S
    /\ \A S : IsFiniteSet(S) => LeastFree(S) \in Nat /\ LeastFree(S) \notin S
    /\ \A S, T : \A e \in T : \A n \in Nat :
          /\ IsFiniteSet(T) /\ S \subseteq T \ {e}
          /\ n >= Cardinality(T) - 1 /\ Cardinality(S) >= n
          => S = T \ {e}

\* There is a next neighbour, and a first lock to release.
LEMMA LeastIs ==
  ASSUME FiniteFacts, NEW S \in SUBSET Nat, S # {}
  PROVE  Least(S) \in S
BY DEF FiniteFacts

\* getMinimalValueNotInArray finds a colour that is not in the array.
LEMMA LeastFreeIs ==
  ASSUME FiniteFacts, NEW S, IsFiniteSet(S)
  PROVE  LeastFree(S) \in Nat /\ LeastFree(S) \notin S
BY DEF FiniteFacts

-----------------------------------------------------------------------------
(* Types and positions. *)

\* The two halves of TypeOK: the servers and the clients.
StoreOK ==
    /\ home \in [Proc -> Servers]
    /\ db \in [Servers -> [Keys -> Value]]
    /\ DOMAIN chan = Servers
    /\ \A s \in Servers : chan[s] \in [Servers \ {s} -> Seq(Message)]

LocalOK ==
    /\ monitor \in [Proc -> {Nil, 1}]
    /\ pc \in [Proc -> PCs]
    /\ cur \in [Proc -> Nat]
    /\ node \in [Proc -> Node \cup {Nil}]
    /\ todo \in [Proc -> SUBSET Node]
    /\ nbr \in [Proc -> Node \cup {Nil}]
    /\ seen \in [Proc -> SUBSET Value]
    /\ locks \in [Proc -> SUBSET Node]
    /\ otherFlag \in [Proc -> Value]
    /\ turnNew \in [Proc -> Value]
    /\ waiting \in [Proc -> BOOLEAN]
    /\ retries \in [Proc -> Nat]
    /\ conn \in [Proc -> BOOLEAN]

\* TypeOK consists of these two.
LEMMA TypeParts == TypeOK <=> StoreOK /\ LocalOK
BY DEF TypeOK, StoreOK, LocalOK

\* TypeOK is inductive together with the positions, which say that the keys used by
\* the commands exist.
TypePos == FiniteFacts /\ TypeOK /\ PositionInv

\* A step that client r takes, and the local state of a client q that does not change.
StepOf(r) == Step(r) \/ WaitTimesOut(r) \/ Fail(r) \/ ReportAfterLoss(r)

Same(q) ==
    /\ pc'[q] = pc[q] /\ cur'[q] = cur[q] /\ node'[q] = node[q]
    /\ todo'[q] = todo[q] /\ nbr'[q] = nbr[q] /\ seen'[q] = seen[q]
    /\ locks'[q] = locks[q] /\ otherFlag'[q] = otherFlag[q]
    /\ turnNew'[q] = turnNew[q] /\ waiting'[q] = waiting[q]

\* The initial state has the types and the positions.
LEMMA TypePosInit ==
  ASSUME FiniteFacts, Init
  PROVE  TypePos
<1>1. StoreOK
  BY SMT, SyncAssumption DEF Init, StoreOK, Value, Nil
<1>2. LocalOK
  <2>1. First \in [Proc -> Nat]
    BY SyncAssumption, NbrFacts
  <2> QED
    BY <2>1 DEF Init, LocalOK, Value, Nil, PCs
<1>3. PositionInv
  <2> SUFFICES ASSUME NEW p \in Proc
               PROVE  Position(p)
    BY DEF PositionInv
  <2>1. First[p] <= cur[p]
    BY SMT, RangeFacts DEF Init
  <2>2. IsFiniteSet(seen[p])
    BY DEF Init, FiniteFacts
  <2> QED
    BY <2>1, <2>2 DEF Init, Position, WorkPC, ReadPC, LockPC
<1> QED
  BY <1>1, <1>2, <1>3, TypeParts DEF TypePos

\* What a client at work knows of its node and its neighbours.
LEMMA PositionFacts ==
  ASSUME TypePos, NEW p \in Proc, pc[p] \in WorkPC
  PROVE  /\ node[p] \in Node /\ node[p] \in Nat /\ node[p] = cur[p]
         /\ node[p] \in First[p] .. Last[p] /\ ~External(p, node[p])
         /\ Nbr[node[p]] \subseteq Node /\ locks[p] \subseteq Nbr[node[p]]
         /\ \A n \in locks[p] : External(p, n)
         /\ todo[p] \subseteq Nbr[node[p]]
         /\ pc[p] \in ReadPC \ {"pick"} => nbr[p] \in Nbr[node[p]] /\ nbr[p] \in Node
<1>1. Position(p) /\ cur[p] \in Nat
  BY DEF TypePos, PositionInv, TypeOK
<1>2. node[p] = cur[p] /\ node[p] \in First[p] .. Last[p]
  BY SMT, <1>1, RangeFacts DEF Position
<1>3. node[p] \in Node /\ node[p] \in Nat /\ ~External(p, node[p])
  BY <1>2, RangeFacts
<1>4. Nbr[node[p]] \subseteq Node
  BY <1>3, NbrFacts
<1> QED
  BY <1>1, <1>2, <1>3, <1>4 DEF Position

\* What the five writes write.
LEMMA WrittenIs ==
  ASSUME TypePos, NEW p \in Proc, pc[p] \in WritePC, pc[p] = "release" => locks[p] # {}
  PROVE  /\ Written(p).key \in Keys /\ Written(p).val \in Value
         /\ pc[p] = "setFlag" => Written(p) = [key |-> FlagKey(node[p], nbr[p]), val |-> 1]
         /\ pc[p] = "setTurn" => Written(p) = [key |-> TurnKey(node[p], nbr[p]), val |-> node[p]]
         /\ pc[p] = "setColor" =>
               Written(p) = [key |-> ColorKey(node[p]), val |-> LeastFree(seen[p])]
         /\ pc[p] = "setStatus" => Written(p) = [key |-> StatusKey(node[p]), val |-> 1]
         /\ pc[p] = "release" =>
               /\ Least(locks[p]) \in locks[p]
               /\ Written(p) = [key |-> FlagKey(node[p], Least(locks[p])), val |-> 0]
<1>1. pc[p] \in WorkPC
  BY DEF WritePC, WorkPC, ReadPC, LockPC
<1>2. /\ node[p] \in Node /\ node[p] \in Nat /\ locks[p] \subseteq Nbr[node[p]]
      /\ Nbr[node[p]] \subseteq Node
      /\ pc[p] \in ReadPC \ {"pick"} => nbr[p] \in Nbr[node[p]]
  BY <1>1, PositionFacts
<1>3. CASE pc[p] = "setFlag"
  <2>1. Written(p) = [key |-> FlagKey(node[p], nbr[p]), val |-> 1]
    BY <1>3 DEF Written
  <2>2. FlagKey(node[p], nbr[p]) \in Keys
    BY <1>2, <1>3, KeysExist DEF ReadPC
  <2> QED
    BY SMT, <1>3, <2>1, <2>2 DEF Value
<1>4. CASE pc[p] = "setTurn"
  <2>1. Written(p) = [key |-> TurnKey(node[p], nbr[p]), val |-> node[p]]
    BY <1>4 DEF Written
  <2>2. TurnKey(node[p], nbr[p]) \in Keys
    BY <1>2, <1>4, KeysExist DEF ReadPC, LockPC
  <2> QED
    BY SMT, <1>2, <1>4, <2>1, <2>2 DEF Value
<1>5. CASE pc[p] = "setColor"
  <2>1. Written(p) = [key |-> ColorKey(node[p]), val |-> LeastFree(seen[p])]
    BY <1>5 DEF Written
  <2>2. ColorKey(node[p]) \in Keys
    BY <1>2, KeysExist
  <2>3. LeastFree(seen[p]) \in Nat
    BY LeastFreeIs DEF TypePos, PositionInv, Position
  <2> QED
    BY SMT, <1>5, <2>1, <2>2, <2>3 DEF Value
<1>6. CASE pc[p] = "setStatus"
  <2>1. Written(p) = [key |-> StatusKey(node[p]), val |-> 1]
    BY <1>6 DEF Written
  <2>2. StatusKey(node[p]) \in Keys
    BY <1>2, KeysExist
  <2> QED
    BY SMT, <1>6, <2>1, <2>2 DEF Value
<1>7. CASE pc[p] = "release"
  <2>1. Written(p) = [key |-> FlagKey(node[p], Least(locks[p])), val |-> 0]
    BY <1>7 DEF Written
  <2>2. Least(locks[p]) \in locks[p]
    BY <1>2, <1>7, LeastIs, NbrFacts DEF TypePos
  <2>3. FlagKey(node[p], Least(locks[p])) \in Keys
    BY <1>2, <2>2, KeysExist
  <2> QED
    BY SMT, <1>7, <2>1, <2>2, <2>3 DEF Value
<1> QED
  BY <1>3, <1>4, <1>5, <1>6, <1>7 DEF WritePC

\* Where the loops go next.
LEMMA PCTypes ==
  /\ \A S : NextNeighbour(S) \in PCs
  /\ \A p : Following(p) \in PCs
BY DEF NextNeighbour, Following, PCs, WorkPC, ReadPC, LockPC

\* What a SET does to the servers.
SetsTo(p, m) ==
    /\ m \in Message /\ m.key = Written(p).key /\ m.val = Written(p).val /\ m.by = p
    /\ \A t \in Servers : \A k \in Keys :
          db'[t][k] = IF t = home[p] /\ k = m.key THEN m.val ELSE db[t][k]
    /\ \A s \in Servers : \A t \in Servers \ {s} :
          chan'[s][t] = IF s = home[p] THEN Append(chan[s][t], m) ELSE chan[s][t]

\* The server of the client gets the value.
LEMMA SetsAtHome ==
  ASSUME TypePos, NEW p \in Proc, NEW m \in Message, SetsTo(p, m)
  PROVE  db'[home[p]][m.key] = m.val
<1>1. home[p] \in Servers /\ m.key \in Keys
  BY DEF TypePos, TypeOK, Message
<1> QED
  BY <1>1 DEF SetsTo

\* The SET of a client writes at its server and is sent to all the others.
LEMMA SetFacts ==
  ASSUME TypePos, NEW p \in Proc, Set(p)
  PROVE  StoreOK' /\ home' = home /\ \E m \in Message : SetsTo(p, m)
<1> DEFINE w == Written(p)
           s == home[p]
           m == [key |-> w.key, val |-> w.val, by |-> p]
           row == [t \in Servers \ {s} |-> Append(chan[s][t], m)]
<1>1. StoreOK /\ s \in Servers
  BY TypeParts DEF TypePos, StoreOK
<1>2. w.key \in Keys /\ w.val \in Value
  BY WrittenIs DEF TypePos, Set
<1>3. /\ db' = [db EXCEPT ![s][w.key] = w.val]
      /\ chan' = [chan EXCEPT ![s] = row] /\ home' = home
  BY DEF Set
<1> HIDE DEF w, s
<1>4. m \in Message
  BY <1>2 DEF Message
<1>5. row \in [Servers \ {s} -> Seq(Message)]
  <2>1. ASSUME NEW t \in Servers \ {s}
        PROVE  Append(chan[s][t], m) \in Seq(Message)
    <3>1. chan[s][t] \in Seq(Message)
      BY <1>1 DEF StoreOK
    <3> HIDE DEF m
    <3> QED
      BY <1>4, <3>1, SeqElements
  <2> QED
    BY <2>1
<1> HIDE DEF m
<1>6. \A x \in Servers : \A t \in Servers \ {x} :
          chan'[x][t] = IF x = s THEN Append(chan[x][t], m) ELSE chan[x][t]
  BY <1>1, <1>3 DEF StoreOK
<1>7. \A t \in Servers : \A k \in Keys :
          db'[t][k] = IF t = s /\ k = w.key THEN w.val ELSE db[t][k]
  BY <1>1, <1>2, <1>3 DEF StoreOK
<1>8. StoreOK'
  <2>1. db' \in [Servers -> [Keys -> Value]]
    BY <1>1, <1>2, <1>3 DEF StoreOK
  <2> HIDE DEF row
  <2>2. DOMAIN chan' = Servers
    BY <1>1, <1>3 DEF StoreOK
  <2>3. \A x \in Servers : chan'[x] \in [Servers \ {x} -> Seq(Message)]
    BY <1>1, <1>3, <1>5 DEF StoreOK
  <2> QED
    BY <1>1, <1>3, <2>1, <2>2, <2>3 DEF StoreOK
<1>9. m.key = w.key /\ m.val = w.val /\ m.by = p
  BY DEF m
<1>10. SetsTo(p, m)
  BY SMT, <1>4, <1>6, <1>7, <1>9 DEF SetsTo, w, s
<1> QED
  BY <1>3, <1>4, <1>8, <1>10

\* What the execution of the next write of s does at t.
AppliesAt(s, t) ==
    LET m == Head(chan[s][t]) IN
    /\ chan[s][t] \in Seq(Message) /\ chan[s][t] # <<>> /\ m \in Message
    /\ \A x \in Servers : \A k \in Keys :
          db'[x][k] = IF x = t /\ k = m.key THEN m.val ELSE db[x][k]
    /\ \A x \in Servers : \A y \in Servers \ {x} :
          chan'[x][y] = IF x = s /\ y = t THEN Tail(chan[s][t]) ELSE chan[x][y]

\* Only the value at t and the channel from s to t change.
LEMMA ApplyFacts ==
  ASSUME TypePos, NEW s \in Servers, NEW t \in Servers \ {s}, Apply(s, t)
  PROVE  StoreOK' /\ home' = home /\ AppliesAt(s, t)
<1> DEFINE c == chan[s][t]
           m == Head(c)
<1>1. StoreOK /\ c \in Seq(Message)
  BY TypeParts DEF TypePos, StoreOK
<1>2. /\ c # <<>> /\ db' = [db EXCEPT ![t][m.key] = m.val]
      /\ chan' = [chan EXCEPT ![s][t] = Tail(c)] /\ home' = home
  BY DEF Apply
<1> HIDE DEF c
<1>3. m \in Message /\ Tail(c) \in Seq(Message)
  BY SMT, <1>1, <1>2
<1> HIDE DEF m
<1>4. m.key \in Keys /\ m.val \in Value
  BY <1>3 DEF Message
<1>5. \A x \in Servers : \A k \in Keys :
          db'[x][k] = IF x = t /\ k = m.key THEN m.val ELSE db[x][k]
  BY <1>1, <1>2, <1>4 DEF StoreOK
<1>6. \A x \in Servers : \A y \in Servers \ {x} :
          chan'[x][y] = IF x = s /\ y = t THEN Tail(c) ELSE chan[x][y]
  BY <1>1, <1>2 DEF StoreOK
<1>7. StoreOK'
  <2>1. db' \in [Servers -> [Keys -> Value]]
    BY <1>1, <1>2, <1>4 DEF StoreOK
  <2>2. DOMAIN chan' = Servers
    BY <1>1, <1>2 DEF StoreOK
  <2>3. \A x \in Servers : chan'[x] \in [Servers \ {x} -> Seq(Message)]
    BY <1>1, <1>2, <1>3 DEF StoreOK
  <2> QED
    BY <1>1, <1>2, <2>1, <2>2, <2>3 DEF StoreOK
<1> QED
  BY <1>1, <1>2, <1>3, <1>5, <1>6, <1>7 DEF AppliesAt, c, m

\* The local state of a client is private.
LEMMA OthersSame ==
  ASSUME TypeOK, NEW r \in Proc, StepOf(r), NEW q \in Proc, q # r
  PROVE  Same(q)
<1> USE DEF TypeOK, Same, At, Goto, client, Shared
<1>1. CASE Start(r)
  BY <1>1 DEF Start
<1>2. CASE ProcessNode(r)
  BY <1>2 DEF ProcessNode
<1>3. CASE PickNeighbour(r)
  BY <1>3 DEF PickNeighbour
<1>4. CASE GetFlag(r)
  BY <1>4 DEF GetFlag
<1>5. CASE GetTurn(r)
  BY <1>5 DEF GetTurn, LoopOrEnter
<1>6. CASE WaitTurn(r)
  BY <1>6 DEF WaitTurn
<1>7. CASE WaitFlag(r)
  BY <1>7 DEF WaitFlag, LoopOrEnter
<1>8. CASE GetColor(r)
  BY <1>8 DEF GetColor
<1>9. CASE Set(r)
  BY <1>9 DEF Set
<1>10. CASE WaitReturns(r)
  BY <1>10 DEF WaitReturns
<1>11. CASE NextNode(r)
  BY <1>11 DEF NextNode
<1>12. CASE Report(r)
  BY <1>12 DEF Report
<1>13. CASE WaitTimesOut(r)
  BY <1>13 DEF WaitTimesOut
<1>14. CASE Fail(r)
  BY <1>14 DEF Fail
<1>15. CASE ReportAfterLoss(r)
  BY <1>15 DEF ReportAfterLoss
<1> QED
  BY <1>1, <1>2, <1>3, <1>4, <1>5, <1>6, <1>7, <1>8, <1>9, <1>10, <1>11, <1>12, <1>13,
     <1>14, <1>15 DEF
     StepOf, Step

\* Replication changes the local state of no client.
LEMMA ApplySame ==
  ASSUME NEW s \in Servers, NEW t \in Servers \ {s}, Apply(s, t), NEW q \in Proc
  PROVE  Same(q)
BY DEF Apply, Same, client

\* Only a SET and the replication change the servers.
LEMMA StoreSame ==
  ASSUME NEW r \in Proc, StepOf(r), ~Set(r)
  PROVE  UNCHANGED <<home, db, chan>>
<1>1. CASE Start(r)
  BY <1>1 DEF Start, Shared
<1>2. CASE ProcessNode(r)
  BY <1>2 DEF ProcessNode, Shared
<1>3. CASE PickNeighbour(r)
  BY <1>3 DEF PickNeighbour, Shared
<1>4. CASE GetFlag(r)
  BY <1>4 DEF GetFlag, Shared
<1>5. CASE GetTurn(r)
  BY <1>5 DEF GetTurn, Shared
<1>6. CASE WaitTurn(r)
  BY <1>6 DEF WaitTurn, Shared
<1>7. CASE WaitFlag(r)
  BY <1>7 DEF WaitFlag, Shared
<1>8. CASE GetColor(r)
  BY <1>8 DEF GetColor, Shared
<1>9. CASE WaitReturns(r)
  BY <1>9 DEF WaitReturns, Shared
<1>10. CASE NextNode(r)
  BY <1>10 DEF NextNode, Shared
<1>11. CASE Report(r)
  BY <1>11 DEF Report, Shared
<1>12. CASE WaitTimesOut(r)
  BY <1>12 DEF WaitTimesOut, Shared
<1>13. CASE Fail(r)
  BY <1>13 DEF Fail, Shared
<1>14. CASE ReportAfterLoss(r)
  BY <1>14 DEF ReportAfterLoss, Shared
<1> QED
  BY <1>1, <1>2, <1>3, <1>4, <1>5, <1>6, <1>7, <1>8, <1>9, <1>10, <1>11, <1>12, <1>13, <1>14 DEF
     StepOf, Step

\* A read of an existing key gives a value.
LEMMA GetValue ==
  ASSUME TypePos, NEW p \in Proc, NEW k \in Keys
  PROVE  Get(p, k) \in Value
BY SMT DEF TypePos, TypeOK, Get

\* The keys read in acquire_lock and by read_color_of_neighbors exist.
LEMMA ReadKeys ==
  ASSUME TypePos, NEW p \in Proc, pc[p] \in ReadPC \ {"pick"}
  PROVE  /\ nbr[p] \in Node /\ ColorKey(nbr[p]) \in Keys
         /\ FlagKey(nbr[p], node[p]) \in Keys /\ TurnKey(node[p], nbr[p]) \in Keys
<1>1. pc[p] \in WorkPC
  BY DEF WorkPC
<1>2. node[p] \in Node /\ nbr[p] \in Nbr[node[p]] /\ nbr[p] \in Node
  BY <1>1, PositionFacts
<1> QED
  BY <1>2, NbrFacts, KeysExist

\* The step of a client keeps the types of the local variables.
LEMMA LocalStep ==
  ASSUME TypePos, NEW r \in Proc, StepOf(r)
  PROVE  LocalOK'
<1> USE DEF LocalOK, At, Goto, client, Shared
<1>1. LocalOK
  BY TypeParts DEF TypePos
<1>2. CASE Start(r)
  BY <1>1, <1>2 DEF Start, PCs
<1>3. CASE ProcessNode(r)
  <2>1. cur[r] \in First[r] .. Last[r]
    BY SMT, <1>1, <1>3, RangeFacts DEF ProcessNode, TypePos, PositionInv, Position
  <2>2. cur[r] \in Node /\ Nbr[cur[r]] \in SUBSET Node
    BY <2>1, RangeFacts, NbrFacts
  <2> QED
    BY <1>1, <1>3, <2>2, PCTypes DEF ProcessNode
<1>4. CASE PickNeighbour(r)
  <2>1. todo[r] # {} /\ todo[r] \in SUBSET Node
    BY <1>1, <1>4 DEF PickNeighbour, TypePos, PositionInv, Position
  <2>2. Least(todo[r]) \in Node
    BY <2>1, LeastIs, NbrFacts DEF TypePos
  <2> DEFINE n == Least(todo[r])
  <2> HIDE DEF n
  <2>3. /\ nbr' = [nbr EXCEPT ![r] = n] /\ todo' = [todo EXCEPT ![r] = @ \ {n}]
        /\ pc' = [pc EXCEPT ![r] = "setFlag"] \/ pc' = [pc EXCEPT ![r] = "getColor"]
        /\ UNCHANGED <<Shared, cur, node, seen, locks, otherFlag, turnNew>>
    BY <1>4 DEF PickNeighbour, n
  <2>4. pc' \in [Proc -> PCs]
    BY <1>1, <2>3 DEF PCs, WorkPC, ReadPC
  <2> QED
    BY <1>1, <2>2, <2>3, <2>4 DEF n
<1>5. CASE GetFlag(r)
  <2>1. Get(r, FlagKey(nbr[r], node[r])) \in Value
    BY <1>5, ReadKeys, GetValue DEF GetFlag, ReadPC, LockPC
  <2> QED
    BY <1>1, <1>5, <2>1 DEF GetFlag, PCs, WorkPC, ReadPC, LockPC
<1>6. CASE GetTurn(r)
  <2>1. Get(r, TurnKey(node[r], nbr[r])) \in Value /\ nbr[r] \in Node
    BY <1>6, ReadKeys, GetValue DEF GetTurn, ReadPC, LockPC
  <2> QED
    BY SMT, <1>1, <1>6, <2>1 DEF GetTurn, LoopOrEnter, PCs, WorkPC, ReadPC, LockPC
<1>7. CASE WaitTurn(r)
  <2>1. Get(r, TurnKey(node[r], nbr[r])) \in Value
    BY <1>7, ReadKeys, GetValue DEF WaitTurn, ReadPC, LockPC
  <2> QED
    BY <1>1, <1>7, <2>1 DEF WaitTurn, PCs, WorkPC, ReadPC, LockPC
<1>8. CASE WaitFlag(r)
  <2>1. Get(r, FlagKey(nbr[r], node[r])) \in Value /\ nbr[r] \in Node
    BY <1>8, ReadKeys, GetValue DEF WaitFlag, ReadPC, LockPC
  <2> QED
    BY SMT, <1>1, <1>8, <2>1 DEF WaitFlag, LoopOrEnter, PCs, WorkPC, ReadPC, LockPC
<1>9. CASE GetColor(r)
  <2>1. Get(r, ColorKey(nbr[r])) \in Value
    BY <1>9, ReadKeys, GetValue DEF GetColor, ReadPC
  <2> QED
    BY <1>1, <1>9, <2>1, PCTypes DEF GetColor
<1>10. CASE Set(r)
  BY <1>1, <1>10 DEF Set
<1>11. CASE WaitReturns(r)
  BY <1>1, <1>11, PCTypes DEF WaitReturns
<1>12. CASE NextNode(r)
  BY SMT, <1>1, <1>12 DEF NextNode, PCs
<1>13. CASE Report(r)
  BY <1>1, <1>13 DEF Report, PCs
<1>14. CASE WaitTimesOut(r)
  BY SMT, <1>1, <1>14 DEF WaitTimesOut
<1>15. CASE Fail(r)
  BY <1>1, <1>15 DEF Fail
<1>16. CASE ReportAfterLoss(r)
  BY <1>1, <1>16 DEF ReportAfterLoss
<1> QED
  BY <1>2, <1>3, <1>4, <1>5, <1>6, <1>7, <1>8, <1>9, <1>10, <1>11, <1>12, <1>13, <1>14,
     <1>15, <1>16 DEF StepOf, Step

\* The position of a client that does not move stays.
LEMMA PositionFrame ==
  ASSUME NEW q \in Proc, Position(q), Same(q)
  PROVE  Position(q)'
BY DEF Position, Same

\* The step of a client keeps its position.
LEMMA PositionStep ==
  ASSUME TypePos, NEW r \in Proc, StepOf(r)
  PROVE  Position(r)'
<1> USE DEF At, Goto, client, Shared, WorkPC, ReadPC, LockPC, WritePC
<1>1. LocalOK /\ Position(r)
  BY TypeParts DEF TypePos, PositionInv
<1> USE DEF LocalOK, Position
<1>2. CASE Start(r)
  BY <1>1, <1>2 DEF Start
<1>3. CASE ProcessNode(r)
  <2>1. cur[r] \in First[r] .. Last[r]
    BY SMT, <1>1, <1>3, RangeFacts DEF ProcessNode
  <2>2. cur[r] \in Node
    BY <2>1, RangeFacts
  <2>3. IsFiniteSet({})
    BY DEF TypePos, FiniteFacts
  <2>4. /\ cur'[r] = cur[r] /\ node'[r] = cur[r] /\ todo'[r] = Nbr[cur[r]] /\ seen'[r] = {}
        /\ locks'[r] = {} /\ pc'[r] = NextNeighbour(Nbr[cur[r]]) /\ waiting'[r] = waiting[r]
        /\ cur[r] <= Last[r] /\ pc[r] = "loop"
    BY <1>1, <1>3 DEF ProcessNode
  <2> QED
    BY <1>1, <2>3, <2>4 DEF NextNeighbour
<1>4. CASE PickNeighbour(r)
  <2> DEFINE n == Least(todo[r])
  <2>1. n \in todo[r]
    BY <1>1, <1>4, LeastIs, NbrFacts DEF PickNeighbour, TypePos
  <2>2. \/ pc'[r] = "setFlag" /\ External(r, n)
        \/ pc'[r] = "getColor"
    BY <1>1, <1>4 DEF PickNeighbour
  <2>3. /\ nbr'[r] = n /\ todo'[r] = todo[r] \ {n} /\ cur'[r] = cur[r] /\ node'[r] = node[r]
        /\ seen'[r] = seen[r] /\ locks'[r] = locks[r] /\ waiting'[r] = waiting[r]
        /\ pc[r] = "pick"
    BY <1>1, <1>4 DEF PickNeighbour
  <2> HIDE DEF n
  <2> QED
    BY <1>1, <2>1, <2>2, <2>3
<1>5. CASE GetFlag(r)
  BY <1>1, <1>5 DEF GetFlag
<1>6. CASE GetTurn(r)
  BY SMT, <1>1, <1>6 DEF GetTurn, LoopOrEnter
<1>7. CASE WaitTurn(r)
  BY <1>1, <1>7 DEF WaitTurn
<1>8. CASE WaitFlag(r)
  BY SMT, <1>1, <1>8 DEF WaitFlag, LoopOrEnter
<1>9. CASE GetColor(r)
  <2>1. IsFiniteSet(seen[r] \cup {Get(r, ColorKey(nbr[r]))})
    BY <1>1 DEF TypePos, FiniteFacts
  <2>2. /\ seen'[r] = seen[r] \cup {Get(r, ColorKey(nbr[r]))}
        /\ pc'[r] = NextNeighbour(todo[r]) /\ pc[r] = "getColor"
        /\ cur'[r] = cur[r] /\ node'[r] = node[r] /\ todo'[r] = todo[r] /\ nbr'[r] = nbr[r]
        /\ locks'[r] = locks[r] /\ waiting'[r] = waiting[r]
    BY <1>1, <1>9 DEF GetColor
  <2> QED
    BY <1>1, <2>1, <2>2 DEF NextNeighbour
<1>10. CASE Set(r)
  BY <1>1, <1>10 DEF Set
<1>11. CASE WaitReturns(r)
  <2>1. /\ cur'[r] = cur[r] /\ node'[r] = node[r] /\ todo'[r] = todo[r] /\ nbr'[r] = nbr[r]
        /\ seen'[r] = seen[r] /\ ~waiting'[r] /\ pc'[r] = Following(r) /\ waiting[r]
        /\ locks'[r] \subseteq locks[r] /\ (pc[r] # "release" => locks'[r] = locks[r])
    BY <1>1, <1>11 DEF WaitReturns
  <2> QED
    BY <1>1, <2>1 DEF Following
<1>12. CASE NextNode(r)
  BY SMT, <1>1, <1>12, RangeFacts DEF NextNode
<1>13. CASE Report(r)
  BY <1>1, <1>13 DEF Report
<1>14. CASE WaitTimesOut(r)
  BY <1>1, <1>14 DEF WaitTimesOut
<1>15. CASE Fail(r)
  BY <1>1, <1>15 DEF Fail
<1>16. CASE ReportAfterLoss(r)
  BY <1>1, <1>16 DEF ReportAfterLoss
<1> QED
  BY <1>2, <1>3, <1>4, <1>5, <1>6, <1>7, <1>8, <1>9, <1>10, <1>11, <1>12, <1>13, <1>14,
     <1>15, <1>16 DEF StepOf, Step

\* Types and positions are kept by every step.
LEMMA TypePosStep == TypePos /\ [Next]_vars => TypePos'
<1> SUFFICES ASSUME TypePos, [Next]_vars
             PROVE  TypePos'
  OBVIOUS
<1>1. CASE UNCHANGED vars
  BY <1>1 DEF TypePos, TypeOK, PositionInv, Position, vars, client
<1>2. ASSUME NEW r \in Proc, StepOf(r)
      PROVE  TypePos'
  <2>1. StoreOK'
    <3>1. CASE Set(r)
      BY <3>1, SetFacts
    <3>2. CASE ~Set(r)
      BY <3>2, <1>2, StoreSame, TypeParts DEF TypePos, StoreOK
    <3> QED
      BY <3>1, <3>2
  <2>2. LocalOK'
    BY <1>2, LocalStep
  <2>3. ASSUME NEW q \in Proc
        PROVE  Position(q)'
    <3>1. CASE q = r
      BY <3>1, <1>2, PositionStep
    <3>2. CASE q # r
      BY <3>2, <1>2, OthersSame, PositionFrame DEF TypePos, PositionInv
    <3> QED
      BY <3>1, <3>2
  <2> QED
    BY <2>1, <2>2, <2>3 DEF TypePos, TypeOK, StoreOK, LocalOK, PositionInv
<1>3. ASSUME NEW s \in Servers, NEW t \in Servers \ {s}, Apply(s, t)
      PROVE  TypePos'
  <2>1. StoreOK'
    BY <1>3, ApplyFacts
  <2>2. LocalOK'
    BY <1>3, TypeParts DEF TypePos, LocalOK, Apply, client
  <2>3. ASSUME NEW q \in Proc
        PROVE  Position(q)'
    BY <1>3, ApplySame, PositionFrame DEF TypePos, PositionInv
  <2> QED
    BY <2>1, <2>2, <2>3 DEF TypePos, TypeOK, StoreOK, LocalOK, PositionInv
<1> QED
  BY <1>1, <1>2, <1>3 DEF Next, StepOf

-----------------------------------------------------------------------------
(* What is in flight. *)

\* Which write has a given key.
LEMMA WrittenKeys ==
  ASSUME TypePos, NEW p \in Proc, pc[p] \in WritePC, pc[p] = "release" => locks[p] # {},
         NEW u \in Node
  PROVE  LET w == Written(p) IN
         /\ w.key = ColorKey(u) =>
               pc[p] = "setColor" /\ node[p] = u /\ w.val = LeastFree(seen[p])
         /\ w.key = StatusKey(u) => pc[p] = "setStatus" /\ node[p] = u /\ w.val = 1
         /\ \A v \in Nbr[u] : w.key = FlagKey(u, v) =>
               /\ node[p] = u
               /\ \/ pc[p] = "setFlag" /\ v = nbr[p] /\ w.val = 1
                  \/ pc[p] = "release" /\ v \in locks[p] /\ v = Least(locks[p])
         /\ \A v \in Nbr[u] : w.key = TurnKey(u, v) =>
               /\ pc[p] = "setTurn" /\ w.val = node[p]
               /\ (node[p] = u /\ nbr[p] = v) \/ (node[p] = v /\ nbr[p] = u)
         /\ w.key \in OwnKeys(u) => ~External(p, u)
<1> DEFINE w == Written(p)
           a == node[p]
           b == nbr[p]
           l == Least(locks[p])
<1>1. pc[p] \in WorkPC
  BY DEF WritePC, WorkPC, ReadPC, LockPC
<1>2. /\ a \in Node /\ a \in Nat /\ locks[p] \subseteq Nbr[a] /\ Nbr[a] \subseteq Nat
      /\ pc[p] \in ReadPC \ {"pick"} => b \in Nbr[a]
      /\ u \in Nat /\ Nbr[u] \subseteq Nat /\ ~External(p, a)
  BY <1>1, PositionFacts, NbrFacts
<1>3. \/ pc[p] = "setFlag" /\ b \in Nbr[a] /\ w.key = FlagKey(a, b) /\ w.val = 1
      \/ pc[p] = "setTurn" /\ b \in Nbr[a] /\ w.key = TurnKey(a, b) /\ w.val = a
      \/ pc[p] = "setColor" /\ w.key = ColorKey(a) /\ w.val = LeastFree(seen[p])
      \/ pc[p] = "setStatus" /\ w.key = StatusKey(a) /\ w.val = 1
      \/ pc[p] = "release" /\ l \in locks[p] /\ w.key = FlagKey(a, l)
  <2>1. CASE pc[p] = "setFlag"
    BY SMTT(20), <2>1, <1>2, WrittenIs DEF ReadPC
  <2>2. CASE pc[p] = "setTurn"
    BY SMTT(20), <2>2, <1>2, WrittenIs DEF ReadPC, LockPC
  <2>3. CASE pc[p] = "setColor"
    BY SMTT(20), <2>3, WrittenIs
  <2>4. CASE pc[p] = "setStatus"
    BY SMTT(20), <2>4, WrittenIs
  <2>5. CASE pc[p] = "release"
    BY SMTT(20), <2>5, WrittenIs
  <2> QED
    BY <2>1, <2>2, <2>3, <2>4, <2>5 DEF WritePC
<1> HIDE DEF w, a, b, l
<1>4. CASE pc[p] = "setFlag" /\ b \in Nbr[a] /\ w.key = FlagKey(a, b) /\ w.val = 1
  <2>1. b \in Nat
    BY <1>2, <1>4
  <2>2. w.key \in OwnKeys(u) => u = a
    BY SMTT(20), <1>2, <1>4, OwnKeysDiffer
  <2> QED
    BY SMT, <1>2, <1>4, <2>1, <2>2, KeysDiffer DEF w, a, b
<1>5. CASE pc[p] = "setTurn" /\ b \in Nbr[a] /\ w.key = TurnKey(a, b) /\ w.val = a
  <2>1. b \in Nat
    BY <1>2, <1>5
  <2>2. w.key \notin OwnKeys(u)
    BY SMTT(20), <1>2, <1>5, OwnKeysDiffer
  <2> QED
    BY SMT, <1>2, <1>5, <2>1, <2>2, KeysDiffer DEF w, a, b
<1>6. CASE pc[p] = "setColor" /\ w.key = ColorKey(a) /\ w.val = LeastFree(seen[p])
  <2>1. w.key \in OwnKeys(u) => u = a
    BY SMTT(20), <1>2, <1>6, OwnKeysDiffer
  <2> QED
    BY SMTT(20), <1>2, <1>6, <2>1, KeysDiffer DEF w, a
<1>7. CASE pc[p] = "setStatus" /\ w.key = StatusKey(a) /\ w.val = 1
  <2>1. w.key \in OwnKeys(u) => u = a
    BY SMTT(20), <1>2, <1>7, OwnKeysDiffer
  <2> QED
    BY SMTT(20), <1>2, <1>7, <2>1, KeysDiffer DEF w, a
<1>8. CASE pc[p] = "release" /\ l \in locks[p] /\ w.key = FlagKey(a, l)
  <2>1. l \in Nat /\ l \in Nbr[a]
    BY <1>2, <1>8
  <2>2. w.key \in OwnKeys(u) => u = a
    BY SMT, <1>2, <1>8, <2>1, OwnKeysDiffer
  <2> QED
    BY SMT, <1>2, <1>8, <2>1, <2>2, KeysDiffer DEF w, a, l
<1> QED
  BY <1>3, <1>4, <1>5, <1>6, <1>7, <1>8

\* A node has one owner.
LEMMA OneOwner ==
  ASSUME NEW p \in Proc, NEW u \in First[p] .. Last[p], NEW q \in Proc, ~External(q, u)
  PROVE  q = p
BY RangeFacts, DisjointRanges

\* A SET by p of a key of u is by the owner of u.
LEMMA SetByOwner ==
  ASSUME TypePos, NEW p \in Proc, Set(p), NEW m, SetsTo(p, m),
         NEW q \in Proc, NEW u \in First[q] .. Last[q], m.key \in OwnKeys(u)
  PROVE  p = q
<1>1. u \in Node
  BY RangeFacts
<1>2. ~External(p, u)
  BY <1>1, WrittenKeys DEF Set, SetsTo
<1> QED
  BY <1>2, OneOwner

\* So is the execution of such a write, which comes from the home of the owner.
LEMMA ApplyFromOwner ==
  ASSUME TypePos, SenderInv, NEW s \in Servers, NEW t \in Servers \ {s}, AppliesAt(s, t),
         NEW q \in Proc, NEW u \in First[q] .. Last[q], Head(chan[s][t]).key \in OwnKeys(u)
  PROVE  s = home[q]
<1> DEFINE c == chan[s][t]
<1>1. c \in Seq(Message) /\ c # <<>>
  BY DEF AppliesAt
<1>2. Head(c) = c[1] /\ 1 \in 1 .. Len(c) /\ c[1].by \in Proc
  <2>1. Head(c) = c[1] /\ 1 \in 1 .. Len(c) /\ c[1] \in Message
    BY SMT, <1>1
  <2> QED
    BY <2>1 DEF Message
<1>3. home[c[1].by] = s /\ \A x \in Node : c[1].key \in OwnKeys(x) => ~External(c[1].by, x)
  BY <1>2 DEF SenderInv
<1>4. u \in Node
  BY RangeFacts
<1>5. c[1].by = q
  BY <1>2, <1>3, <1>4, OneOwner
<1> QED
  BY <1>3, <1>5

\* SenderInv is kept by a SET.
LEMMA SenderSet ==
  ASSUME TypePos, SenderInv, NEW p \in Proc, Set(p), home' = home,
         NEW m \in Message, SetsTo(p, m)
  PROVE  SenderInv'
<1> SUFFICES ASSUME NEW s \in Servers, NEW t \in Servers \ {s}, NEW i \in 1 .. Len(chan'[s][t])
             PROVE  /\ home[chan'[s][t][i].by] = s
                    /\ \A u \in Node : chan'[s][t][i].key \in OwnKeys(u) =>
                          ~External(chan'[s][t][i].by, u)
  BY SMT DEF SenderInv
<1> DEFINE c == chan[s][t]
           d == chan'[s][t]
<1>1. c \in Seq(Message)
  BY DEF TypePos, TypeOK
<1>2. \A j \in 1 .. Len(c) : /\ home[c[j].by] = s
                             /\ \A u \in Node : c[j].key \in OwnKeys(u) => ~External(c[j].by, u)
  BY DEF SenderInv
<1>3. d = IF s = home[p] THEN Append(c, m) ELSE c
  BY DEF SetsTo
<1>4. m.by = p /\ \A u \in Node : m.key \in OwnKeys(u) => ~External(p, u)
  BY WrittenKeys DEF Set, SetsTo
<1> HIDE DEF c, d
<1>5. CASE s = home[p]
  <2>1. /\ Len(c) \in Nat /\ Len(d) = Len(c) + 1
        /\ \A j \in 1 .. Len(c) : d[j] = c[j]
        /\ d[Len(c) + 1] = m
    BY SMT, <1>1, <1>3, <1>5, SeqElements
  <2>2. i \in 1 .. Len(d)
    BY DEF d
  <2>3. CASE i = Len(c) + 1
    BY <2>1, <2>3, <1>4, <1>5 DEF d
  <2>4. CASE i # Len(c) + 1
    <3>1. i \in 1 .. Len(c) /\ d[i] = c[i]
      BY SMT, <2>1, <2>2, <2>4
    <3> QED
      BY <3>1, <1>2 DEF d
  <2> QED
    BY <2>3, <2>4
<1>6. CASE s # home[p]
  <2>1. chan'[s][t] = c
    BY <1>3, <1>6 DEF d
  <2> QED
    BY <2>1, <1>2
<1> QED
  BY <1>5, <1>6

\* SenderInv is kept by the execution of a write.
LEMMA SenderApply ==
  ASSUME TypePos, SenderInv, NEW x \in Servers, NEW y \in Servers \ {x}, home' = home,
         AppliesAt(x, y)
  PROVE  SenderInv'
<1> SUFFICES ASSUME NEW s \in Servers, NEW t \in Servers \ {s}, NEW i \in 1 .. Len(chan'[s][t])
             PROVE  /\ home[chan'[s][t][i].by] = s
                    /\ \A u \in Node : chan'[s][t][i].key \in OwnKeys(u) =>
                          ~External(chan'[s][t][i].by, u)
  BY SMT DEF SenderInv
<1> DEFINE c == chan[s][t]
           d == chan'[s][t]
<1>1. c \in Seq(Message)
  BY DEF TypePos, TypeOK
<1>2. \A j \in 1 .. Len(c) : /\ home[c[j].by] = s
                             /\ \A u \in Node : c[j].key \in OwnKeys(u) => ~External(c[j].by, u)
  BY DEF SenderInv
<1>3. d = c \/ (d = Tail(c) /\ c # <<>>)
  BY DEF AppliesAt
<1> HIDE DEF c, d
<1>4. \E j \in 1 .. Len(c) : d[i] = c[j]
  <2>1. CASE d = c
    BY <2>1 DEF d
  <2>2. CASE d = Tail(c) /\ c # <<>>
    <3>1. Len(d) = Len(c) - 1 /\ Len(c) \in Nat /\ \A j \in 1 .. Len(d) : d[j] = c[j + 1]
      BY SMT, <2>2, <1>1
    <3>2. i \in 1 .. Len(d)
      BY DEF d
    <3>3. i + 1 \in 1 .. Len(c) /\ d[i] = c[i + 1]
      BY SMT, <3>1, <3>2
    <3> QED
      BY <3>3
  <2> QED
    BY <1>3, <2>1, <2>2
<1> QED
  BY <1>2, <1>4 DEF d

\* DeliveryInv is kept by a SET.
LEMMA DeliverySet ==
  ASSUME TypePos, DeliveryInv, NEW p \in Proc, Set(p), home' = home,
         NEW m \in Message, SetsTo(p, m)
  PROVE  DeliveryInv'
<1> SUFFICES ASSUME NEW q \in Proc, NEW u \in First[q] .. Last[q], NEW k \in OwnKeys(u),
                    NEW t \in Servers \ {home[q]}
             PROVE  Ends(chan'[home[q]][t], k, db'[t][k], db'[home[q]][k])
  BY DEF DeliveryInv
<1> DEFINE s == home[q]
           c == chan[s][t]
<1>1. s \in Servers /\ c \in Seq(Message) /\ k \in Keys
  <2>1. s \in Servers
    BY DEF TypePos, TypeOK
  <2>2. k \in Keys
    BY RangeFacts, KeysExist
  <2> QED
    BY <2>1, <2>2 DEF TypePos, TypeOK
<1>2. Ends(c, k, db[t][k], db[s][k])
  BY DEF DeliveryInv
<1>3. /\ chan'[s][t] = IF s = home[p] THEN Append(c, m) ELSE c
      /\ db'[t][k] = IF t = home[p] /\ k = m.key THEN m.val ELSE db[t][k]
      /\ db'[s][k] = IF s = home[p] /\ k = m.key THEN m.val ELSE db[s][k]
  BY <1>1 DEF SetsTo
<1>4. k = m.key => p = q
  BY SMT, SetByOwner
<1> HIDE DEF c
<1>5. CASE s # home[p]
  BY <1>2, <1>3, <1>4, <1>5
<1>6. CASE s = home[p]
  <2>1. db'[t][k] = db[t][k] /\ chan'[s][t] = Append(c, m)
    BY <1>3, <1>6
  <2>2. CASE k = m.key
    <3>1. Ends(Append(c, m), k, db[t][k], m.val)
      BY <1>1, <2>2, EndsAppend
    <3> QED
      BY <3>1, <2>1, <2>2, <1>3, <1>6
  <2>3. CASE k # m.key
    <3>1. Ends(Append(c, m), k, db[t][k], db[s][k])
      BY <1>1, <1>2, <2>3, EndsAppend
    <3> QED
      BY <3>1, <2>1, <2>3, <1>3
  <2> QED
    BY <2>2, <2>3
<1> QED
  BY <1>5, <1>6

\* DeliveryInv is kept by the execution of a write.
LEMMA DeliveryApply ==
  ASSUME TypePos, SenderInv, DeliveryInv, NEW x \in Servers, NEW y \in Servers \ {x},
         home' = home, AppliesAt(x, y)
  PROVE  DeliveryInv'
<1> SUFFICES ASSUME NEW q \in Proc, NEW u \in First[q] .. Last[q], NEW k \in OwnKeys(u),
                    NEW t \in Servers \ {home[q]}
             PROVE  Ends(chan'[home[q]][t], k, db'[t][k], db'[home[q]][k])
  BY DEF DeliveryInv
<1> DEFINE s == home[q]
           c == chan[s][t]
           m == Head(chan[x][y])
<1>1. s \in Servers /\ c \in Seq(Message) /\ k \in Keys
  <2>1. s \in Servers
    BY DEF TypePos, TypeOK
  <2>2. k \in Keys
    BY RangeFacts, KeysExist
  <2> QED
    BY <2>1, <2>2 DEF TypePos, TypeOK
<1>2. Ends(c, k, db[t][k], db[s][k])
  BY DEF DeliveryInv
<1>3. /\ chan'[s][t] = IF s = x /\ t = y THEN Tail(c) ELSE c
      /\ db'[t][k] = IF t = y /\ k = m.key THEN m.val ELSE db[t][k]
      /\ db'[s][k] = IF s = y /\ k = m.key THEN m.val ELSE db[s][k]
      /\ chan[x][y] # <<>>
  BY <1>1 DEF AppliesAt
<1>4. k = m.key => x = s
  BY ApplyFromOwner
<1>5. db'[s][k] = db[s][k]
  BY <1>3, <1>4
<1>6. CASE s = x /\ t = y
  <2>1. c = chan[x][y]
    BY <1>6
  <2> HIDE DEF c
  <2>2. /\ Head(c).key = k => Ends(Tail(c), k, Head(c).val, db[s][k])
        /\ Head(c).key # k => Ends(Tail(c), k, db[t][k], db[s][k])
    BY <1>1, <1>2, <1>3, <2>1, EndsTail
  <2> QED
    BY <2>1, <2>2, <1>3, <1>5, <1>6
<1>7. CASE ~(s = x /\ t = y)
  <2>1. chan'[s][t] = c /\ db'[t][k] = db[t][k]
    BY <1>3, <1>4, <1>7
  <2> QED
    BY <2>1, <1>2, <1>5
<1> QED
  BY <1>6, <1>7

\* A SET of another key leaves a key untouched.
LEMMA UntouchedSet ==
  ASSUME TypePos, NEW p \in Proc, NEW m \in Message, SetsTo(p, m),
         NEW k \in Keys, NEW v, Untouched(k, v), m.key # k
  PROVE  Untouched(k, v)'
<1> SUFFICES ASSUME NEW s \in Servers, NEW t \in Servers \ {s}
             PROVE  db'[s][k] = v /\ Lacks(chan'[s][t], k)
  <2>1. \A s \in Servers : db'[s][k] = v
    BY DEF SetsTo, Untouched
  <2> QED
    BY <2>1 DEF Untouched
<1>1. db[s][k] = v /\ Lacks(chan[s][t], k) /\ chan[s][t] \in Seq(Message)
  BY DEF Untouched, TypePos, TypeOK
<1>2. /\ db'[s][k] = db[s][k]
      /\ chan'[s][t] = chan[s][t] \/ chan'[s][t] = Append(chan[s][t], m)
  BY DEF SetsTo
<1>3. Lacks(Append(chan[s][t], m), k)
  BY <1>1, LacksAppend
<1> QED
  BY <1>1, <1>2, <1>3

\* What nobody has written is not executed.
LEMMA UntouchedApply ==
  ASSUME TypePos, NEW x \in Servers, NEW y \in Servers \ {x}, AppliesAt(x, y),
         NEW k \in Keys, NEW v, Untouched(k, v)
  PROVE  Untouched(k, v)'
<1>1. Lacks(Tail(chan[x][y]), k) /\ Head(chan[x][y]).key # k
  BY LacksTail DEF AppliesAt, Untouched
<1> SUFFICES ASSUME NEW s \in Servers, NEW t \in Servers \ {s}
             PROVE  db'[s][k] = v /\ Lacks(chan'[s][t], k)
  <2>1. \A s \in Servers : db'[s][k] = v
    BY <1>1 DEF AppliesAt, Untouched
  <2> QED
    BY <2>1 DEF Untouched
<1>2. db[s][k] = v /\ Lacks(chan[s][t], k)
  BY DEF Untouched
<1>3. /\ db'[s][k] = db[s][k]
      /\ chan'[s][t] = chan[s][t] \/ chan'[s][t] = Tail(chan[x][y])
  BY SMT, <1>1 DEF AppliesAt
<1> QED
  BY <1>1, <1>2, <1>3

\* A step that changes no server leaves a key untouched.
LEMMA UntouchedSame ==
  ASSUME UNCHANGED <<db, chan>>, NEW k, NEW v, Untouched(k, v)
  PROVE  Untouched(k, v)'
BY DEF Untouched

\* What StageInv says of the nodes without an owner, and of the others.
UnownedInv ==
    \A u \in Node : Unowned(u) =>
       \A k \in OwnKeys(u) : Untouched(k, IF k = ColorKey(u) THEN 0 ELSE Nil)

Stage(p, u) ==
    /\ Ahead(p, u) => Untouched(ColorKey(u), 0)
    /\ Ahead(p, u) \/ Painting(p, u) => Untouched(StatusKey(u), Nil)
    /\ Painting(p, u) =>
          \/ ~waiting[p] /\ Untouched(ColorKey(u), 0)
          \/ db[home[p]][ColorKey(u)] = LeastFree(seen[p])

\* StageInv consists of these two.
LEMMA StageParts ==
  StageInv <=> UnownedInv /\ \A p \in Proc : \A u \in First[p] .. Last[p] : Stage(p, u)
BY DEF StageInv, UnownedInv, Stage

\* Where the owner of u is with u after a step that is no SET.
LEMMA StageLocal ==
  ASSUME TypePos, NEW r \in Proc, StepOf(r), ~Set(r), NEW u \in First[r] .. Last[r]
  PROVE  /\ Ahead(r, u)' => Ahead(r, u)
         /\ Painting(r, u)' => \/ Ahead(r, u) /\ ~waiting'[r]
                               \/ /\ Painting(r, u) /\ seen'[r] = seen[r]
                                  /\ waiting'[r] => waiting[r]
         /\ Painted(r, u)' => Painted(r, u) \/ (Painting(r, u) /\ waiting[r])
<1> USE DEF At, Goto, client, Shared, Ahead, Painting, Painted
<1>1. /\ LocalOK /\ u \in Nat /\ cur[r] \in Nat
      /\ waiting[r] => pc[r] \in WritePC
  BY TypeParts, RangeFacts DEF TypePos, PositionInv, Position, LocalOK
<1> USE DEF LocalOK, WritePC
<1>2. CASE Start(r)
  BY <1>1, <1>2 DEF Start
<1>3. CASE ProcessNode(r)
  BY <1>1, <1>3 DEF ProcessNode, NextNeighbour
<1>4. CASE PickNeighbour(r)
  BY <1>1, <1>4 DEF PickNeighbour
<1>5. CASE GetFlag(r)
  BY <1>1, <1>5 DEF GetFlag
<1>6. CASE GetTurn(r)
  BY <1>1, <1>6 DEF GetTurn, LoopOrEnter
<1>7. CASE WaitTurn(r)
  BY <1>1, <1>7 DEF WaitTurn
<1>8. CASE WaitFlag(r)
  BY <1>1, <1>8 DEF WaitFlag, LoopOrEnter
<1>9. CASE GetColor(r)
  BY <1>1, <1>9 DEF GetColor, NextNeighbour
<1>10. CASE WaitReturns(r)
  <2>1. /\ cur'[r] = cur[r] /\ pc'[r] = Following(r) /\ seen'[r] = seen[r] /\ waiting[r]
    BY <1>1, <1>10 DEF WaitReturns
  <2> QED
    BY <1>1, <2>1 DEF Following
<1>11. CASE NextNode(r)
  BY SMT, <1>1, <1>11 DEF NextNode
<1>12. CASE Report(r)
  <2>1. Last[r] \in Nat /\ u <= Last[r]
    BY SMT, RangeFacts
  <2> QED
    BY <1>1, <1>12, <2>1 DEF Report
<1>13. CASE WaitTimesOut(r)
  BY <1>1, <1>13 DEF WaitTimesOut
<1>14. CASE Fail(r)
  BY <1>1, <1>14 DEF Fail
<1>15. CASE ReportAfterLoss(r)
  BY <1>1, <1>15 DEF ReportAfterLoss
<1> QED
  BY <1>2, <1>3, <1>4, <1>5, <1>6, <1>7, <1>8, <1>9, <1>10, <1>11, <1>12, <1>13,
     <1>14, <1>15 DEF StepOf, Step

\* Where the owner of u is with u depends only on its local state.
LEMMA StageFrame ==
  ASSUME NEW q \in Proc, Same(q), NEW u
  PROVE  /\ Ahead(q, u)' <=> Ahead(q, u)
         /\ Painting(q, u)' <=> Painting(q, u)
         /\ Painted(q, u)' <=> Painted(q, u)
BY DEF Ahead, Painting, Painted, Same

\* StageInv is kept by a SET: the colour is written while Painting, the status later.
LEMMA StageSet ==
  ASSUME TypePos, StageInv, NEW p \in Proc, Set(p), home' = home,
         NEW m \in Message, SetsTo(p, m)
  PROVE  StageInv'
<1>1. /\ pc' = pc /\ cur' = cur /\ seen' = seen
      /\ \A q \in Proc : q # p => waiting'[q] = waiting[q]
  BY DEF Set, client, TypePos, TypeOK
<1>2. UnownedInv'
  <2> SUFFICES ASSUME NEW u \in Node, Unowned(u), NEW k \in OwnKeys(u)
               PROVE  Untouched(k, IF k = ColorKey(u) THEN 0 ELSE Nil)'
    BY DEF UnownedInv, Unowned
  <2>1. m.key # k
    BY SMT, WrittenKeys DEF Set, SetsTo, Unowned
  <2>2. k \in Keys
    BY KeysExist
  <2>3. Untouched(k, IF k = ColorKey(u) THEN 0 ELSE Nil)
    BY StageParts DEF UnownedInv
  <2> DEFINE v == IF k = ColorKey(u) THEN 0 ELSE Nil
  <2> HIDE DEF v
  <2>4. Untouched(k, v)'
    BY <2>1, <2>2, <2>3, UntouchedSet DEF v
  <2> QED
    BY <2>4 DEF v
<1>3. ASSUME NEW q \in Proc, NEW u \in First[q] .. Last[q]
      PROVE  Stage(q, u)'
  <2>1. u \in Node /\ ColorKey(u) \in Keys /\ StatusKey(u) \in Keys /\ home[q] \in Servers
    BY RangeFacts, KeysExist DEF TypePos, TypeOK
  <2>2. Stage(q, u)
    BY StageParts
  <2>3. /\ Ahead(q, u)' <=> Ahead(q, u)
        /\ Painting(q, u)' <=> Painting(q, u)
    BY <1>1 DEF Ahead, Painting
  <2>4. /\ m.key = ColorKey(u) => Painting(p, u) /\ m.val = LeastFree(seen[p]) /\ p = q
        /\ m.key = StatusKey(u) => u = cur[p] /\ pc[p] = "setStatus" /\ p = q
    <3>1. ColorKey(u) \in OwnKeys(u) /\ StatusKey(u) \in OwnKeys(u)
      BY DEF OwnKeys
    <3>2. pc[p] \in WorkPC
      BY DEF Set, WritePC, WorkPC, ReadPC, LockPC
    <3>3. node[p] = cur[p]
      BY <3>2, PositionFacts
    <3>4. /\ m.key = ColorKey(u) =>
               pc[p] = "setColor" /\ node[p] = u /\ m.val = LeastFree(seen[p])
          /\ m.key = StatusKey(u) => pc[p] = "setStatus" /\ node[p] = u
      BY SMT, <2>1, WrittenKeys DEF Set, SetsTo
    <3> QED
      BY <3>1, <3>3, <3>4, SetByOwner DEF Painting
  <2>5. Ahead(q, u) => Untouched(ColorKey(u), 0)'
    <3> SUFFICES ASSUME Ahead(q, u)
                 PROVE  Untouched(ColorKey(u), 0)'
      OBVIOUS
    <3>1. Untouched(ColorKey(u), 0)
      BY <2>2 DEF Stage
    <3>2. m.key # ColorKey(u)
      BY SMT, <2>4, RangeFacts DEF Ahead, Painting, TypePos, TypeOK
    <3> QED
      BY <2>1, <3>1, <3>2, UntouchedSet
  <2>6. Ahead(q, u) \/ Painting(q, u) => Untouched(StatusKey(u), Nil)'
    <3> SUFFICES ASSUME Ahead(q, u) \/ Painting(q, u)
                 PROVE  Untouched(StatusKey(u), Nil)'
      OBVIOUS
    <3>1. Untouched(StatusKey(u), Nil)
      BY <2>2 DEF Stage
    <3>2. m.key # StatusKey(u)
      BY SMT, <2>4, RangeFacts DEF Ahead, Painting, TypePos, TypeOK
    <3> QED
      BY <2>1, <3>1, <3>2, UntouchedSet
  <2>7. ASSUME Painting(q, u)
        PROVE  \/ ~waiting'[q] /\ Untouched(ColorKey(u), 0)'
               \/ db'[home[q]][ColorKey(u)] = LeastFree(seen[q])
    <3>1. CASE m.key = ColorKey(u)
      BY <3>1, <2>1, <2>4 DEF SetsTo
    <3>2. CASE m.key # ColorKey(u)
      <4>1. q # p
        <5> SUFFICES ASSUME q = p
                     PROVE  FALSE
          OBVIOUS
        <5>1. pc[p] = "setColor" /\ pc[p] \in WorkPC /\ u = cur[p]
          BY <2>7 DEF Painting, WorkPC
        <5>2. node[p] = u
          BY <5>1, PositionFacts
        <5>3. m.key = ColorKey(node[p])
          BY SMT, <5>1, WrittenIs DEF SetsTo, WritePC
        <5> QED
          BY <5>2, <5>3, <3>2
      <4>2. db'[home[q]][ColorKey(u)] = db[home[q]][ColorKey(u)]
        BY <2>1, <3>2 DEF SetsTo
      <4>3. CASE ~waiting[q] /\ Untouched(ColorKey(u), 0)
        BY <4>1, <4>3, <1>1, <2>1, <3>2, UntouchedSet
      <4>4. CASE db[home[q]][ColorKey(u)] = LeastFree(seen[q])
        BY <4>2, <4>4
      <4> QED
        BY <2>2, <2>7, <4>3, <4>4 DEF Stage
    <3> QED
      BY <3>1, <3>2
  <2> QED
    BY <1>1, <2>3, <2>5, <2>6, <2>7 DEF Stage
<1> QED
  BY <1>2, <1>3 DEF StageInv, UnownedInv, Stage

\* StageInv is kept by the execution of a write.
LEMMA StageApply ==
  ASSUME TypePos, SenderInv, StageInv, NEW x \in Servers, NEW y \in Servers \ {x},
         Apply(x, y), home' = home, AppliesAt(x, y)
  PROVE  StageInv'
<1>1. UnownedInv'
  <2> SUFFICES ASSUME NEW u \in Node, Unowned(u), NEW k \in OwnKeys(u)
               PROVE  Untouched(k, IF k = ColorKey(u) THEN 0 ELSE Nil)'
    BY DEF UnownedInv, Unowned
  <2>1. k \in Keys
    BY KeysExist
  <2>2. Untouched(k, IF k = ColorKey(u) THEN 0 ELSE Nil)
    BY StageParts DEF UnownedInv
  <2> DEFINE v == IF k = ColorKey(u) THEN 0 ELSE Nil
  <2> HIDE DEF v
  <2>3. Untouched(k, v)'
    BY <2>1, <2>2, UntouchedApply DEF v
  <2> QED
    BY <2>3 DEF v
<1>2. ASSUME NEW q \in Proc, NEW u \in First[q] .. Last[q]
      PROVE  Stage(q, u)'
  <2>1. /\ ColorKey(u) \in Keys /\ StatusKey(u) \in Keys /\ home[q] \in Servers
        /\ ColorKey(u) \in OwnKeys(u)
    BY RangeFacts, KeysExist DEF TypePos, TypeOK, OwnKeys
  <2>2. Stage(q, u)
    BY StageParts
  <2>3. /\ Ahead(q, u)' <=> Ahead(q, u)
        /\ Painting(q, u)' <=> Painting(q, u)
        /\ seen'[q] = seen[q] /\ waiting'[q] = waiting[q]
    BY ApplySame, StageFrame DEF Same
  <2>4. /\ Untouched(ColorKey(u), 0) => Untouched(ColorKey(u), 0)'
        /\ Untouched(StatusKey(u), Nil) => Untouched(StatusKey(u), Nil)'
    BY <2>1, UntouchedApply
  <2>5. db'[home[q]][ColorKey(u)] = db[home[q]][ColorKey(u)]
    <3>1. Head(chan[x][y]).key = ColorKey(u) => x = home[q]
      BY <2>1, ApplyFromOwner
    <3> QED
      BY <2>1, <3>1 DEF AppliesAt
  <2> QED
    BY <2>2, <2>3, <2>4, <2>5 DEF Stage
<1> QED
  BY <1>1, <1>2 DEF StageInv, UnownedInv, Stage

\* StageInv is kept by the other steps of a client.
LEMMA StageOther ==
  ASSUME TypePos, StageInv, NEW r \in Proc, StepOf(r), ~Set(r)
  PROVE  StageInv'
<1>1. UNCHANGED <<home, db, chan>>
  BY StoreSame
<1>2. UnownedInv'
  BY <1>1, StageParts DEF UnownedInv, Unowned, Untouched
<1>3. ASSUME NEW q \in Proc, NEW u \in First[q] .. Last[q]
      PROVE  Stage(q, u)'
  <2>1. Stage(q, u)
    BY StageParts
  <2>2. /\ Untouched(ColorKey(u), 0)' <=> Untouched(ColorKey(u), 0)
        /\ Untouched(StatusKey(u), Nil)' <=> Untouched(StatusKey(u), Nil)
    BY <1>1 DEF Untouched
  <2>3. CASE q = r
    <3>1. /\ Ahead(r, u)' => Ahead(r, u)
          /\ Painting(r, u)' => \/ Ahead(r, u) /\ ~waiting'[r]
                                \/ /\ Painting(r, u) /\ seen'[r] = seen[r]
                                   /\ waiting'[r] => waiting[r]
      BY <2>3, StageLocal
    <3> QED
      BY <1>1, <2>1, <2>2, <2>3, <3>1 DEF Stage
  <2>4. CASE q # r
    <3>1. Same(q)
      BY <2>4, OthersSame DEF TypePos
    <3> QED
      BY <1>1, <2>1, <2>2, <3>1, StageFrame DEF Stage, Same
  <2> QED
    BY <2>3, <2>4
<1> QED
  BY <1>2, <1>3 DEF StageInv, UnownedInv, Stage

\* What ColorsInv says of the server t and a node whose owner is at s.
Shown(s, t, u) ==
    /\ InOrder(chan[s][t], u, db[t][ColorKey(u)], db[s][ColorKey(u)])
    /\ ~Lacks(chan[s][t], StatusKey(u)) => db[s][StatusKey(u)] = 1
    /\ db[t][StatusKey(u)] \in {Nil, 1}
    /\ db[t][StatusKey(u)] = 1 => /\ db[s][StatusKey(u)] = 1
                                  /\ db[t][ColorKey(u)] = db[s][ColorKey(u)]

\* ColorsInv says it of all servers.
LEMMA ColorsParts ==
  ColorsInv <=> \A p \in Proc : \A u \in First[p] .. Last[p] :
                   /\ db[home[p]][StatusKey(u)] \in {Nil, 1}
                   /\ \A t \in Servers \ {home[p]} : Shown(home[p], t, u)
BY DEF ColorsInv, Shown

\* ColorsInv is kept by a SET: a new colour finds nothing of u in flight, and a status
\* is sent when the colour has arrived or is on its way.
LEMMA ColorsSet ==
  ASSUME TypePos, DeliveryInv, StageInv, ColorsInv, NEW p \in Proc, Set(p), home' = home,
         NEW m \in Message, SetsTo(p, m)
  PROVE  ColorsInv'
<1>1. ASSUME NEW q \in Proc, NEW u \in First[q] .. Last[q]
      PROVE  /\ db'[home[q]][StatusKey(u)] \in {Nil, 1}
             /\ \A t \in Servers \ {home[q]} : Shown(home[q], t, u)'
  <2> DEFINE s == home[q]
             ck == ColorKey(u)
             sk == StatusKey(u)
  <2>1. /\ u \in Node /\ ck \in Keys /\ sk \in Keys /\ s \in Servers /\ ck # sk
        /\ ck \in OwnKeys(u) /\ sk \in OwnKeys(u)
    BY RangeFacts, KeysExist, KeysDiffer DEF TypePos, TypeOK, OwnKeys
  <2>2. /\ db[s][sk] \in {Nil, 1}
        /\ \A t \in Servers \ {s} : Shown(s, t, u)
    BY ColorsParts
  <2>3. /\ \A t \in Servers : \A k \in Keys :
              db'[t][k] = IF t = home[p] /\ k = m.key THEN m.val ELSE db[t][k]
        /\ \A t \in Servers \ {s} :
              chan'[s][t] = IF s = home[p] THEN Append(chan[s][t], m) ELSE chan[s][t]
        /\ \A t \in Servers \ {s} : chan[s][t] \in Seq(Message)
        /\ s' = s
    <3>1. \A t \in Servers \ {s} : chan[s][t] \in Seq(Message)
      BY <2>1 DEF TypePos, TypeOK
    <3> QED
      BY <2>1, <3>1 DEF SetsTo
  <2>4. Stage(q, u)
    BY StageParts
  <2>5. /\ m.key = ck => /\ p = q /\ Painting(q, u) /\ m.val = LeastFree(seen[q])
        /\ m.key = sk => p = q /\ m.val = 1
    <3>1. pc[p] \in WorkPC
      BY DEF Set, WritePC, WorkPC, ReadPC, LockPC
    <3>2. node[p] = cur[p]
      BY <3>1, PositionFacts
    <3>3. /\ m.key = ColorKey(u) =>
               pc[p] = "setColor" /\ node[p] = u /\ m.val = LeastFree(seen[p])
          /\ m.key = StatusKey(u) => m.val = 1
      BY SMTT(20), <2>1, WrittenKeys DEF Set, SetsTo
    <3>4. m.key = ck \/ m.key = sk => p = q
      BY SMT, <2>1, SetByOwner
    <3> QED
      BY <3>2, <3>3, <3>4 DEF Painting
  <2> HIDE DEF s, ck, sk
  <2>6. CASE m.key = ck
    <3>1. /\ db'[s][ck] = m.val /\ s = home[p]
          /\ \A t \in Servers \ {s} : db'[t][ck] = db[t][ck]
          /\ \A t \in Servers : db'[t][sk] = db[t][sk]
      BY <2>1, <2>3, <2>5, <2>6 DEF s
    <3>2. Untouched(sk, Nil)
      BY <2>4, <2>5, <2>6 DEF Stage, sk
    <3>3. Untouched(ck, 0) \/ db[s][ck] = m.val
      BY <2>4, <2>5, <2>6 DEF Stage, ck, s
    <3>4. ASSUME NEW t \in Servers \ {s}
          PROVE  Shown(s, t, u)'
      <4> DEFINE c == chan[s][t]
                 d == Append(c, m)
      <4>1. c \in Seq(Message) /\ chan'[s][t] = d /\ Lacks(c, sk)
        BY <2>1, <2>3, <3>1, <3>2 DEF Untouched
      <4>2. Lacks(d, sk)
        BY <2>1, <2>6, <4>1, LacksAppend
      <4>3. InOrder(c, u, db[t][ck], m.val)
        <5>1. CASE Untouched(ck, 0)
          BY <2>1, <4>1, <5>1, InOrderLacks DEF Untouched, ck, sk
        <5>2. CASE db[s][ck] = m.val
          BY <2>2, <5>2 DEF Shown, ck
        <5> QED
          BY <3>3, <5>1, <5>2
      <4>4. InOrder(d, u, db[t][ck], m.val)
        BY <2>1, <2>6, <4>1, <4>3, InOrderAppend DEF ck, sk
      <4> HIDE DEF d
      <4>5. db'[t][sk] = Nil
        BY <3>1, <3>2 DEF Untouched
      <4>6. Nil # 1
        BY SMT DEF Nil
      <4> QED
        BY <2>3, <3>1, <4>1, <4>2, <4>4, <4>5, <4>6 DEF Shown, ck, sk
    <3>5. db'[s][sk] = Nil
      BY <2>1, <3>1, <3>2 DEF Untouched
    <3> QED
      BY <3>4, <3>5 DEF s, sk
  <2>7. CASE m.key = sk
    <3>1. /\ db'[s][sk] = 1 /\ s = home[p]
          /\ \A t \in Servers \ {s} : db'[t][sk] = db[t][sk]
          /\ \A t \in Servers : db'[t][ck] = db[t][ck]
      BY <2>1, <2>3, <2>5, <2>7 DEF s
    <3>2. ASSUME NEW t \in Servers \ {s}
          PROVE  Shown(s, t, u)'
      <4> DEFINE c == chan[s][t]
                 d == Append(c, m)
      <4>1. c \in Seq(Message) /\ chan'[s][t] = d
        BY <2>1, <2>3, <3>1
      <4>2. Ends(c, ck, db[t][ck], db[s][ck])
        BY <2>1 DEF DeliveryInv, s
      <4>3. db[t][ck] = db[s][ck] \/ ~Lacks(c, ck)
        BY <4>2 DEF Ends, Lacks
      <4>4. InOrder(c, u, db[t][ck], db[s][ck])
        BY <2>2 DEF Shown, ck
      <4>5. InOrder(d, u, db[t][ck], db[s][ck])
        BY <2>1, <2>5, <2>7, <4>1, <4>3, <4>4, InOrderAppend DEF ck, sk
      <4> HIDE DEF d
      <4>6. Shown(s, t, u)
        BY <2>2
      <4> QED
        BY <2>1, <2>3, <3>1, <4>1, <4>5, <4>6 DEF Shown, ck, sk
    <3> QED
      BY <3>1, <3>2 DEF s, sk
  <2>8. CASE m.key # ck /\ m.key # sk
    <3>1. \A t \in Servers : db'[t][ck] = db[t][ck] /\ db'[t][sk] = db[t][sk]
      BY <2>1, <2>3, <2>8
    <3>2. ASSUME NEW t \in Servers \ {s}
          PROVE  Shown(s, t, u)'
      <4> DEFINE c == chan[s][t]
                 d == chan'[s][t]
      <4>1. c \in Seq(Message) /\ (d = c \/ d = Append(c, m))
        BY <2>3
      <4>2. Shown(s, t, u)
        BY <2>2
      <4>3. InOrder(c, u, db[t][ck], db[s][ck])
        BY <4>2 DEF Shown, ck
      <4>4. InOrder(d, u, db[t][ck], db[s][ck])
        BY <2>8, <4>1, <4>3, InOrderAppend DEF ck, sk
      <4>5. Lacks(d, sk) <=> Lacks(c, sk)
        BY <2>8, <4>1, LacksAppend
      <4> HIDE DEF d
      <4> QED
        BY <2>1, <2>3, <3>1, <4>2, <4>4, <4>5 DEF Shown, ck, sk, d
    <3> QED
      BY <2>1, <2>2, <3>1, <3>2 DEF s, sk
  <2> QED
    BY <2>6, <2>7, <2>8
<1> QED
  BY <1>1 DEF ColorsInv, Shown

\* ColorsInv is kept by the execution of a write: a status finds the colour in place.
LEMMA ColorsApply ==
  ASSUME TypePos, SenderInv, ColorsInv, NEW x \in Servers, NEW y \in Servers \ {x},
         home' = home, AppliesAt(x, y)
  PROVE  ColorsInv'
<1>1. ASSUME NEW q \in Proc, NEW u \in First[q] .. Last[q]
      PROVE  /\ db'[home[q]][StatusKey(u)] \in {Nil, 1}
             /\ \A t \in Servers \ {home[q]} : Shown(home[q], t, u)'
  <2> DEFINE s == home[q]
             ck == ColorKey(u)
             sk == StatusKey(u)
             m == Head(chan[x][y])
  <2>1. /\ u \in Nat /\ ck \in Keys /\ sk \in Keys /\ s \in Servers /\ ck # sk
        /\ ck \in OwnKeys(u) /\ sk \in OwnKeys(u) /\ s' = s
    BY RangeFacts, KeysExist, KeysDiffer DEF TypePos, TypeOK, OwnKeys
  <2>2. /\ db[s][sk] \in {Nil, 1}
        /\ \A t \in Servers \ {s} : Shown(s, t, u)
    BY ColorsParts
  <2>3. m.key = ck \/ m.key = sk => x = s
    BY <2>1, ApplyFromOwner
  <2>4. /\ chan[x][y] \in Seq(Message) /\ chan[x][y] # <<>>
        /\ \A t \in Servers : \A k \in Keys :
              db'[t][k] = IF t = y /\ k = m.key THEN m.val ELSE db[t][k]
        /\ \A t \in Servers \ {s} :
              chan'[s][t] = IF s = x /\ t = y THEN Tail(chan[x][y]) ELSE chan[s][t]
    BY <2>1 DEF AppliesAt
  <2> HIDE DEF s, ck, sk, m
  <2>5. db'[s][ck] = db[s][ck] /\ db'[s][sk] = db[s][sk]
    BY <2>1, <2>3, <2>4
  <2>6. ASSUME NEW t \in Servers \ {s}
        PROVE  Shown(s, t, u)'
    <3>1. Shown(s, t, u)
      BY <2>2
    <3>2. CASE s = x /\ t = y
      <4> DEFINE c == chan[s][t]
                 d == Tail(c)
      <4>1. c \in Seq(Message) /\ c # <<>> /\ chan'[s][t] = d /\ m = Head(c)
        BY <2>4, <3>2 DEF m
      <4>2. InOrder(c, u, db[t][ck], db[s][ck])
        BY <3>1 DEF Shown, ck
      <4>3. /\ m.key = ck => m.val = db[s][ck] /\ InOrder(d, u, db[s][ck], db[s][ck])
            /\ m.key = sk => m.val = 1 /\ db[t][ck] = db[s][ck]
            /\ m.key # ck => InOrder(d, u, db[t][ck], db[s][ck])
        BY SMT, <2>1, <4>1, <4>2, InOrderTail DEF ck, sk
      <4>4. Lacks(c, sk) <=> Lacks(d, sk) /\ m.key # sk
        BY <4>1, LacksTail
      <4>5. /\ db'[t][ck] = IF m.key = ck THEN m.val ELSE db[t][ck]
            /\ db'[t][sk] = IF m.key = sk THEN m.val ELSE db[t][sk]
        BY <2>1, <2>4, <3>2
      <4> HIDE DEF d
      <4>6. InOrder(d, u, db'[t][ck], db'[s][ck])
        BY <2>5, <4>3, <4>5
      <4>7. ~Lacks(d, sk) => db'[s][sk] = 1
        BY <2>5, <3>1, <4>4 DEF Shown, sk
      <4>8. /\ db'[t][sk] \in {Nil, 1}
            /\ db'[t][sk] = 1 => db'[s][sk] = 1 /\ db'[t][ck] = db'[s][ck]
        BY <2>1, <2>5, <3>1, <4>3, <4>4, <4>5 DEF Shown, ck, sk
      <4> QED
        BY <2>1, <4>1, <4>6, <4>7, <4>8 DEF Shown, ck, sk
    <3>3. CASE ~(s = x /\ t = y)
      <4>1. chan'[s][t] = chan[s][t] /\ db'[t][ck] = db[t][ck] /\ db'[t][sk] = db[t][sk]
        BY <2>1, <2>3, <2>4, <3>3
      <4> QED
        BY <2>1, <2>5, <3>1, <4>1 DEF Shown, ck, sk
    <3> QED
      BY <3>2, <3>3
  <2> QED
    BY <2>2, <2>5, <2>6 DEF s, sk
<1> QED
  BY <1>1 DEF ColorsInv, Shown

\* Nothing is in flight in the beginning.
LEMMA ChannelsInit ==
  ASSUME FiniteFacts, Init
  PROVE  ChannelsInv
<1>1. TypePos
  BY TypePosInit
<1>2. \A s \in Servers : \A t \in Servers \ {s} : chan[s][t] = <<>>
  BY DEF Init
<1>3. \A s \in Servers : \A t \in Servers \ {s} : \A k : Lacks(chan[s][t], k)
  BY SMT, <1>2 DEF Lacks
<1>4. \A s \in Servers : \A u \in Node :
         /\ db[s][ColorKey(u)] = 0
         /\ \A k \in OwnKeys(u) : k # ColorKey(u) => db[s][k] = Nil
  <2> TAKE s \in Servers
  <2> TAKE u \in Node
  <2>1. \A k \in Keys : db[s][k] = IF k[1] = "color" THEN 0 ELSE Nil
    BY DEF Init
  <2>2. ColorKey(u) \in Keys /\ OwnKeys(u) \subseteq Keys
    BY KeysExist
  <2>3. ColorKey(u)[1] = "color"
    BY DEF ColorKey
  <2>4. \A k \in OwnKeys(u) : k # ColorKey(u) => k[1] # "color"
    BY SMT DEF OwnKeys, StatusKey, FlagKey
  <2> QED
    BY <2>1, <2>2, <2>3, <2>4
<1>5. SenderInv
  BY SMT, <1>2 DEF SenderInv
<1>6. DeliveryInv
  <2> SUFFICES ASSUME NEW p \in Proc, NEW u \in First[p] .. Last[p], NEW k \in OwnKeys(u),
                      NEW t \in Servers \ {home[p]}
               PROVE  Ends(chan[home[p]][t], k, db[t][k], db[home[p]][k])
    BY DEF DeliveryInv
  <2>1. home[p] \in Servers /\ u \in Node
    BY <1>1, RangeFacts DEF TypePos, TypeOK
  <2>2. db[t][k] = db[home[p]][k] /\ Lacks(chan[home[p]][t], k)
    BY <1>3, <1>4, <2>1
  <2> QED
    BY <2>2 DEF Ends
<1>7. \A u \in Node : /\ Untouched(ColorKey(u), 0)
                      /\ \A k \in OwnKeys(u) : k # ColorKey(u) => Untouched(k, Nil)
  BY <1>3, <1>4 DEF Untouched
<1>8. StageInv
  <2>1. UnownedInv
    BY <1>7 DEF UnownedInv
  <2>2. ASSUME NEW p \in Proc, NEW u \in First[p] .. Last[p]
        PROVE  Stage(p, u)
    <3>1. u \in Node /\ u \in Nat
      BY RangeFacts
    <3>2. StatusKey(u) \in OwnKeys(u) /\ StatusKey(u) # ColorKey(u)
      BY <3>1, KeysDiffer DEF OwnKeys
    <3> QED
      BY <1>7, <3>1, <3>2 DEF Stage, Painting, Init
  <2> QED
    BY <2>1, <2>2, StageParts
<1>9. ColorsInv
  <2>1. ASSUME NEW p \in Proc, NEW u \in First[p] .. Last[p]
        PROVE  /\ db[home[p]][StatusKey(u)] \in {Nil, 1}
               /\ \A t \in Servers \ {home[p]} : Shown(home[p], t, u)
    <3>1. u \in Node /\ u \in Nat /\ home[p] \in Servers
      BY <1>1, RangeFacts DEF TypePos, TypeOK
    <3>2. StatusKey(u) \in OwnKeys(u) /\ StatusKey(u) # ColorKey(u)
      BY <3>1, KeysDiffer DEF OwnKeys
    <3>3. \A t \in Servers : db[t][StatusKey(u)] = Nil
      BY <1>4, <3>1, <3>2
    <3>4. \A t \in Servers \ {home[p]} :
             InOrder(chan[home[p]][t], u, db[t][ColorKey(u)], db[home[p]][ColorKey(u)])
      BY <1>3, <3>1, InOrderLacks
    <3> QED
      BY SMT, <1>3, <3>1, <3>3, <3>4 DEF Shown, Nil
  <2> QED
    BY <2>1, ColorsParts
<1> QED
  BY <1>1, <1>5, <1>6, <1>8, <1>9 DEF ChannelsInv, TypePos

\* The first part of the invariant is kept by every step.
LEMMA ChannelsStep ==
  ASSUME FiniteFacts, ChannelsInv, [Next]_vars
  PROVE  ChannelsInv'
<1>1. TypePos /\ SenderInv /\ DeliveryInv /\ StageInv /\ ColorsInv
  BY DEF ChannelsInv, TypePos
<1>2. TypePos'
  BY <1>1, TypePosStep
<1> SUFFICES SenderInv' /\ DeliveryInv' /\ StageInv' /\ ColorsInv'
  BY <1>2 DEF ChannelsInv, TypePos
<1>3. ASSUME UNCHANGED <<home, db, chan>>
      PROVE  SenderInv' /\ DeliveryInv' /\ ColorsInv'
  <2>1. SenderInv'
    BY SMT, <1>1, <1>3 DEF SenderInv
  <2>2. DeliveryInv'
    BY <1>1, <1>3 DEF DeliveryInv
  <2>3. ColorsInv'
    BY <1>1, <1>3 DEF ColorsInv
  <2> QED
    BY <2>1, <2>2, <2>3
<1>4. CASE UNCHANGED vars
  <2>1. UNCHANGED <<home, db, chan>>
    BY <1>4 DEF vars
  <2>2. StageInv'
    BY <1>1, <1>4 DEF StageInv, Untouched, Ahead, Painting, vars, client, Unowned
  <2> QED
    BY <1>3, <2>1, <2>2
<1>5. ASSUME NEW r \in Proc, StepOf(r)
      PROVE  SenderInv' /\ DeliveryInv' /\ StageInv' /\ ColorsInv'
  <2>1. CASE Set(r)
    <3>1. home' = home
      BY <1>1, <2>1, SetFacts
    <3>2. PICK m \in Message : SetsTo(r, m)
      BY <1>1, <2>1, SetFacts
    <3> QED
      BY <1>1, <2>1, <3>1, <3>2, SenderSet, DeliverySet, StageSet, ColorsSet
  <2>2. CASE ~Set(r)
    <3>1. UNCHANGED <<home, db, chan>>
      BY <1>5, <2>2, StoreSame
    <3>2. StageInv'
      BY <1>1, <1>5, <2>2, StageOther
    <3> QED
      BY <1>3, <3>1, <3>2
  <2> QED
    BY <2>1, <2>2
<1>6. ASSUME NEW s \in Servers, NEW t \in Servers \ {s}, Apply(s, t)
      PROVE  SenderInv' /\ DeliveryInv' /\ StageInv' /\ ColorsInv'
  <2>1. home' = home /\ AppliesAt(s, t)
    BY <1>1, <1>6, ApplyFacts
  <2> QED
    BY <1>1, <1>6, <2>1, SenderApply, DeliveryApply, StageApply, ColorsApply
<1> QED
  BY <1>4, <1>5, <1>6 DEF Next, StepOf

\* When nothing is in flight, all servers agree on the keys with one writer.
LEMMA QuietAgrees == ChannelsInv => Converged
<1> SUFFICES ASSUME ChannelsInv, Quiet, NEW k \in Keys, k[1] # "turn",
                    NEW s \in Servers, NEW t \in Servers
             PROVE  db[s][k] = db[t][k]
  BY DEF Converged
<1>1. PICK u \in Node : k \in OwnKeys(u)
  BY KeyHasNode
<1>2. CASE Unowned(u)
  <2>1. Untouched(k, IF k = ColorKey(u) THEN 0 ELSE Nil)
    BY <1>1, <1>2 DEF ChannelsInv, StageInv
  <2> QED
    BY <2>1 DEF Untouched
<1>3. CASE ~Unowned(u)
  <2>1. PICK p \in Proc : u \in First[p] .. Last[p]
    BY <1>3, RangeFacts DEF Unowned
  <2>2. home[p] \in Servers
    BY DEF ChannelsInv, TypeOK
  <2>3. ASSUME NEW x \in Servers
        PROVE  db[x][k] = db[home[p]][k]
    <3>1. CASE x = home[p]
      BY <3>1
    <3>2. CASE x # home[p]
      <4>1. Ends(chan[home[p]][x], k, db[x][k], db[home[p]][k])
        BY <1>1, <2>1, <3>2 DEF ChannelsInv, DeliveryInv
      <4>2. chan[home[p]][x] = <<>>
        BY <2>2, <3>2 DEF Quiet
      <4> QED
        BY SMT, <4>1, <4>2 DEF Ends
    <3> QED
      BY <3>1, <3>2
  <2> QED
    BY <2>3
<1> QED
  BY <1>2, <1>3

\* A node that some server shows as marked has an owner, who is past its colour.
LEMMA MarkedHasOwner ==
  ASSUME ChannelsInv, NEW s \in Servers, NEW u \in Node, db[s][StatusKey(u)] = 1
  PROVE  \E p \in Proc : u \in First[p] .. Last[p] /\ p = Owner(u) /\ Painted(p, u)
<1>1. StatusKey(u) \in OwnKeys(u) /\ StatusKey(u) # ColorKey(u) /\ u \in Nat
  BY NbrFacts, KeysDiffer DEF OwnKeys
<1>2. ~Unowned(u)
  <2> SUFFICES ASSUME Unowned(u)
               PROVE  FALSE
    OBVIOUS
  <2>1. Untouched(StatusKey(u), Nil)
    BY <1>1 DEF ChannelsInv, StageInv
  <2> QED
    BY SMT, <2>1 DEF Untouched, Nil
<1>3. PICK p \in Proc : ~External(p, u)
  BY <1>2 DEF Unowned
<1>4. u \in First[p] .. Last[p]
  BY <1>3, RangeFacts
<1>5. p = Owner(u)
  <2>1. Owner(u) \in Proc /\ ~External(Owner(u), u)
    BY <1>3 DEF Owner
  <2> QED
    BY <2>1, <1>4, OneOwner
<1>6. ~Untouched(StatusKey(u), Nil)
  BY SMT DEF Untouched, Nil
<1>7. ~Ahead(p, u) /\ ~Painting(p, u)
  BY <1>4, <1>6 DEF ChannelsInv, StageInv
<1>8. Painted(p, u)
  BY SMT, <1>1, <1>7 DEF Ahead, Painting, Painted, ChannelsInv, TypeOK
<1> QED
  BY <1>4, <1>5, <1>8

\* A server that shows a node as marked shows its final colour.
LEMMA MarkedColors == ChannelsInv => MarkedIsColored
<1> SUFFICES ASSUME ChannelsInv, NEW s \in Servers, NEW u \in Node, db[s][StatusKey(u)] = 1
             PROVE  db[s][ColorKey(u)] = db[home[Owner(u)]][ColorKey(u)]
  BY DEF MarkedIsColored, AtHome
<1>1. PICK p \in Proc : u \in First[p] .. Last[p] /\ p = Owner(u)
  BY MarkedHasOwner
<1>2. CASE s = home[p]
  BY <1>1, <1>2
<1>3. CASE s # home[p]
  <2>1. Shown(home[p], s, u)
    BY <1>1, <1>3, ColorsParts DEF ChannelsInv
  <2> QED
    BY <1>1, <2>1 DEF Shown
<1> QED
  BY <1>2, <1>3

\* No step changes the colour or the status of a node on a server that shows it as
\* marked.
LEMMA MarkedStays ==
  ASSUME FiniteFacts, ChannelsInv, [Next]_vars, NEW s \in Servers, NEW u \in Node,
         db[s][StatusKey(u)] = 1
  PROVE  db'[s][ColorKey(u)] = db[s][ColorKey(u)] /\ db'[s][StatusKey(u)] = 1
<1> DEFINE ck == ColorKey(u)
           sk == StatusKey(u)
<1>1. TypePos /\ SenderInv /\ ColorsInv
  BY DEF ChannelsInv, TypePos
<1>2. /\ u \in Nat /\ ck \in Keys /\ sk \in Keys /\ ck # sk
      /\ ck \in OwnKeys(u) /\ sk \in OwnKeys(u)
  BY NbrFacts, KeysExist, KeysDiffer DEF OwnKeys
<1>3. PICK p \in Proc : u \in First[p] .. Last[p] /\ Painted(p, u)
  BY MarkedHasOwner
<1>4. ASSUME UNCHANGED <<home, db, chan>>
      PROVE  db'[s][ck] = db[s][ck] /\ db'[s][sk] = 1
  BY <1>4
<1>5. ASSUME NEW r \in Proc, Set(r)
      PROVE  db'[s][ck] = db[s][ck] /\ db'[s][sk] = 1
  <2>1. PICK m \in Message : SetsTo(r, m)
    BY <1>1, <1>5, SetFacts
  <2>2. /\ m.key = ck => pc[r] = "setColor" /\ node[r] = u /\ r = p
        /\ m.key = sk => m.val = 1
    <3>1. m.key = ck => r = p
      BY <1>1, <1>2, <1>3, <1>5, <2>1, SetByOwner
    <3>2. /\ m.key = ck => pc[r] = "setColor" /\ node[r] = u
          /\ m.key = sk => m.val = 1
      BY SMTT(20), <1>1, <1>5, <2>1, WrittenKeys DEF Set, SetsTo
    <3> QED
      BY <3>1, <3>2
  <2>3. m.key # ck
    <3> SUFFICES ASSUME pc[p] = "setColor", node[p] = u
                 PROVE  FALSE
      BY <2>2
    <3>1. node[p] = cur[p] /\ node[p] \in Nat
      BY <1>1, PositionFacts DEF WorkPC
    <3> QED
      BY SMT, <1>3, <3>1 DEF Painted
  <2> QED
    BY <1>2, <2>1, <2>2, <2>3 DEF SetsTo
<1>6. ASSUME NEW x \in Servers, NEW y \in Servers \ {x}, Apply(x, y)
      PROVE  db'[s][ck] = db[s][ck] /\ db'[s][sk] = 1
  <2> DEFINE m == Head(chan[x][y])
  <2>1. AppliesAt(x, y)
    BY <1>1, <1>6, ApplyFacts
  <2>2. /\ db'[s][ck] = IF s = y /\ ck = m.key THEN m.val ELSE db[s][ck]
        /\ db'[s][sk] = IF s = y /\ sk = m.key THEN m.val ELSE db[s][sk]
        /\ chan[x][y] \in Seq(Message) /\ chan[x][y] # <<>>
    BY <1>2, <2>1 DEF AppliesAt
  <2>3. ASSUME s = y, m.key = ck \/ m.key = sk
        PROVE  /\ m.key = ck => m.val = db[s][ck]
               /\ m.key = sk => m.val = 1
    <3>1. x = home[p]
      BY <1>1, <1>2, <1>3, <2>1, <2>3, ApplyFromOwner
    <3>2. Shown(x, y, u)
      BY <1>1, <1>3, <3>1, ColorsParts
    <3>3. /\ db[s][ck] = db[x][ck]
          /\ InOrder(chan[x][y], u, db[y][ck], db[x][ck])
      BY <2>3, <3>2 DEF Shown
    <3> QED
      BY <1>2, <2>2, <3>3, InOrderTail
  <2> HIDE DEF m, ck, sk
  <2> QED
    BY <2>2, <2>3 DEF sk
<1>7. ASSUME NEW r \in Proc, StepOf(r)
      PROVE  db'[s][ck] = db[s][ck] /\ db'[s][sk] = 1
  BY <1>4, <1>5, <1>7, StoreSame
<1>8. CASE UNCHANGED vars
  BY <1>4, <1>8 DEF vars
<1> QED
  BY <1>6, <1>7, <1>8 DEF Next, StepOf

-----------------------------------------------------------------------------
(* The locks. *)

\* Two clients at work have different nodes, external to each other.
LEMMA DistinctOwners ==
  ASSUME TypePos, NEW p \in Proc, NEW q \in Proc, p # q, pc[p] \in WorkPC,
         pc[q] \in WorkPC
  PROVE  node[p] # node[q] /\ External(p, node[q]) /\ External(q, node[p])
<1>1. /\ node[p] \in First[p] .. Last[p] /\ ~External(p, node[p])
      /\ node[q] \in First[q] .. Last[q] /\ ~External(q, node[q])
  BY PositionFacts
<1> QED
  BY <1>1, OneOwner

\* How a step changes the place of a client in the lock protocol: the SET of its flag
\* raises it, the SET of the turn makes it contend, and only a read of the other flag
\* or of the turn lets a contender enter.
LockStep(p, v) ==
    /\ Raised(p, v)' => /\ node'[p] = node[p]
                        /\ Raised(p, v) \/ (Set(p) /\ pc[p] = "setFlag" /\ v = nbr[p])
    /\ Contends(p, v)' => /\ node'[p] = node[p]
                          /\ Contends(p, v) \/ (Set(p) /\ pc[p] = "setTurn" /\ v = nbr[p])
    /\ Entered(p, v)' =>
          /\ node'[p] = node[p]
          /\ \/ Entered(p, v)
             \/ /\ Contends(p, v) /\ UNCHANGED <<home, db, chan>>
                /\ \/ Get(p, FlagKey(v, node[p])) # 1
                   \/ Get(p, TurnKey(node[p], v)) # node[p]

\* LockStep holds of the steps of the client.
LEMMA LockStepSelf ==
  ASSUME TypePos, NEW p \in Proc, StepOf(p), NEW v
  PROVE  LockStep(p, v)
<1> USE DEF LockStep, Raised, Contends, Entered, Holds, At, Goto, WorkPC, ReadPC, LockPC,
            client, Shared
<1>1. LocalOK /\ (waiting[p] => pc[p] \in WritePC)
  BY TypeParts DEF TypePos, PositionInv, Position
<1> USE DEF LocalOK
<1>2. CASE Start(p)
  BY <1>1, <1>2 DEF Start
<1>3. CASE ProcessNode(p)
  BY <1>1, <1>3 DEF ProcessNode, NextNeighbour
<1>4. CASE PickNeighbour(p)
  BY <1>1, <1>4 DEF PickNeighbour, WritePC
<1>5. CASE GetFlag(p)
  BY <1>1, <1>5 DEF GetFlag
<1>6. CASE GetTurn(p)
  BY SMT, <1>1, <1>6 DEF GetTurn, LoopOrEnter
<1>7. CASE WaitTurn(p)
  BY <1>1, <1>7 DEF WaitTurn
<1>8. CASE WaitFlag(p)
  BY SMT, <1>1, <1>8 DEF WaitFlag, LoopOrEnter
<1>9. CASE GetColor(p)
  BY <1>1, <1>9 DEF GetColor, NextNeighbour
<1>10. CASE Set(p)
  BY <1>1, <1>10 DEF Set
<1>11. CASE WaitReturns(p)
  <2>1. /\ node'[p] = node[p] /\ nbr'[p] = nbr[p] /\ otherFlag'[p] = otherFlag[p]
        /\ turnNew'[p] = turnNew[p] /\ pc'[p] = Following(p) /\ waiting[p] /\ ~waiting'[p]
        /\ pc[p] # "release" => locks'[p] = locks[p]
    BY <1>1, <1>11 DEF WaitReturns
  <2>2. \/ pc[p] = "setFlag" /\ pc'[p] = "setTurn"
        \/ pc[p] = "setTurn" /\ pc'[p] = "getFlag"
        \/ pc[p] = "setColor" /\ pc'[p] = "setStatus"
        \/ pc[p] \in {"setStatus", "release"} /\ pc'[p] = "release"
    BY <1>1, <2>1 DEF Following, WritePC
  <2> QED
    BY <2>1, <2>2
<1>12. CASE NextNode(p)
  BY <1>1, <1>12 DEF NextNode
<1>13. CASE Report(p)
  BY <1>1, <1>13 DEF Report
<1>14. CASE WaitTimesOut(p)
  BY <1>1, <1>14 DEF WaitTimesOut
<1>15. CASE Fail(p)
  BY <1>1, <1>15 DEF Fail
<1>16. CASE ReportAfterLoss(p)
  BY <1>1, <1>16 DEF ReportAfterLoss
<1> QED
  BY <1>2, <1>3, <1>4, <1>5, <1>6, <1>7, <1>8, <1>9, <1>10, <1>11, <1>12, <1>13,
     <1>14, <1>15, <1>16 DEF StepOf, Step

\* A client that does not move keeps its place.
LEMMA LockFrame ==
  ASSUME NEW p \in Proc, Same(p), NEW v
  PROVE  /\ Raised(p, v)' <=> Raised(p, v)
         /\ Contends(p, v)' <=> Contends(p, v)
         /\ Entered(p, v)' <=> Entered(p, v)
         /\ Holds(p, v)' <=> Holds(p, v)
         /\ node'[p] = node[p]
BY DEF Raised, Contends, Entered, Holds, Same

\* Who has raised a flag is at work, next to the other end; who contends or has
\* entered has raised it.
LEMMA RaisedFacts ==
  ASSUME TypePos, NEW p \in Proc, NEW v
  PROVE  /\ Contends(p, v) \/ Entered(p, v) => Raised(p, v)
         /\ Raised(p, v) => /\ pc[p] \in WorkPC \ {"release"} /\ node[p] \in Node
                            /\ v \in Nbr[node[p]] /\ v \in Node /\ v \in Nat
                            /\ node[p] \in Nat /\ External(p, v)
<1>1. Contends(p, v) \/ Entered(p, v) => Raised(p, v)
  BY DEF Contends, Entered, Raised, LockPC
<1>2. ASSUME Raised(p, v)
      PROVE  /\ pc[p] \in WorkPC \ {"release"} /\ node[p] \in Node
             /\ v \in Nbr[node[p]] /\ v \in Node /\ v \in Nat
             /\ node[p] \in Nat /\ External(p, v)
  <2>1. pc[p] \in WorkPC \ {"release"}
    BY <1>2 DEF Raised, Holds, WorkPC, ReadPC, LockPC
  <2>2. /\ node[p] \in Node /\ node[p] \in Nat /\ Nbr[node[p]] \subseteq Node
        /\ \A n \in locks[p] : n \in Nbr[node[p]] /\ External(p, n)
        /\ pc[p] \in ReadPC \ {"pick"} => nbr[p] \in Nbr[node[p]]
    BY <2>1, PositionFacts
  <2>3. pc[p] \in LockPC \cup {"setFlag"} => External(p, nbr[p])
    BY DEF TypePos, PositionInv, Position
  <2>4. v \in Nbr[node[p]] /\ External(p, v)
    BY <1>2, <2>2, <2>3 DEF Raised, Holds, ReadPC, LockPC
  <2> QED
    BY <2>1, <2>2, <2>4, NbrFacts
<1> QED
  BY <1>1, <1>2

\* LockStep holds of every step and every client.
LEMMA LockSteps ==
  ASSUME TypePos, [Next]_vars, NEW p \in Proc, NEW v
  PROVE  LockStep(p, v)
<1>1. ASSUME Same(p)
      PROVE  LockStep(p, v)
  BY <1>1, LockFrame DEF LockStep
<1>2. CASE UNCHANGED vars
  BY <1>1, <1>2 DEF Same, vars, client
<1>3. ASSUME NEW r \in Proc, StepOf(r)
      PROVE  LockStep(p, v)
  <2>1. CASE p = r
    BY <1>3, <2>1, LockStepSelf
  <2>2. CASE p # r
    BY <1>1, <1>3, <2>2, OthersSame DEF TypePos
  <2> QED
    BY <2>1, <2>2
<1>4. ASSUME NEW x \in Servers, NEW y \in Servers \ {x}, Apply(x, y)
      PROVE  LockStep(p, v)
  BY <1>1, <1>4, ApplySame
<1> QED
  BY <1>2, <1>3, <1>4 DEF Next, StepOf

\* A raised flag stays up: only its owner writes it, and lowers it in release.
LEMMA FlagStep ==
  ASSUME TypePos, SenderInv, FlagInv, [Next]_vars
  PROVE  FlagInv'
<1> SUFFICES ASSUME NEW p \in Proc, NEW v \in Node, Raised(p, v)'
             PROVE  Get(p, FlagKey(node[p], v))' = 1
  BY DEF FlagInv
<1> DEFINE u == node[p]
           k == FlagKey(u, v)
<1>1. ASSUME Raised(p, v)
      PROVE  /\ u \in First[p] .. Last[p] /\ u \in Node /\ v \in Nbr[u] /\ k \in OwnKeys(u)
             /\ k \in Keys /\ Get(p, k) = 1 /\ home[p] \in Servers
  <2>1. pc[p] \in WorkPC /\ u \in Node /\ v \in Nbr[u]
    BY <1>1, RaisedFacts
  <2>2. u \in First[p] .. Last[p]
    BY <2>1, PositionFacts
  <2>3. k \in OwnKeys(u) /\ k \in Keys
    BY <2>1, KeysExist DEF OwnKeys
  <2> QED
    BY <1>1, <2>1, <2>2, <2>3 DEF FlagInv, TypePos, TypeOK
<1>2. CASE UNCHANGED vars
  <2>1. Raised(p, v)
    BY <1>2 DEF Raised, Holds, vars, client
  <2> QED
    BY <1>1, <1>2, <2>1 DEF Get, vars, client
<1>3. ASSUME NEW r \in Proc, StepOf(r)
      PROVE  Get(p, FlagKey(node[p], v))' = 1
  <2>1. node'[p] = u /\ (Raised(p, v) \/ (Set(p) /\ pc[p] = "setFlag" /\ v = nbr[p]))
    BY SMT, LockSteps DEF LockStep
  <2>2. CASE ~Set(r)
    <3>1. UNCHANGED <<home, db, chan>>
      BY <1>3, <2>2, StoreSame
    <3>2. Raised(p, v)
      <4> SUFFICES ASSUME Set(p)
                   PROVE  Raised(p, v)
        BY <2>1
      <4>1. p # r
        BY <2>2
      <4>2. Same(p)
        BY <1>3, <4>1, OthersSame DEF TypePos
      <4> QED
        BY <4>2, LockFrame
    <3> QED
      BY <1>1, <2>1, <3>1, <3>2 DEF Get
  <2>3. CASE Set(r)
    <3>1. home' = home
      BY <2>3, SetFacts
    <3>2. PICK m \in Message : SetsTo(r, m)
      BY <2>3, SetFacts
    <3>3. CASE Raised(p, v)
      <4>1. m.key = k => r = p /\ (m.val = 1 \/ pc[p] = "release")
        <5>1. m.key = k => r = p
          BY <1>1, <2>3, <3>2, <3>3, SetByOwner
        <5>2. pc[r] \in WritePC /\ (pc[r] = "release" => locks[r] # {})
          BY <2>3 DEF Set
        <5>3. \A w \in Nbr[u] : Written(r).key = FlagKey(u, w) =>
                 \/ pc[r] = "setFlag" /\ Written(r).val = 1
                 \/ pc[r] = "release"
          <6>1. u \in Node
            BY <1>1, <3>3
          <6> HIDE DEF u
          <6> QED
            BY <5>2, <6>1, WrittenKeys
        <5> QED
          BY <1>1, <3>2, <3>3, <5>1, <5>3 DEF SetsTo
      <4>2. pc[p] # "release"
        BY <3>3, RaisedFacts
      <4>3. db'[home[p]][k] = IF home[p] = home[r] /\ k = m.key THEN m.val ELSE db[home[p]][k]
        BY <1>1, <3>2, <3>3 DEF SetsTo
      <4> QED
        BY <1>1, <2>1, <3>1, <3>3, <4>1, <4>2, <4>3 DEF Get
    <3>4. CASE ~Raised(p, v)
      <4>1. Set(p) /\ pc[p] = "setFlag" /\ v = nbr[p]
        BY <2>1, <3>4
      <4>2. p = r
        <5> SUFFICES ASSUME p # r
                     PROVE  FALSE
          OBVIOUS
        <5>1. Same(p)
          BY <1>3, OthersSame DEF TypePos
        <5> QED
          BY <3>4, <5>1, LockFrame
      <4>3. m.key = k /\ m.val = 1 /\ m.key \in Keys
        BY <3>2, <4>1, <4>2 DEF SetsTo, Written, Message
      <4>4. home[p] \in Servers
        BY DEF TypePos, TypeOK
      <4>5. db'[home[p]][k] = 1
        BY <3>2, <4>2, <4>3, <4>4 DEF SetsTo
      <4> QED
        BY <2>1, <3>1, <4>5 DEF Get
    <3> QED
      BY <3>3, <3>4
  <2> QED
    BY <2>2, <2>3
<1>4. ASSUME NEW x \in Servers, NEW y \in Servers \ {x}, Apply(x, y)
      PROVE  Get(p, FlagKey(node[p], v))' = 1
  <2>1. home' = home /\ AppliesAt(x, y)
    BY <1>4, ApplyFacts
  <2>2. Raised(p, v) /\ node'[p] = u
    BY <1>4, ApplySame, LockFrame
  <2>3. Head(chan[x][y]).key = k => x = home[p]
    BY <1>1, <2>1, <2>2, ApplyFromOwner
  <2>4. db'[home[p]][k] = db[home[p]][k]
    BY <1>1, <2>1, <2>2, <2>3 DEF AppliesAt
  <2> QED
    BY <1>1, <2>1, <2>2, <2>4 DEF Get
<1> QED
  BY <1>2, <1>3, <1>4 DEF Next, StepOf

\* The value of k after the step, at the server of p.
Later(p, k) == db'[home[p]][k]

\* When all clients are on one server, no write comes to it from another server.
LEMMA OneServerApply ==
  ASSUME TypePos, SenderInv, OneServer, NEW x \in Servers, NEW y \in Servers \ {x},
         AppliesAt(x, y), home' = home, NEW p \in Proc, NEW k \in Keys
  PROVE  Later(p, k) = Get(p, k)
<1> DEFINE c == chan[x][y]
<1>1. c \in Seq(Message) /\ c # <<>>
  BY DEF AppliesAt
<1>2. 1 \in 1 .. Len(c) /\ c[1].by \in Proc
  <2>1. 1 \in 1 .. Len(c) /\ c[1] \in Message
    BY SMT, <1>1
  <2> QED
    BY <2>1 DEF Message
<1>3. home[c[1].by] = x
  BY <1>2 DEF SenderInv
<1>4. home[p] = x /\ home[p] \in Servers
  BY <1>2, <1>3 DEF OneServer, TypePos, TypeOK
<1> QED
  BY <1>4 DEF AppliesAt, Get, Later

\* Then what a read gives changes only by a SET of its key.
LEMMA GetStep ==
  ASSUME TypePos, SenderInv, OneServer, [Next]_vars, NEW p \in Proc, NEW k \in Keys
  PROVE  \/ Later(p, k) = Get(p, k)
         \/ \E r \in Proc : /\ Set(r) /\ Written(r).key = k
                            /\ Later(p, k) = Written(r).val
<1>1. CASE UNCHANGED vars
  BY <1>1 DEF vars, Get, Later
<1>2. ASSUME NEW r \in Proc, StepOf(r)
      PROVE  \/ Later(p, k) = Get(p, k)
             \/ Set(r) /\ Written(r).key = k /\ Later(p, k) = Written(r).val
  <2>1. CASE ~Set(r)
    BY <1>2, <2>1, StoreSame DEF Get, Later
  <2>2. CASE Set(r)
    <3>1. home' = home
      BY <2>2, SetFacts
    <3>2. PICK m \in Message : SetsTo(r, m)
      BY <2>2, SetFacts
    <3>3. home[p] \in Servers
      BY DEF TypePos, TypeOK
    <3> QED
      BY SMT, <2>2, <3>1, <3>2, <3>3 DEF SetsTo, Get, Later
  <2> QED
    BY <2>1, <2>2
<1>3. ASSUME NEW x \in Servers, NEW y \in Servers \ {x}, Apply(x, y)
      PROVE  Later(p, k) = Get(p, k)
  BY <1>3, ApplyFacts, OneServerApply
<1> QED
  BY <1>1, <1>2, <1>3 DEF Next, StepOf

\* A SET of the turn of the edge of a contender p is by one of its ends, which then
\* waits; p itself cannot have entered.
LEMMA TurnWritten ==
  ASSUME TypePos, NEW p \in Proc, NEW v, Contends(p, v), NEW r \in Proc, Set(r),
         Written(r).key = TurnKey(node[p], v)
  PROVE  /\ pc[r] = "setTurn" /\ Written(r).val = node[r]
         /\ (r = p /\ nbr[p] = v) \/ (node[r] = v /\ nbr[r] = node[p])
<1> DEFINE u == node[p]
<1>1. u \in Node /\ v \in Nbr[u] /\ pc[p] \in WorkPC
  BY RaisedFacts
<1>2. pc[r] \in WritePC /\ (pc[r] = "release" => locks[r] # {})
  BY DEF Set
<1> HIDE DEF u
<1>3. \A w \in Nbr[u] : Written(r).key = TurnKey(u, w) =>
         /\ pc[r] = "setTurn" /\ Written(r).val = node[r]
         /\ (node[r] = u /\ nbr[r] = w) \/ (node[r] = w /\ nbr[r] = u)
  BY <1>1, <1>2, WrittenKeys
<1>4. /\ pc[r] = "setTurn" /\ Written(r).val = node[r]
      /\ (node[r] = u /\ nbr[r] = v) \/ (node[r] = v /\ nbr[r] = u)
  BY <1>1, <1>3 DEF u
<1>5. pc[r] \in WorkPC
  BY <1>4 DEF WorkPC, ReadPC, LockPC
<1>6. node[r] = u => r = p
  BY <1>1, <1>5, DistinctOwners DEF u
<1> QED
  BY <1>4, <1>6 DEF u

\* TurnInv is kept: only the two ends write the turn.
LEMMA TurnStep ==
  ASSUME TypePos, SenderInv, TurnInv, [Next]_vars, home' = home
  PROVE  TurnInv'
<1> SUFFICES ASSUME OneServer, NEW p \in Proc, NEW v \in Node, Contends(p, v)'
             PROVE  Get(p, TurnKey(node[p], v))' \in {node[p], v}'
  BY DEF TurnInv, OneServer
<1> DEFINE u == node[p]
           k == TurnKey(u, v)
<1>1. node'[p] = u /\ (Contends(p, v) \/ (Set(p) /\ pc[p] = "setTurn" /\ v = nbr[p]))
  BY LockSteps DEF LockStep
<1> HIDE DEF u
<1>2. CASE Contends(p, v)
  <2>1. k \in Keys
    BY <1>2, RaisedFacts, KeysExist DEF u
  <2>2. Get(p, k) \in {u, v}
    BY <1>2 DEF TurnInv, u
  <2>4. ASSUME NEW r \in Proc, Set(r), Written(r).key = k, Later(p, k) = Written(r).val
        PROVE  Later(p, k) \in {u, v}
    BY SMT, <1>2, <2>4, TurnWritten DEF u
  <2> HIDE DEF k
  <2>5. Later(p, k) \in {u, v}
    BY <2>1, <2>2, <2>4, GetStep
  <2> QED
    BY <1>1, <2>5 DEF Get, Later, k
<1>3. CASE Set(p) /\ pc[p] = "setTurn" /\ v = nbr[p]
  <2>1. Written(p).key = k /\ Written(p).val = u /\ k \in Keys
    <3>1. Written(p).key \in Keys
      BY <1>3, WrittenIs DEF WritePC
    <3> QED
      BY <1>3, <3>1 DEF Written, u
  <2>2. PICK m \in Message : SetsTo(p, m)
    BY <1>3, SetFacts
  <2>3. db'[home[p]][k] = u
    BY SMTT(20), <2>1, <2>2 DEF SetsTo, TypePos, TypeOK
  <2> QED
    BY <1>1, <2>3 DEF Get, Later
<1> QED
  BY <1>1, <1>2, <1>3

\* Peterson's argument, step by step.
LEMMA PetersonStep ==
  ASSUME TypePos, SenderInv, FlagInv, TurnInv, PetersonInv, [Next]_vars, home' = home
  PROVE  PetersonInv'
<1> SUFFICES ASSUME OneServer, NEW p \in Proc, NEW q \in Proc, p # q,
                    Entered(p, node[q])', Contends(q, node[p])'
             PROVE  Get(p, TurnKey(node[p], node[q]))' = node'[q]
  BY DEF PetersonInv, OneServer
<1> DEFINE a == node[p]
           b == node[q]
           k == TurnKey(a, b)
<1>1. node'[p] = a /\ node'[q] = b
  <2>1. PICK v, w : v = node'[q] /\ w = node'[p]
    OBVIOUS
  <2>2. Entered(p, v)' /\ Contends(q, w)'
    BY <2>1 DEF Entered, Contends, Holds
  <2> QED
    BY <2>2, LockSteps DEF LockStep
<1>2. /\ \/ Entered(p, b)
         \/ /\ Contends(p, b) /\ UNCHANGED <<home, db, chan>>
            /\ Get(p, FlagKey(b, a)) # 1 \/ Get(p, k) # a
      /\ Contends(q, a) \/ (Set(q) /\ pc[q] = "setTurn" /\ a = nbr[q])
  <2>1. LockStep(p, b) /\ LockStep(q, a)
    BY LockSteps
  <2>2. Entered(p, b)' /\ Contends(q, a)'
    BY <1>1 DEF Entered, Contends, Holds
  <2> QED
    BY <2>1, <2>2 DEF LockStep
<1>3. Raised(p, b)
  BY <1>2, RaisedFacts
<1>4. a \in Node /\ b \in Node /\ b \in Nbr[a] /\ a \in Nat /\ b \in Nat /\ k \in Keys
  BY <1>3, RaisedFacts, NbrFacts, KeysExist
<1>5. TurnKey(b, a) = k
  BY <1>4, TurnKeySym
<1>6. \A x : Get(q, x) = Get(p, x)
  BY DEF OneServer, Get
<1> HIDE DEF a, b
<1>7. CASE ~Entered(p, b)
  <2>1. /\ Contends(p, b) /\ UNCHANGED <<home, db, chan>>
        /\ Get(p, FlagKey(b, a)) # 1 \/ Get(p, k) # a
    BY <1>2, <1>7
  <2>2. Contends(q, a)
    <3> SUFFICES ASSUME Set(q)
                 PROVE  FALSE
      BY <1>2
    <3>1. PICK m \in Message : SetsTo(q, m)
      BY SetFacts
    <3>2. \E r \in Proc : StepOf(r) /\ Set(r)
      BY DEF StepOf, Step
    <3>3. Same(p)
      BY OthersSame DEF TypePos, StepOf, Step
    <3> QED
      BY <1>1, <1>7, <3>3, LockFrame DEF Entered, Holds, b
  <2>3. Get(p, FlagKey(b, a)) = 1
    BY <1>4, <1>6, <2>2, RaisedFacts DEF FlagInv, b
  <2>4. Get(p, k) \in {a, b}
    BY <1>4, <2>1 DEF TurnInv, a
  <2>5. Get(p, k) = b
    BY <2>1, <2>3, <2>4
  <2> QED
    BY <1>1, <2>1, <2>5 DEF Get, a, b
<1>8. CASE Entered(p, b) /\ Contends(q, a)
  <2>1. Get(p, k) = b
    BY <1>8 DEF PetersonInv, a, b
  <2>2. ASSUME NEW r \in Proc, Set(r), Written(r).key = k, Later(p, k) = Written(r).val
        PROVE  Later(p, k) = b
    <3>1. /\ pc[r] = "setTurn" /\ Written(r).val = node[r]
          /\ (r = q /\ nbr[q] = a) \/ (node[r] = a /\ nbr[r] = b)
      <4>1. Written(r).key = TurnKey(node[q], a)
        BY <1>5, <2>2 DEF b
      <4>2. Contends(q, a) /\ Set(r)
        BY <1>8, <2>2
      <4>3. /\ pc[r] = "setTurn" /\ Written(r).val = node[r]
            /\ (r = q /\ nbr[q] = a) \/ (node[r] = a /\ nbr[r] = node[q])
        BY SMTT(20), <4>1, <4>2, TurnWritten
      <4> QED
        BY <4>3 DEF b
    <3>2. CASE r = q
      BY <2>2, <3>1, <3>2 DEF b
    <3>3. CASE r # q
      <4>1. node[r] = a /\ nbr[r] = b
        BY <3>1, <3>3
      <4>2. r = p
        <5>1. pc[r] \in WorkPC /\ pc[p] \in WorkPC
          BY <1>3, <3>1, RaisedFacts DEF WorkPC, ReadPC, LockPC
        <5> QED
          BY <4>1, <5>1, DistinctOwners DEF a
      <4>3. b \notin locks[p]
        BY <3>1, <4>1, <4>2 DEF TypePos, PositionInv, Position, LockPC
      <4> QED
        BY <1>8, <3>1, <4>2, <4>3 DEF Entered, Holds
    <3> QED
      BY <3>2, <3>3
  <2> HIDE DEF k
  <2>3. Later(p, k) = b
    BY <1>4, <2>1, <2>2, GetStep
  <2> QED
    BY <1>1, <2>3 DEF Get, Later, a, b, k
<1>9. CASE Set(q) /\ pc[q] = "setTurn" /\ a = nbr[q]
  <2>1. Written(q).key = TurnKey(b, a) /\ Written(q).val = b
    BY <1>9 DEF Written, b
  <2>2. PICK m \in Message : SetsTo(q, m)
    BY <1>9, SetFacts
  <2>3. db'[home[q]][k] = b
    <3>1. m.key = k /\ m.val = b
      BY <1>5, <2>1, <2>2 DEF SetsTo
    <3> QED
      BY <2>2, <3>1, SetsAtHome
  <2>4. home[q] = home[p]
    BY DEF OneServer
  <2> QED
    BY <1>1, <2>3, <2>4 DEF Get, a, b
<1> QED
  BY <1>2, <1>7, <1>8, <1>9

\* On one server the two ends of an edge do not hold its lock at the same time.
LEMMA OneHolder ==
  ASSUME TypePos, TurnInv, PetersonInv, OneServer, NEW p \in Proc, NEW q \in Proc, p # q,
         Holds(p, node[q]), Holds(q, node[p])
  PROVE  FALSE
<1>1. /\ Entered(p, node[q]) /\ Contends(p, node[q])
      /\ Entered(q, node[p]) /\ Contends(q, node[p])
  BY DEF Entered, Contends
<1>2. /\ Get(p, TurnKey(node[p], node[q])) = node[q]
      /\ Get(q, TurnKey(node[q], node[p])) = node[p]
  BY <1>1 DEF PetersonInv
<1>3. /\ node[p] \in Nat /\ node[q] \in Nat
      /\ pc[p] \in WorkPC /\ pc[q] \in WorkPC
  BY <1>1, RaisedFacts
<1>4. TurnKey(node[p], node[q]) = TurnKey(node[q], node[p])
  BY <1>3, TurnKeySym
<1>5. node[p] # node[q]
  BY <1>3, DistinctOwners
<1> QED
  BY <1>2, <1>4, <1>5 DEF Get, OneServer

-----------------------------------------------------------------------------
(* The colours on one server. *)

\* A status is missing or 1.
LEMMA StatusValues ==
  ASSUME ChannelsInv, NEW s \in Servers, NEW u \in Node
  PROVE  db[s][StatusKey(u)] \in {Nil, 1}
<1>1. CASE Unowned(u)
  <2>1. StatusKey(u) \in OwnKeys(u) /\ StatusKey(u) # ColorKey(u)
    BY NbrFacts, KeysDiffer DEF OwnKeys
  <2>2. Untouched(StatusKey(u), Nil)
    BY <1>1, <2>1 DEF ChannelsInv, StageInv
  <2> QED
    BY <2>2 DEF Untouched
<1>2. CASE ~Unowned(u)
  <2>1. PICK p \in Proc : u \in First[p] .. Last[p]
    BY <1>2, RangeFacts DEF Unowned
  <2>2. CASE s = home[p]
    BY <2>1, <2>2, ColorsParts DEF ChannelsInv
  <2>3. CASE s # home[p]
    BY <2>1, <2>3, ColorsParts DEF ChannelsInv, Shown
  <2> QED
    BY <2>2, <2>3
<1> QED
  BY <1>1, <1>2

\* A node that is being read for or painted is not marked.
LEMMA BusyUnmarked ==
  ASSUME FiniteFacts, ChannelsInv, NEW p \in Proc, pc[p] \in ReadPC \cup {"setColor"},
         NEW s \in Servers
  PROVE  db[s][StatusKey(node[p])] # 1
<1>1. pc[p] \in WorkPC
  BY DEF WorkPC
<1>2. node[p] = cur[p] /\ node[p] \in First[p] .. Last[p]
  BY <1>1, PositionFacts DEF ChannelsInv, TypePos
<1>3. Ahead(p, node[p]) \/ Painting(p, node[p])
  BY <1>2 DEF Ahead, Painting, ReadPC, LockPC
<1>4. Untouched(StatusKey(node[p]), Nil)
  BY <1>2, <1>3 DEF ChannelsInv, StageInv
<1> QED
  BY SMT, <1>4 DEF Untouched, Nil

\* Nobody writes the colour of a neighbour that p has settled.
LEMMA NobodyPaints ==
  ASSUME FiniteFacts, ChannelsInv, TurnInv, PetersonInv, SnapshotInv, OneServer,
         NEW p \in Proc, pc[p] \in ReadPC \cup {"setColor"}, NEW n \in Nbr[node[p]],
         Settled(p, n), NEW r \in Proc, Set(r), Written(r).key = ColorKey(n)
  PROVE  FALSE
<1>1. TypePos
  BY DEF ChannelsInv, TypePos
<1>2. pc[p] \in WorkPC /\ pc[p] # "release"
  BY DEF WorkPC, ReadPC, LockPC
<1>3. /\ node[p] \in Node /\ n \in Node /\ n # node[p] /\ node[p] \in Nbr[n]
      /\ home[p] \in Servers /\ home[r] = home[p]
  <2>1. node[p] \in Node
    BY <1>1, <1>2, PositionFacts
  <2> QED
    BY <1>1, <2>1, NbrFacts DEF OneServer, TypePos, TypeOK
<1>4. pc[r] = "setColor" /\ node[r] = n
  BY <1>1, <1>3, WrittenKeys DEF Set
<1>5. p # r /\ pc[r] \in WorkPC
  BY <1>3, <1>4 DEF WorkPC
<1>6. External(p, n) /\ External(r, node[p])
  BY <1>1, <1>2, <1>4, <1>5, DistinctOwners
<1>7. n \in locks[p]
  <2>1. Get(p, StatusKey(n)) # 1
    BY <1>3, <1>4, BusyUnmarked DEF Get
  <2> QED
    BY <1>6, <2>1 DEF Settled
<1>8. node[p] \in locks[r]
  <2>1. todo[r] = {}
    BY <1>1, <1>4 DEF TypePos, PositionInv, Position
  <2>2. Settled(r, node[p])
    BY <1>3, <1>4, <2>1 DEF SnapshotInv
  <2>3. Get(r, StatusKey(node[p])) # 1
    BY <1>3, BusyUnmarked DEF Get
  <2> QED
    BY <1>6, <2>2, <2>3 DEF Settled
<1>9. Holds(p, node[r]) /\ Holds(r, node[p])
  BY <1>2, <1>4, <1>5, <1>7, <1>8 DEF Holds
<1> QED
  BY <1>1, <1>5, <1>9, OneHolder

\* So what p has read of it stays true.
LEMMA SettledStays ==
  ASSUME FiniteFacts, ChannelsInv, TurnInv, PetersonInv, SnapshotInv, OneServer,
         [Next]_vars,
         NEW p \in Proc, pc[p] \in ReadPC \cup {"setColor"}, NEW n \in Nbr[node[p]],
         Settled(p, n)
  PROVE  /\ Later(p, ColorKey(n)) = Get(p, ColorKey(n))
         /\ Get(p, StatusKey(n)) = 1 => Later(p, StatusKey(n)) = 1
<1>1. TypePos /\ SenderInv
  BY DEF ChannelsInv, TypePos
<1>2. pc[p] \in WorkPC
  BY DEF WorkPC
<1>3. n \in Node /\ ColorKey(n) \in Keys /\ home[p] \in Servers
  BY <1>1, <1>2, PositionFacts, KeysExist DEF TypePos, TypeOK
<1>4. Later(p, ColorKey(n)) = Get(p, ColorKey(n))
  BY <1>1, <1>3, GetStep, NobodyPaints
<1>5. Get(p, StatusKey(n)) = 1 => Later(p, StatusKey(n)) = 1
  BY <1>3, MarkedStays DEF Get, Later
<1> QED
  BY <1>4, <1>5

\* What SnapshotInv says of a client.
Snapshot(p) ==
    pc[p] \in ReadPC \cup {"setColor"} =>
       \A n \in Nbr[node[p]] \ todo[p] :
          /\ pc[p] \in {"pick", "setColor"} \/ n # nbr[p] =>
                Get(p, ColorKey(n)) \in seen[p] /\ Settled(p, n)
          /\ pc[p] = "getColor" => Settled(p, n)

\* A client that stays where it is keeps its snapshot.
LEMMA SnapshotStays ==
  ASSUME FiniteFacts, ChannelsInv, TurnInv, PetersonInv, SnapshotInv, OneServer,
         [Next]_vars, home' = home,
         NEW p \in Proc, pc'[p] = pc[p], node'[p] = node[p], todo'[p] = todo[p],
         nbr'[p] = nbr[p], seen'[p] = seen[p], locks'[p] = locks[p]
  PROVE  Snapshot(p)'
<1> SUFFICES ASSUME pc[p] \in ReadPC \cup {"setColor"}, NEW n \in Nbr[node[p]] \ todo[p]
             PROVE  /\ pc[p] \in {"pick", "setColor"} \/ n # nbr[p] =>
                          Later(p, ColorKey(n)) \in seen[p] /\ Settled(p, n)'
                    /\ pc[p] = "getColor" => Settled(p, n)'
  BY DEF Snapshot, Get, Later
<1>1. Settled(p, n) => /\ Later(p, ColorKey(n)) = Get(p, ColorKey(n))
                       /\ Settled(p, n)'
  BY SettledStays DEF Settled, Get, Later
<1> QED
  BY <1>1 DEF SnapshotInv

\* The step of a client that is no SET: a neighbour is settled before its colour is read.
LEMMA SnapshotSelf ==
  ASSUME FiniteFacts, ChannelsInv, NEW p \in Proc, StepOf(p), ~Set(p), Snapshot(p)
  PROVE  Snapshot(p)'
<1>1. TypePos /\ LocalOK /\ Position(p) /\ home[p] \in Servers
  BY TypeParts DEF ChannelsInv, TypePos, PositionInv, TypeOK
<1>2. UNCHANGED <<home, db, chan>>
  BY StoreSame
<1> SUFFICES ASSUME pc'[p] \in ReadPC \cup {"setColor"}, NEW n \in Nbr[node'[p]] \ todo'[p]
             PROVE  /\ pc'[p] \in {"pick", "setColor"} \/ n # nbr'[p] =>
                          Get(p, ColorKey(n)) \in seen'[p] /\ Settled(p, n)'
                    /\ pc'[p] = "getColor" => Settled(p, n)'
  BY <1>2 DEF Snapshot, Get
<1>3. Settled(p, n)' <=> \/ ~External(p, n) \/ Get(p, StatusKey(n)) = 1 \/ n \in locks'[p]
  BY <1>2 DEF Settled, Get
<1> USE DEF At, Goto, client, Shared, LocalOK, ReadPC, LockPC, Snapshot
<1>4. CASE Start(p)
  BY <1>1, <1>4 DEF Start
<1>5. CASE ProcessNode(p)
  BY <1>1, <1>5 DEF ProcessNode
<1>6. CASE PickNeighbour(p)
  <2> DEFINE l == Least(todo[p])
  <2>1. l \in todo[p] /\ l \in Node /\ node[p] \in Node
    BY <1>1, <1>6, LeastIs, NbrFacts, PositionFacts DEF PickNeighbour, Position, WorkPC
  <2>2. Get(p, StatusKey(l)) \in {Nil, 1}
    BY <1>1, <2>1, StatusValues DEF Get
  <2> HIDE DEF l
  <2>3. /\ nbr'[p] = l /\ todo'[p] = todo[p] \ {l} /\ locks'[p] = locks[p]
        /\ seen'[p] = seen[p] /\ node'[p] = node[p] /\ pc[p] = "pick"
        /\ pc'[p] = IF External(p, l) /\ Get(p, StatusKey(l)) = Nil THEN "setFlag"
                    ELSE "getColor"
    BY <1>1, <1>6 DEF PickNeighbour, l
  <2>4. CASE n = l
    BY <1>3, <2>2, <2>3, <2>4
  <2>5. CASE n # l
    BY <1>3, <2>3, <2>5 DEF Settled
  <2> QED
    BY <2>4, <2>5
<1>7. CASE GetFlag(p)
  BY <1>1, <1>3, <1>7 DEF GetFlag, Settled
<1>8. CASE GetTurn(p)
  <2>1. /\ pc[p] = "getTurn" /\ UNCHANGED <<node, todo, nbr, seen>>
        /\ \/ pc'[p] = "waitTurn" /\ locks'[p] = locks[p]
           \/ pc'[p] = "getColor" /\ locks'[p] = locks[p] \cup {nbr[p]}
    BY <1>1, <1>8 DEF GetTurn, LoopOrEnter
  <2> QED
    BY <1>1, <1>3, <2>1 DEF Settled
<1>9. CASE WaitTurn(p)
  BY <1>1, <1>3, <1>9 DEF WaitTurn, Settled
<1>10. CASE WaitFlag(p)
  <2>1. /\ pc[p] = "waitFlag" /\ UNCHANGED <<node, todo, nbr, seen>>
        /\ \/ pc'[p] = "waitTurn" /\ locks'[p] = locks[p]
           \/ pc'[p] = "getColor" /\ locks'[p] = locks[p] \cup {nbr[p]}
    BY <1>1, <1>10 DEF WaitFlag, LoopOrEnter
  <2> QED
    BY <1>1, <1>3, <2>1 DEF Settled
<1>11. CASE GetColor(p)
  BY <1>1, <1>3, <1>11 DEF GetColor, NextNeighbour, Settled
<1>12. CASE WaitReturns(p)
  <2>1. /\ node'[p] = node[p] /\ todo'[p] = todo[p] /\ nbr'[p] = nbr[p]
        /\ seen'[p] = seen[p] /\ pc'[p] = Following(p) /\ pc[p] \in WritePC
        /\ pc[p] # "release" => locks'[p] = locks[p]
    BY <1>1, <1>12 DEF WaitReturns, Position
  <2> QED
    BY <1>3, <2>1 DEF Following, WritePC, Settled
<1>13. CASE NextNode(p)
  BY <1>1, <1>13 DEF NextNode
<1>14. CASE Report(p)
  BY <1>1, <1>14 DEF Report
<1>15. CASE WaitTimesOut(p)
  BY <1>1, <1>3, <1>15 DEF WaitTimesOut, Settled
<1>16. CASE Fail(p)
  BY <1>1, <1>3, <1>16 DEF Fail, Settled
<1>17. CASE ReportAfterLoss(p)
  BY <1>1, <1>3, <1>17 DEF ReportAfterLoss, Settled
<1> QED
  BY <1>4, <1>5, <1>6, <1>7, <1>8, <1>9, <1>10, <1>11, <1>12, <1>13, <1>14, <1>15,
     <1>16, <1>17 DEF StepOf, Step

\* Every step keeps the snapshots.
LEMMA SnapshotStep ==
  ASSUME FiniteFacts, ChannelsInv, TurnInv, PetersonInv, SnapshotInv, [Next]_vars,
         home' = home
  PROVE  SnapshotInv'
<1> SUFFICES ASSUME OneServer, NEW p \in Proc
             PROVE  Snapshot(p)'
  BY DEF SnapshotInv, Snapshot, OneServer
<1>1. TypeOK /\ Snapshot(p)
  BY DEF ChannelsInv, SnapshotInv, Snapshot
<1>2. ASSUME Same(p)
      PROVE  Snapshot(p)'
  BY <1>2, SnapshotStays DEF Same
<1>3. CASE UNCHANGED vars
  BY <1>2, <1>3 DEF Same, vars, client
<1>4. ASSUME NEW r \in Proc, StepOf(r)
      PROVE  Snapshot(p)'
  <2>1. CASE p # r
    BY <1>1, <1>2, <1>4, <2>1, OthersSame
  <2>2. CASE p = r /\ Set(p)
    BY <2>2, SnapshotStays DEF Set, client
  <2>3. CASE p = r /\ ~Set(p)
    BY <1>1, <1>4, <2>3, SnapshotSelf
  <2> QED
    BY <2>1, <2>2, <2>3
<1>5. ASSUME NEW x \in Servers, NEW y \in Servers \ {x}, Apply(x, y)
      PROVE  Snapshot(p)'
  BY <1>2, <1>5, ApplySame
<1> QED
  BY <1>3, <1>4, <1>5 DEF Next, StepOf

\* Clients do not change servers.
LEMMA HomeSame ==
  ASSUME TypePos, [Next]_vars
  PROVE  home' = home
<1>1. CASE UNCHANGED vars
  BY <1>1 DEF vars
<1>2. ASSUME NEW r \in Proc, StepOf(r)
      PROVE  home' = home
  <2>1. CASE Set(r)
    BY <2>1, SetFacts
  <2>2. CASE ~Set(r)
    BY <1>2, <2>2, StoreSame
  <2> QED
    BY <2>1, <2>2
<1>3. ASSUME NEW x \in Servers, NEW y \in Servers \ {x}, Apply(x, y)
      PROVE  home' = home
  BY <1>3 DEF Apply
<1> QED
  BY <1>1, <1>2, <1>3 DEF Next, StepOf

\* A node becomes painted only at the end of the WAIT for its colour.
LEMMA PaintedNew ==
  ASSUME TypePos, [Next]_vars, NEW p \in Proc, NEW u \in First[p] .. Last[p], Painted(p,
         u)'
  PROVE  \/ Painted(p, u)
         \/ Painting(p, u) /\ waiting[p] /\ UNCHANGED <<home, db, chan>>
<1>1. ASSUME Same(p)
      PROVE  Painted(p, u)
  BY <1>1, StageFrame
<1>2. CASE UNCHANGED vars
  BY <1>1, <1>2 DEF Same, vars, client
<1>3. ASSUME NEW r \in Proc, StepOf(r)
      PROVE  Painted(p, u) \/ (Painting(p, u) /\ waiting[p] /\ UNCHANGED <<home, db, chan>>)
  <2>1. CASE p # r
    BY <1>1, <1>3, <2>1, OthersSame DEF TypePos
  <2>2. CASE p = r /\ Set(p)
    BY <2>2 DEF Set, client, Painted
  <2>3. CASE p = r /\ ~Set(p)
    BY <1>3, <2>3, StageLocal, StoreSame
  <2> QED
    BY <2>1, <2>2, <2>3
<1>4. ASSUME NEW x \in Servers, NEW y \in Servers \ {x}, Apply(x, y)
      PROVE  Painted(p, u)
  BY <1>1, <1>4, ApplySame
<1> QED
  BY <1>2, <1>3, <1>4 DEF Next, StepOf

\* Its colour is not among those its owner has read, and they are those of its neighbours.
LEMMA PaintedDiffers ==
  ASSUME FiniteFacts, ChannelsInv, SnapshotInv, OneServer, NEW p \in Proc,
         NEW u \in First[p] .. Last[p],
         Painting(p, u), waiting[p], NEW v \in Nbr[u]
  PROVE  Get(p, ColorKey(u)) # Get(p, ColorKey(v))
<1>1. pc[p] = "setColor" /\ u = cur[p]
  BY DEF Painting
<1>2. node[p] = u /\ todo[p] = {} /\ IsFiniteSet(seen[p])
  BY <1>1 DEF ChannelsInv, PositionInv, Position, WorkPC
<1>3. Get(p, ColorKey(v)) \in seen[p]
  BY <1>1, <1>2 DEF SnapshotInv
<1>4. Get(p, ColorKey(u)) = LeastFree(seen[p])
  BY DEF ChannelsInv, StageInv, Get
<1> QED
  BY <1>2, <1>3, <1>4, LeastFreeIs

\* The colour of a painted node is not written again.
LEMMA PaintedStays ==
  ASSUME TypePos, SenderInv, OneServer, [Next]_vars, NEW p \in Proc,
         NEW u \in First[p] .. Last[p], Painted(p, u)
  PROVE  Later(p, ColorKey(u)) = Get(p, ColorKey(u))
<1>1. u \in Node /\ u \in Nat /\ ~External(p, u) /\ ColorKey(u) \in Keys /\ cur[p] \in Nat
  BY RangeFacts, KeysExist DEF TypePos, TypeOK
<1>2. ASSUME NEW r \in Proc, Set(r), Written(r).key = ColorKey(u)
      PROVE  FALSE
  <2>1. pc[r] = "setColor" /\ node[r] = u
    BY <1>1, <1>2, WrittenKeys DEF Set
  <2>2. pc[r] \in WorkPC
    BY <2>1 DEF WorkPC
  <2>3. node[r] = cur[r] /\ ~External(r, u)
    BY <2>1, <2>2, PositionFacts
  <2>4. r = p
    BY <1>1, <2>3, OneOwner
  <2> QED
    BY SMTT(20), <1>1, <2>1, <2>3, <2>4 DEF Painted
<1> QED
  BY <1>1, <1>2, GetStep

\* PaintedInv is kept by every step.
LEMMA PaintedStep ==
  ASSUME FiniteFacts, ChannelsInv, SnapshotInv, PaintedInv, [Next]_vars, home' = home
  PROVE  PaintedInv'
<1> SUFFICES ASSUME OneServer, NEW p \in Proc, NEW q \in Proc,
                    NEW u \in First[p] .. Last[p], NEW v \in First[q] .. Last[q],
                    v \in Nbr[u], Painted(p, u)', Painted(q, v)'
             PROVE  Later(p, ColorKey(u)) # Later(p, ColorKey(v))
  BY SMT DEF PaintedInv, OneServer, Get, Later
<1>1. TypePos /\ SenderInv /\ home[p] = home[q]
  BY DEF ChannelsInv, TypePos, OneServer
<1>2. u \in Nbr[v]
  BY RangeFacts, NbrFacts
<1>3. ASSUME Painted(p, u), Painted(q, v)
      PROVE  Later(p, ColorKey(u)) # Later(p, ColorKey(v))
  <2>1. Get(p, ColorKey(u)) # Get(p, ColorKey(v))
    BY <1>3 DEF PaintedInv
  <2>2. /\ Later(p, ColorKey(u)) = Get(p, ColorKey(u))
        /\ Later(q, ColorKey(v)) = Get(q, ColorKey(v))
    BY <1>1, <1>3, PaintedStays
  <2> QED
    BY <1>1, <2>1, <2>2 DEF Get, Later
<1>4. ASSUME Painting(p, u), waiting[p], UNCHANGED <<home, db, chan>>
      PROVE  Later(p, ColorKey(u)) # Later(p, ColorKey(v))
  BY <1>4, PaintedDiffers DEF Get, Later
<1>5. ASSUME Painting(q, v), waiting[q], UNCHANGED <<home, db, chan>>
      PROVE  Later(p, ColorKey(u)) # Later(p, ColorKey(v))
  BY <1>1, <1>2, <1>5, PaintedDiffers DEF Get, Later
<1> QED
  BY <1>1, <1>3, <1>4, <1>5, PaintedNew

\* The whole invariant holds initially: no client is at work.
LEMMA SyncInit ==
  ASSUME FiniteFacts, Init
  PROVE  SyncInv
<1>1. ChannelsInv
  BY ChannelsInit
<1>2. ASSUME NEW p \in Proc
      PROVE  /\ pc[p] = "start" /\ cur[p] = First[p]
             /\ pc[p] \notin WorkPC /\ pc[p] \notin ReadPC /\ pc[p] \notin LockPC
  BY DEF Init, WorkPC, ReadPC, LockPC
<1>3. \A p \in Proc : \A v : ~Holds(p, v) /\ ~Raised(p, v) /\ ~Contends(p, v) /\ ~Entered(p, v)
  BY <1>2 DEF Holds, Raised, Contends, Entered
<1>4. \A p \in Proc : \A u \in First[p] .. Last[p] : ~Painted(p, u)
  <2> SUFFICES ASSUME NEW p \in Proc, NEW u \in First[p] .. Last[p], Painted(p, u)
               PROVE  FALSE
    OBVIOUS
  <2> QED
    BY SMT, <1>2, RangeFacts DEF Painted
<1>5. FlagInv /\ TurnInv /\ PetersonInv
  BY <1>3 DEF FlagInv, TurnInv, PetersonInv
<1>6. SnapshotInv
  BY <1>2 DEF SnapshotInv
<1>7. PaintedInv
  BY <1>4 DEF PaintedInv
<1> QED
  BY <1>1, <1>5, <1>6, <1>7 DEF SyncInv

\* The whole invariant is kept by every step.
LEMMA SyncStep ==
  ASSUME FiniteFacts, SyncInv, [Next]_vars
  PROVE  SyncInv'
<1>1. ChannelsInv /\ TypePos /\ SenderInv
  BY DEF SyncInv, ChannelsInv, TypePos
<1>2. home' = home
  BY <1>1, HomeSame
<1>3. ChannelsInv'
  BY <1>1, ChannelsStep
<1>4. FlagInv' /\ TurnInv' /\ PetersonInv'
  BY <1>1, <1>2, FlagStep, TurnStep, PetersonStep DEF SyncInv
<1>5. SnapshotInv' /\ PaintedInv'
  BY <1>1, <1>2, SnapshotStep, PaintedStep DEF SyncInv
<1> QED
  BY <1>3, <1>4, <1>5 DEF SyncInv

\* On one server, marked neighbours have different colours.
LEMMA ProperOnHome == SyncInv => ProperOnOneServer
<1> SUFFICES ASSUME SyncInv, OneServer
             PROVE  ProperColoring
  BY DEF ProperOnOneServer
<1>1. ChannelsInv /\ PaintedInv
  BY DEF SyncInv
<1> SUFFICES ASSUME NEW s \in Servers, NEW u \in Node, NEW v \in Nbr[u],
                    db[s][StatusKey(u)] = 1, db[s][StatusKey(v)] = 1
             PROVE  db[s][ColorKey(u)] # db[s][ColorKey(v)]
  BY DEF ProperColoring
<1>2. v \in Node
  BY NbrFacts
<1>3. PICK p \in Proc : u \in First[p] .. Last[p] /\ Painted(p, u)
  BY <1>1, MarkedHasOwner
<1>4. PICK q \in Proc : v \in First[q] .. Last[q] /\ Painted(q, v)
  BY <1>1, <1>2, MarkedHasOwner
<1>5. Get(p, ColorKey(u)) # Get(p, ColorKey(v)) /\ home[p] = home[q]
  BY <1>1, <1>3, <1>4 DEF PaintedInv, OneServer
<1>6. CASE s = home[p]
  BY <1>5, <1>6 DEF Get
<1>7. CASE s # home[p]
  <2>1. Shown(home[p], s, u) /\ Shown(home[q], s, v)
    BY <1>1, <1>3, <1>4, <1>5, <1>7, ColorsParts DEF ChannelsInv
  <2>2. /\ db[s][ColorKey(u)] = db[home[p]][ColorKey(u)]
        /\ db[s][ColorKey(v)] = db[home[p]][ColorKey(v)]
    BY <1>5, <2>1 DEF Shown
  <2> QED
    BY <1>5, <2>2 DEF Get
<1> QED
  BY <1>6, <1>7

-----------------------------------------------------------------------------
(* Latecomers, on any servers, when WAIT is for all the replicas. *)

\* What is in flight after a step was in flight before it, or is the SET of the step.
LEMMA FlightStep ==
  ASSUME TypePos, [Next]_vars, NEW s \in Servers, NEW t \in Servers \ {s},
         NEW i \in 1 .. Len(chan'[s][t])
  PROVE  \/ \E j \in 1 .. Len(chan[s][t]) : chan'[s][t][i] = chan[s][t][j]
         \/ \E r \in Proc : Set(r) /\ chan'[s][t][i].by = r /\ Current(chan'[s][t][i], r)
<1> DEFINE c == chan[s][t]
           d == chan'[s][t]
           m == d[i]
           Old == \E j \in 1 .. Len(c) : m = c[j]
<1>1. c \in Seq(Message)
  BY DEF TypePos, TypeOK
<1>2. ASSUME d = c
      PROVE  Old
  BY <1>2
<1>3. ASSUME NEW r \in Proc, StepOf(r)
      PROVE  Old \/ (Set(r) /\ m.by = r /\ Current(m, r))
  <2>1. CASE ~Set(r)
    BY <1>2, <1>3, <2>1, StoreSame
  <2>2. CASE Set(r)
    <3>1. PICK w \in Message : SetsTo(r, w)
      BY <2>2, SetFacts
    <3>2. w.by = r /\ Current(w, r)
      BY <2>2, <3>1 DEF SetsTo, Set, Current
    <3>3. d = Append(c, w) \/ d = c
      BY <3>1 DEF SetsTo
    <3>4. CASE d = Append(c, w)
      <4>1. i \in 1 .. Len(d)
        OBVIOUS
      <4> HIDE DEF c, d
      <4>2. /\ Len(c) \in Nat /\ Len(d) = Len(c) + 1
            /\ \A j \in 1 .. Len(c) : d[j] = c[j]
            /\ d[Len(c) + 1] = w
        BY <1>1, <3>4, SeqElements
      <4>3. (i \in 1 .. Len(c) /\ m = c[i]) \/ m = w
        BY SMT, <4>1, <4>2
      <4> QED
        BY <2>2, <3>2, <4>3
    <3> QED
      BY <1>2, <3>3, <3>4
  <2> QED
    BY <2>1, <2>2
<1>4. ASSUME NEW x \in Servers, NEW y \in Servers \ {x}, Apply(x, y)
      PROVE  Old
  <2>1. d = c \/ (d = Tail(c) /\ c # <<>>)
    BY SMT, <1>4, ApplyFacts DEF AppliesAt
  <2>2. CASE d = Tail(c) /\ c # <<>>
    <3>1. i \in 1 .. Len(d)
      OBVIOUS
    <3> HIDE DEF c, d
    <3>2. Len(d) = Len(c) - 1 /\ Len(c) \in Nat /\ \A j \in 1 .. Len(d) : d[j] = c[j + 1]
      BY SMTT(20), <1>1, <2>2
    <3>3. i + 1 \in 1 .. Len(c) /\ m = c[i + 1]
      BY SMTT(20), <3>1, <3>2
    <3> QED
      BY <3>3
  <2> QED
    BY <1>2, <2>1, <2>2
<1>5. ASSUME UNCHANGED vars
      PROVE  Old
  BY <1>2, <1>5 DEF vars
<1> HIDE DEF Old, m
<1>6. Old \/ \E r \in Proc : Set(r) /\ m.by = r /\ Current(m, r)
  BY <1>3, <1>4, <1>5 DEF Next, StepOf
<1> QED
  BY <1>6 DEF Old, m

\* The write of a client that stays where it is stays the same.
LEMMA CurrentStays ==
  ASSUME NEW p \in Proc, pc'[p] = pc[p], node'[p] = node[p], nbr'[p] = nbr[p],
         seen'[p] = seen[p], locks'[p] = locks[p], NEW m, Current(m, p)
  PROVE  Current(m, p)'
<1>1. Written(p)' = Written(p)
  BY DEF Written
<1> QED
  BY <1>1 DEF Current

\* A WAIT for all the replicas returns when all of them have the writes of the client.
LEMMA AllCaught ==
  ASSUME TypePos, WaitsForAll, NEW p \in Proc, WaitReturns(p),
         NEW t \in Servers \ {home[p]},
         NEW i \in 1 .. Len(chan[home[p]][t])
  PROVE  chan[home[p]][t][i].by # p
<1>1. home[p] \in Servers /\ Caught(p) \subseteq Servers \ {home[p]}
  BY DEF TypePos, TypeOK, Caught
<1>2. /\ Cardinality(Caught(p)) >= Required /\ Required \in Nat
      /\ IsFiniteSet(Servers) /\ Required >= Cardinality(Servers) - 1
  BY SyncAssumption DEF WaitReturns, WaitsForAll
<1>3. Caught(p) = Servers \ {home[p]}
  BY <1>1, <1>2 DEF TypePos, FiniteFacts
<1> QED
  BY <1>3 DEF Caught

\* SentInv is kept by every step: a client leaves a write with nothing in flight.
LEMMA SentStep ==
  ASSUME WaitsForAll, TypePos, SenderInv, SentInv, [Next]_vars
  PROVE  SentInv'
<1> SUFFICES ASSUME NEW s \in Servers, NEW t \in Servers \ {s}, NEW i \in 1 .. Len(chan'[s][t]),
                    NEW m, m = chan'[s][t][i], NEW q, q = m.by
             PROVE  Current(m, q)'
  BY SMTT(20) DEF SentInv, Current
<1>1. ASSUME NEW r \in Proc, Set(r), Current(m, r)
      PROVE  Current(m, r)'
  BY <1>1, CurrentStays DEF Set, client
<1>2. ASSUME NEW j \in 1 .. Len(chan[s][t]), m = chan[s][t][j]
      PROVE  Current(m, q)'
  <2>1. chan[s][t] \in Seq(Message)
    BY DEF TypePos, TypeOK
  <2>2. q \in Proc
    <3>1. chan[s][t][j] \in Message
      BY <2>1, InFlight
    <3> QED
      BY <1>2, <3>1 DEF Message
  <2>3. Current(m, q) /\ home[q] = s
    <3>1. Current(chan[s][t][j], chan[s][t][j].by)
      BY <1>2 DEF SentInv
    <3>2. home[chan[s][t][j].by] = s
      BY <1>2 DEF SenderInv
    <3> QED
      BY <1>2, <3>1, <3>2
  <2>4. ASSUME Same(q)
        PROVE  Current(m, q)'
    BY <2>2, <2>3, <2>4, CurrentStays DEF Same
  <2>5. ASSUME StepOf(q)
        PROVE  Current(m, q)'
    <3>1. pc[q] \in WritePC /\ (pc[q] = "release" => locks[q] # {})
      BY <2>3 DEF Current
    <3>2. ~WaitReturns(q)
      BY <1>2, <2>2, <2>3, AllCaught
    <3>3. Set(q) \/ WaitTimesOut(q) \/ Fail(q) \/ ReportAfterLoss(q)
      BY <2>5, <3>1, <3>2 DEF StepOf, Step, WritePC, At, Start, ProcessNode, PickNeighbour,
         GetFlag, GetTurn, WaitTurn, WaitFlag, GetColor, NextNode, Report
    <3>4. UNCHANGED <<pc, client>>
      BY <3>3 DEF Set, WaitTimesOut, Fail, ReportAfterLoss
    <3> QED
      BY <2>2, <2>3, <3>4, CurrentStays DEF client
  <2>6. ASSUME NEW r \in Proc, StepOf(r)
        PROVE  Current(m, q)'
    BY <2>2, <2>4, <2>5, <2>6, OthersSame DEF TypePos
  <2>7. ASSUME NEW x \in Servers, NEW y \in Servers \ {x}, Apply(x, y)
        PROVE  Current(m, q)'
    BY <2>2, <2>4, <2>7, ApplySame
  <2>8. ASSUME UNCHANGED vars
        PROVE  Current(m, q)'
    BY <2>4, <2>8 DEF vars, client, Same
  <2> QED
    BY <2>6, <2>7, <2>8 DEF Next, StepOf
<1>3. \/ \E j \in 1 .. Len(chan[s][t]) : m = chan[s][t][j]
      \/ \E r \in Proc : Set(r) /\ m.by = r /\ Current(m, r)
  BY FlightStep
<1> QED
  BY <1>1, <1>2, <1>3

\* A value changes on a server only to what some client is writing.
LEMMA StoreStep ==
  ASSUME TypePos, SentInv, [Next]_vars, NEW t \in Servers, NEW k \in Keys
  PROVE  \/ db'[t][k] = db[t][k]
         \/ \E r \in Proc : /\ pc[r] \in WritePC /\ (pc[r] = "release" => locks[r] # {})
                            /\ Written(r).key = k /\ Written(r).val = db'[t][k]
<1> DEFINE Writes(r) == /\ pc[r] \in WritePC /\ (pc[r] = "release" => locks[r] # {})
                        /\ Written(r).key = k /\ Written(r).val = db'[t][k]
<1>1. ASSUME UNCHANGED vars
      PROVE  db'[t][k] = db[t][k]
  BY <1>1 DEF vars
<1>2. ASSUME NEW r \in Proc, StepOf(r)
      PROVE  db'[t][k] = db[t][k] \/ Writes(r)
  <2>1. CASE ~Set(r)
    BY <1>2, <2>1, StoreSame
  <2>2. CASE Set(r)
    <3>1. PICK m \in Message : SetsTo(r, m)
      BY <2>2, SetFacts
    <3> QED
      BY SMTT(20), <2>2, <3>1 DEF SetsTo, Set
  <2> QED
    BY <2>1, <2>2
<1>3. ASSUME NEW x \in Servers, NEW y \in Servers \ {x}, Apply(x, y)
      PROVE  db'[t][k] = db[t][k] \/ \E r \in Proc : Writes(r)
  <2> DEFINE c == chan[x][y]
  <2>1. AppliesAt(x, y)
    BY <1>3, ApplyFacts
  <2>2. Head(c) = c[1] /\ 1 \in 1 .. Len(c) /\ c[1] \in Message
    BY <2>1, InFlight DEF AppliesAt
  <2>3. c[1].by \in Proc /\ Current(c[1], c[1].by)
    BY <2>2 DEF Message, SentInv
  <2>4. db'[t][k] = db[t][k] \/ (k = c[1].key /\ db'[t][k] = c[1].val)
    <3>1. db'[t][k] = db[t][k] \/ (k = Head(c).key /\ db'[t][k] = Head(c).val)
      BY <2>1 DEF AppliesAt
    <3> QED
      BY <2>2, <3>1
  <2> QED
    BY <2>3, <2>4 DEF Current
<1> HIDE DEF Writes
<1>4. db'[t][k] = db[t][k] \/ \E r \in Proc : Writes(r)
  BY <1>1, <1>2, <1>3 DEF Next, StepOf
<1> QED
  BY <1>4 DEF Writes

\* p has its flag towards v up on every server.
Up(p, v) == Holds(p, v) \/ (nbr[p] = v /\ pc[p] \in LockPC)

\* It comes up at the end of the WAIT of setFlag.
LEMMA UpStep ==
  ASSUME TypePos, [Next]_vars, NEW p \in Proc, NEW v, Up(p, v)'
  PROVE  /\ node'[p] = node[p]
         /\ Up(p, v) \/ (WaitReturns(p) /\ waiting[p] /\ pc[p] = "setFlag" /\ nbr[p] = v)
<1>1. ASSUME Same(p)
      PROVE  node'[p] = node[p] /\ Up(p, v)
  BY <1>1 DEF Same, Up, Holds
<1>2. ASSUME UNCHANGED vars
      PROVE  node'[p] = node[p] /\ Up(p, v)
  BY <1>1, <1>2 DEF Same, vars, client
<1>3. ASSUME StepOf(p)
      PROVE  /\ node'[p] = node[p]
             /\ Up(p, v) \/ (WaitReturns(p) /\ waiting[p] /\ pc[p] = "setFlag" /\ nbr[p] = v)
  <2>1. LockStep(p, v) /\ Raised(p, v)'
    BY <1>3, LockStepSelf DEF Up, Raised
  <2>2. node'[p] = node[p] /\ (Raised(p, v) \/ (Set(p) /\ pc[p] = "setFlag" /\ v = nbr[p]))
    BY <2>1 DEF LockStep
  <2>3. LocalOK
    BY TypeParts DEF TypePos
  <2>4. CASE Set(p)
    BY <2>2, <2>4 DEF Set, client, Up, Holds
  <2>5. CASE ~Set(p) /\ ~Up(p, v)
    <3>1. nbr[p] = v /\ pc[p] = "setFlag" /\ waiting[p]
      BY <2>2, <2>5 DEF Up, Raised
    <3>2. \/ WaitReturns(p) \/ WaitTimesOut(p) \/ Fail(p) \/ ReportAfterLoss(p)
      BY <1>3, <2>5, <3>1 DEF StepOf, Step, At, Start, ProcessNode, PickNeighbour, GetFlag,
         GetTurn, WaitTurn, WaitFlag, GetColor, NextNode, Report
    <3>3. ~(pc'[p] = pc[p] /\ locks'[p] = locks[p])
      BY <2>5, <3>1 DEF Up, Holds, LockPC
    <3>4. WaitReturns(p)
      BY <3>2, <3>3 DEF WaitTimesOut, Fail, ReportAfterLoss, client
    <3> QED
      BY <2>2, <3>1, <3>4
  <2> QED
    BY <2>2, <2>4, <2>5
<1>4. ASSUME NEW r \in Proc, StepOf(r)
      PROVE  /\ node'[p] = node[p]
             /\ Up(p, v) \/ (WaitReturns(p) /\ waiting[p] /\ pc[p] = "setFlag" /\ nbr[p] = v)
  BY <1>1, <1>3, <1>4, OthersSame DEF TypePos
<1>5. ASSUME NEW x \in Servers, NEW y \in Servers \ {x}, Apply(x, y)
      PROVE  node'[p] = node[p] /\ Up(p, v)
  BY <1>1, <1>5, ApplySame
<1> QED
  BY <1>2, <1>4, <1>5 DEF Next, StepOf

\* FlagEverywhere is kept by every step.
LEMMA EverywhereStep ==
  ASSUME FiniteFacts, WaitsForAll, ChannelsInv, SentInv, FlagInv, FlagEverywhere,
         [Next]_vars
  PROVE  FlagEverywhere'
<1> SUFFICES ASSUME NEW p \in Proc, NEW v \in Node, Up(p, v)', NEW t \in Servers
             PROVE  db'[t][FlagKey(node'[p], v)] = 1
  BY DEF FlagEverywhere, Up
<1> DEFINE u == node[p]
           k == FlagKey(u, v)
<1>1. TypePos /\ SenderInv /\ DeliveryInv
  BY DEF ChannelsInv, TypePos
<1>2. /\ node'[p] = u
      /\ Up(p, v) \/ (WaitReturns(p) /\ waiting[p] /\ pc[p] = "setFlag" /\ nbr[p] = v)
  BY <1>1, UpStep
<1>3. Raised(p, v)
  BY <1>2 DEF Up, Raised
<1>4. pc[p] \in WorkPC \ {"release"} /\ u \in Node /\ v \in Nbr[u]
  BY <1>1, <1>3, RaisedFacts
<1>5. u \in First[p] .. Last[p] /\ k \in OwnKeys(u) /\ k \in Keys
  BY <1>1, <1>4, PositionFacts, KeysExist DEF OwnKeys
<1> SUFFICES db'[t][k] = 1
  BY <1>2
<1>6. CASE Up(p, v)
  <2>1. db[t][k] = 1
    BY <1>6 DEF FlagEverywhere, Up
  <2>2. ASSUME NEW r \in Proc, pc[r] \in WritePC, pc[r] = "release" => locks[r] # {},
               Written(r).key = k
        PROVE  Written(r).val = 1
    <3> HIDE DEF u
    <3>1. /\ ~External(r, u)
          /\ (pc[r] = "setFlag" /\ Written(r).val = 1) \/ pc[r] = "release"
      <4>1. v \in Nbr[u] /\ u \in Node /\ Written(r).key = FlagKey(u, v)
        BY <1>4, <2>2
      <4>2. Written(r).key \in OwnKeys(u)
        BY <1>5, <2>2
      <4> QED
        BY <1>1, <2>2, <4>1, <4>2, WrittenKeys
    <3>2. r = p
      BY <1>5, <3>1, OneOwner
    <3> QED
      BY <1>4, <3>1, <3>2
  <2>3. \/ db'[t][k] = db[t][k]
        \/ \E r \in Proc : /\ pc[r] \in WritePC /\ (pc[r] = "release" => locks[r] # {})
                           /\ Written(r).key = k /\ Written(r).val = db'[t][k]
    BY <1>1, <1>5, StoreStep
  <2> QED
    BY <2>1, <2>2, <2>3
<1>7. CASE WaitReturns(p)
  <2>1. UNCHANGED db
    BY <1>7 DEF WaitReturns
  <2>2. db[home[p]][k] = 1
    BY <1>3 DEF FlagInv, Get
  <2>3. CASE t = home[p]
    BY <2>1, <2>2, <2>3
  <2>4. CASE t # home[p]
    <3> DEFINE c == chan[home[p]][t]
    <3>1. c \in Seq(Message) /\ home[p] \in Servers
      BY <1>1, <2>4 DEF TypePos, TypeOK
    <3>2. Ends(c, k, db[t][k], 1)
      BY <1>1, <1>5, <2>2, <2>4 DEF DeliveryInv
    <3>3. ASSUME NEW i \in 1 .. Len(c), c[i].key = k
          PROVE  FALSE
      <4>1. c[i].by \in Proc
        <5>1. c[i] \in Message
          BY <3>1, InFlight
        <5> QED
          BY <5>1 DEF Message
      <4>2. ~External(c[i].by, u)
        <5>1. c[i].key \in OwnKeys(u) /\ t \in Servers \ {home[p]}
          BY <1>5, <2>4, <3>3
        <5> QED
          BY <1>1, <1>4, <3>1, <5>1 DEF SenderInv
      <4>3. c[i].by = p
        BY <1>5, <4>1, <4>2, OneOwner
      <4> QED
        BY <1>1, <1>7, <2>4, <4>3, AllCaught
    <3>4. db[t][k] = 1
      BY <3>2, <3>3 DEF Ends
    <3> QED
      BY <2>1, <3>4
  <2> QED
    BY <2>3, <2>4
<1> QED
  BY <1>2, <1>6, <1>7

\* The turn that makes a latecomer wait stays: the holder of a lock is past its
\* SET of the turn.
LEMMA TurnStays ==
  ASSUME FiniteFacts, ChannelsInv, SentInv, [Next]_vars, NEW p \in Proc, NEW q \in Proc,
         Tardy(p, q),
         Get(q, TurnKey(node[q], node[p])) = node[q]
  PROVE  db'[home[q]][TurnKey(node[q], node[p])] = node[q]
<1> DEFINE a == node[p]
           b == node[q]
           k == TurnKey(b, a)
<1>1. TypePos /\ Holds(p, b) /\ home[q] \in Servers
  BY DEF ChannelsInv, TypePos, TypeOK, Tardy
<1>2. /\ pc[p] \in WorkPC /\ b \in locks[p]
      /\ a \in Node /\ b \in Nbr[a] /\ b \in Node /\ a \in Nbr[b] /\ a \in First[p] .. Last[p]
  BY <1>1, PositionFacts, NbrFacts DEF Holds
<1>3. pc[p] = "setTurn" => nbr[p] # b
  BY <1>1, <1>2 DEF TypePos, PositionInv, Position, LockPC
<1>4. k \in Keys
  BY <1>2, KeysExist
<1>5. ASSUME NEW r \in Proc, pc[r] \in WritePC, pc[r] = "release" => locks[r] # {},
             Written(r).key = k
      PROVE  Written(r).val = b
  <2> HIDE DEF a, b
  <2>1. /\ pc[r] = "setTurn" /\ Written(r).val = node[r]
        /\ (node[r] = b /\ nbr[r] = a) \/ (node[r] = a /\ nbr[r] = b)
    BY <1>1, <1>2, <1>5, WrittenKeys
  <2>2. ~External(r, node[r])
    BY <1>1, <2>1, PositionFacts DEF WorkPC, ReadPC, LockPC
  <2>3. node[r] = a => r = p
    BY <1>2, <2>2, OneOwner
  <2> QED
    BY <1>3, <2>1, <2>3
<1>6. \/ db'[home[q]][k] = db[home[q]][k]
      \/ \E r \in Proc : /\ pc[r] \in WritePC /\ (pc[r] = "release" => locks[r] # {})
                         /\ Written(r).key = k /\ Written(r).val = db'[home[q]][k]
  BY <1>1, <1>4, StoreStep
<1> QED
  BY <1>5, <1>6 DEF Get

\* A client at work stays with its node, and one in acquire_lock with its neighbour.
LEMMA NodeSame ==
  ASSUME TypePos, [Next]_vars, NEW p \in Proc, pc[p] \in WorkPC
  PROVE  node'[p] = node[p] /\ (pc[p] # "pick" => nbr'[p] = nbr[p])
<1>1. ASSUME StepOf(p)
      PROVE  node'[p] = node[p] /\ (pc[p] # "pick" => nbr'[p] = nbr[p])
  BY <1>1 DEF StepOf, Step, At, Start, ProcessNode, PickNeighbour, GetFlag, GetTurn,
       WaitTurn,
     WaitFlag, GetColor, Set, WaitReturns, NextNode, Report, WaitTimesOut, Fail,
     ReportAfterLoss, client, WorkPC, ReadPC, LockPC
<1>2. ASSUME NEW r \in Proc, StepOf(r)
      PROVE  node'[p] = node[p] /\ (pc[p] # "pick" => nbr'[p] = nbr[p])
  BY <1>1, <1>2, OthersSame DEF TypePos, Same
<1>3. ASSUME NEW x \in Servers, NEW y \in Servers \ {x}, Apply(x, y)
      PROVE  node'[p] = node[p] /\ (pc[p] # "pick" => nbr'[p] = nbr[p])
  BY <1>3, ApplySame DEF Same
<1>4. ASSUME UNCHANGED vars
      PROVE  node'[p] = node[p] /\ (pc[p] # "pick" => nbr'[p] = nbr[p])
  BY <1>4 DEF vars, client
<1> QED
  BY <1>2, <1>3, <1>4 DEF Next, StepOf

\* What Tardy says of the place of q in acquire_lock.
Stuck(q, l, f, t) ==
    /\ l \in LockPC \cup {"setFlag"}
    /\ l = "getTurn" => f = 1
    /\ l = "waitFlag" => t = node[q]

\* The steps of a latecomer: it finds the flag up and the turn its own.
LEMMA TardySelf ==
  ASSUME FiniteFacts, ChannelsInv, FlagEverywhere, NEW p \in Proc, NEW q \in Proc,
         StepOf(q), Tardy(p, q)
  PROVE  /\ Stuck(q, pc'[q], otherFlag'[q], turnNew'[q])
         /\ pc'[q] \in LockPC \ {"setTurn"} \/ (pc'[q] = "setTurn" /\ waiting'[q]) =>
               \/ Get(q, TurnKey(node[q], node[p])) = node[q]
               \/ Set(q) /\ pc[q] = "setTurn"
<1>1. LocalOK /\ Position(q) /\ node[p] = nbr[q]
  BY TypeParts DEF ChannelsInv, PositionInv, Tardy
<1>2. Get(q, FlagKey(nbr[q], node[q])) = 1
  <2>1. Holds(p, node[q]) /\ home[q] \in Servers
    BY DEF ChannelsInv, TypeOK, Tardy
  <2>2. node[q] \in Node
    <3>1. node[q] \in locks[p]
      BY <2>1 DEF Holds
    <3> QED
      BY <1>1, <3>1 DEF LocalOK
  <2> QED
    BY <1>1, <2>1, <2>2 DEF FlagEverywhere, Get
<1> DEFINE k == Get(q, TurnKey(node[q], nbr[q]))
<1>3. /\ pc[q] \in LockPC \cup {"setFlag"}
      /\ pc[q] \in LockPC \ {"setTurn"} \/ (pc[q] = "setTurn" /\ waiting[q]) => k = node[q]
      /\ pc[q] = "getTurn" => otherFlag[q] = 1
      /\ pc[q] = "waitFlag" => turnNew[q] = node[q]
  BY <1>1 DEF Tardy
<1> SUFFICES /\ Stuck(q, pc'[q], otherFlag'[q], turnNew'[q])
             /\ pc'[q] \in LockPC \ {"setTurn"} \/ (pc'[q] = "setTurn" /\ waiting'[q]) =>
                   k = node[q] \/ (Set(q) /\ pc[q] = "setTurn")
  BY <1>1
<1> HIDE DEF k
<1> USE DEF Stuck, LockPC, LocalOK, At, Goto, client
<1>4. CASE GetFlag(q)
  BY <1>1, <1>2, <1>3, <1>4 DEF GetFlag, Shared
<1>5. CASE GetTurn(q)
  BY <1>1, <1>3, <1>5 DEF GetTurn, LoopOrEnter, Shared, k
<1>6. CASE WaitTurn(q)
  BY <1>1, <1>3, <1>6 DEF WaitTurn, Shared, k
<1>7. CASE WaitFlag(q)
  BY <1>1, <1>2, <1>3, <1>7 DEF WaitFlag, LoopOrEnter, Shared
<1>8. CASE Set(q)
  BY <1>1, <1>3, <1>8 DEF Set
<1>9. CASE WaitReturns(q)
  <2>1. /\ otherFlag'[q] = otherFlag[q] /\ turnNew'[q] = turnNew[q] /\ waiting[q]
        /\ ~waiting'[q] /\ pc'[q] = Following(q) /\ pc[q] \in WritePC
    BY <1>1, <1>9 DEF WaitReturns, Position
  <2> QED
    BY <1>3, <2>1 DEF Following, WritePC
<1>10. CASE WaitTimesOut(q)
  BY <1>1, <1>3, <1>10 DEF WaitTimesOut
<1>11. CASE Fail(q)
  BY <1>1, <1>3, <1>11 DEF Fail
<1>12. CASE ReportAfterLoss(q)
  BY <1>1, <1>3, <1>12 DEF ReportAfterLoss
<1>13. ~(Start(q) \/ ProcessNode(q) \/ PickNeighbour(q) \/ GetColor(q) \/ NextNode(q) \/ Report(q))
  BY <1>3 DEF Start, ProcessNode, PickNeighbour, GetColor, NextNode, Report
<1> QED
  BY <1>4, <1>5, <1>6, <1>7, <1>8, <1>9, <1>10, <1>11, <1>12, <1>13 DEF StepOf, Step

\* A latecomer stays one as long as the other end holds the lock.
LEMMA TardyStays ==
  ASSUME FiniteFacts, ChannelsInv, SentInv, FlagEverywhere, [Next]_vars, NEW p \in Proc,
         NEW q \in Proc,
         Tardy(p, q), Holds(p, node[q])'
  PROVE  Tardy(p, q)'
<1>1. TypePos /\ home' = home
  BY HomeSame DEF ChannelsInv, TypePos
<1>2. node'[p] = node[p]
  BY <1>1, NodeSame DEF Tardy, Holds
<1>3. node'[q] = node[q] /\ nbr'[q] = nbr[q]
  BY <1>1, NodeSame DEF Tardy, WorkPC, ReadPC, LockPC
<1> DEFINE Own == db'[home[q]][TurnKey(node[q], node[p])] = node[q]
           Local == /\ Stuck(q, pc'[q], otherFlag'[q], turnNew'[q])
                    /\ pc'[q] \in LockPC \ {"setTurn"} \/ (pc'[q] = "setTurn" /\ waiting'[q])
                          => Own
<1>4. Get(q, TurnKey(node[q], node[p])) = node[q] => Own
  BY TurnStays
<1>5. ASSUME Same(q)
      PROVE  Local
  BY <1>4, <1>5 DEF Same, Tardy, Stuck
<1>6. ASSUME StepOf(q)
      PROVE  Local
  <2>1. ASSUME Set(q), pc[q] = "setTurn"
        PROVE  Own
    <3>1. PICK m \in Message : SetsTo(q, m)
      BY <1>1, <2>1, SetFacts
    <3>2. m.key = TurnKey(node[q], nbr[q]) /\ m.val = node[q] /\ nbr[q] = node[p]
      BY <2>1, <3>1 DEF SetsTo, Written, Tardy
    <3> QED
      BY <1>1, <3>1, <3>2, SetsAtHome
  <2> HIDE DEF Own
  <2> QED
    BY <1>4, <1>6, <2>1, TardySelf
<1>7. ASSUME NEW r \in Proc, StepOf(r)
      PROVE  Local
  BY <1>1, <1>5, <1>6, <1>7, OthersSame DEF TypePos
<1>8. ASSUME NEW x \in Servers, NEW y \in Servers \ {x}, Apply(x, y)
      PROVE  Local
  BY <1>5, <1>8, ApplySame
<1>9. ASSUME UNCHANGED vars
      PROVE  Local
  BY <1>5, <1>9 DEF vars, client, Same
<1> HIDE DEF Local
<1>10. Local
  BY <1>7, <1>8, <1>9 DEF Next, StepOf
<1> QED
  BY <1>1, <1>2, <1>3, <1>10 DEF Local, Tardy, Stuck, Get

\* A client becomes a latecomer when it comes to acquire_lock.
LEMMA TardyNew ==
  ASSUME TypePos, Next, NEW p \in Proc, NEW q \in Proc, Asks(q, p), Holds(p, node[q])'
  PROVE  Tardy(p, q)'
<1>1. PickNeighbour(q)
  <2>1. LocalOK
    BY TypeParts DEF TypePos
  <2>2. ~Same(q)
    BY DEF Asks, Same
  <2>3. StepOf(q)
    <3>1. ASSUME NEW r \in Proc, StepOf(r)
          PROVE  StepOf(q)
      BY <2>2, <3>1, OthersSame DEF TypePos
    <3>2. ASSUME NEW x \in Servers, NEW y \in Servers \ {x}, Apply(x, y)
          PROVE  FALSE
      BY <2>2, <3>2, ApplySame
    <3> QED
      BY <3>1, <3>2 DEF Next, StepOf
  <2>4. ~(\/ Start(q) \/ GetFlag(q) \/ GetTurn(q) \/ WaitTurn(q) \/ WaitFlag(q) \/ GetColor(q)
          \/ ProcessNode(q) \/ NextNode(q) \/ Report(q))
    BY <2>1 DEF Asks, LocalOK, At, Goto, Start, GetFlag, GetTurn, WaitTurn, WaitFlag,
         GetColor,
       ProcessNode, NextNode, Report, LoopOrEnter, NextNeighbour
  <2>5. ~WaitReturns(q)
    <3> SUFFICES ASSUME WaitReturns(q)
                 PROVE  FALSE
      OBVIOUS
    <3>1. pc'[q] = Following(q)
      BY <2>1 DEF WaitReturns, Goto, LocalOK
    <3> QED
      BY <3>1 DEF Following, Asks
  <2>6. ~(Set(q) \/ WaitTimesOut(q) \/ Fail(q) \/ ReportAfterLoss(q))
    BY DEF Asks, Set, WaitTimesOut, Fail, ReportAfterLoss
  <2> QED
    BY <2>3, <2>4, <2>5, <2>6 DEF StepOf, Step
<1>2. node' = node
  BY <1>1 DEF PickNeighbour
<1> QED
  BY <1>2 DEF Asks, Tardy, LockPC

\* The invariant of the latecomers: nothing but the current write of a client is in
\* flight, and its flag is up on every server.
LateOK == ChannelsInv /\ FlagInv /\ SentInv /\ FlagEverywhere /\ LateInv

\* LateOK holds at the start.
LEMMA LateStart ==
  ASSUME FiniteFacts, LateInit
  PROVE  LateOK
<1>1. ChannelsInv /\ FlagInv
  BY SyncInit DEF LateInit, SyncInv
<1>2. SentInv
  <2>1. \A s \in Servers : \A t \in Servers \ {s} : Len(chan[s][t]) = 0
    BY DEF LateInit, Init
  <2>2. \A s \in Servers : \A t \in Servers \ {s} : chan[s][t] \in Seq(Message)
    BY <1>1 DEF ChannelsInv, TypeOK
  <2> QED
    BY <2>1, <2>2, InFlight DEF SentInv
<1>3. FlagEverywhere
  BY DEF LateInit, Init, FlagEverywhere, Holds, WorkPC, ReadPC, LockPC
<1>4. LateInv
  BY DEF LateInit, LateInv
<1> QED
  BY <1>1, <1>2, <1>3, <1>4 DEF LateOK

\* LateOK is kept by every step when WAIT is for all the replicas.
LEMMA LateStep ==
  ASSUME FiniteFacts, WaitsForAll, LateOK, [LateNext]_<<vars, late>>
  PROVE  LateOK'
<1>1. /\ ChannelsInv /\ FlagInv /\ SentInv /\ FlagEverywhere /\ LateInv
      /\ [Next]_vars /\ TypePos /\ SenderInv
  BY DEF LateOK, LateNext, ChannelsInv, TypePos
<1>2. ChannelsInv' /\ FlagInv'
  BY <1>1, ChannelsStep, FlagStep
<1>3. SentInv' /\ FlagEverywhere'
  BY <1>1, SentStep, EverywhereStep
<1>4. LateInv'
  <2>1. CASE UNCHANGED <<vars, late>>
    BY <1>1, <2>1 DEF LateInv, Tardy, Holds, Get, vars, client
  <2>2. CASE LateNext
    <3> SUFFICES ASSUME NEW a \in late'
                 PROVE  a \in Proc \X Proc /\ Tardy(a[1], a[2])'
      BY DEF LateInv
    <3>1. /\ a \in Proc \X Proc /\ (a \in late \/ Asks(a[2], a[1]))
          /\ Holds(a[1], node[a[2]])' /\ Next
      BY <2>2 DEF LateNext
    <3>2. PICK p \in Proc, q \in Proc : a = <<p, q>>
      BY SMT, <3>1
    <3>3. (a \in late \/ Asks(q, p)) /\ Holds(p, node[q])'
      BY <3>1, <3>2
    <3>4. a \in late => Tardy(p, q)
      BY <1>1, <3>2 DEF LateInv
    <3>5. Tardy(p, q)'
      BY <1>1, <3>1, <3>3, <3>4, TardyStays, TardyNew
    <3> QED
      BY <3>1, <3>2, <3>5
  <2> QED
    BY <2>1, <2>2
<1> QED
  BY <1>2, <1>3, <1>4 DEF LateOK

\* A latecomer does not hold the lock.
LEMMA LateWaits == LateOK => LatecomerWaits
<1> SUFFICES ASSUME ChannelsInv, LateInv, NEW a \in late, Holds(a[2], node[a[1]])
             PROVE  FALSE
  BY DEF LateOK, LatecomerWaits
<1>1. a \in Proc \X Proc /\ Tardy(a[1], a[2])
  BY DEF LateInv
<1>2. PICK p \in Proc, q \in Proc : a = <<p, q>>
  BY SMT, <1>1
<1>3. Tardy(p, q) /\ Holds(q, node[p])
  BY <1>1, <1>2
<1>4. Position(q)
  BY DEF ChannelsInv, PositionInv
<1> QED
  BY <1>3, <1>4 DEF Tardy, Holds, Position

-----------------------------------------------------------------------------
(* The theorems.  From here on the library's facts about finite sets are known. *)

INSTANCE NatLemmas

\* There is a next neighbour, and a first lock to release.
LEMMA LeastExists ==
  ASSUME NEW S \in SUBSET Nat, S # {}
  PROVE  Least(S) \in S
<1>1. \E n \in S : \A m \in S : n <= m
  BY LeastNat
<1> QED
  BY <1>1 DEF Least

\* getMinimalValueNotInArray finds a colour that is not in the array.
LEMMA LeastFreeExists ==
  ASSUME NEW S, IsFiniteSet(S)
  PROVE  LeastFree(S) \in Nat /\ LeastFree(S) \notin S
<1> DEFINE n == Cardinality(S)
           T == {c \in 0 .. n : c \notin S}
<1>1. n \in Nat
  BY FS_CardinalityType
<1> HIDE DEF n
<1>2. T # {}
  <2>1. SUFFICES ASSUME 0 .. n \subseteq S
                 PROVE  FALSE
    OBVIOUS
  <2>2. Cardinality(0 .. n) <= Cardinality(S)
    BY <2>1, FS_Subset
  <2>3. Cardinality(0 .. n) = n + 1
    <3>1. Cardinality(0 .. n) = IF 0 > n THEN 0 ELSE n - 0 + 1
      BY SMTT(20), <1>1, FS_Interval
    <3> QED
      BY SMTT(20), <1>1, <3>1
  <2> QED
    BY SMTT(20), <1>1, <2>2, <2>3 DEF n
<1>3. T \in SUBSET Nat
  BY SMTT(20), <1>1
<1>4. PICK c \in T : \A y \in T : c <= y
  <2> HIDE DEF T
  <2> QED
    BY <1>2, <1>3, LeastNat
<1>5. c \in 0 .. n /\ c \notin S /\ \A d \in 0 .. (c - 1) : d \in S
  <2>1. c \in 0 .. n /\ c \notin S
    BY <1>4
  <2>2. ASSUME NEW d \in 0 .. (c - 1), d \notin S
        PROVE  FALSE
    <3>1. d \in T /\ ~(c <= d)
      BY SMTT(20), <1>1, <2>1, <2>2
    <3> QED
      BY <3>1, <1>4
  <2> QED
    BY <2>1, <2>2
<1>6. /\ LeastFree(S) \in 0 .. n /\ LeastFree(S) \notin S
  BY <1>5 DEF LeastFree, n
<1> QED
  BY SMTT(20), <1>1, <1>6

\* As many acknowledgements as there are other servers are those of all of them.
LEMMA AllButOne ==
  ASSUME NEW S, NEW T, NEW e \in T, NEW n \in Nat, IsFiniteSet(T), S \subseteq T \ {e},
         n >= Cardinality(T) - 1, Cardinality(S) >= n
  PROVE  S = T \ {e}
<1>1. IsFiniteSet(T \ {e}) /\ Cardinality(T \ {e}) = Cardinality(T) - 1
  BY FS_RemoveElement
<1>2. /\ IsFiniteSet(S) /\ Cardinality(S) <= Cardinality(T \ {e})
      /\ Cardinality(S) = Cardinality(T \ {e}) => S = T \ {e}
  BY <1>1, FS_Subset
<1>3. Cardinality(S) \in Nat /\ Cardinality(T) \in Nat
  BY <1>2, FS_CardinalityType
<1> QED
  BY SMTT(20), <1>1, <1>2, <1>3

\* The hypothesis of the lemmas above.
LEMMA FiniteFactsHold == FiniteFacts
<1>1. IsFiniteSet({}) /\ \A S, e : IsFiniteSet(S) => IsFiniteSet(S \cup {e})
  BY FS_EmptySet, FS_AddElement
<1>2. \A S \in SUBSET Nat : S # {} => Least(S) \in S
  BY LeastExists
<1>3. \A S : IsFiniteSet(S) => LeastFree(S) \in Nat /\ LeastFree(S) \notin S
  BY LeastFreeExists
<1>4. \A S, T : \A e \in T : \A n \in Nat :
         /\ IsFiniteSet(T) /\ S \subseteq T \ {e}
         /\ n >= Cardinality(T) - 1 /\ Cardinality(S) >= n
         => S = T \ {e}
  BY AllButOne
<1> QED
  BY <1>1, <1>2, <1>3, <1>4 DEF FiniteFacts

\* The writes of a client arrive everywhere, in its order: the first part of the
\* invariant holds for every pairing of clients and servers.
THEOREM ChannelsInvariant == Spec => []ChannelsInv
<1>1. Init => ChannelsInv
  BY FiniteFactsHold, ChannelsInit
<1>2. ChannelsInv /\ [Next]_vars => ChannelsInv'
  BY FiniteFactsHold, ChannelsStep
<1> QED
  BY <1>1, <1>2, PTL DEF Spec

\* Converged: when nothing is in flight, all servers agree on the keys with one writer.
THEOREM ServersConverge == Spec => []Converged
BY ChannelsInvariant, QuietAgrees, PTL

\* MarkedIsColored: a server that shows a node as marked shows its final colour.
THEOREM MarkedNodesAreColored == Spec => []MarkedIsColored
BY ChannelsInvariant, MarkedColors, PTL

\* ColorIsFinal: the colour of a marked node changes on no server.
THEOREM MarkedColorsAreFinal == Spec => ColorIsFinal
<1>1. ChannelsInv /\ [Next]_vars =>
         [\A s \in Servers : \A u \in Node :
             db[s][StatusKey(u)] = 1 =>
                db'[s][ColorKey(u)] = db[s][ColorKey(u)] /\ db'[s][StatusKey(u)] = 1]_vars
  BY SMTT(20), FiniteFactsHold, MarkedStays
<1> QED
  BY <1>1, ChannelsInvariant, PTL DEF Spec, ColorIsFinal

\* The inductive invariant of the synchronous colouring client: on any servers, the
\* place of every client in its program, what is in flight, and the stage of every
\* node; and for clients that share a server, Peterson's algorithm and what its locks
\* keep of the colours that have been read.
THEOREM SyncInvariant == Spec => []SyncInv
<1>1. Init => SyncInv
  BY FiniteFactsHold, SyncInit
<1>2. SyncInv /\ [Next]_vars => SyncInv'
  BY FiniteFactsHold, SyncStep
<1> QED
  BY <1>1, <1>2, PTL DEF Spec

\* ProperOnOneServer: clients that share a server, which is what the locks of
\* acquire_lock and release_lock are for, never mark two neighbours that have the
\* same colour.
THEOREM OneServerIsProper == Spec => []ProperOnOneServer
BY SyncInvariant, ProperOnHome, PTL

\* With WAIT for all the replicas, and wherever the clients are, the invariant of the
\* latecomers holds.
THEOREM LateInvariant ==
  ASSUME WaitsForAll
  PROVE  LateSpec => []LateOK
<1>1. LateInit => LateOK
  BY FiniteFactsHold, LateStart
<1>2. LateOK /\ [LateNext]_<<vars, late>> => LateOK'
  BY FiniteFactsHold, LateStep
<1> QED
  BY <1>1, <1>2, PTL DEF LateSpec

\* LatecomerWaits: acquire_lock makes a client that comes while the other end has the
\* lock wait until it is released, on any servers, when WAIT is for all the replicas.
THEOREM LatecomersWait ==
  ASSUME WaitsForAll
  PROVE  LateSpec => []LatecomerWaits
BY LateInvariant, LateWaits, PTL
=============================================================================
