------------------------- MODULE ColorSafetyProofs -------------------------
(***************************************************************************)
(* Proofs about get_partition, which gives every client its nodes, and     *)
(* about the clients, for every graph with ids 0 .. N-1, every number of   *)
(* clients and all disjoint partitions: the variables keep their types,    *)
(* the locks exclude the two ends of an edge, the colours a client has     *)
(* read stay current until it writes its own, and adjacent nodes get       *)
(* different colours.  The proof does not look at the actions one by one   *)
(* for every invariant: the lemmas of the second part say what any step    *)
(* can do to the lock protocol of a client and to the keys of an edge, and *)
(* the invariants follow from them.                                        *)
(***************************************************************************)
EXTENDS ColorSafety, Completion, Partition, TLAPS

-----------------------------------------------------------------------------
(***************************************************************************)
(* The script: get_partition cuts any range of ids into disjoint ranges of *)
(* almost the same size that cover it, for every number of partitions.     *)
(***************************************************************************)
\* One iteration takes one partition off the product in LoopInv.
LEMMA OneLess ==
  ASSUME NEW a \in Int, NEW b \in Int
  PROVE  (a - 1) * b = a * b - b
OBVIOUS

\* The quotient and the remainder that get_partition starts from.
LEMMA Division ==
  ASSUME NEW r \in Nat, NEW n \in Nat, n > 0
  PROVE  /\ r \div n \in Nat /\ r % n \in Nat /\ r % n < n
         /\ n * (r \div n) + (r % n) = r
         /\ n <= r => r \div n > 0
<1>1. r % n \in Nat /\ r % n < n
  OBVIOUS
<1>2. r \div n \in Int /\ n * (r \div n) + (r % n) = r
  OBVIOUS
<1>3. r \div n >= 0
  <2> SUFFICES ASSUME r \div n <= -1 PROVE FALSE
    BY <1>2
  <2>1. n * (r \div n) <= -n
    BY <1>2
  <2> QED BY <1>1, <1>2, <2>1
<1>4. n <= r => r \div n > 0
  <2> SUFFICES ASSUME n <= r, r \div n = 0 PROVE FALSE
    BY <1>2, <1>3
  <2>1. n * (r \div n) = 0
    OBVIOUS
  <2> QED BY <1>1, <1>2, <2>1
<1> QED BY <1>1, <1>2, <1>3, <1>4

\* The loop of get_partition starts in a state that satisfies its invariant.
LEMMA LoopInit == PInit => LoopInv /\ RangeInv /\ Disjoint /\ Balanced
<1> SUFFICES ASSUME PInit PROVE LoopInv /\ RangeInv /\ Disjoint /\ Balanced
  OBVIOUS
<1> DEFINE r == endNode - startNode + 1
<1>1. /\ startNode \in Nat /\ endNode \in Nat /\ startNode <= endNode
      /\ numPartitions \in Nat /\ numPartitions > 0 /\ r \in Nat
  BY BoundAssumption DEF PInit
<1>2. /\ partitionSize \in Nat /\ remaining \in Nat
      /\ remaining < numPartitions
      /\ numPartitions * partitionSize + remaining = r
      /\ numPartitions <= r => partitionSize > 0
  BY <1>1, Division DEF PInit
<1>3. iter = 1 /\ currentStart = startNode
  BY DEF PInit
<1>4. LoopInv
  BY <1>1, <1>2, <1>3 DEF LoopInv
<1>5. RangeInv /\ Disjoint /\ Balanced
  BY <1>1, <1>3 DEF RangeInv, Disjoint, Balanced
<1> QED BY <1>4, <1>5

\* What an iteration adds: a range that starts at current_start and ends
\* just before the new one.
LEMMA NewRange ==
  ASSUME LoopInv, Iterate
  PROVE  /\ currentStart' = currentStart + partitionSize + Extra(remaining)
         /\ partitions'[iter] = <<currentStart, currentStart' - 1>>
         /\ \A j \in 1 .. (iter - 1) : partitions'[j] = partitions[j]
         /\ iter' = iter + 1 /\ UNCHANGED pargs
         /\ Extra(remaining) \in {0, 1} /\ Extra(remaining) <= remaining
         /\ remaining' = remaining - Extra(remaining)
<1>1. Extra(remaining) \in {0, 1} /\ Extra(remaining) <= remaining
  BY DEF LoopInv, Extra
<1>2. iter' = iter + 1 /\ UNCHANGED pargs
  BY DEF Iterate
<1>3. remaining' = remaining - Extra(remaining)
  BY DEF Iterate, LoopInv, Extra
<1> DEFINE currentEnd == currentStart + partitionSize - 1 + Extra(remaining)
<1>4. /\ partitions' = [j \in 1 .. iter |->
            IF j = iter THEN <<currentStart, currentEnd>> ELSE partitions[j]]
      /\ currentStart' = currentEnd + 1
  BY DEF Iterate, NextStart
<1>5. iter \in Nat /\ 1 <= iter /\ currentStart \in Nat /\ partitionSize \in Nat
  BY DEF LoopInv
<1>6. /\ currentStart' = currentStart + partitionSize + Extra(remaining)
      /\ currentEnd = currentStart' - 1
  BY <1>1, <1>4, <1>5
<1>7. partitions'[iter] = <<currentStart, currentEnd>>
  BY <1>4, <1>5
<1>8. \A j \in 1 .. (iter - 1) : partitions'[j] = partitions[j]
  BY <1>4, <1>5
<1> QED BY <1>1, <1>2, <1>3, <1>6, <1>7, <1>8

\* An iteration preserves the account of what is left.
LEMMA LoopStep == LoopInv /\ Iterate => LoopInv'
<1> SUFFICES ASSUME LoopInv, Iterate PROVE LoopInv'
  OBVIOUS
<1> DEFINE left == numPartitions - iter + 1
<1>1. /\ currentStart' = currentStart + partitionSize + Extra(remaining)
      /\ iter' = iter + 1 /\ Extra(remaining) \in {0, 1}
      /\ remaining' = remaining - Extra(remaining)
      /\ Extra(remaining) <= remaining
      /\ startNode' = startNode /\ endNode' = endNode
      /\ numPartitions' = numPartitions /\ partitionSize' = partitionSize
  BY NewRange DEF pargs
<1>2. iter <= numPartitions /\ left \in Int
  BY DEF Iterate, LoopInv
<1>3. (left - 1) * partitionSize = left * partitionSize - partitionSize
  BY <1>2, OneLess DEF LoopInv
<1>4. /\ currentStart' \in Nat /\ startNode' <= currentStart'
      /\ remaining' \in Nat /\ iter' \in Nat /\ 1 <= iter' /\ iter' <= numPartitions' + 1
  BY <1>1, <1>2 DEF LoopInv
<1>5. remaining' <= numPartitions' - iter' + 1
  BY <1>1, <1>2 DEF LoopInv, Iterate, Extra
<1>6. numPartitions' - iter' + 1 = left - 1
  BY <1>1, <1>2 DEF LoopInv
<1>7. currentStart' + (left - 1) * partitionSize + remaining' = endNode + 1
  <2>1. left * partitionSize \in Int /\ (left - 1) * partitionSize \in Int
    BY <1>2 DEF LoopInv
  <2>2. currentStart + left * partitionSize + remaining = endNode + 1
    BY DEF LoopInv
  <2> HIDE DEF left
  <2> QED BY <1>1, <1>3, <2>1, <2>2 DEF LoopInv
<1> QED BY <1>1, <1>4, <1>5, <1>6, <1>7 DEF LoopInv

\* The same for the two ends of a range: the new range runs from
\* current_start to the id before its new value, the others stay.
LEMMA NewEnds ==
  ASSUME LoopInv, Iterate
  PROVE  /\ partitions'[iter][1] = currentStart
         /\ partitions'[iter][2] = currentStart' - 1
         /\ \A j \in 1 .. (iter - 1) : /\ partitions'[j][1] = partitions[j][1]
                                    /\ partitions'[j][2] = partitions[j][2]
         /\ iter \in Nat /\ iter' = iter + 1
         /\ currentStart \in Nat /\ currentStart' \in Nat
         /\ currentStart <= currentStart'
         /\ startNode \in Nat /\ startNode' = startNode
         /\ startNode <= currentStart
<1>1. partitions'[iter] = <<currentStart, currentStart' - 1>>
  BY NewRange
<1>2. \A j \in 1 .. (iter - 1) : partitions'[j] = partitions[j]
  BY NewRange
<1>3. currentStart' = currentStart + partitionSize + Extra(remaining)
  BY NewRange
<1>4. Extra(remaining) \in {0, 1} /\ iter' = iter + 1 /\ startNode' = startNode
  BY NewRange DEF pargs
<1>5. /\ iter \in Nat /\ currentStart \in Nat /\ partitionSize \in Nat
      /\ startNode \in Nat /\ startNode <= currentStart
  BY DEF LoopInv
<1>6. currentStart' \in Nat /\ currentStart <= currentStart'
  BY <1>3, <1>4, <1>5
<1> QED BY <1>1, <1>2, <1>4, <1>5, <1>6

\* An iteration preserves the order and the extent of the ranges so far.
LEMMA RangeStep == LoopInv /\ RangeInv /\ Iterate => RangeInv'
<1> SUFFICES ASSUME LoopInv, RangeInv, Iterate PROVE RangeInv'
  OBVIOUS
<1>1. ASSUME NEW j \in 1 .. (iter' - 1)
      PROVE  /\ partitions'[j][1] \in Nat /\ partitions'[j][2] \in Int
             /\ startNode <= partitions'[j][1]
             /\ partitions'[j][2] < currentStart'
  <2>1. CASE j = iter
    BY <2>1, NewEnds
  <2>2. CASE j # iter
    <3>1. j \in 1 .. (iter - 1)
      BY <2>2, NewEnds
    <3>2. /\ partitions[j][1] \in Nat /\ partitions[j][2] \in Int
          /\ startNode <= partitions[j][1] /\ partitions[j][2] < currentStart
      BY <3>1 DEF RangeInv, FirstOf, LastOf
    <3> QED BY <3>1, <3>2, NewEnds
  <2> QED BY <2>1, <2>2
<1>2. ASSUME NEW n \in startNode .. (currentStart' - 1)
      PROVE  \E j \in 1 .. (iter' - 1) : partitions'[j][1] <= n /\ n <= partitions'[j][2]
  <2>1. CASE n >= currentStart
    <3>1. iter \in 1 .. (iter' - 1)
      BY NewEnds DEF LoopInv
    <3>2. partitions'[iter][1] <= n /\ n <= partitions'[iter][2]
      BY <2>1, NewEnds
    <3> QED BY <3>1, <3>2
  <2>2. CASE ~(n >= currentStart)
    <3>1. n \in startNode .. (currentStart - 1)
      BY <2>2, NewEnds
    <3>2. PICK j \in 1 .. (iter - 1) : partitions[j][1] <= n /\ n <= partitions[j][2]
      BY <3>1 DEF RangeInv, FirstOf, LastOf
    <3>3. j \in 1 .. (iter' - 1)
      BY NewEnds
    <3>4. partitions'[j][1] <= n /\ n <= partitions'[j][2]
      BY <3>2, NewEnds
    <3> QED BY <3>3, <3>4
  <2> QED BY <2>1, <2>2
<1>3. startNode' = startNode
  BY NewEnds
<1> QED BY <1>1, <1>2, <1>3 DEF RangeInv, FirstOf, LastOf

\* The new range begins after all earlier ones.
LEMMA DisjointStep == LoopInv /\ RangeInv /\ Disjoint /\ Iterate => Disjoint'
<1> SUFFICES ASSUME LoopInv, RangeInv, Disjoint, Iterate,
                    NEW j \in 1 .. (iter' - 1), NEW k \in 1 .. (iter' - 1), j < k
             PROVE  partitions'[j][2] < partitions'[k][1]
  BY DEF Disjoint, FirstOf, LastOf
<1>1. j \in 1 .. (iter - 1)
  BY NewEnds
<1>2. CASE k = iter
  <2>1. partitions[j][2] < currentStart
    BY <1>1 DEF RangeInv, LastOf
  <2> QED BY <1>1, <1>2, <2>1, NewEnds
<1>3. CASE k # iter
  <2>1. k \in 1 .. (iter - 1)
    BY <1>3, NewEnds
  <2>2. partitions[j][2] < partitions[k][1]
    BY <1>1, <2>1 DEF Disjoint, FirstOf, LastOf
  <2> QED BY <1>1, <2>1, <2>2, NewEnds
<1> QED BY <1>2, <1>3

\* The new range has partition_size ids, or one more while a remainder is left.
LEMMA BalancedStep == LoopInv /\ Balanced /\ Iterate => Balanced'
<1> SUFFICES ASSUME LoopInv, Balanced, Iterate, NEW j \in 1 .. (iter' - 1)
             PROVE  LET size == partitions'[j][2] - partitions'[j][1] + 1
                    IN  /\ size \in {partitionSize', partitionSize' + 1}
                        /\ numPartitions' <= endNode' - startNode' + 1 => size > 0
  BY DEF Balanced, FirstOf, LastOf
<1>1. /\ startNode' = startNode /\ endNode' = endNode
      /\ numPartitions' = numPartitions /\ partitionSize' = partitionSize
  BY NewRange DEF pargs
<1>2. CASE j = iter
  <2>1. partitions'[j][2] - partitions'[j][1] + 1 = currentStart' - currentStart
    BY <1>2, NewEnds
  <2>2. currentStart' - currentStart \in {partitionSize, partitionSize + 1}
    BY NewRange DEF LoopInv
  <2>3. /\ partitionSize \in Nat
        /\ numPartitions <= endNode - startNode + 1 => partitionSize > 0
    BY DEF LoopInv
  <2> QED BY <1>1, <2>1, <2>2, <2>3
<1>3. CASE j # iter
  <2>1. j \in 1 .. (iter - 1)
    BY <1>3, NewEnds
  <2>2. /\ partitions'[j][1] = partitions[j][1]
        /\ partitions'[j][2] = partitions[j][2]
    BY <2>1, NewEnds
  <2> QED BY <1>1, <2>1, <2>2 DEF Balanced, FirstOf, LastOf
<1> QED BY <1>2, <1>3

\* What the loop of get_partition maintains, from its first iteration on.
THEOREM LoopInvariance == PSpec => [](LoopInv /\ RangeInv /\ Disjoint /\ Balanced)
<1> DEFINE Inv == LoopInv /\ RangeInv /\ Disjoint /\ Balanced
<1>1. PInit => Inv
  BY LoopInit
<1>2. Inv /\ [PNext]_pvars => Inv'
  <2>1. Inv /\ Iterate => Inv'
    BY LoopStep, RangeStep, DisjointStep, BalancedStep
  <2>2. ASSUME Inv, UNCHANGED pvars PROVE Inv'
    <3>1. LoopInv'
      BY <2>2 DEF pvars, pargs, LoopInv
    <3>2. RangeInv'
      BY <2>2 DEF pvars, pargs, RangeInv, FirstOf, LastOf
    <3>3. Disjoint'
      BY <2>2 DEF pvars, pargs, Disjoint, FirstOf, LastOf
    <3>4. Balanced'
      BY <2>2 DEF pvars, pargs, Balanced, FirstOf, LastOf
    <3> QED BY <3>1, <3>2, <3>3, <3>4
  <2> QED BY <2>1, <2>2 DEF PNext, Finished
<1> QED BY <1>1, <1>2, PTL DEF PSpec

\* No node id is given to two clients, for any range of ids and any number of
\* clients.  This is the assumption DisjointPartitions of ColorClient.
THEOREM PartitionsAreDisjoint == PSpec => []Disjoint
BY LoopInvariance, PTL

\* No client gets more than one node more than another, and none an empty range
\* while there are enough nodes.
THEOREM PartitionsAreBalanced == PSpec => []Balanced
BY LoopInvariance, PTL

\* When the loop ends, the ranges together are the ids from start_node to
\* end_node.
THEOREM PartitionsCover == PSpec => []Covering
<1>1. LoopInv /\ RangeInv => Covering
  <2> SUFFICES ASSUME LoopInv, RangeInv, iter > numPartitions PROVE Covering
    BY DEF Covering
  <2>1. numPartitions \in Nat /\ iter = numPartitions + 1 /\ endNode \in Nat
    BY DEF LoopInv
  <2>2. remaining = 0 /\ (numPartitions - iter + 1) * partitionSize = 0
    BY <2>1 DEF LoopInv
  <2>3. currentStart = endNode + 1
    BY <2>1, <2>2 DEF LoopInv
  <2>4. iter - 1 = numPartitions /\ currentStart - 1 = endNode
    BY <2>1, <2>3
  <2>5. \A n \in startNode .. endNode :
           \E j \in 1 .. numPartitions : FirstOf(j) <= n /\ n <= LastOf(j)
    BY <2>4 DEF RangeInv
  <2>6. \A j \in 1 .. numPartitions :
           startNode <= FirstOf(j) /\ LastOf(j) <= endNode
    <3> TAKE j \in 1 .. numPartitions
    <3>1. LastOf(j) \in Int /\ startNode <= FirstOf(j) /\ LastOf(j) < currentStart
      BY <2>4 DEF RangeInv
    <3> QED BY <2>1, <2>3, <3>1
  <2> QED BY <2>5, <2>6 DEF Covering
<1> QED BY <1>1, LoopInvariance, PTL

-----------------------------------------------------------------------------
(***************************************************************************)
(* The clients.                                                            *)
(***************************************************************************)

\* Zenon proves the leaves that name no other prover.
USE ZenonT(20)

-----------------------------------------------------------------------------
(* Facts about the keys of the server. *)

\* What the proofs use of the sizes of finite sets: keys[i] is the node i, N nodes are
\* in the graph, and as many clients as there are in all are all of them.  It is a
\* hypothesis up to the end of this module, where the library's facts about finite
\* sets are included and prove it: every proof that sees them takes longer.
FiniteFacts ==
    /\ \A i \in Node : Key(i) = i
    /\ Cardinality(Node) = N
    /\ \A S \in SUBSET Proc : Cardinality(S) = Cardinality(Proc) => S = Proc

\* Nodes are numbers, and adjacency is symmetric and irreflexive.
LEMMA NbrFacts ==
  /\ Node \subseteq Nat
  /\ \A u \in Node : Nbr[u] \subseteq Node
  /\ \A u \in Node : \A v \in Nbr[u] : u \in Nbr[v] /\ u # v
BY GraphAssumption

\* Both ends of an edge compute the same key for the turn.
LEMMA TurnKeySym ==
  \A u, v \in Nat : TurnKey(u, v) = TurnKey(v, u)
BY SMT DEF TurnKey, BothId

\* Different edges have different turns, and different ends different flags.
LEMMA KeysDiffer ==
  \A u, v, x, y \in Nat :
     /\ TurnKey(u, v) = TurnKey(x, y) => (u = x /\ v = y) \/ (u = y /\ v = x)
     /\ FlagKey(u, v) = FlagKey(x, y) => u = x /\ v = y
BY SMT DEF TurnKey, FlagKey, BothId

\* The keys of an edge exist on the server.
LEMMA KeysExist ==
  \A u \in Node : \A v \in Nbr[u] :
     /\ TurnKey(u, v) \in Arc
     /\ FlagKey(u, v) \in FlagKeys
     /\ FlagKey(v, u) \in FlagKeys
BY NbrFacts DEF TurnKey, FlagKey, BothId, Arc, FlagKeys

-----------------------------------------------------------------------------
(* Type correctness. *)

\* TypeOK is inductive together with the position of the clients, which says
\* that the indices used by the commands are nodes.
TypePos == TypeOK /\ PositionInv

\* A node of the range of a client is a node of the graph.
LEMMA OwnNode ==
  ASSUME NEW p \in Proc, NEW u \in First[p] .. Last[p]
  PROVE  u \in Node
BY SMTT(20), ProcAssumption, DisjointPartitions, ContiguousIds

\* The initial state has the types and the positions.
LEMMA TypePosInit == Init => TypePos
BY SMT, GraphAssumption, ProcAssumption, ContiguousIds
   DEF Init, TypePos, TypeOK, PositionInv, Position, PCs, WorkPC,
        ReadPC, LockPC, Nil

\* In process_node the node and the neighbour of a client are nodes.
LEMMA PositionFacts ==
  ASSUME TypePos, NEW p \in Proc, pc[p] \in WorkPC
  PROVE  /\ node[p] \in Node /\ node[p] = cur[p]
         /\ First[p] <= node[p] /\ node[p] <= Last[p]
         /\ pc[p] \in ReadPC \ {"pick"} => nbr[p] \in Node
<1>1. Position(p)
  BY DEF TypePos, PositionInv
<1>2. node[p] = cur[p] /\ First[p] <= cur[p] /\ cur[p] <= Last[p]
  BY <1>1 DEF Position
<1>3. cur[p] \in Nat /\ First[p] \in Nat /\ Last[p] \in Nat /\ Last[p] < N
  BY DisjointPartitions, ProcAssumption DEF TypePos, TypeOK
<1>4. node[p] \in Node
  BY SMT, <1>2, <1>3, ContiguousIds
<1>5. pc[p] \in ReadPC \ {"pick"} => nbr[p] \in Node
  BY <1>1, <1>4, NbrFacts DEF Position
<1> QED BY <1>2, <1>4, <1>5

\* A step of another client does not move q.
LEMMA PositionFrame ==
  ASSUME NEW q \in Proc, Position(q),
         cur'[q] = cur[q], pc'[q] = pc[q], node'[q] = node[q],
         todo'[q] = todo[q], nbr'[q] = nbr[q], locks'[q] = locks[q]
  PROVE  Position(q)'
BY DEF Position, External

\* Every command keeps the types and the positions.  One step per action.
LEMMA TypePosStep ==
  ASSUME FiniteFacts, TypePos, [Next]_vars
  PROVE  TypePos'
<1> USE DEF At, Goto, store
<1>1. ASSUME NEW p \in Proc, Start(p) PROVE TypePos'
  <2>1. TypeOK'
    BY <1>1, NbrFacts, KeysExist DEF Start, TypePos, TypeOK, PCs,
         WorkPC, ReadPC, LockPC, Nil
  <2>2. ASSUME NEW q \in Proc PROVE Position(q)'
    <3>1. CASE q = p
      <4>1. pc \in [Proc -> PCs] /\ todo \in [Proc -> SUBSET Node] /\ Position(p)
        BY DEF TypePos, TypeOK, PositionInv
      <4>2. pc[p] \in {"start"} /\ pc'[p] \in {"exit", "loop"}
        BY <1>1, <4>1 DEF Start, At, Goto
      <4>3. /\ cur' = cur /\ node' = node /\ todo' = todo /\ nbr' = nbr
            /\ locks' = locks
        BY <1>1 DEF Start
      <4> QED
        BY <3>1, <4>1, <4>2, <4>3
           DEF Position, WorkPC, ReadPC, LockPC, External
    <3>2. CASE q # p
      BY <1>1, <3>2, PositionFrame DEF Start, TypePos, TypeOK, PositionInv
    <3> QED BY <3>1, <3>2
  <2> QED BY <2>1, <2>2 DEF TypePos, PositionInv
<1>2. ASSUME NEW p \in Proc, ProcessNode(p) PROVE TypePos'
  <2>1. cur[p] \in Node /\ Key(cur[p]) = cur[p]
    BY SMT, <1>2, ContiguousIds, DisjointPartitions, ProcAssumption
       DEF FiniteFacts, ProcessNode, TypePos, TypeOK
  <2>2. TypeOK'
    <3>1. Nbr[cur[p]] \in SUBSET Node
      BY <2>1, NbrFacts
    <3>2. CASE cur[p] < Cardinality(Node)
      <4>1. todo' \in [Proc -> SUBSET Node] /\ locks' \in [Proc -> SUBSET Node]
        <5>1. /\ todo' = [todo EXCEPT ![p] = Nbr[cur[p]]]
              /\ locks' = [locks EXCEPT ![p] = {}]
          BY <1>2, <2>1, <3>2 DEF ProcessNode
        <5>2. todo \in [Proc -> SUBSET Node] /\ locks \in [Proc -> SUBSET Node]
          BY DEF TypePos, TypeOK
        <5> QED BY <3>1, <5>1, <5>2
      <4>2. seen' \in [Proc -> [Node -> Nat \cup {Nil}]]
        <5>1. seen' = [seen EXCEPT ![p] = [n \in Node |-> Nil]]
          BY <1>2, <3>2 DEF ProcessNode
        <5>2. seen \in [Proc -> [Node -> Nat \cup {Nil}]]
          BY DEF TypePos, TypeOK
        <5>3. [n \in Node |-> Nil] \in [Node -> Nat \cup {Nil}]
          OBVIOUS
        <5> QED BY <5>1, <5>2, <5>3
      <4>3. pc' \in [Proc -> PCs] /\ node' \in [Proc -> Node \cup {Nil}]
        <5>1. pc \in [Proc -> PCs] /\ node \in [Proc -> Node \cup {Nil}]
          BY DEF TypePos, TypeOK
        <5>2. pc' = [pc EXCEPT ![p] = "pick"] /\ "pick" \in PCs
          BY <1>2, <3>2 DEF ProcessNode, Goto, PCs, WorkPC, ReadPC
        <5>3. node' = [node EXCEPT ![p] = Key(cur[p])]
          BY <1>2, <3>2 DEF ProcessNode
        <5>4. Key(cur[p]) \in Node
          BY <2>1, <3>2
        <5> QED BY <5>1, <5>2, <5>3, <5>4
      <4> QED
        BY <1>2, <3>2, <4>1, <4>2, <4>3 DEF ProcessNode, TypePos, TypeOK
    <3>3. CASE ~(cur[p] < Cardinality(Node))
      BY <1>2, <3>3 DEF ProcessNode, TypePos, TypeOK
    <3> QED BY <3>2, <3>3
  <2>3. ASSUME NEW q \in Proc PROVE Position(q)'
    <3>1. CASE q = p
      BY SMT, <1>2, <2>1, <3>1, NbrFacts
         DEF ProcessNode, TypePos, TypeOK, PositionInv, Position,
              WorkPC, ReadPC, LockPC, External
    <3>2. CASE q # p
      BY <1>2, <3>2, PositionFrame DEF ProcessNode, TypePos, TypeOK, PositionInv
    <3> QED BY <3>1, <3>2
  <2> QED BY <2>2, <2>3 DEF TypePos, PositionInv
<1>3. ASSUME NEW p \in Proc, PickNeighbour(p) PROVE TypePos'
  <2>1. TypeOK'
    BY SMT, <1>3, NbrFacts, KeysExist DEF PickNeighbour, TypePos, TypeOK,
         PCs, WorkPC, ReadPC, LockPC, Nil
  <2>2. ASSUME NEW q \in Proc PROVE Position(q)'
    <3>1. CASE q = p
      BY SMT, <1>3, <3>1, NbrFacts
         DEF PickNeighbour, TypePos, TypeOK, PositionInv,
              Position, WorkPC, ReadPC, LockPC, External
    <3>2. CASE q # p
      BY <1>3, <3>2, PositionFrame DEF PickNeighbour, TypePos,
           TypeOK, PositionInv
    <3> QED BY <3>1, <3>2
  <2> QED BY <2>1, <2>2 DEF TypePos, PositionInv
<1>4. ASSUME NEW p \in Proc, GetStatus(p) PROVE TypePos'
  <2>1. node[p] \in Node /\ nbr[p] \in Nbr[node[p]] /\ nbr[p] \in Node
    BY <1>4, PositionFacts
       DEF GetStatus, TypePos, PositionInv, Position, WorkPC, ReadPC, LockPC
  <2>2. TypeOK'
    BY <1>4, <2>1, NbrFacts, KeysExist DEF GetStatus, TypePos, TypeOK,
         PCs, WorkPC, ReadPC, LockPC, Nil
  <2>3. ASSUME NEW q \in Proc PROVE Position(q)'
    <3>1. CASE q = p
      <4>1. pc \in [Proc -> PCs] /\ todo \in [Proc -> SUBSET Node] /\ Position(p)
        BY DEF TypePos, TypeOK, PositionInv
      <4>2. pc[p] \in {"getStatus"} /\ pc'[p] \in {"setFlag", "getColor"}
        BY <1>4, <4>1 DEF GetStatus, At, Goto
      <4>3. /\ cur' = cur /\ node' = node /\ todo' = todo /\ nbr' = nbr
            /\ locks' = locks
        BY <1>4 DEF GetStatus
      <4> QED
        BY <3>1, <4>1, <4>2, <4>3
           DEF Position, WorkPC, ReadPC, LockPC, External
    <3>2. CASE q # p
      BY <1>4, <3>2, PositionFrame DEF GetStatus, TypePos, TypeOK, PositionInv
    <3> QED BY <3>1, <3>2
  <2> QED BY <2>2, <2>3 DEF TypePos, PositionInv
<1>5. ASSUME NEW p \in Proc, SetFlag(p) PROVE TypePos'
  <2>1. node[p] \in Node /\ nbr[p] \in Nbr[node[p]] /\ nbr[p] \in Node
    BY <1>5, PositionFacts
       DEF SetFlag, TypePos, PositionInv, Position, WorkPC, ReadPC, LockPC
  <2>2. TypeOK'
    BY <1>5, <2>1, NbrFacts, KeysExist DEF SetFlag, TypePos, TypeOK,
         PCs, WorkPC, ReadPC, LockPC, Nil
  <2>3. ASSUME NEW q \in Proc PROVE Position(q)'
    <3>1. CASE q = p
      <4>1. pc \in [Proc -> PCs] /\ todo \in [Proc -> SUBSET Node] /\ Position(p)
        BY DEF TypePos, TypeOK, PositionInv
      <4>2. pc[p] \in {"setFlag"} /\ pc'[p] \in {"setTurn"}
        BY <1>5, <4>1 DEF SetFlag, At, Goto
      <4>3. /\ cur' = cur /\ node' = node /\ todo' = todo /\ nbr' = nbr
            /\ locks' = locks
        BY <1>5 DEF SetFlag
      <4> QED
        BY <3>1, <4>1, <4>2, <4>3
           DEF Position, WorkPC, ReadPC, LockPC, External
    <3>2. CASE q # p
      BY <1>5, <3>2, PositionFrame DEF SetFlag, TypePos, TypeOK, PositionInv
    <3> QED BY <3>1, <3>2
  <2> QED BY <2>2, <2>3 DEF TypePos, PositionInv
<1>6. ASSUME NEW p \in Proc, SetTurn(p) PROVE TypePos'
  <2>1. node[p] \in Node /\ nbr[p] \in Nbr[node[p]] /\ nbr[p] \in Node
    BY <1>6, PositionFacts
       DEF SetTurn, TypePos, PositionInv, Position, WorkPC, ReadPC, LockPC
  <2>2. TypeOK'
    BY <1>6, <2>1, NbrFacts, KeysExist DEF SetTurn, TypePos, TypeOK,
         PCs, WorkPC, ReadPC, LockPC, Nil
  <2>3. ASSUME NEW q \in Proc PROVE Position(q)'
    <3>1. CASE q = p
      <4>1. pc \in [Proc -> PCs] /\ todo \in [Proc -> SUBSET Node] /\ Position(p)
        BY DEF TypePos, TypeOK, PositionInv
      <4>2. pc[p] \in {"setTurn"} /\ pc'[p] \in {"getFlag"}
        BY <1>6, <4>1 DEF SetTurn, At, Goto
      <4>3. /\ cur' = cur /\ node' = node /\ todo' = todo /\ nbr' = nbr
            /\ locks' = locks
        BY <1>6 DEF SetTurn
      <4> QED
        BY <3>1, <4>1, <4>2, <4>3
           DEF Position, WorkPC, ReadPC, LockPC, External
    <3>2. CASE q # p
      BY <1>6, <3>2, PositionFrame DEF SetTurn, TypePos, TypeOK, PositionInv
    <3> QED BY <3>1, <3>2
  <2> QED BY <2>2, <2>3 DEF TypePos, PositionInv
<1>7. ASSUME NEW p \in Proc, GetFlag(p) PROVE TypePos'
  <2>1. node[p] \in Node /\ nbr[p] \in Nbr[node[p]] /\ nbr[p] \in Node
    BY <1>7, PositionFacts
       DEF GetFlag, TypePos, PositionInv, Position, WorkPC, ReadPC, LockPC
  <2>2. TypeOK'
    BY <1>7, <2>1, NbrFacts, KeysExist DEF GetFlag, TypePos, TypeOK,
         PCs, WorkPC, ReadPC, LockPC, Nil
  <2>3. ASSUME NEW q \in Proc PROVE Position(q)'
    <3>1. CASE q = p
      <4>1. pc \in [Proc -> PCs] /\ todo \in [Proc -> SUBSET Node] /\ Position(p)
        BY DEF TypePos, TypeOK, PositionInv
      <4>2. pc[p] \in {"getFlag"} /\ pc'[p] \in {"getTurn"}
        BY <1>7, <4>1 DEF GetFlag, At, Goto
      <4>3. /\ cur' = cur /\ node' = node /\ todo' = todo /\ nbr' = nbr
            /\ locks' = locks
        BY <1>7 DEF GetFlag
      <4> QED
        BY <3>1, <4>1, <4>2, <4>3
           DEF Position, WorkPC, ReadPC, LockPC, External
    <3>2. CASE q # p
      BY <1>7, <3>2, PositionFrame DEF GetFlag, TypePos, TypeOK, PositionInv
    <3> QED BY <3>1, <3>2
  <2> QED BY <2>2, <2>3 DEF TypePos, PositionInv
<1>8. ASSUME NEW p \in Proc, GetTurn(p) PROVE TypePos'
  <2>1. node[p] \in Node /\ nbr[p] \in Nbr[node[p]] /\ nbr[p] \in Node
    BY <1>8, PositionFacts
       DEF GetTurn, TypePos, PositionInv, Position, WorkPC, ReadPC, LockPC
  <2>2. TypeOK'
    <3>1. /\ turn[TurnKey(node[p], nbr[p])] \in Node \cup {Nil, 0}
          /\ flag[FlagKey(nbr[p], node[p])] \in {Nil, 0, 1}
      BY <2>1, KeysExist DEF TypePos, TypeOK
    <3>2. CASE MustWait(p, otherFlag[p], turn[TurnKey(node[p], nbr[p])])
      BY <1>8, <2>1, <3>1, <3>2
         DEF GetTurn, LoopOrEnter, TypePos, TypeOK, PCs, WorkPC, ReadPC, LockPC
    <3>3. CASE ~MustWait(p, otherFlag[p], turn[TurnKey(node[p], nbr[p])])
      <4>1. locks' \in [Proc -> SUBSET Node]
        <5>1. locks' = [locks EXCEPT ![p] = @ \cup {nbr[p]}]
          BY <1>8, <3>3 DEF GetTurn, LoopOrEnter
        <5>2. locks \in [Proc -> SUBSET Node] /\ nbr[p] \in Node
          BY <2>1 DEF TypePos, TypeOK
        <5> QED BY <5>1, <5>2
      <4>2. pc' \in [Proc -> PCs]
        <5>1. pc' = [pc EXCEPT ![p] = "getColor"]
          BY <1>8, <3>3 DEF GetTurn, LoopOrEnter
        <5>2. pc \in [Proc -> PCs] /\ "getColor" \in PCs
          BY DEF TypePos, TypeOK, PCs, WorkPC, ReadPC
        <5> QED BY <5>1, <5>2
      <4> QED
        BY <1>8, <3>1, <4>1, <4>2 DEF GetTurn, TypePos, TypeOK
    <3> QED BY <3>2, <3>3
  <2>3. ASSUME NEW q \in Proc PROVE Position(q)'
    <3>1. CASE q = p
      <4>1. CASE MustWait(p, otherFlag[p], turn[TurnKey(node[p], nbr[p])])
        <5>1. pc \in [Proc -> PCs] /\ Position(p)
          BY DEF TypePos, TypeOK, PositionInv
        <5>2. /\ pc' = [pc EXCEPT ![p] = "waitTurn"] /\ locks' = locks
              /\ cur' = cur /\ node' = node /\ todo' = todo /\ nbr' = nbr
          BY <1>8, <4>1 DEF GetTurn, LoopOrEnter, Goto
        <5>3. pc[p] \in LockPC
          BY <1>8 DEF GetTurn, At, LockPC
        <5>4. pc'[p] = "waitTurn"
          BY <5>1, <5>2
        <5> QED
          BY <3>1, <5>1, <5>2, <5>3, <5>4
             DEF Position, WorkPC, ReadPC, LockPC, External
      <4>2. CASE ~MustWait(p, otherFlag[p], turn[TurnKey(node[p], nbr[p])])
        <5>1. /\ pc \in [Proc -> PCs] /\ locks \in [Proc -> SUBSET Node]
              /\ Position(p)
          BY DEF TypePos, TypeOK, PositionInv
        <5>2. /\ pc' = [pc EXCEPT ![p] = "getColor"]
              /\ locks' = [locks EXCEPT ![p] = @ \cup {nbr[p]}]
              /\ cur' = cur /\ node' = node /\ todo' = todo /\ nbr' = nbr
          BY <1>8, <4>2 DEF GetTurn, LoopOrEnter, Goto
        <5>3. pc[p] \in LockPC
          BY <1>8 DEF GetTurn, At, LockPC
        <5>4. pc'[p] = "getColor" /\ locks'[p] = locks[p] \cup {nbr[p]}
          BY <5>1, <5>2
        <5> QED
          BY <3>1, <5>1, <5>2, <5>3, <5>4
             DEF Position, WorkPC, ReadPC, LockPC, External
      <4> QED BY <4>1, <4>2
    <3>2. CASE q # p
      BY <1>8, <3>2, PositionFrame DEF GetTurn, LoopOrEnter, TypePos,
           TypeOK, PositionInv
    <3> QED BY <3>1, <3>2
  <2> QED BY <2>2, <2>3 DEF TypePos, PositionInv
<1>9. ASSUME NEW p \in Proc, WaitTurn(p) PROVE TypePos'
  <2>1. node[p] \in Node /\ nbr[p] \in Nbr[node[p]] /\ nbr[p] \in Node
    BY <1>9, PositionFacts
       DEF WaitTurn, TypePos, PositionInv, Position, WorkPC, ReadPC, LockPC
  <2>2. TypeOK'
    <3>1. turn[TurnKey(node[p], nbr[p])] \in Node \cup {Nil, 0}
      BY <2>1, KeysExist DEF TypePos, TypeOK
    <3> QED
      BY <1>9, <3>1 DEF WaitTurn, TypePos, TypeOK, PCs, WorkPC, ReadPC, LockPC
  <2>3. ASSUME NEW q \in Proc PROVE Position(q)'
    <3>1. CASE q = p
      <4>1. pc \in [Proc -> PCs] /\ todo \in [Proc -> SUBSET Node] /\ Position(p)
        BY DEF TypePos, TypeOK, PositionInv
      <4>2. pc[p] \in {"waitTurn"} /\ pc'[p] \in {"waitFlag"}
        BY <1>9, <4>1 DEF WaitTurn, At, Goto
      <4>3. /\ cur' = cur /\ node' = node /\ todo' = todo /\ nbr' = nbr
            /\ locks' = locks
        BY <1>9 DEF WaitTurn
      <4> QED
        BY <3>1, <4>1, <4>2, <4>3
           DEF Position, WorkPC, ReadPC, LockPC, External
    <3>2. CASE q # p
      BY <1>9, <3>2, PositionFrame DEF WaitTurn, TypePos, TypeOK, PositionInv
    <3> QED BY <3>1, <3>2
  <2> QED BY <2>2, <2>3 DEF TypePos, PositionInv
<1>10. ASSUME NEW p \in Proc, WaitFlag(p) PROVE TypePos'
  <2>1. node[p] \in Node /\ nbr[p] \in Nbr[node[p]] /\ nbr[p] \in Node
    BY <1>10, PositionFacts
       DEF WaitFlag, TypePos, PositionInv, Position, WorkPC, ReadPC, LockPC
  <2>2. TypeOK'
    <3>1. /\ turn[TurnKey(node[p], nbr[p])] \in Node \cup {Nil, 0}
          /\ flag[FlagKey(nbr[p], node[p])] \in {Nil, 0, 1}
      BY <2>1, KeysExist DEF TypePos, TypeOK
    <3>2. CASE MustWait(p, flag[FlagKey(nbr[p], node[p])], turnNew[p])
      BY <1>10, <2>1, <3>1, <3>2
         DEF WaitFlag, LoopOrEnter, TypePos, TypeOK, PCs, WorkPC, ReadPC, LockPC
    <3>3. CASE ~MustWait(p, flag[FlagKey(nbr[p], node[p])], turnNew[p])
      <4>1. locks' \in [Proc -> SUBSET Node]
        <5>1. locks' = [locks EXCEPT ![p] = @ \cup {nbr[p]}]
          BY <1>10, <3>3 DEF WaitFlag, LoopOrEnter
        <5>2. locks \in [Proc -> SUBSET Node] /\ nbr[p] \in Node
          BY <2>1 DEF TypePos, TypeOK
        <5> QED BY <5>1, <5>2
      <4>2. pc' \in [Proc -> PCs]
        <5>1. pc' = [pc EXCEPT ![p] = "getColor"]
          BY <1>10, <3>3 DEF WaitFlag, LoopOrEnter
        <5>2. pc \in [Proc -> PCs] /\ "getColor" \in PCs
          BY DEF TypePos, TypeOK, PCs, WorkPC, ReadPC
        <5> QED BY <5>1, <5>2
      <4> QED
        BY <1>10, <3>1, <4>1, <4>2 DEF WaitFlag, TypePos, TypeOK
    <3> QED BY <3>2, <3>3
  <2>3. ASSUME NEW q \in Proc PROVE Position(q)'
    <3>1. CASE q = p
      <4>1. CASE MustWait(p, flag[FlagKey(nbr[p], node[p])], turnNew[p])
        <5>1. pc \in [Proc -> PCs] /\ Position(p)
          BY DEF TypePos, TypeOK, PositionInv
        <5>2. /\ pc' = [pc EXCEPT ![p] = "waitTurn"] /\ locks' = locks
              /\ cur' = cur /\ node' = node /\ todo' = todo /\ nbr' = nbr
          BY <1>10, <4>1 DEF WaitFlag, LoopOrEnter, Goto
        <5>3. pc[p] \in LockPC
          BY <1>10 DEF WaitFlag, At, LockPC
        <5>4. pc'[p] = "waitTurn"
          BY <5>1, <5>2
        <5> QED
          BY <3>1, <5>1, <5>2, <5>3, <5>4
             DEF Position, WorkPC, ReadPC, LockPC, External
      <4>2. CASE ~MustWait(p, flag[FlagKey(nbr[p], node[p])], turnNew[p])
        <5>1. /\ pc \in [Proc -> PCs] /\ locks \in [Proc -> SUBSET Node]
              /\ Position(p)
          BY DEF TypePos, TypeOK, PositionInv
        <5>2. /\ pc' = [pc EXCEPT ![p] = "getColor"]
              /\ locks' = [locks EXCEPT ![p] = @ \cup {nbr[p]}]
              /\ cur' = cur /\ node' = node /\ todo' = todo /\ nbr' = nbr
          BY <1>10, <4>2 DEF WaitFlag, LoopOrEnter, Goto
        <5>3. pc[p] \in LockPC
          BY <1>10 DEF WaitFlag, At, LockPC
        <5>4. pc'[p] = "getColor" /\ locks'[p] = locks[p] \cup {nbr[p]}
          BY <5>1, <5>2
        <5> QED
          BY <3>1, <5>1, <5>2, <5>3, <5>4
             DEF Position, WorkPC, ReadPC, LockPC, External
      <4> QED BY <4>1, <4>2
    <3>2. CASE q # p
      BY <1>10, <3>2, PositionFrame DEF WaitFlag, LoopOrEnter,
           TypePos, TypeOK, PositionInv
    <3> QED BY <3>1, <3>2
  <2> QED BY <2>2, <2>3 DEF TypePos, PositionInv
<1>11. ASSUME NEW p \in Proc, GetColor(p) PROVE TypePos'
  <2>1. node[p] \in Node /\ nbr[p] \in Nbr[node[p]] /\ nbr[p] \in Node
    BY <1>11, PositionFacts
       DEF GetColor, TypePos, PositionInv, Position, WorkPC, ReadPC, LockPC
  <2>2. TypeOK'
    BY <1>11, <2>1, NbrFacts, KeysExist DEF GetColor, TypePos, TypeOK,
         PCs, WorkPC, ReadPC, LockPC, Nil
  <2>3. ASSUME NEW q \in Proc PROVE Position(q)'
    <3>1. CASE q = p
      <4>1. pc \in [Proc -> PCs] /\ todo \in [Proc -> SUBSET Node] /\ Position(p)
        BY DEF TypePos, TypeOK, PositionInv
      <4>2. pc[p] \in {"getColor"} /\ pc'[p] \in {"pick"}
        BY <1>11, <4>1 DEF GetColor, At, Goto
      <4>3. /\ cur' = cur /\ node' = node /\ todo' = todo /\ nbr' = nbr
            /\ locks' = locks
        BY <1>11 DEF GetColor
      <4> QED
        BY <3>1, <4>1, <4>2, <4>3
           DEF Position, WorkPC, ReadPC, LockPC, External
    <3>2. CASE q # p
      BY <1>11, <3>2, PositionFrame DEF GetColor, TypePos, TypeOK, PositionInv
    <3> QED BY <3>1, <3>2
  <2> QED BY <2>2, <2>3 DEF TypePos, PositionInv
<1>12. ASSUME NEW p \in Proc, SetColor(p) PROVE TypePos'
  <2>1. node[p] \in Node
    BY <1>12, PositionFacts DEF SetColor, WorkPC, ReadPC, LockPC
  <2>2. TypeOK'
    BY SMT, <1>12, <2>1, NbrFacts, KeysExist DEF SetColor, Color, TypePos,
         TypeOK, PCs, WorkPC, ReadPC, LockPC, Nil
  <2>3. ASSUME NEW q \in Proc PROVE Position(q)'
    <3>1. CASE q = p
      <4>1. pc \in [Proc -> PCs] /\ todo \in [Proc -> SUBSET Node] /\ Position(p)
        BY DEF TypePos, TypeOK, PositionInv
      <4>2. pc[p] \in {"pick"} /\ pc'[p] \in {"setStatus"}
        BY <1>12, <4>1 DEF SetColor, At, Goto
      <4>3. /\ cur' = cur /\ node' = node /\ todo' = todo /\ nbr' = nbr
            /\ locks' = locks
        BY <1>12 DEF SetColor
      <4> QED
        BY <3>1, <4>1, <4>2, <4>3
           DEF Position, WorkPC, ReadPC, LockPC, External
    <3>2. CASE q # p
      BY <1>12, <3>2, PositionFrame DEF SetColor, Color, TypePos,
           TypeOK, PositionInv
    <3> QED BY <3>1, <3>2
  <2> QED BY <2>2, <2>3 DEF TypePos, PositionInv
<1>13. ASSUME NEW p \in Proc, SetStatus(p) PROVE TypePos'
  <2>1. node[p] \in Node
    BY <1>13, PositionFacts DEF SetStatus, WorkPC, ReadPC, LockPC
  <2>2. TypeOK'
    BY <1>13, <2>1, NbrFacts, KeysExist DEF SetStatus, TypePos, TypeOK,
         PCs, WorkPC, ReadPC, LockPC, Nil
  <2>3. ASSUME NEW q \in Proc PROVE Position(q)'
    <3>1. CASE q = p
      <4>1. pc \in [Proc -> PCs] /\ todo \in [Proc -> SUBSET Node] /\ Position(p)
        BY DEF TypePos, TypeOK, PositionInv
      <4>2. pc[p] \in {"setStatus"} /\ pc'[p] \in {"release"}
        BY <1>13, <4>1 DEF SetStatus, At, Goto
      <4>3. /\ cur' = cur /\ node' = node /\ nbr' = nbr /\ locks' = locks
        BY <1>13 DEF SetStatus
      <4>4. todo'[p] = Nbr[node[p]]
        BY <1>13, <4>1 DEF SetStatus
      <4> QED
        BY <3>1, <4>1, <4>2, <4>3, <4>4
           DEF Position, WorkPC, ReadPC, LockPC, External
    <3>2. CASE q # p
      BY <1>13, <3>2, PositionFrame DEF SetStatus, TypePos, TypeOK, PositionInv
    <3> QED BY <3>1, <3>2
  <2> QED BY <2>2, <2>3 DEF TypePos, PositionInv
<1>14. ASSUME NEW p \in Proc, ReleaseLock(p) PROVE TypePos'
  <2>1. node[p] \in Node
    BY <1>14, PositionFacts DEF ReleaseLock, WorkPC, ReadPC, LockPC
  <2>2. TypeOK'
    <3>1. /\ flag' \in [FlagKeys -> {Nil, 0, 1}]
          /\ turn' \in [Arc -> Node \cup {Nil, 0}]
      BY <1>14 DEF ReleaseLock, ReleaseGarbage, TypePos, TypeOK
    <3>2. todo' \in [Proc -> SUBSET Node]
      BY SMT, <1>14 DEF ReleaseLock, TypePos, TypeOK
    <3> QED
      BY <1>14, <3>1, <3>2 DEF ReleaseLock, TypePos, TypeOK
  <2>3. ASSUME NEW q \in Proc PROVE Position(q)'
    <3>1. CASE q = p
      <4>1. /\ pc[p] = "release" /\ Position(p)
            /\ todo \in [Proc -> SUBSET Node]
        BY <1>14 DEF ReleaseLock, At, TypePos, TypeOK, PositionInv
      <4>2. /\ pc' = pc /\ cur' = cur /\ node' = node /\ nbr' = nbr
            /\ locks' = locks
        BY <1>14 DEF ReleaseLock
      <4>3. PICK n \in todo[p] : todo' = [todo EXCEPT ![p] = @ \ {n}]
        BY <1>14 DEF ReleaseLock
      <4>4. todo'[p] \subseteq todo[p]
        BY <4>1, <4>3
      <4> QED
        BY <3>1, <4>1, <4>2, <4>4
           DEF Position, WorkPC, ReadPC, LockPC, External
    <3>2. CASE q # p
      BY <1>14, <3>2, PositionFrame DEF ReleaseLock, ReleaseGarbage,
           StaleLocks, TypePos, TypeOK, PositionInv
    <3> QED BY <3>1, <3>2
  <2> QED BY <2>2, <2>3 DEF TypePos, PositionInv
<1>15. ASSUME NEW p \in Proc, NextNode(p) PROVE TypePos'
  <2>1. TypeOK'
    BY SMT, <1>15, NbrFacts, KeysExist DEF NextNode, TypePos, TypeOK, PCs,
         WorkPC, ReadPC, LockPC, Nil
  <2>2. ASSUME NEW q \in Proc PROVE Position(q)'
    <3>1. CASE q = p
      <4>1. pc'[p] = "loop" /\ cur'[p] = cur[p] + 1
        BY <1>15 DEF NextNode, TypePos, TypeOK
      <4>2. First[p] <= cur'[p]
        <5>1. Position(p) /\ cur[p] \in Nat /\ First[p] \in Nat
          BY ProcAssumption DEF TypePos, TypeOK, PositionInv
        <5> QED BY SMT, <4>1, <5>1 DEF Position
      <4> QED
        BY <3>1, <4>1, <4>2 DEF Position, WorkPC, ReadPC, LockPC
    <3>2. CASE q # p
      BY <1>15, <3>2, PositionFrame DEF NextNode, TypePos, TypeOK, PositionInv
    <3> QED BY <3>1, <3>2
  <2> QED BY <2>1, <2>2 DEF TypePos, PositionInv
<1>16. ASSUME NEW p \in Proc, Report(p) PROVE TypePos'
  <2>1. TypeOK'
    BY <1>16, NbrFacts, KeysExist DEF Report, TypePos, TypeOK, PCs,
         WorkPC, ReadPC, LockPC, Nil
  <2>2. ASSUME NEW q \in Proc PROVE Position(q)'
    <3>1. CASE q = p
      <4>1. pc \in [Proc -> PCs] /\ Position(p)
        BY DEF TypePos, TypeOK, PositionInv
      <4>2. pc' = [pc EXCEPT ![p] = "done"] /\ cur' = cur
        BY <1>16 DEF Report, Goto
      <4>3. pc'[p] = "done"
        BY <4>1, <4>2
      <4> QED
        BY <3>1, <4>1, <4>2, <4>3 DEF Position, WorkPC, ReadPC, LockPC
    <3>2. CASE q # p
      BY <1>16, <3>2, PositionFrame DEF Report, TypePos, TypeOK, PositionInv
    <3> QED BY <3>1, <3>2
  <2> QED BY <2>1, <2>2 DEF TypePos, PositionInv
<1>17. ASSUME NEW p \in Proc, Fail(p) PROVE TypePos'
  <2>1. TypeOK'
    BY <1>17 DEF Fail, local, TypePos, TypeOK, Nil
  <2>2. ASSUME NEW q \in Proc PROVE Position(q)'
    BY <1>17, PositionFrame DEF Fail, local, TypePos, PositionInv
  <2> QED BY <2>1, <2>2 DEF TypePos, PositionInv
<1>18. ASSUME NEW p \in Proc, ReportAfterLoss(p) PROVE TypePos'
  <2>1. TypeOK'
    BY <1>18 DEF ReportAfterLoss, local, TypePos, TypeOK, Nil
  <2>2. ASSUME NEW q \in Proc PROVE Position(q)'
    BY <1>18, PositionFrame DEF ReportAfterLoss, local, TypePos, PositionInv
  <2> QED BY <2>1, <2>2 DEF TypePos, PositionInv
<1>19. CASE UNCHANGED vars
  <2>1. TypeOK'
    BY <1>19 DEF vars, TypePos, TypeOK
  <2>2. ASSUME NEW q \in Proc PROVE Position(q)'
    BY <1>19, PositionFrame DEF vars, TypePos, PositionInv
  <2> QED BY <2>1, <2>2 DEF TypePos, PositionInv
<1> QED
  BY <1>1, <1>2, <1>3, <1>4, <1>5, <1>6, <1>7, <1>8, <1>9, <1>10, <1>11,
       <1>12, <1>13, <1>14, <1>15, <1>16, <1>17, <1>18, <1>19 DEF Next,
       Step, Terminated

-----------------------------------------------------------------------------
\* A step that client r takes.
StepOf(r) == Step(r) \/ Fail(r) \/ ReportAfterLoss(r)

\* The local state of q stays the same.
Same(q) ==
    /\ pc'[q] = pc[q] /\ cur'[q] = cur[q] /\ node'[q] = node[q]
    /\ todo'[q] = todo[q] /\ nbr'[q] = nbr[q] /\ seen'[q] = seen[q]
    /\ locks'[q] = locks[q] /\ otherFlag'[q] = otherFlag[q]
    /\ turnNew'[q] = turnNew[q]

-----------------------------------------------------------------------------
(* What one step changes. *)

\* The local state of a client is private.
LEMMA OthersSame ==
  ASSUME TypeOK, NEW r \in Proc, StepOf(r), NEW q \in Proc, q # r
  PROVE  Same(q)
<1> USE DEF TypeOK, Same, At, Goto
<1>1. CASE Start(r)
  BY <1>1 DEF Start
<1>2. CASE ProcessNode(r)
  BY <1>2 DEF ProcessNode
<1>3. CASE PickNeighbour(r)
  BY <1>3 DEF PickNeighbour
<1>4. CASE GetStatus(r)
  BY <1>4 DEF GetStatus
<1>5. CASE SetFlag(r)
  BY <1>5 DEF SetFlag
<1>6. CASE SetTurn(r)
  BY <1>6 DEF SetTurn
<1>7. CASE GetFlag(r)
  BY <1>7 DEF GetFlag
<1>8. CASE GetTurn(r)
  BY <1>8 DEF GetTurn, LoopOrEnter
<1>9. CASE WaitTurn(r)
  BY <1>9 DEF WaitTurn
<1>10. CASE WaitFlag(r)
  BY <1>10 DEF WaitFlag, LoopOrEnter
<1>11. CASE GetColor(r)
  BY <1>11 DEF GetColor
<1>12. CASE SetColor(r)
  BY <1>12 DEF SetColor
<1>13. CASE SetStatus(r)
  BY <1>13 DEF SetStatus
<1>14. CASE ReleaseLock(r)
  BY <1>14 DEF ReleaseLock
<1>15. CASE NextNode(r)
  BY <1>15 DEF NextNode
<1>16. CASE Report(r)
  BY <1>16 DEF Report
<1>17. CASE Fail(r)
  BY <1>17 DEF Fail, local
<1>18. CASE ReportAfterLoss(r)
  BY <1>18 DEF ReportAfterLoss, local
<1> QED
  BY <1>1, <1>2, <1>3, <1>4, <1>5, <1>6, <1>7, <1>8, <1>9, <1>10, <1>11,
       <1>12, <1>13, <1>14, <1>15, <1>16, <1>17, <1>18 DEF StepOf, Step

\* A node that a client is colouring is not marked yet.
LEMMA BusyUnmarked ==
  ASSUME TypePos, StatusInv, NEW p \in Proc,
         pc[p] \in ReadPC \cup {"setStatus"}
  PROVE  node[p] \in Node /\ status[node[p]] # 1
<1>1. pc[p] \in WorkPC /\ pc[p] # "release"
  BY DEF WorkPC, ReadPC, LockPC
<1>2. node[p] \in Node /\ node[p] = cur[p] /\ node[p] \in First[p] .. Last[p]
  BY SMT, <1>1, PositionFacts, ContiguousIds, ProcAssumption
<1> QED BY SMT, <1>1, <1>2, NbrFacts DEF StatusInv

\* The nodes of two clients differ, and are external to each other.
LEMMA DistinctOwners ==
  ASSUME TypePos, NEW p \in Proc, NEW q \in Proc, p # q,
         pc[p] \in WorkPC, pc[q] \in WorkPC
  PROVE  /\ node[p] # node[q]
         /\ External(p, node[q])
         /\ External(q, node[p])
<1>1. /\ node[p] \in Nat /\ First[p] <= node[p] /\ node[p] <= Last[p]
      /\ node[q] \in Nat /\ First[q] <= node[q] /\ node[q] <= Last[q]
  BY PositionFacts, NbrFacts
<1> QED BY SMT, <1>1, DisjointPartitions, ProcAssumption DEF External

\* How a step changes the place of a client in the lock protocol: a flag is
\* raised by SetFlag, the turn is claimed by SetTurn, and only a read of the
\* other flag or of the turn lets a contender enter.
LockStep(r, p, v) ==
    /\ Raised(p, v)' =>
          \/ Raised(p, v) /\ node'[p] = node[p]
          \/ SetFlag(r) /\ p = r /\ v = nbr[p] /\ node'[p] = node[p]
    /\ Contends(p, v)' =>
          \/ Contends(p, v) /\ node'[p] = node[p]
          \/ SetTurn(r) /\ p = r /\ v = nbr[p] /\ node'[p] = node[p]
    /\ Entered(p, v)' =>
          \/ Entered(p, v) /\ node'[p] = node[p]
          \/ /\ p = r /\ Contends(p, v) /\ node'[p] = node[p]
             /\ UNCHANGED <<flag, turn, status>>
             /\ \/ flag[FlagKey(v, node[p])] # 1
                \/ turn[TurnKey(node[p], v)] # node[p]

\* LockStep holds of every step of a client.
LEMMA LockSteps ==
  ASSUME TypePos, NEW r \in Proc, StepOf(r), NEW p \in Proc, NEW v
  PROVE  LockStep(r, p, v)
<1> USE DEF LockStep, Raised, Contends, Entered, Holds, At, Goto, ReadPC, LockPC
<1>1. CASE p # r
  BY <1>1, OthersSame DEF TypePos, Same
<1>2. CASE p = r
  <2> USE <1>2 DEF TypePos, TypeOK
  <2>1. CASE Start(r)
    BY SMTT(20), <2>1 DEF Start
  <2>2. CASE ProcessNode(r)
    BY <2>2 DEF ProcessNode
  <2>3. CASE PickNeighbour(r)
    BY SMT, <2>3 DEF PickNeighbour
  <2>4. CASE GetStatus(r)
    BY <2>4 DEF GetStatus
  <2>5. CASE SetFlag(r)
    BY <2>5 DEF SetFlag
  <2>6. CASE SetTurn(r)
    BY <2>6 DEF SetTurn
  <2>7. CASE GetFlag(r)
    BY <2>7 DEF GetFlag, store
  <2>8. CASE GetTurn(r)
    BY SMT, <2>8 DEF GetTurn, LoopOrEnter, MustWait, store
  <2>9. CASE WaitTurn(r)
    BY <2>9 DEF WaitTurn, store
  <2>10. CASE WaitFlag(r)
    BY SMT, <2>10 DEF WaitFlag, LoopOrEnter, MustWait, store
  <2>11. CASE GetColor(r)
    BY <2>11 DEF GetColor
  <2>12. CASE SetColor(r)
    BY <2>12 DEF SetColor
  <2>13. CASE SetStatus(r)
    BY <2>13 DEF SetStatus
  <2>14. CASE ReleaseLock(r)
    BY <2>14 DEF ReleaseLock
  <2>15. CASE NextNode(r)
    BY <2>15 DEF NextNode
  <2>16. CASE Report(r)
    BY <2>16 DEF Report
  <2>17. CASE Fail(r)
    BY <2>17 DEF Fail, local
  <2>18. CASE ReportAfterLoss(r)
    BY <2>18 DEF ReportAfterLoss, local
  <2> QED
    BY <2>1, <2>2, <2>3, <2>4, <2>5, <2>6, <2>7, <2>8, <2>9, <2>10,
         <2>11, <2>12, <2>13, <2>14, <2>15, <2>16, <2>17, <2>18 DEF
         StepOf, Step
<1> QED BY <1>1, <1>2

\* Of the keys of an edge whose ends are both unmarked, a step writes at most
\* the flag or the turn of the lock it is about.  In particular a release,
\* of a lock or of garbage, only touches edges with a marked end.
LEMMA EdgeStep ==
  ASSUME FiniteFacts, TypePos, StatusInv, NEW r \in Proc, StepOf(r),
         NEW u \in Node, NEW v \in Nbr[u], status[u] # 1, status[v] # 1
  PROVE  /\ \/ flag'[FlagKey(u, v)] = flag[FlagKey(u, v)]
            \/ SetFlag(r) /\ flag'[FlagKey(u, v)] = 1
         /\ \/ turn'[TurnKey(u, v)] = turn[TurnKey(u, v)]
            \/ /\ SetTurn(r) /\ turn'[TurnKey(u, v)] = node[r]
               /\ \/ u = node[r] /\ v = nbr[r]
                  \/ u = nbr[r] /\ v = node[r]
<1>1. /\ u \in Nat /\ v \in Node /\ v \in Nat
      /\ FlagKey(u, v) \in FlagKeys /\ TurnKey(u, v) \in Arc
  BY NbrFacts, KeysExist
<1>2. flag \in [FlagKeys -> {Nil, 0, 1}] /\ turn \in [Arc -> Node \cup {Nil, 0}]
  BY DEF TypePos, TypeOK
<1>3. CASE SetFlag(r)
  BY <1>1, <1>2, <1>3 DEF SetFlag
<1>4. CASE SetTurn(r)
  <2>1. node[r] \in Nat /\ nbr[r] \in Nat
    BY <1>4, PositionFacts, NbrFacts DEF SetTurn, At, WorkPC, ReadPC, LockPC
  <2>2. /\ flag' = flag
        /\ turn' = [turn EXCEPT ![TurnKey(node[r], nbr[r])] = node[r]]
    BY <1>4 DEF SetTurn
  <2>3. CASE TurnKey(node[r], nbr[r]) = TurnKey(u, v)
    BY SMT, <1>1, <1>2, <1>4, <2>1, <2>2, <2>3, KeysDiffer
  <2>4. CASE TurnKey(node[r], nbr[r]) # TurnKey(u, v)
    BY <1>1, <1>2, <2>2, <2>4
  <2> QED BY <2>3, <2>4
<1>5. CASE ReleaseLock(r)
  <2>1. pc[r] = "release" /\ node[r] \in Node /\ status[node[r]] = 1
    <3>1. pc[r] = "release" /\ pc[r] \in WorkPC
      BY <1>5 DEF ReleaseLock, At, WorkPC
    <3>2. node[r] \in Node /\ node[r] = cur[r] /\ node[r] \in First[r] .. Last[r]
      BY SMT, <3>1, PositionFacts, ContiguousIds, ProcAssumption
    <3> QED BY <3>1, <3>2 DEF StatusInv
  <2>2. ASSUME NEW a \in StaleLocks(r)
        PROVE  a[1] \in Node /\ a[2] \in Node /\ status[a[1]] = 1
    <3>1. a[1] \in Node /\ a[2] \in Node
      BY DEF StaleLocks, Arc
    <3>2. a[1] \in First[r] .. Last[r] /\ a[1] < cur[r]
      <4>1. pc[r] \in WorkPC
        BY <2>1 DEF WorkPC
      <4>2. cur[r] <= Last[r] /\ cur[r] \in Nat
        BY <4>1, PositionFacts, NbrFacts
      <4>3. First[r] \in Nat /\ Last[r] \in Nat /\ Last[r] < N /\ N \in Nat
        BY ProcAssumption, DisjointPartitions, ContiguousIds
      <4>4. PICK i \in First[r] .. (cur[r] - 1) : a[1] = Key(i)
        BY DEF StaleLocks
      <4>5. i \in Node
        BY SMT, <4>2, <4>3, ContiguousIds
      <4>6. a[1] = i
        BY <4>4, <4>5 DEF FiniteFacts
      <4> QED BY SMT, <4>2, <4>3, <4>6
    <3> QED BY <3>1, <3>2 DEF StatusInv
  <2>3. PICK n \in todo[r] :
           IF n \in locks[r]
           THEN flag' = [flag EXCEPT ![FlagKey(node[r], n)] = 0] /\ turn' = turn
           ELSE ReleaseGarbage(r)
    BY <1>5 DEF ReleaseLock
  <2>4. CASE n \in locks[r]
    <3>1. n \in Nat
      BY NbrFacts DEF TypePos, TypeOK
    <3>2. FlagKey(node[r], n) # FlagKey(u, v)
      <4>1. u \in Nat /\ v \in Nat /\ node[r] \in Nat
        BY <2>1, NbrFacts
      <4>2. node[r] # u
        BY <2>1
      <4> QED BY SMT, <3>1, <4>1, <4>2, KeysDiffer
    <3> QED BY <1>1, <1>2, <2>3, <2>4, <3>2
  <2>5. CASE n \notin locks[r]
    <3>1. ASSUME NEW a \in StaleLocks(r)
          PROVE  /\ FlagKey(a[1], a[2]) # FlagKey(u, v)
                 /\ FlagKey(a[2], a[1]) # FlagKey(u, v)
                 /\ TurnKey(a[1], a[2]) # TurnKey(u, v)
      <4>1. a[1] \in Nat /\ a[2] \in Nat /\ a[1] # u /\ a[1] # v
        BY <2>2, NbrFacts
      <4> QED BY SMT, <1>1, <4>1, KeysDiffer
    <3>2. flag' = flag \/ \E a \in StaleLocks(r) :
             \/ flag' = [flag EXCEPT ![FlagKey(a[1], a[2])] = 0]
             \/ flag' = [flag EXCEPT ![FlagKey(a[2], a[1])] = 0]
      BY <2>3, <2>5 DEF ReleaseGarbage
    <3>3. turn' = turn \/ \E a \in StaleLocks(r) :
             turn' = [turn EXCEPT ![TurnKey(a[1], a[2])] = 0]
      BY <2>3, <2>5 DEF ReleaseGarbage
    <3> QED BY <1>1, <1>2, <3>1, <3>2, <3>3
  <2> QED BY <2>4, <2>5
<1>6. CASE ~SetFlag(r) /\ ~SetTurn(r) /\ ~ReleaseLock(r)
  <2>1. flag' = flag /\ turn' = turn
    BY <1>6 DEF StepOf, Step, store,
         Start, ProcessNode, PickNeighbour, GetStatus, GetFlag,
         GetTurn, WaitTurn, WaitFlag, GetColor, SetColor,
         SetStatus, NextNode, Report, Fail, ReportAfterLoss
  <2> QED BY <2>1
<1> QED BY <1>3, <1>4, <1>5, <1>6

\* A mark is never taken back, and a step marks only the node of its client.
LEMMA MarkStep ==
  ASSUME TypePos, NEW r \in Proc, StepOf(r)
  PROVE  \/ status' = status
         \/ SetStatus(r) /\ status' = [status EXCEPT ![node[r]] = 1]
<1>1. CASE SetStatus(r)
  BY <1>1 DEF SetStatus
<1>2. CASE ~SetStatus(r)
  BY <1>2 DEF StepOf, Step, store,
         Start, ProcessNode, PickNeighbour, GetStatus, SetFlag,
         SetTurn, GetFlag, GetTurn, WaitTurn, WaitFlag,
         GetColor, SetColor, ReleaseLock, NextNode, Report,
         Fail, ReportAfterLoss
<1> QED BY <1>1, <1>2

\* cur and the test pc = "release" only change in SetStatus and NextNode.
LEMMA CursorStep ==
  ASSUME TypePos, NEW r \in Proc, StepOf(r)
  PROVE  \/ SetStatus(r)
         \/ NextNode(r)
         \/ cur' = cur /\ (pc'[r] = "release" <=> pc[r] = "release")
<1> USE DEF At, Goto, TypePos, TypeOK
<1>1. CASE Start(r)
  BY <1>1 DEF Start
<1>2. CASE ProcessNode(r)
  BY <1>2 DEF ProcessNode
<1>3. CASE PickNeighbour(r)
  BY <1>3 DEF PickNeighbour
<1>4. CASE GetStatus(r)
  BY <1>4 DEF GetStatus
<1>5. CASE SetFlag(r)
  BY <1>5 DEF SetFlag
<1>6. CASE SetTurn(r)
  BY <1>6 DEF SetTurn
<1>7. CASE GetFlag(r)
  BY <1>7 DEF GetFlag
<1>8. CASE GetTurn(r)
  BY <1>8 DEF GetTurn, LoopOrEnter
<1>9. CASE WaitTurn(r)
  BY <1>9 DEF WaitTurn
<1>10. CASE WaitFlag(r)
  BY <1>10 DEF WaitFlag, LoopOrEnter
<1>11. CASE GetColor(r)
  BY <1>11 DEF GetColor
<1>12. CASE SetColor(r)
  BY <1>12 DEF SetColor
<1>13. CASE ReleaseLock(r)
  BY <1>13 DEF ReleaseLock
<1>14. CASE Report(r)
  BY <1>14 DEF Report
<1>15. CASE Fail(r)
  BY <1>15 DEF Fail, local
<1>16. CASE ReportAfterLoss(r)
  BY <1>16 DEF ReportAfterLoss, local
<1> QED
  BY <1>1, <1>2, <1>3, <1>4, <1>5, <1>6, <1>7, <1>8, <1>9, <1>10, <1>11,
       <1>12, <1>13, <1>14, <1>15, <1>16 DEF StepOf, Step

-----------------------------------------------------------------------------
(* The invariants, one by one. *)

\* StatusInv is preserved: only set_status of the owner marks a node, and
\* only the loop of main moves on.
LEMMA StatusStep ==
  ASSUME TypePos, StatusInv, NEW r \in Proc, StepOf(r)
  PROVE  StatusInv'
<1> SUFFICES ASSUME NEW p \in Proc, NEW u \in First[p] .. Last[p]
             PROVE  status'[u] = 1 <=>
                       u < cur'[p] \/ (u = cur'[p] /\ pc'[p] = "release")
  BY DEF StatusInv
<1>1. status[u] = 1 <=> u < cur[p] \/ (u = cur[p] /\ pc[p] = "release")
  BY DEF StatusInv
<1>2. u \in Node /\ u \in Nat /\ cur[p] \in Nat /\ cur[r] \in Nat
  BY SMT, ContiguousIds, DisjointPartitions, ProcAssumption DEF TypePos, TypeOK
<1>3. CASE SetStatus(r)
  <2>1. pc[r] = "setStatus" /\ pc'[r] = "release" /\ cur' = cur
    BY <1>3 DEF SetStatus, At, Goto, TypePos, TypeOK
  <2>2. node[r] \in Node /\ node[r] = cur[r]
        /\ First[r] <= node[r] /\ node[r] <= Last[r]
    BY <2>1, PositionFacts DEF WorkPC
  <2>3. status' = [status EXCEPT ![node[r]] = 1] /\ status \in [Node -> {Nil, 1}]
    BY <1>3 DEF SetStatus, TypePos, TypeOK
  <2>4. CASE p = r
    BY <1>1, <1>2, <2>1, <2>2, <2>3, <2>4
  <2>5. CASE p # r
    <3>1. pc'[p] = pc[p] /\ cur'[p] = cur[p]
      BY <2>5, OthersSame DEF TypePos, Same
    <3>2. u # node[r]
      BY SMT, <1>2, <2>2, <2>5, DisjointPartitions, ProcAssumption
    <3> QED BY <1>1, <1>2, <2>2, <2>3, <3>1, <3>2
  <2> QED BY <2>4, <2>5
<1>4. CASE NextNode(r)
  <2>1. status' = status
    BY <1>4 DEF NextNode, store
  <2>2. CASE p = r
    <3>1. pc[r] = "release" /\ pc'[r] = "loop" /\ cur'[r] = cur[r] + 1
      BY <1>4 DEF NextNode, At, Goto, TypePos, TypeOK
    <3> QED BY SMT, <1>1, <1>2, <2>1, <2>2, <3>1
  <2>3. CASE p # r
    BY <1>1, <2>1, <2>3, OthersSame DEF TypePos, Same
  <2> QED BY <2>2, <2>3
<1>5. CASE ~SetStatus(r) /\ ~NextNode(r)
  <2>1. status' = status
    BY <1>5, MarkStep
  <2>2. cur' = cur /\ (pc'[r] = "release" <=> pc[r] = "release")
    BY <1>5, CursorStep
  <2>3. pc'[p] = "release" <=> pc[p] = "release"
    BY <2>2, OthersSame DEF TypePos, Same
  <2> QED BY <1>1, <2>1, <2>2, <2>3
<1> QED BY <1>3, <1>4, <1>5

\* Whoever takes part in the lock protocol of an edge is at one of its ends,
\* and this end is not marked yet.
LEMMA RaisedFacts ==
  ASSUME TypePos, StatusInv, NEW p \in Proc, NEW v, Raised(p, v)
  PROVE  /\ node[p] \in Node /\ status[node[p]] # 1
         /\ v \in Nbr[node[p]] /\ v \in Node
         /\ pc[p] \in WorkPC
<1>1. pc[p] \in ReadPC \cup {"setStatus"} /\ pc[p] \in WorkPC
  BY DEF Raised, Holds, ReadPC, WorkPC
<1>2. node[p] \in Node /\ status[node[p]] # 1
  BY <1>1, BusyUnmarked
<1>3. v \in Nbr[node[p]]
  <2>1. Position(p)
    BY DEF TypePos, PositionInv
  <2> QED BY <1>1, <2>1 DEF Position, Raised, Holds, WorkPC, ReadPC, LockPC
<1> QED BY <1>1, <1>2, <1>3, NbrFacts

\* A client that has written the turn has raised its flag before.
LEMMA ContendsRaised ==
  ASSUME NEW p \in Proc, NEW v
  PROVE  /\ Contends(p, v) => Raised(p, v)
         /\ Entered(p, v) => Contends(p, v)
         /\ Holds(p, v) => Entered(p, v)
BY DEF Contends, Raised, Entered, LockPC

\* FlagInv is preserved: nobody but the owner lowers a flag while the other
\* end is unmarked.
LEMMA FlagStep ==
  ASSUME FiniteFacts, TypePos, StatusInv, FlagInv, NEW r \in Proc, StepOf(r)
  PROVE  FlagInv'
<1> SUFFICES ASSUME NEW p \in Proc, NEW v \in Node,
                    Raised(p, v)', status'[v] # 1
             PROVE  flag'[FlagKey(node'[p], v)] = 1
  BY DEF FlagInv, FlagKey
<1>1. status[v] # 1
  BY MarkStep DEF TypePos, TypeOK
<1>2. CASE Raised(p, v) /\ node'[p] = node[p]
  <2>1. /\ node[p] \in Node /\ status[node[p]] # 1
        /\ v \in Nbr[node[p]]
    BY <1>2, RaisedFacts
  <2>2. flag[FlagKey(node[p], v)] = 1
    BY <1>1, <1>2 DEF FlagInv
  <2>3. \/ flag'[FlagKey(node[p], v)] = flag[FlagKey(node[p], v)]
        \/ flag'[FlagKey(node[p], v)] = 1
    BY <1>1, <2>1, EdgeStep
  <2> QED BY <1>2, <2>2, <2>3
<1>3. CASE SetFlag(r) /\ p = r /\ v = nbr[p] /\ node'[p] = node[p]
  <2>1. pc[r] = "setFlag" /\ pc[r] \in WorkPC
    BY <1>3 DEF SetFlag, At, WorkPC, ReadPC, LockPC
  <2>2. FlagKey(node[r], nbr[r]) \in FlagKeys
    BY <2>1, PositionFacts, KeysExist
       DEF TypePos, PositionInv, Position, ReadPC, LockPC
  <2> QED BY <1>3, <2>2 DEF SetFlag, TypePos, TypeOK
<1> QED BY <1>2, <1>3, LockSteps DEF LockStep

\* TurnInv is preserved: only the two ends write the turn of an edge while
\* one of them is unmarked.
LEMMA TurnStep ==
  ASSUME FiniteFacts, TypePos, StatusInv, TurnInv, NEW r \in Proc, StepOf(r)
  PROVE  TurnInv'
<1> SUFFICES ASSUME NEW p \in Proc, NEW v \in Node,
                    Contends(p, v)', status'[v] # 1
             PROVE  turn'[TurnKey(node'[p], v)] \in {node'[p], v}
  BY DEF TurnInv, TurnKey
<1>1. status[v] # 1
  BY MarkStep DEF TypePos, TypeOK
<1>2. CASE Contends(p, v) /\ node'[p] = node[p]
  <2>1. /\ node[p] \in Node /\ status[node[p]] # 1
        /\ v \in Nbr[node[p]]
    BY <1>2, ContendsRaised, RaisedFacts
  <2>2. turn[TurnKey(node[p], v)] \in {node[p], v}
    BY <1>1, <1>2 DEF TurnInv
  <2>3. \/ turn'[TurnKey(node[p], v)] = turn[TurnKey(node[p], v)]
        \/ turn'[TurnKey(node[p], v)] \in {node[p], v}
    BY <1>1, <2>1, EdgeStep
  <2> QED BY <1>2, <2>2, <2>3
<1>3. CASE SetTurn(r) /\ p = r /\ v = nbr[p] /\ node'[p] = node[p]
  <2>1. pc[r] = "setTurn" /\ pc[r] \in WorkPC
    BY <1>3 DEF SetTurn, At, WorkPC, ReadPC, LockPC
  <2>2. TurnKey(node[r], nbr[r]) \in Arc
    BY <2>1, PositionFacts, KeysExist
       DEF TypePos, PositionInv, Position, ReadPC, LockPC
  <2> QED BY <1>3, <2>2 DEF SetTurn, TypePos, TypeOK
<1> QED BY <1>2, <1>3, LockSteps DEF LockStep

\* PetersonInv is preserved: the client that writes the turn last is the one
\* that waits.
LEMMA PetersonStep ==
  ASSUME FiniteFacts, TypePos, StatusInv, FlagInv, TurnInv, PetersonInv,
         NEW r \in Proc, StepOf(r)
  PROVE  PetersonInv'
<1> SUFFICES ASSUME NEW p \in Proc, NEW q \in Proc, p # q,
                    NEW u, NEW v, node'[p] = u, node'[q] = v,
                    Entered(p, v)', Contends(q, u)'
             PROVE  turn'[TurnKey(u, v)] = v
  BY DEF PetersonInv, TurnKey, BothId, Entered, Contends, Holds
<1>1. node[p] = u /\ node[q] = v
  BY LockSteps DEF LockStep
<1>2. \/ Entered(p, v)
      \/ /\ p = r /\ Contends(p, v) /\ UNCHANGED <<flag, turn, status>>
         /\ flag[FlagKey(v, u)] # 1 \/ turn[TurnKey(u, v)] # u
  BY <1>1, LockSteps DEF LockStep
<1>3. Contends(q, u) \/ (SetTurn(r) /\ q = r /\ u = nbr[q])
  BY <1>1, LockSteps DEF LockStep
<1>4. /\ u \in Node /\ status[u] # 1 /\ pc[p] \in WorkPC
      /\ v \in Node /\ v \in Nbr[u]
  BY <1>1, <1>2, ContendsRaised, RaisedFacts
<1>5. pc[q] \in WorkPC /\ status[v] # 1
  <2>1. CASE Contends(q, u)
    BY <1>1, <2>1, ContendsRaised, RaisedFacts
  <2>2. CASE SetTurn(r) /\ q = r
    <3>1. pc[q] \in ReadPC /\ pc[q] \in WorkPC
      BY <2>2 DEF SetTurn, At, WorkPC, ReadPC, LockPC
    <3> QED BY <1>1, <3>1, BusyUnmarked
  <2> QED BY <1>3, <2>1, <2>2
<1>6. u # v /\ u \in Nat /\ v \in Nat /\ TurnKey(u, v) \in Arc
  BY <1>4, NbrFacts, KeysExist
<1>7. CASE Entered(p, v) /\ Contends(q, u)
  <2>1. turn[TurnKey(u, v)] = v
    BY <1>1, <1>7 DEF PetersonInv
  <2>2. CASE turn'[TurnKey(u, v)] = turn[TurnKey(u, v)]
    BY <1>1, <2>1, <2>2
  <2>3. CASE /\ SetTurn(r) /\ turn'[TurnKey(u, v)] = node[r]
             /\ (u = node[r] /\ v = nbr[r]) \/ (u = nbr[r] /\ v = node[r])
    <3>1. pc[r] = "setTurn" /\ pc[r] \in WorkPC
      BY <2>3 DEF SetTurn, At, WorkPC, ReadPC, LockPC
    <3>2. r \in {p, q}
      BY <1>1, <1>4, <1>5, <2>3, <3>1, DistinctOwners
    <3>3. r # p
      <4> SUFFICES ASSUME r = p PROVE FALSE
        OBVIOUS
      <4>1. v \in locks[p]
        BY <1>7, <3>1 DEF Entered, Holds
      <4>2. v = nbr[p]
        BY <1>1, <1>6, <2>3
      <4> QED
        BY <3>1, <4>1, <4>2
           DEF TypePos, PositionInv, Position, LockPC
    <3> QED BY <1>1, <2>3, <3>2, <3>3
  <2>4. \/ turn'[TurnKey(u, v)] = turn[TurnKey(u, v)]
        \/ /\ SetTurn(r) /\ turn'[TurnKey(u, v)] = node[r]
           /\ (u = node[r] /\ v = nbr[r]) \/ (u = nbr[r] /\ v = node[r])
    <3>1. u \in Node /\ v \in Nbr[u] /\ status[u] # 1 /\ status[v] # 1
      BY <1>4, <1>5
    <3>2. /\ \/ flag'[FlagKey(u, v)] = flag[FlagKey(u, v)]
             \/ SetFlag(r) /\ flag'[FlagKey(u, v)] = 1
          /\ \/ turn'[TurnKey(u, v)] = turn[TurnKey(u, v)]
             \/ /\ SetTurn(r) /\ turn'[TurnKey(u, v)] = node[r]
                /\ \/ u = node[r] /\ v = nbr[r]
                   \/ u = nbr[r] /\ v = node[r]
      BY <3>1, EdgeStep, ZenonT(40)
    <3> QED BY <3>2
  <2> QED BY <2>2, <2>3, <2>4
<1>8. CASE SetTurn(r) /\ q = r /\ u = nbr[q]
  <2>1. turn' = [turn EXCEPT ![TurnKey(v, u)] = v]
    BY <1>1, <1>8 DEF SetTurn
  <2> QED BY <1>1, <1>6, <2>1, TurnKeySym DEF TypePos, TypeOK
<1>9. CASE /\ p = r /\ Contends(p, v) /\ Contends(q, u)
           /\ UNCHANGED <<flag, turn, status>>
           /\ flag[FlagKey(v, u)] # 1 \/ turn[TurnKey(u, v)] # u
  <2>1. flag[FlagKey(v, u)] = 1
    <3>1. Raised(q, u)
      BY <1>9, ContendsRaised
    <3> QED BY <1>1, <1>4, <3>1 DEF FlagInv
  <2>2. turn[TurnKey(u, v)] \in {u, v}
    BY <1>1, <1>4, <1>5, <1>9 DEF TurnInv
  <2> QED BY <1>1, <1>9, <2>1, <2>2
<1> QED BY <1>2, <1>3, <1>7, <1>8, <1>9

\* Peterson's argument for both ends at once: the turn cannot be both nodes.
LEMMA MutexFromPeterson ==
  ASSUME TypePos, StatusInv, PetersonInv
  PROVE  EdgeMutex
<1> SUFFICES ASSUME NEW p \in Proc, NEW q \in Proc, p # q,
                    Holds(p, node[q]), Holds(q, node[p])
             PROVE  FALSE
  BY DEF EdgeMutex
<1>1. /\ Entered(p, node[q]) /\ Contends(p, node[q]) /\ Raised(p, node[q])
      /\ Entered(q, node[p]) /\ Contends(q, node[p]) /\ Raised(q, node[p])
  BY DEF Entered, Contends, Raised
<1>2. /\ turn[TurnKey(node[p], node[q])] = node[q]
      /\ turn[TurnKey(node[q], node[p])] = node[p]
  BY <1>1 DEF PetersonInv
<1>3. node[p] \in Node /\ node[q] \in Nbr[node[p]]
  BY <1>1, RaisedFacts
<1> QED BY <1>2, <1>3, NbrFacts, TurnKeySym

\* Only SetColor writes a colour.
LEMMA ColorStep ==
  ASSUME NEW r \in Proc, StepOf(r)
  PROVE  color' = color \/ SetColor(r)
BY DEF StepOf, Step, store,
         Start, ProcessNode, PickNeighbour, GetStatus, SetFlag,
         SetTurn, GetFlag, GetTurn, WaitTurn, WaitFlag,
         GetColor, SetStatus, ReleaseLock, NextNode, Report,
         Fail, ReportAfterLoss

\* When a client writes its colour, nobody else has read the old one.
LEMMA NobodyHasRead ==
  ASSUME TypePos, StatusInv, PetersonInv, SnapshotInv,
         NEW r \in Proc, SetColor(r), NEW p \in Proc, p # r,
         pc[p] \in ReadPC, node[r] \in Nbr[node[p]] \ todo[p],
         pc[p] = "pick" \/ node[r] # nbr[p]
  PROVE  FALSE
<1>1. /\ pc[r] = "pick" /\ todo[r] = {}
      /\ pc[r] \in ReadPC /\ pc[r] \in WorkPC /\ pc[p] \in WorkPC
  BY DEF SetColor, At, ReadPC, WorkPC
<1>2. /\ node[p] \in Node /\ status[node[p]] # 1
      /\ node[r] \in Node /\ status[node[r]] # 1
  BY <1>1, BusyUnmarked
<1>3. External(p, node[r]) /\ External(r, node[p])
  BY <1>1, DistinctOwners
<1>4. Holds(p, node[r])
  BY <1>2, <1>3 DEF SnapshotInv, Settled, Holds
<1>5. node[p] \in Nbr[node[r]] \ todo[r]
  BY <1>1, <1>2, NbrFacts
<1>6. Holds(r, node[p])
  BY <1>1, <1>2, <1>3, <1>5 DEF SnapshotInv, Settled, Holds
<1> QED BY <1>4, <1>6, MutexFromPeterson DEF EdgeMutex

\* The part of SnapshotInv about p and its neighbour n.
Snapshot(p, n) ==
    /\ pc[p] = "pick" \/ n # nbr[p] =>
          seen[p][n] = color[n] /\ Settled(p, n)
    /\ pc[p] = "getColor" /\ n = nbr[p] => Settled(p, n)

\* A step of another client leaves what p has read true.
LEMMA SnapshotOther ==
  ASSUME TypePos, StatusInv, PetersonInv, SnapshotInv,
         NEW r \in Proc, StepOf(r), NEW p \in Proc, p # r, pc'[p] \in ReadPC,
         NEW n \in Nbr[node'[p]] \ todo'[p]
  PROVE  Snapshot(p, n)'
<1>1. Same(p)
  BY OthersSame DEF TypePos
<1>2. pc[p] \in ReadPC /\ n \in Nbr[node[p]] \ todo[p]
  BY <1>1 DEF Same
<1>3. Snapshot(p, n)
  BY <1>2 DEF SnapshotInv, Snapshot
<1>4. n \in Node
  <2>1. pc[p] \in WorkPC
    BY <1>2 DEF WorkPC
  <2> QED BY <1>2, <2>1, PositionFacts, NbrFacts
<1>5. Settled(p, n) => Settled(p, n)'
  BY <1>1, <1>4, MarkStep DEF Settled, Same, External, TypePos, TypeOK
<1>6. pc[p] = "pick" \/ n # nbr[p] => color'[n] = color[n]
  <2>1. CASE color' = color
    BY <2>1
  <2>2. CASE SetColor(r)
    <3>1. CASE n = node[r]
      BY <1>2, <2>2, <3>1, NobodyHasRead
    <3>2. CASE n # node[r]
      BY <1>4, <2>2, <3>2 DEF SetColor, TypePos, TypeOK
    <3> QED BY <3>1, <3>2
  <2> QED BY <2>1, <2>2, ColorStep
<1> QED BY <1>1, <1>3, <1>5, <1>6 DEF Snapshot, Same

\* A step of p itself adds to what it has read, and keeps the rest true.
LEMMA SnapshotSelf ==
  ASSUME TypePos, SnapshotInv,
         NEW p \in Proc, StepOf(p), pc'[p] \in ReadPC,
         NEW n \in Nbr[node'[p]] \ todo'[p]
  PROVE  Snapshot(p, n)'
<1>1. pc[p] \in ReadPC => \A m \in Nbr[node[p]] \ todo[p] : Snapshot(p, m)
  BY DEF SnapshotInv, Snapshot
<1>2. pc[p] \in WorkPC =>
         node[p] \in Node /\ (pc[p] \in ReadPC \ {"pick"} => nbr[p] \in Node)
  BY PositionFacts
<1>t. /\ pc \in [Proc -> PCs] /\ node \in [Proc -> Node \cup {Nil}]
      /\ todo \in [Proc -> SUBSET Node] /\ nbr \in [Proc -> Node \cup {Nil}]
      /\ seen \in [Proc -> [Node -> Nat \cup {Nil}]]
      /\ locks \in [Proc -> SUBSET Node] /\ status \in [Node -> {Nil, 1}]
  BY DEF TypePos, TypeOK
<1> USE DEF At, Goto, WorkPC, ReadPC, LockPC
<1>3. CASE Start(p)
  <2>1. pc'[p] \notin ReadPC
    BY <1>t, <1>3 DEF Start
  <2> QED BY <2>1
<1>4. CASE ProcessNode(p)
  <2>1. CASE cur[p] < Cardinality(Node)
    <3>1. todo'[p] = Nbr[node'[p]]
      <4>1. /\ node' = [node EXCEPT ![p] = Key(cur[p])]
            /\ todo' = [todo EXCEPT ![p] = Nbr[Key(cur[p])]]
        BY <1>4, <2>1 DEF ProcessNode
      <4>2. node'[p] = Key(cur[p]) /\ todo'[p] = Nbr[Key(cur[p])]
        BY <1>t, <4>1
      <4> QED BY <4>2
    <3> QED BY <3>1
  <2>2. CASE ~(cur[p] < Cardinality(Node))
    <3>1. pc'[p] \notin ReadPC
      BY <1>t, <1>4, <2>2 DEF ProcessNode
    <3> QED BY <3>1
  <2> QED BY <2>1, <2>2
<1>5. CASE PickNeighbour(p)
  <2>1. /\ pc[p] = "pick" /\ pc'[p] \in {"getStatus", "getColor"}
        /\ pc'[p] = "getColor" => ~External(p, nbr'[p])
        /\ todo[p] = todo'[p] \cup {nbr'[p]}
    <3>1. PICK m \in todo[p] :
             /\ nbr' = [nbr EXCEPT ![p] = m]
             /\ todo' = [todo EXCEPT ![p] = @ \ {m}]
             /\ pc' = [pc EXCEPT ![p] =
                          IF External(p, m) THEN "getStatus" ELSE "getColor"]
      BY <1>5 DEF PickNeighbour
    <3>2. nbr'[p] = m /\ todo'[p] = todo[p] \ {m}
      BY <1>t, <3>1
    <3>3. pc'[p] = IF External(p, m) THEN "getStatus" ELSE "getColor"
      BY <1>t, <3>1
    <3>4. pc[p] = "pick"
      BY <1>5 DEF PickNeighbour
    <3> QED BY <3>2, <3>3, <3>4
  <2>2. /\ node' = node /\ seen' = seen /\ locks' = locks
        /\ color' = color /\ status' = status
    BY <1>5 DEF PickNeighbour, store
  <2> QED BY <1>1, <2>1, <2>2 DEF Snapshot, Settled, External
<1>6. CASE GetStatus(p)
  <2>1. pc[p] = "getStatus" /\ nbr[p] \in Node
    BY <1>2, <1>6 DEF GetStatus
  <2>2. /\ nbr' = nbr /\ todo' = todo /\ node' = node /\ seen' = seen
        /\ locks' = locks /\ color' = color /\ status' = status
    BY <1>6 DEF GetStatus, store
  <2>3. pc'[p] \in {"setFlag", "getColor"}
    BY <1>t, <1>6 DEF GetStatus
  <2>4. pc'[p] = "getColor" => status[nbr[p]] = 1
    <3>1. status[nbr[p]] \in {Nil, 1}
      BY <1>t, <2>1
    <3> QED BY <1>t, <1>6, <3>1 DEF GetStatus, GetStatusOf, Nil
  <2> QED BY <1>1, <2>1, <2>2, <2>3, <2>4 DEF Snapshot, Settled, External
<1>7. CASE SetFlag(p)
  <2>1. pc[p] \in LockPC /\ pc'[p] \in LockPC
    BY <1>t, <1>7 DEF SetFlag
  <2>2. /\ node' = node /\ todo' = todo /\ nbr' = nbr /\ seen' = seen
        /\ locks' = locks /\ color' = color /\ status' = status
    BY <1>7 DEF SetFlag
  <2> QED BY <1>1, <2>1, <2>2 DEF Snapshot, Settled, External
<1>8. CASE SetTurn(p)
  <2>1. pc[p] \in LockPC /\ pc'[p] \in LockPC
    BY <1>t, <1>8 DEF SetTurn
  <2>2. /\ node' = node /\ todo' = todo /\ nbr' = nbr /\ seen' = seen
        /\ locks' = locks /\ color' = color /\ status' = status
    BY <1>8 DEF SetTurn
  <2> QED BY <1>1, <2>1, <2>2 DEF Snapshot, Settled, External
<1>9. CASE GetFlag(p)
  <2>1. pc[p] \in LockPC /\ pc'[p] \in LockPC
    BY <1>t, <1>9 DEF GetFlag
  <2>2. /\ node' = node /\ todo' = todo /\ nbr' = nbr /\ seen' = seen
        /\ locks' = locks /\ color' = color /\ status' = status
    BY <1>9 DEF GetFlag, store
  <2> QED BY <1>1, <2>1, <2>2 DEF Snapshot, Settled, External
<1>10. CASE GetTurn(p)
  <2>1. /\ pc[p] \in LockPC /\ pc'[p] \in LockPC \cup {"getColor"}
        /\ nbr[p] \in Node
    BY <1>t, <1>2, <1>10 DEF GetTurn, LoopOrEnter
  <2>2. /\ nbr' = nbr /\ todo' = todo /\ node' = node /\ seen' = seen
        /\ color' = color /\ status' = status
    BY <1>10 DEF GetTurn, store
  <2>3. /\ locks[p] \subseteq locks'[p]
        /\ pc'[p] = "getColor" => nbr[p] \in locks'[p]
    <3>1. CASE MustWait(p, otherFlag[p], turn[TurnKey(node[p], nbr[p])])
      <4>1. locks' = locks /\ pc' = [pc EXCEPT ![p] = "waitTurn"]
        BY <1>10, <3>1 DEF GetTurn, LoopOrEnter
      <4> QED BY <1>t, <4>1
    <3>2. CASE ~MustWait(p, otherFlag[p], turn[TurnKey(node[p], nbr[p])])
      <4>1. locks' = [locks EXCEPT ![p] = @ \cup {nbr[p]}]
        BY <1>10, <3>2 DEF GetTurn, LoopOrEnter
      <4> QED BY <1>t, <4>1
    <3> QED BY <3>1, <3>2
  <2> QED BY <1>1, <2>1, <2>2, <2>3 DEF Snapshot, Settled, External
<1>11. CASE WaitTurn(p)
  <2>1. pc[p] \in LockPC /\ pc'[p] \in LockPC
    BY <1>t, <1>11 DEF WaitTurn
  <2>2. /\ node' = node /\ todo' = todo /\ nbr' = nbr /\ seen' = seen
        /\ locks' = locks /\ color' = color /\ status' = status
    BY <1>11 DEF WaitTurn, store
  <2> QED BY <1>1, <2>1, <2>2 DEF Snapshot, Settled, External
<1>12. CASE WaitFlag(p)
  <2>1. /\ pc[p] \in LockPC /\ pc'[p] \in LockPC \cup {"getColor"}
        /\ nbr[p] \in Node
    BY <1>t, <1>2, <1>12 DEF WaitFlag, LoopOrEnter
  <2>2. /\ nbr' = nbr /\ todo' = todo /\ node' = node /\ seen' = seen
        /\ color' = color /\ status' = status
    BY <1>12 DEF WaitFlag, store
  <2>3. /\ locks[p] \subseteq locks'[p]
        /\ pc'[p] = "getColor" => nbr[p] \in locks'[p]
    <3>1. CASE MustWait(p, flag[FlagKey(nbr[p], node[p])], turnNew[p])
      <4>1. locks' = locks /\ pc' = [pc EXCEPT ![p] = "waitTurn"]
        BY <1>12, <3>1 DEF WaitFlag, LoopOrEnter
      <4> QED BY <1>t, <4>1
    <3>2. CASE ~MustWait(p, flag[FlagKey(nbr[p], node[p])], turnNew[p])
      <4>1. locks' = [locks EXCEPT ![p] = @ \cup {nbr[p]}]
        BY <1>12, <3>2 DEF WaitFlag, LoopOrEnter
      <4> QED BY <1>t, <4>1
    <3> QED BY <3>1, <3>2
  <2> QED BY <1>1, <2>1, <2>2, <2>3 DEF Snapshot, Settled, External
<1>13. CASE GetColor(p)
  <2>1. /\ pc[p] = "getColor" /\ pc'[p] = "pick" /\ nbr[p] \in Node
        /\ seen'[p] = [seen[p] EXCEPT ![nbr[p]] = color[nbr[p]]]
    BY <1>t, <1>2, <1>13 DEF GetColor
  <2>2. /\ node' = node /\ todo' = todo /\ nbr' = nbr /\ locks' = locks
        /\ color' = color /\ status' = status
    BY <1>13 DEF GetColor, store
  <2>3. n \in Nbr[node[p]] \ todo[p]
    BY <2>2
  <2>4. seen[p] \in [Node -> Nat \cup {Nil}] /\ n \in Node
    BY <1>t, <1>2, <2>1, <2>3, NbrFacts
  <2> QED BY <1>1, <2>1, <2>2, <2>3, <2>4 DEF Snapshot, Settled, External
<1>14. CASE SetColor(p)
  <2>1. pc'[p] \notin ReadPC
    BY <1>t, <1>14 DEF SetColor
  <2> QED BY <2>1
<1>15. CASE SetStatus(p)
  <2>1. pc'[p] \notin ReadPC
    BY <1>t, <1>15 DEF SetStatus
  <2> QED BY <2>1
<1>16. CASE ReleaseLock(p)
  <2>1. pc'[p] \notin ReadPC
    BY <1>t, <1>16 DEF ReleaseLock
  <2> QED BY <2>1
<1>17. CASE NextNode(p)
  <2>1. pc'[p] \notin ReadPC
    BY <1>t, <1>17 DEF NextNode
  <2> QED BY <2>1
<1>18. CASE Report(p)
  <2>1. pc'[p] \notin ReadPC
    BY <1>t, <1>18 DEF Report
  <2> QED BY <2>1
<1>19. CASE Fail(p)
  <2>1. /\ pc' = pc /\ node' = node /\ todo' = todo /\ nbr' = nbr
        /\ seen' = seen /\ locks' = locks /\ color' = color
        /\ status' = status
    BY <1>19 DEF Fail, local, store
  <2> QED BY <1>1, <2>1 DEF Snapshot, Settled, External
<1>20. CASE ReportAfterLoss(p)
  <2>1. /\ pc' = pc /\ node' = node /\ todo' = todo /\ nbr' = nbr
        /\ seen' = seen /\ locks' = locks /\ color' = color
        /\ status' = status
    BY <1>20 DEF ReportAfterLoss, local, store
  <2> QED BY <1>1, <2>1 DEF Snapshot, Settled, External
<1> QED
  BY <1>3, <1>4, <1>5, <1>6, <1>7, <1>8, <1>9, <1>10, <1>11, <1>12,
       <1>13, <1>14, <1>15, <1>16, <1>17, <1>18, <1>19, <1>20 DEF StepOf,
       Step

\* SnapshotInv is preserved by every step.
LEMMA SnapshotStep ==
  ASSUME TypePos, StatusInv, PetersonInv, SnapshotInv,
         NEW r \in Proc, StepOf(r)
  PROVE  SnapshotInv'
<1>1. ASSUME NEW p \in Proc, pc'[p] \in ReadPC,
             NEW n \in Nbr[node'[p]] \ todo'[p]
      PROVE  Snapshot(p, n)'
  BY <1>1, SnapshotOther, SnapshotSelf
<1> QED BY <1>1 DEF SnapshotInv, Snapshot

\* Apart from SetColor and SetStatus no step enters or leaves "setStatus".
LEMMA WrittenStep ==
  ASSUME TypePos, NEW r \in Proc, StepOf(r)
  PROVE  \/ SetColor(r)
         \/ SetStatus(r)
         \/ pc[r] # "setStatus" /\ pc'[r] # "setStatus"
         \/ pc'[r] = pc[r] /\ node'[r] = node[r]
<1> USE DEF At, Goto, TypePos, TypeOK
<1>1. CASE Start(r)
  BY <1>1 DEF Start
<1>2. CASE ProcessNode(r)
  BY <1>2 DEF ProcessNode
<1>3. CASE PickNeighbour(r)
  BY <1>3 DEF PickNeighbour
<1>4. CASE GetStatus(r)
  BY <1>4 DEF GetStatus
<1>5. CASE SetFlag(r)
  BY <1>5 DEF SetFlag
<1>6. CASE SetTurn(r)
  BY <1>6 DEF SetTurn
<1>7. CASE GetFlag(r)
  BY <1>7 DEF GetFlag
<1>8. CASE GetTurn(r)
  BY <1>8 DEF GetTurn, LoopOrEnter
<1>9. CASE WaitTurn(r)
  BY <1>9 DEF WaitTurn
<1>10. CASE WaitFlag(r)
  BY <1>10 DEF WaitFlag, LoopOrEnter
<1>11. CASE GetColor(r)
  BY <1>11 DEF GetColor
<1>12. CASE ReleaseLock(r)
  BY <1>12 DEF ReleaseLock
<1>13. CASE NextNode(r)
  BY <1>13 DEF NextNode
<1>14. CASE Report(r)
  BY <1>14 DEF Report
<1>15. CASE Fail(r)
  BY <1>15 DEF Fail, local
<1>16. CASE ReportAfterLoss(r)
  BY <1>16 DEF ReportAfterLoss, local
<1> QED
  BY <1>1, <1>2, <1>3, <1>4, <1>5, <1>6, <1>7, <1>8, <1>9, <1>10, <1>11,
       <1>12, <1>13, <1>14, <1>15, <1>16 DEF StepOf, Step

\* u has its colour.
IsColored(u) ==
    status[u] = 1 \/ \E p \in Proc : node[p] = u /\ pc[p] = "setStatus"

\* SetColor colours the node of its client, which had no colour; no other
\* step changes which nodes are coloured.
LEMMA ColoredStep ==
  ASSUME TypePos, StatusInv, NEW r \in Proc, StepOf(r), NEW u \in Node
  PROVE  /\ ~SetColor(r) => (IsColored(u)' <=> IsColored(u))
         /\ SetColor(r) => /\ IsColored(u)' <=> IsColored(u) \/ u = node[r]
                           /\ ~IsColored(node[r])
<1>1. ASSUME NEW p \in Proc, p # r
      PROVE  node'[p] = node[p] /\ pc'[p] = pc[p]
  BY <1>1, OthersSame DEF TypePos, Same
<1>2. CASE SetColor(r)
  <2>1. /\ pc[r] = "pick" /\ pc'[r] = "setStatus" /\ node' = node
        /\ status' = status
    BY <1>2 DEF SetColor, At, Goto, TypePos, TypeOK
  <2>2. status[node[r]] # 1 /\ node[r] \in Node
    BY <2>1, BusyUnmarked DEF ReadPC
  <2>3. ~IsColored(node[r])
    <3>1. ASSUME NEW p \in Proc, pc[p] = "setStatus" PROVE node[p] # node[r]
      BY <2>1, <3>1, DistinctOwners DEF WorkPC, ReadPC
    <3> QED BY <2>2, <3>1 DEF IsColored
  <2>4. IsColored(u)' <=> IsColored(u) \/ u = node[r]
    BY <1>1, <2>1 DEF IsColored
  <2> QED BY <1>2, <2>3, <2>4
<1>3. CASE SetStatus(r)
  <2>1. /\ pc[r] = "setStatus" /\ pc'[r] = "release" /\ node' = node
        /\ status' = [status EXCEPT ![node[r]] = 1]
    BY <1>3 DEF SetStatus, At, Goto, TypePos, TypeOK
  <2>2. ~SetColor(r)
    BY <2>1 DEF SetColor, At
  <2>3. status'[u] = 1 <=> status[u] = 1 \/ u = node[r]
    BY <2>1 DEF TypePos, TypeOK
  <2> QED BY <1>1, <2>1, <2>2, <2>3 DEF IsColored
<1>4. CASE ~SetColor(r) /\ ~SetStatus(r)
  <2>1. status' = status
    BY <1>4, MarkStep
  <2>2. \/ pc[r] # "setStatus" /\ pc'[r] # "setStatus"
        \/ pc'[r] = pc[r] /\ node'[r] = node[r]
    BY <1>4, WrittenStep
  <2> QED BY <1>1, <1>4, <2>1, <2>2 DEF IsColored
<1> QED BY <1>2, <1>3, <1>4

\* The two ways to say that a node has its colour agree.
LEMMA ColoredIs == Colored = {u \in Node : IsColored(u)}
BY DEF Colored, IsColored

\* The colour that SetColor writes is the least one that no neighbour has.
LEMMA SetColorStep ==
  ASSUME TypePos, StatusInv, SnapshotInv, NEW r \in Proc, SetColor(r)
  PROVE  /\ node[r] \in Node
         /\ color' = [color EXCEPT ![node[r]] = color'[node[r]]]
         /\ color'[node[r]] \in Nat
         /\ IsLeastFree(color'[node[r]], {color[n] : n \in Nbr[node[r]]})
<1>1. pc[r] = "pick" /\ todo[r] = {} /\ pc[r] \in ReadPC /\ pc[r] \in WorkPC
  BY DEF SetColor, At, WorkPC, ReadPC
<1>2. node[r] \in Node
  BY <1>1, PositionFacts
<1>3. \A n \in Nbr[node[r]] : seen[r][n] = color[n]
  BY <1>1 DEF SnapshotInv
<1>4. {seen[r][n] : n \in Nbr[node[r]]} = {color[n] : n \in Nbr[node[r]]}
  BY <1>3
<1>5. PICK c \in Color :
         /\ IsLeastFree(c, {color[n] : n \in Nbr[node[r]]})
         /\ color' = [color EXCEPT ![node[r]] = c]
  BY <1>4 DEF SetColor
<1>6. color'[node[r]] = c /\ c \in Nat
  <2>1. color \in [Node -> Nat]
    BY DEF TypePos, TypeOK
  <2>2. c \in Nat
    BY SMT DEF Color
  <2> QED BY <1>2, <1>5, <2>1, <2>2
<1> QED BY <1>2, <1>5, <1>6

\* ProperColoring is preserved: set_node_color writes a colour that no
\* neighbour has at that moment.
LEMMA ProperStep ==
  ASSUME TypePos, StatusInv, SnapshotInv, ProperColoring,
         NEW r \in Proc, StepOf(r)
  PROVE  ProperColoring'
<1> SUFFICES ASSUME NEW u \in Node, NEW v \in Node, v \in Nbr[u],
                    IsColored(u)', IsColored(v)'
             PROVE  color'[u] # color'[v]
  BY ColoredIs DEF ProperColoring, Colored, IsColored
<1>1. IsColored(u) /\ IsColored(v) => color[u] # color[v]
  BY ColoredIs DEF ProperColoring
<1>2. CASE SetColor(r)
  <2>1. /\ node[r] \in Node
        /\ color' = [color EXCEPT ![node[r]] = color'[node[r]]]
        /\ color'[node[r]] \notin {color[n] : n \in Nbr[node[r]]}
    BY <1>2, SetColorStep DEF IsLeastFree
  <2>2. \A w \in Node : w # node[r] => color'[w] = color[w]
    BY <2>1 DEF TypePos, TypeOK
  <2>3. u # v /\ u \in Nbr[v]
    BY NbrFacts
  <2>4. /\ u # node[r] => IsColored(u)
        /\ v # node[r] => IsColored(v)
    BY <1>2, ColoredStep
  <2> QED BY <1>1, <2>1, <2>2, <2>3, <2>4
<1>3. CASE ~SetColor(r)
  BY <1>1, <1>3, ColorStep, ColoredStep
<1> QED BY <1>2, <1>3

-----------------------------------------------------------------------------
(* The theorems. *)

\* The initial state satisfies the inductive invariant.
LEMMA InvInit == Init => IInv
<1> SUFFICES ASSUME Init PROVE IInv
  OBVIOUS
<1>1. TypePos
  BY TypePosInit
<1>2. StatusInv
  BY SMT, ContiguousIds, ProcAssumption, DisjointPartitions
     DEF Init, StatusInv, Nil
<1>3. FlagInv /\ TurnInv /\ PetersonInv /\ SnapshotInv
  BY DEF Init, FlagInv, TurnInv, PetersonInv, SnapshotInv, Raised, Contends,
         Entered, Holds, ReadPC, LockPC
<1>4. ProperColoring
  <2>1. Colored = {}
    BY SMT DEF Init, Colored, Nil
  <2> QED BY <2>1 DEF ProperColoring
<1> QED BY <1>1, <1>2, <1>3, <1>4 DEF IInv, TypePos

\* A step that changes no variable but the monitoring server preserves it.
LEMMA InvStutter ==
  ASSUME IInv, UNCHANGED <<store, local, conn>>, monitor' \in [Proc -> {Nil, 1}]
  PROVE  IInv'
<1> USE DEF store, local
<1>1. TypeOK'
  BY DEF IInv, TypeOK
<1>2. PositionInv'
  <2> SUFFICES ASSUME NEW p \in Proc PROVE Position(p)'
    BY DEF PositionInv
  <2>1. Position(p)
    BY DEF IInv, PositionInv
  <2> QED BY <2>1 DEF Position
<1>3. StatusInv'
  BY DEF IInv, StatusInv
<1>4. FlagInv'
  BY DEF IInv, FlagInv, Raised, Holds
<1>5. TurnInv'
  BY DEF IInv, TurnInv, Contends, Holds
<1>6. PetersonInv'
  BY DEF IInv, PetersonInv, Entered, Contends, Holds
<1>7. SnapshotInv'
  BY DEF IInv, SnapshotInv, Settled
<1>8. ProperColoring'
  BY DEF IInv, ProperColoring, Colored
<1> QED BY <1>1, <1>2, <1>3, <1>4, <1>5, <1>6, <1>7, <1>8 DEF IInv

\* The inductive invariant is preserved by every step.
LEMMA InvStep ==
  ASSUME FiniteFacts, IInv, [Next]_vars
  PROVE  IInv'
<1>1. CASE UNCHANGED vars
  BY <1>1, InvStutter DEF vars, store, local, IInv, TypeOK
<1>2. ASSUME NEW r \in Proc, StepOf(r) PROVE IInv'
  <2>1. TypePos'
    BY TypePosStep, <1>2 DEF IInv, TypePos, StepOf, Next
  <2> QED
    BY <1>2, <2>1, StatusStep, FlagStep, TurnStep, PetersonStep, SnapshotStep,
       ProperStep DEF IInv, TypePos
<1> QED BY <1>1, <1>2 DEF Next, StepOf, Terminated

\* No step writes the colour of a marked node.
LEMMA FinalStep ==
  IInv /\ [Next]_vars =>
     [\A u \in Node : status[u] = 1 =>
         color'[u] = color[u] /\ status'[u] = 1]_vars
<1> SUFFICES ASSUME IInv, [Next]_vars, ~UNCHANGED vars,
                    NEW u \in Node, status[u] = 1
             PROVE  color'[u] = color[u] /\ status'[u] = 1
  OBVIOUS
<1>1. PICK r \in Proc : StepOf(r)
  BY DEF Next, Terminated, StepOf
<1>2. status'[u] = 1
  BY <1>1, MarkStep DEF IInv, TypePos, TypeOK
<1>3. color'[u] = color[u]
  <2>1. CASE SetColor(r)
    <3>1. u # node[r] /\ node[r] \in Node
      BY <2>1, BusyUnmarked DEF SetColor, At, ReadPC, IInv, TypePos
    <3> QED BY <2>1, <3>1 DEF SetColor, IInv, TypeOK
  <2>2. CASE color' = color
    BY <2>2
  <2> QED BY <1>1, <2>1, <2>2, ColorStep
<1> QED BY <1>2, <1>3

\* SetColor is a step of the greedy colouring, every other command is a stutter.
LEMMA GreedyStep == IInv /\ [Next]_vars => [Greedy!GNext]_<<color, Colored>>
<1> SUFFICES ASSUME IInv, [Next]_vars
             PROVE  Greedy!GNext \/ (color' = color /\ Colored' = Colored)
  OBVIOUS
<1>1. CASE UNCHANGED vars
  BY <1>1 DEF vars, Colored
<1>2. ASSUME NEW r \in Proc, StepOf(r), ~SetColor(r)
      PROVE  color' = color /\ Colored' = Colored
  <2>1. color' = color
    BY <1>2, ColorStep
  <2>2. \A u \in Node : IsColored(u)' <=> IsColored(u)
    BY <1>2, ColoredStep DEF IInv, TypePos
  <2> QED BY <2>1, <2>2 DEF Colored, IsColored
<1>3. ASSUME NEW r \in Proc, SetColor(r) PROVE Greedy!GNext
  <2>1. StepOf(r)
    BY <1>3 DEF StepOf, Step
  <2>2. node[r] \in Node /\ node[r] \notin Colored
    BY <1>3, <2>1, SetColorStep, ColoredStep, ColoredIs DEF IInv, TypePos
  <2>3. Colored' = Colored \cup {node[r]}
    <3>1. \A u \in Node : IsColored(u)' <=> IsColored(u) \/ u = node[r]
      BY <1>3, <2>1, ColoredStep DEF IInv, TypePos
    <3> QED BY SMT, <2>2, <3>1 DEF Colored, IsColored
  <2>4. /\ color' = [color EXCEPT ![node[r]] = color'[node[r]]]
        /\ Greedy!LeastFree(color'[node[r]], {color[v] : v \in Nbr[node[r]]})
    BY <1>3, SetColorStep DEF IInv, TypePos, IsLeastFree, Greedy!LeastFree
  <2> QED BY <2>2, <2>3, <2>4 DEF Greedy!GNext, Greedy!ColorNode
<1> QED BY <1>1, <1>2, <1>3 DEF Next, Terminated, StepOf

-----------------------------------------------------------------------------
(* The end of a run. *)

\* Only set_flag of acquire_lock raises a flag.
LEMMA RaiseStep ==
  ASSUME TypePos, NEW r \in Proc, StepOf(r),
         NEW u \in Node, NEW v \in Nbr[u], flag'[FlagKey(u, v)] = 1
  PROVE  flag[FlagKey(u, v)] = 1 \/ (SetFlag(r) /\ u = node[r] /\ v = nbr[r])
<1>1. FlagKey(u, v) \in FlagKeys /\ u \in Nat /\ v \in Nat /\ flag \in [FlagKeys -> {Nil, 0, 1}]
  BY KeysExist, NbrFacts DEF TypePos, TypeOK
<1>2. CASE SetFlag(r)
  <2>1. pc[r] \in WorkPC /\ pc[r] \in ReadPC \ {"pick"}
    BY <1>2 DEF SetFlag, At, WorkPC, ReadPC, LockPC
  <2>2. node[r] \in Nat /\ nbr[r] \in Nat
    BY <2>1, PositionFacts, NbrFacts
  <2>3. CASE FlagKey(node[r], nbr[r]) = FlagKey(u, v)
    BY SMT, <1>1, <1>2, <2>2, <2>3, KeysDiffer
  <2>4. CASE FlagKey(node[r], nbr[r]) # FlagKey(u, v)
    BY <1>1, <1>2, <2>4 DEF SetFlag
  <2> QED BY <2>3, <2>4
<1>3. CASE ReleaseLock(r)
  <2>1. flag' = flag \/ \E k : flag' = [flag EXCEPT ![k] = 0]
    BY <1>3 DEF ReleaseLock, ReleaseGarbage
  <2> QED BY SMT, <1>1, <2>1
<1>4. CASE ~SetFlag(r) /\ ~ReleaseLock(r)
  <2>1. flag' = flag
    BY <1>4 DEF StepOf, Step, store,
         Start, ProcessNode, PickNeighbour, GetStatus, SetTurn, GetFlag,
         GetTurn, WaitTurn, WaitFlag, GetColor, SetColor,
         SetStatus, NextNode, Report, Fail, ReportAfterLoss
  <2> QED BY <2>1
<1> QED BY <1>2, <1>3, <1>4

\* A client that has a lock keeps its place in the protocol, or lowers its flag.
LEMMA InLockStep ==
  ASSUME TypePos, NEW r \in Proc, StepOf(r), NEW v \in Node, InLock(r, v)
  PROVE  /\ node'[r] = node[r]
         /\ InLock(r, v)' \/ flag'[FlagKey(node[r], v)] # 1
<1> USE DEF TypePos, TypeOK, InLock, Raised, Holds, At, Goto, ReadPC, LockPC
<1>1. CASE Start(r)
  BY <1>1 DEF Start
<1>2. CASE ProcessNode(r)
  BY <1>2 DEF ProcessNode
<1>3. CASE PickNeighbour(r)
  BY SMT, <1>3 DEF PickNeighbour
<1>4. CASE GetStatus(r)
  BY <1>4 DEF GetStatus
<1>5. CASE SetFlag(r)
  BY <1>5 DEF SetFlag
<1>6. CASE SetTurn(r)
  BY <1>6 DEF SetTurn
<1>7. CASE GetFlag(r)
  BY <1>7 DEF GetFlag
<1>8. CASE GetTurn(r)
  BY SMT, <1>8 DEF GetTurn, LoopOrEnter
<1>9. CASE WaitTurn(r)
  BY <1>9 DEF WaitTurn
<1>10. CASE WaitFlag(r)
  BY SMT, <1>10 DEF WaitFlag, LoopOrEnter
<1>11. CASE GetColor(r)
  BY <1>11 DEF GetColor
<1>12. CASE SetColor(r)
  <2>1. /\ pc[r] = "pick" /\ pc' = [pc EXCEPT ![r] = "setStatus"]
        /\ node' = node /\ locks' = locks
    BY <1>12 DEF SetColor
  <2> QED BY <2>1
<1>13. CASE SetStatus(r)
  <2>1. v \in locks[r] /\ node' = node /\ locks' = locks
        /\ todo' = [todo EXCEPT ![r] = Nbr[node[r]]] /\ pc' = [pc EXCEPT ![r] = "release"]
    BY <1>13 DEF SetStatus
  <2>2. v \in Nbr[node[r]]
    BY <1>13, <2>1 DEF SetStatus, PositionInv, Position, WorkPC
  <2> QED BY <2>1, <2>2
<1>14. CASE ReleaseLock(r)
  <2>1. pc[r] = "release" /\ v \in locks[r] /\ v \in todo[r]
        /\ pc' = pc /\ node' = node /\ locks' = locks
    BY <1>14 DEF ReleaseLock
  <2>2. PICK n \in todo[r] : /\ todo' = [todo EXCEPT ![r] = @ \ {n}]
                             /\ n \in locks[r] => flag' = [flag EXCEPT ![FlagKey(node[r], n)] = 0]
    BY <1>14 DEF ReleaseLock
  <2>3. CASE n = v
    <3>1. node[r] \in Node /\ v \in Nbr[node[r]]
      BY <2>1, PositionFacts DEF PositionInv, Position, WorkPC
    <3>2. FlagKey(node[r], v) \in FlagKeys
      BY <3>1, KeysExist
    <3>3. flag'[FlagKey(node[r], v)] # 1
      BY SMT, <2>1, <2>2, <2>3, <3>2
    <3> QED BY <2>1, <3>3
  <2>4. CASE n # v
    BY <2>1, <2>2, <2>4
  <2> QED BY <2>3, <2>4
<1>15. CASE NextNode(r)
  BY <1>15 DEF NextNode
<1>16. CASE Report(r)
  BY <1>16 DEF Report
<1>17. CASE Fail(r)
  BY <1>17 DEF Fail, local
<1>18. CASE ReportAfterLoss(r)
  BY <1>18 DEF ReportAfterLoss, local
<1> QED
  BY <1>1, <1>2, <1>3, <1>4, <1>5, <1>6, <1>7, <1>8, <1>9, <1>10, <1>11,
       <1>12, <1>13, <1>14, <1>15, <1>16, <1>17, <1>18 DEF StepOf, Step

\* FlagsOwned is preserved.
LEMMA OwnedStep ==
  ASSUME TypePos, FlagsOwned, NEW r \in Proc, StepOf(r)
  PROVE  FlagsOwned'
<1> SUFFICES ASSUME NEW p \in Proc, NEW u \in First[p] .. Last[p], NEW v \in Nbr[u],
                    flag'[FlagKey(u, v)] = 1
             PROVE  node'[p] = u /\ InLock(p, v)'
  BY DEF FlagsOwned, FlagKey
<1>1. u \in Node /\ v \in Node
  <2>1. u \in Node
    BY OwnNode
  <2> QED BY <2>1, NbrFacts
<1>2. CASE SetFlag(r) /\ u = node[r] /\ v = nbr[r]
  <2>1. pc[r] \in WorkPC
    BY <1>2 DEF SetFlag, At, WorkPC, ReadPC, LockPC
  <2>2. p = r
    <3>1. First[r] <= u /\ u <= Last[r] /\ u \in First[p] .. Last[p]
      BY <1>2, <2>1, PositionFacts
    <3>2. \A q \in Proc : First[q] \in Nat /\ Last[q] \in Nat
      BY ProcAssumption
    <3> HIDE DEF FlagKey
    <3> QED BY SMT, <3>1, <3>2, DisjointPartitions
  <2> QED
    BY <1>2, <2>2 DEF SetFlag, Goto, InLock, Raised, LockPC, TypePos, TypeOK
<1>3. CASE flag[FlagKey(u, v)] = 1
  <2>1. node[p] = u /\ InLock(p, v)
    BY <1>3 DEF FlagsOwned
  <2>2. CASE p = r
    BY <1>1, <2>1, <2>2, InLockStep
  <2>3. CASE p # r
    <3>1. Same(p)
      BY <2>3, OthersSame DEF TypePos
    <3> QED BY <2>1, <3>1 DEF Same, InLock, Raised, Holds
  <2> QED BY <2>2, <2>3
<1> QED BY <1>1, <1>2, <1>3, RaiseStep

\* Without failures a client reports, once, at the end of main.
LEMMA ReportStep ==
  ASSUME FiniteFacts, TypePos, MayFail = {}, NEW r \in Proc, StepOf(r), \A p \in Proc : conn[p]
  PROVE  /\ conn' = conn /\ pc[r] # "done"
         /\ monitor' = monitor \/ (monitor' = [monitor EXCEPT ![r] = 1] /\ pc'[r] = "done")
         /\ pc'[r] = "done" => cur'[r] > Last[r]
<1> USE DEF TypePos, TypeOK, At, Goto
<1>1. CASE Start(r)
  BY <1>1 DEF Start
<1>2. CASE ProcessNode(r)
  <2>1. cur[r] < Cardinality(Node)
    <3>1. cur[r] \in Nat /\ cur[r] <= Last[r] /\ Last[r] < N /\ Last[r] \in Nat /\ N \in Nat
      BY <1>2, ProcAssumption, DisjointPartitions, ContiguousIds DEF ProcessNode
    <3> QED BY SMT, <3>1 DEF FiniteFacts
  <2> QED BY <1>2, <2>1 DEF ProcessNode
<1>3. CASE PickNeighbour(r)
  BY <1>3 DEF PickNeighbour
<1>4. CASE GetStatus(r)
  BY <1>4 DEF GetStatus
<1>5. CASE SetFlag(r)
  BY <1>5 DEF SetFlag
<1>6. CASE SetTurn(r)
  BY <1>6 DEF SetTurn
<1>7. CASE GetFlag(r)
  BY <1>7 DEF GetFlag
<1>8. CASE GetTurn(r)
  BY <1>8 DEF GetTurn, LoopOrEnter
<1>9. CASE WaitTurn(r)
  BY <1>9 DEF WaitTurn
<1>10. CASE WaitFlag(r)
  BY <1>10 DEF WaitFlag, LoopOrEnter
<1>11. CASE GetColor(r)
  BY <1>11 DEF GetColor
<1>12. CASE SetColor(r)
  BY <1>12 DEF SetColor
<1>13. CASE SetStatus(r)
  BY <1>13 DEF SetStatus
<1>14. CASE ReleaseLock(r)
  BY <1>14 DEF ReleaseLock
<1>15. CASE NextNode(r)
  BY <1>15 DEF NextNode
<1>16. CASE Report(r)
  BY <1>16 DEF Report
<1>17. ~Fail(r) /\ ~ReportAfterLoss(r)
  BY DEF Fail, ReportAfterLoss
<1> QED
  BY <1>1, <1>2, <1>3, <1>4, <1>5, <1>6, <1>7, <1>8, <1>9, <1>10, <1>11,
       <1>12, <1>13, <1>14, <1>15, <1>16, <1>17 DEF StepOf, Step

\* The script and the clients keep WatchInv.
LEMMA WatchStep ==
  ASSUME FiniteFacts, MayFail = {}, WatchInv, [WatchNext]_watchVars
  PROVE  WatchInv'
<1>1. TypePos
  BY DEF WatchInv, IInv, TypePos
<1>2. ASSUME NEW r \in Proc, StepOf(r), UNCHANGED watch
      PROVE  WatchInv'
  <2>1. IInv'
    BY <1>2, InvStep DEF WatchInv, Next, StepOf
  <2>2. FlagsOwned'
    BY <1>1, <1>2, OwnedStep DEF WatchInv
  <2>3. /\ conn' = conn /\ pc[r] # "done"
        /\ monitor' = monitor \/ (monitor' = [monitor EXCEPT ![r] = 1] /\ pc'[r] = "done")
        /\ pc'[r] = "done" => cur'[r] > Last[r]
    BY <1>1, <1>2, ReportStep DEF WatchInv
  <2>4. watch # "closed" /\ monitor[r] = Nil
    BY <2>3 DEF WatchInv
  <2>5. ASSUME NEW p \in Proc
        PROVE  /\ conn'[p]
               /\ monitor'[p] # Nil \/ watch' = "closed" => pc'[p] = "done"
               /\ pc'[p] = "done" => cur'[p] > Last[p]
    <3>1. /\ conn[p]
          /\ monitor[p] # Nil => pc[p] = "done"
          /\ pc[p] = "done" => cur[p] > Last[p]
      BY DEF WatchInv
    <3>2. CASE p = r
      BY <1>2, <2>3, <2>4, <3>1, <3>2
    <3>3. CASE p # r
      <4>1. Same(p)
        BY <1>1, <1>2, <3>3, OthersSame DEF TypePos
      <4>2. monitor'[p] = monitor[p]
        BY <2>3, <3>3 DEF WatchInv, IInv, TypeOK
      <4> QED BY <1>2, <2>3, <2>4, <3>1, <4>1, <4>2 DEF Same
    <3> QED BY <3>2, <3>3
  <2> QED BY <2>1, <2>2, <2>5 DEF WatchInv
<1>3. ASSUME UNCHANGED <<store, local, conn>>, monitor' = monitor \/ monitor' = [p \in Proc |-> Nil],
             watch' = "closed" => watch = "closed" \/ \A p \in Proc : pc[p] = "done"
      PROVE  WatchInv'
  <2>1. monitor' \in [Proc -> {Nil, 1}]
    BY <1>3 DEF WatchInv, IInv, TypeOK
  <2>2. IInv'
    BY <1>3, <2>1, InvStutter DEF WatchInv
  <2>3. FlagsOwned'
    BY SMT, <1>3 DEF WatchInv, FlagsOwned, InLock, Raised, Holds, store, local
  <2>4. \A p \in Proc : monitor'[p] # Nil => monitor[p] # Nil
    BY <1>3
  <2>5. pc' = pc /\ cur' = cur /\ conn' = conn
    BY <1>3 DEF local
  <2> QED BY <1>3, <2>2, <2>3, <2>4, <2>5 DEF WatchInv
<1>4. CASE Flush
  BY <1>3, <1>4 DEF Flush
<1>5. CASE Close
  <2> DEFINE S == {p \in Proc : monitor[p] # Nil}
  <2>1. Cardinality(S) = Cardinality(Proc) /\ S \in SUBSET Proc
    BY <1>5 DEF Close, Completed
  <2>2. S = Proc
    BY <2>1 DEF FiniteFacts
  <2>3. \A p \in Proc : pc[p] = "done"
    BY <2>2 DEF WatchInv
  <2>4. UNCHANGED <<store, local, conn>> /\ monitor' = monitor
    BY <1>5 DEF Close, vars, store, local
  <2> QED BY <1>3, <2>3, <2>4
<1>6. CASE UNCHANGED vars /\ UNCHANGED watch
  BY <1>3, <1>6 DEF vars, store, local
<1> QED
  BY <1>2, <1>4, <1>5, <1>6 DEF WatchNext, Next, StepOf, Terminated, watchVars

\* WatchInv holds at the start.
LEMMA WatchStart == WatchInit => WatchInv
<1> SUFFICES ASSUME WatchInit PROVE WatchInv
  OBVIOUS
<1>1. Init /\ watch = "started" /\ IInv
  BY InvInit DEF WatchInit
<1>2. FlagsOwned
  <2> SUFFICES ASSUME NEW p \in Proc, NEW u \in First[p] .. Last[p], NEW v \in Nbr[u]
               PROVE  flag[FlagKey(u, v)] # 1
    BY DEF FlagsOwned
  <2>1. u \in Node
    BY OwnNode
  <2>2. FlagKey(u, v) \in FlagKeys
    BY <2>1, KeysExist
  <2>3. flag[FlagKey(u, v)] = Nil
    BY <1>1, <2>2 DEF Init
  <2> QED BY SMT, <2>3 DEF Nil
<1> QED BY <1>1, <1>2 DEF WatchInv, Init

\* When the servers are closed every client has ended, past its whole partition.
LEMMA ClosedFacts ==
  ASSUME Covered
  PROVE  WatchInv => ClosedIsColored
<1> SUFFICES ASSUME WatchInv, watch = "closed"
             PROVE  /\ \A p \in Proc : Ended(p)
                    /\ \A u \in Node : status[u] = 1 /\ u \in Colored
                    /\ \A u \in Node : \A v \in Nbr[u] : flag[FlagKey(u, v)] # 1
  BY DEF ClosedIsColored
<1>1. \A p \in Proc : pc[p] = "done" /\ cur[p] > Last[p]
  BY DEF WatchInv
<1>2. ASSUME NEW u \in Node
      PROVE  status[u] = 1 /\ u \in Colored /\ \A v \in Nbr[u] : flag[FlagKey(u, v)] # 1
  <2>1. PICK p \in Proc : u \in First[p] .. Last[p]
    BY DEF Covered
  <2>2. u < cur[p]
    <3>1. cur[p] \in Nat /\ Last[p] \in Nat /\ First[p] \in Nat
      BY ProcAssumption DEF WatchInv, IInv, TypeOK
    <3> QED BY SMT, <1>1, <2>1, <3>1
  <2>3. status[u] = 1
    BY <2>1, <2>2 DEF WatchInv, IInv, StatusInv
  <2>4. \A v : ~InLock(p, v)
    BY <1>1 DEF InLock, Raised, Holds, ReadPC, LockPC
  <2>5. \A v \in Nbr[u] : flag[FlagKey(u, v)] # 1
    BY <2>1, <2>4 DEF WatchInv, FlagsOwned
  <2> QED BY <2>3, <2>5 DEF Colored
<1> QED BY <1>1, <1>2 DEF Ended

-----------------------------------------------------------------------------
(* The theorems.  From here on the library's facts about finite sets are known. *)

INSTANCE FiniteSetTheorems

\* keys[i] is the node i when the ids are contiguous: i nodes are smaller.
LEMMA KeyIsId == \A i \in Node : Key(i) = i
<1>1. \A n \in Node : Cardinality({m \in Node : m < n}) = n
  <2> TAKE n \in Node
  <2>1. n \in Nat /\ {m \in Node : m < n} = 0 .. (n - 1)
    BY SMT, ContiguousIds
  <2>2. Cardinality(0 .. (n - 1)) = n
    BY SMT, <2>1, FS_Interval
  <2> QED BY <2>1, <2>2
<1> TAKE i \in Node
<1>2. \E n \in Node : Cardinality({m \in Node : m < n}) = i
  BY <1>1
<1> QED BY <1>1, <1>2 DEF Key

\* The hypothesis of the lemmas above.
LEMMA FiniteFactsHold == FiniteFacts
<1>1. Cardinality(Node) = N
  <2>1. Node = 0 .. (N - 1) /\ N \in Nat
    BY ContiguousIds
  <2>2. Cardinality(0 .. (N - 1)) = N
    BY SMT, <2>1, FS_Interval
  <2> QED BY <2>1, <2>2
<1>2. ASSUME NEW S \in SUBSET Proc, Cardinality(S) = Cardinality(Proc) PROVE S = Proc
  BY <1>2, ProcAssumption, FS_Subset
<1> QED BY <1>1, <1>2, KeyIsId DEF FiniteFacts

\* Every command finds a value of the right kind in every variable.
THEOREM TypeCorrect == Spec => []TypeOK
<1>1. TypePos /\ [Next]_vars => TypePos'
  BY FiniteFactsHold, TypePosStep
<1> QED BY <1>1, TypePosInit, PTL DEF Spec, TypePos

\* Every reachable state satisfies the inductive invariant.
THEOREM Invariance == Spec => []IInv
<1>1. IInv /\ [Next]_vars => IInv'
  BY FiniteFactsHold, InvStep
<1> QED BY <1>1, InvInit, PTL DEF Spec

\* acquire_lock excludes the two ends of an edge from each other.
THEOREM MutualExclusion == Spec => []EdgeMutex
<1>1. IInv => EdgeMutex
  BY MutexFromPeterson DEF IInv, TypePos
<1> QED BY <1>1, Invariance, PTL

\* The colours a client has read are current when it writes its own.
THEOREM ReadsStayCurrent == Spec => []ReadsAreCurrent
<1>1. IInv => ReadsAreCurrent
  BY DEF IInv, SnapshotInv, ReadsAreCurrent, ReadPC
<1> QED BY <1>1, Invariance, PTL

\* Adjacent coloured nodes have different colours, for every graph, every
\* partition into disjoint ranges and any failures of the clients.
THEOREM ColoringIsProper == Spec => []ProperColoring
<1>1. IInv => ProperColoring
  BY DEF IInv
<1> QED BY <1>1, Invariance, PTL

\* The least number that is not among the colours of a set of nodes is at
\* most the size of the set: the numbers below it are all used.
LEMMA LeastFreeBound ==
  ASSUME NEW S, IsFiniteSet(S), NEW g, NEW c \in Nat,
         \A d \in 0 .. (c - 1) : d \in {g[n] : n \in S}
  PROVE  c <= Cardinality(S)
<1> DEFINE T == {n \in S : g[n] \in 0 .. (c - 1)}
           h == [n \in T |-> g[n]]
<1>1. IsFiniteSet(T) /\ Cardinality(T) <= Cardinality(S)
  BY FS_Subset
<1>2. h \in Surjection(T, 0 .. (c - 1))
  BY DEF Surjection
<1>3. Cardinality(0 .. (c - 1)) <= Cardinality(T)
  BY <1>1, <1>2, FS_Surjection
<1>4. Cardinality(0 .. (c - 1)) = c
  BY SMT, FS_Interval
<1>5. Cardinality(S) \in Nat /\ Cardinality(T) \in Nat
  BY <1>1, FS_CardinalityType
<1> QED BY SMT, <1>1, <1>3, <1>4, <1>5

\* set_node_color stays within the degree bound.
LEMMA DegreeStep ==
  ASSUME IInv, DegreeBound, NEW r \in Proc, StepOf(r)
  PROVE  DegreeBound'
<1> SUFFICES ASSUME NEW u \in Node, IsColored(u)'
             PROVE  color'[u] <= Cardinality(Nbr[u])
  BY DEF DegreeBound, Colored, IsColored
<1>1. IsColored(u) => color[u] <= Cardinality(Nbr[u])
  BY ColoredIs DEF DegreeBound
<1>2. CASE SetColor(r) /\ u = node[r]
  <2>1. IsFiniteSet(Nbr[u])
    BY GraphAssumption, FS_Subset
  <2>2. PICK c \in Color :
           /\ IsLeastFree(c, {seen[r][n] : n \in Nbr[node[r]]})
           /\ color' = [color EXCEPT ![node[r]] = c]
    BY <1>2 DEF SetColor
  <2>3. c \in Nat /\ color'[u] = c
    BY SMT, <1>2, <2>2 DEF Color, IInv, TypeOK
  <2>4. \A d \in 0 .. (c - 1) : d \in {seen[r][n] : n \in Nbr[u]}
    BY <1>2, <2>2 DEF IsLeastFree
  <2> QED BY <2>1, <2>3, <2>4, LeastFreeBound
<1>3. CASE ~(SetColor(r) /\ u = node[r])
  <2>1. color'[u] = color[u]
    BY <1>3, ColorStep DEF SetColor, IInv, TypeOK
  <2>2. IsColored(u)
    BY <1>3, ColoredStep DEF IInv, TypePos
  <2> QED BY <1>1, <2>1, <2>2
<1> QED BY <1>2, <1>3

\* No node gets a colour greater than the number of its neighbours.
THEOREM ColorsAreBounded == Spec => []DegreeBound
<1>1. Init => DegreeBound
  BY SMT DEF Init, DegreeBound, Colored, Nil
<1>2. IInv /\ DegreeBound /\ [Next]_vars => DegreeBound'
  <2> SUFFICES ASSUME IInv, DegreeBound, [Next]_vars PROVE DegreeBound'
    OBVIOUS
  <2>1. CASE UNCHANGED vars
    BY <2>1 DEF vars, DegreeBound, Colored
  <2> QED BY <2>1, DegreeStep DEF Next, Terminated, StepOf
<1> QED BY <1>1, <1>2, Invariance, PTL DEF Spec

\* The colour of a marked node is never written again.
THEOREM ColorsAreFinal == Spec => ColorIsFinal
BY FinalStep, Invariance, PTL DEF Spec, ColorIsFinal

\* The clients implement the sequential greedy colouring: SetColor is its
\* step, and every other command is a stutter.
THEOREM ImplementsGreedy == Spec => RefinesGreedy
<1>1. Init => Greedy!GInit
  BY SMT DEF Init, Greedy!GInit, Colored, Nil
<1> QED BY <1>1, GreedyStep, Invariance, PTL DEF Spec, RefinesGreedy, Greedy!GSpec

\* Without failures, and with every node in a partition, the script closes the
\* servers when the whole graph is coloured and marked, the clients have ended and no
\* flag of a lock is up.
THEOREM ClosedMeansColored ==
  ASSUME MayFail = {}, Covered
  PROVE  WatchSpec => []ClosedIsColored
<1>1. WatchInv /\ [WatchNext]_watchVars => WatchInv'
  BY FiniteFactsHold, WatchStep
<1> QED BY <1>1, WatchStart, ClosedFacts, PTL DEF WatchSpec
=============================================================================
