--------------------------- MODULE AddGraphProofs ---------------------------
(***************************************************************************)
(* Proofs about AddGraph, for every graph file and any number of loads.    *)
(***************************************************************************)
EXTENDS AddGraph, TLAPS

\* Zenon proves the leaves that name no other prover.
USE ZenonT(20)

\* The lines of a file are its first line and the lines after it.
LEMMA FirstLine ==
    ASSUME NEW S, NEW f \in Seq(S), f # <<>>
    PROVE  /\ Head(f) \in S /\ Tail(f) \in Seq(S)
           /\ Lines(f) = {Head(f)} \cup Lines(Tail(f))
<1>1. Head(f) = f[1] /\ Head(f) \in S /\ Tail(f) \in Seq(S) /\ Len(f) \in Nat \ {0}
  BY SMT
<1>2. DOMAIN f = 1 .. Len(f) /\ DOMAIN Tail(f) = 1 .. (Len(f) - 1)
  BY SMT, <1>1
<1>3. \A i \in DOMAIN Tail(f) : Tail(f)[i] = f[i + 1]
  BY SMT, <1>1
<1>4. Lines(f) \subseteq {Head(f)} \cup Lines(Tail(f))
  <2> SUFFICES ASSUME NEW i \in DOMAIN f, i # 1
               PROVE  f[i] \in Lines(Tail(f))
    BY <1>1 DEF Lines
  <2>1. i - 1 \in DOMAIN Tail(f) /\ (i - 1) + 1 = i
    BY SMT, <1>1, <1>2
  <2> QED
    BY <2>1, <1>3 DEF Lines
<1>5. {Head(f)} \cup Lines(Tail(f)) \subseteq Lines(f)
  <2>1. 1 \in DOMAIN f
    BY SMT, <1>1, <1>2
  <2>2. \A i \in DOMAIN Tail(f) : i + 1 \in DOMAIN f
    BY SMT, <1>1, <1>2
  <2> QED
    BY SMT, <1>1, <1>3, <2>1, <2>2 DEF Lines
<1> QED
  BY <1>1, <1>4, <1>5

\* Edges of a file are pairs of nodes.
LEMMA LinesAreEdges ==
    ASSUME NEW f \in Seq(Nodes \X Nodes)
    PROVE  Lines(f) \subseteq Nodes \X Nodes
  BY SMT DEF Lines

\* Creating sets changes no key of another type.
LEMMA CreatedKeepsOthers ==
    ASSUME NEW k \in [Nodes -> {"none", "set", "other"}], NEW N
    PROVE  /\ Created(k, N) \in [Nodes -> {"none", "set", "other"}]
           /\ \A n \in Nodes : Created(k, N)[n] = "other" <=> k[n] = "other"
           /\ \A n \in Nodes : k[n] = "set" => Created(k, N)[n] = "set"
           /\ \A n \in N \cap Nodes : k[n] # "other" => Created(k, N)[n] = "set"
  BY DEF Created

\* The new neighbours of a node are the old ones and the other end of the edge.
LEMMA LinkedAdds ==
    ASSUME NEW g \in [Nodes -> SUBSET Nodes], NEW e \in Nodes \X Nodes
    PROVE  /\ Linked(g, e) \in [Nodes -> SUBSET Nodes]
           /\ \A n, m \in Nodes : m \in Linked(g, e)[n] <=>
                 m \in g[n] \/ (n = e[1] /\ m = e[2]) \/ (n = e[2] /\ m = e[1])
  BY DEF Linked

-----------------------------------------------------------------------------
\* The types hold initially.
LEMMA TypesInitially == Init => TypeOK
  BY SMT, FileAssumption, ColorAssumption DEF Init, TypeOK, Servers, Commands

\* Creating sets on a server keeps what is under the other keys.
LEMMA KindStep ==
    ASSUME TypeOK, NEW s \in Servers, NEW N,
           kind' = [kind EXCEPT ![s] = Created(kind[s], N)]
    PROVE  /\ kind' \in [Servers -> [Nodes -> {"none", "set", "other"}]]
           /\ \A t \in Servers, n \in Nodes : kind'[t][n] = "other" <=> kind[t][n] = "other"
           /\ \A t \in Servers, n \in Nodes : kind[t][n] = "set" => kind'[t][n] = "set"
           /\ \A n \in N \cap Nodes : kind[s][n] # "other" => kind'[s][n] = "set"
<1> DEFINE K == Created(kind[s], N)
<1>1. kind \in [Servers -> [Nodes -> {"none", "set", "other"}]]
  BY DEF TypeOK
<1>2. kind[s] \in [Nodes -> {"none", "set", "other"}]
  BY <1>1
<1>3. /\ K \in [Nodes -> {"none", "set", "other"}]
      /\ \A n \in Nodes : K[n] = "other" <=> kind[s][n] = "other"
      /\ \A n \in Nodes : kind[s][n] = "set" => K[n] = "set"
      /\ \A n \in N \cap Nodes : kind[s][n] # "other" => K[n] = "set"
  BY <1>2, CreatedKeepsOthers
<1>4. kind' = [kind EXCEPT ![s] = K]
  OBVIOUS
<1> HIDE DEF K
<1>5. kind'[s] = K /\ \A t \in Servers : t # s => kind'[t] = kind[t]
  BY <1>1, <1>4
<1> QED
  BY <1>1, <1>3, <1>4, <1>5

\* AddEdge changes the sets of its server, at the ends of the edge only.
LEMMA NeighbourStep ==
    ASSUME TypeOK, NEW s \in Servers, NEW e \in Nodes \X Nodes, AddEdge(s, e)
    PROVE  /\ nbrs' \in [Servers -> [Nodes -> SUBSET Nodes]]
           /\ \A t \in Servers : t # s => nbrs'[t] = nbrs[t]
           /\ \A n, m \in Nodes : m \in nbrs'[s][n] <=>
                 m \in nbrs[s][n] \/ (n = e[1] /\ m = e[2]) \/ (n = e[2] /\ m = e[1])
<1> DEFINE G == Linked(nbrs[s], e)
<1>1. nbrs \in [Servers -> [Nodes -> SUBSET Nodes]]
  BY DEF TypeOK
<1>2. nbrs[s] \in [Nodes -> SUBSET Nodes]
  BY <1>1
<1>3. /\ G \in [Nodes -> SUBSET Nodes]
      /\ \A n, m \in Nodes : m \in G[n] <=>
            m \in nbrs[s][n] \/ (n = e[1] /\ m = e[2]) \/ (n = e[2] /\ m = e[1])
  BY SMT, <1>2, LinkedAdds
<1>4. nbrs' = [nbrs EXCEPT ![s] = G]
  BY DEF AddEdge
<1> HIDE DEF G
<1>5. nbrs'[s] = G /\ \A t \in Servers : t # s => nbrs'[t] = nbrs[t]
  BY <1>1, <1>4
<1> QED
  BY <1>1, <1>3, <1>4, <1>5

\* One line of add_graph keeps the types.
LEMMA LineTypes == TypeOK /\ (\E s \in Servers : Line(s)) => TypeOK'
<1> SUFFICES ASSUME TypeOK, NEW s \in Servers, NEW e \in Nodes \X Nodes, ReadLine(s, e),
                    AddTwice(s, e) \/ Skip(s, e) \/ AddEdge(s, e)
             PROVE  TypeOK'
  BY DEF Line
<1> e[1] \in Nodes /\ e[2] \in Nodes
  OBVIOUS
<1> USE DEF TypeOK
<1>1. rest[s] \in Seq(Nodes \X Nodes) /\ rest[s] # <<>>
  BY DEF ReadLine
<1>2. rest' \in [Servers -> Seq(Nodes \X Nodes)]
  BY <1>1, FirstLine DEF ReadLine
<1>3. /\ reading' = reading /\ stream' = stream /\ given' = given
      /\ reading[s] # Nil
      /\ \A t \in Servers : t # s => rest'[t] = rest[t]
  BY DEF ReadLine, Busy
<1>4. \A t \in Servers : reading'[t] = Nil => rest'[t] = <<>>
  BY <1>3
<1>5. kind[s] \in [Nodes -> {"none", "set", "other"}] /\ nbrs[s] \in [Nodes -> SUBSET Nodes]
  OBVIOUS
<1>6. CASE AddTwice(s, e)
  <2>1. kind' = [kind EXCEPT ![s] = Created(kind[s], {e[1]})]
    BY <1>6 DEF AddTwice
  <2>2. kind' \in [Servers -> [Nodes -> {"none", "set", "other"}]]
    BY <2>1, KindStep
  <2>3. \A t \in Servers, n \in Nodes : kind[t][n] = "set" => kind'[t][n] = "set"
    BY <2>1, KindStep
  <2>4. nbrs' = nbrs /\ color' = color /\ dirty' = dirty /\ aborted' \subseteq Servers
    BY <1>6 DEF AddTwice
  <2> QED
    BY <1>2, <1>3, <1>4, <2>2, <2>3, <2>4
<1>7. CASE Skip(s, e)
  <2>1. \/ kind' = kind
        \/ kind' = [kind EXCEPT ![s] = Created(kind[s], {e[1]})]
    BY <1>7 DEF Skip
  <2>2. kind' \in [Servers -> [Nodes -> {"none", "set", "other"}]]
    BY <2>1, KindStep
  <2>3. \A t \in Servers, n \in Nodes : kind[t][n] = "set" => kind'[t][n] = "set"
    BY <2>1, KindStep
  <2>4. nbrs' = nbrs /\ color' = color /\ dirty' = dirty /\ aborted' = aborted
    BY <1>7 DEF Skip
  <2> QED
    BY <1>2, <1>3, <1>4, <2>2, <2>3, <2>4
<1>8. CASE AddEdge(s, e)
  <2>1. /\ kind' = [kind EXCEPT ![s] = Created(kind[s], {e[1], e[2]})]
        /\ nbrs' = [nbrs EXCEPT ![s] = Linked(nbrs[s], e)]
        /\ aborted' = aborted
        /\ IsEdge(kind[s], e)
    BY <1>8 DEF AddEdge
  <2>2. /\ kind' \in [Servers -> [Nodes -> {"none", "set", "other"}]]
        /\ \A t \in Servers, n \in Nodes : kind[t][n] = "set" => kind'[t][n] = "set"
    BY <2>1, KindStep
  <2>3. kind'[s][e[1]] = "set" /\ kind'[s][e[2]] = "set"
    <3> DEFINE N == {e[1], e[2]}
    <3>1. kind' = [kind EXCEPT ![s] = Created(kind[s], N)]
      BY <2>1
    <3>2. e[1] \in N \cap Nodes /\ e[2] \in N \cap Nodes
      OBVIOUS
    <3> HIDE DEF N
    <3>3. \A n \in N \cap Nodes : kind[s][n] # "other" => kind'[s][n] = "set"
      BY <3>1, KindStep
    <3> QED
      BY <2>1, <3>2, <3>3 DEF IsEdge
  <2>4. nbrs' \in [Servers -> [Nodes -> SUBSET Nodes]]
    BY <1>8, NeighbourStep
  <2>5. ASSUME NEW t \in Servers, NEW n \in Nodes, nbrs'[t][n] # {}
        PROVE  kind'[t][n] = "set"
    <3>1. CASE t # s
      <4>1. nbrs'[t] = nbrs[t]
        BY <3>1, <2>1
      <4> QED
        BY <4>1, <2>2, <2>5
    <3>2. CASE t = s /\ n \in {e[1], e[2]}
      BY <3>2, <2>3
    <3>3. CASE t = s /\ n \notin {e[1], e[2]}
      <4>2. nbrs'[s] \in [Nodes -> SUBSET Nodes]
        BY <2>4
      <4>3. PICK m \in Nodes : m \in nbrs'[s][n]
        BY <2>5, <3>3, <4>2
      <4>4. m \in nbrs[s][n]
        BY <4>3, <3>3, <1>8, NeighbourStep
      <4> QED
        BY <4>4, <3>3, <2>2
    <3> QED
      BY <3>1, <3>2, <3>3
  <2>6. color' \in [Servers -> [Nodes -> Colors \cup {Nil}]]
    BY SMT, <1>8, ColorAssumption DEF AddEdge
  <2>7. dirty' \in [Servers -> BOOLEAN]
    BY <1>8 DEF AddEdge
  <2> QED
    BY <1>2, <1>3, <1>4, <2>1, <2>2, <2>4, <2>5, <2>6, <2>7
<1> QED
  BY <1>6, <1>7, <1>8

\* The types hold in every reachable state, for every set of files.
THEOREM TypeCorrect == Spec => []TypeOK
<1>1. ASSUME TypeOK, [Next]_vars
      PROVE  TypeOK'
  <2> USE DEF TypeOK
  <2> "master" \in Servers /\ "replica" \in Servers
    BY DEF Servers
  <2>1. CASE \E f \in Files : CallAddGraph(f)
    <3> PICK f \in Files : CallAddGraph(f)
      BY <2>1
    <3>1. f \in Seq(Nodes \X Nodes) /\ f # Nil
      BY FileAssumption
    <3> QED
      BY <1>1, <3>1 DEF CallAddGraph, Open, graph
  <2>2. CASE \E n \in Nodes, c \in Colors : SetColor(n, c)
    <3> PICK n \in Nodes, c \in Colors : SetColor(n, c)
      BY <2>2
    <3>1. [name |-> "set", arg |-> <<n, c>>] \in Commands
      BY DEF Commands
    <3>2. stream' \in Seq(Commands)
      BY SMT, <1>1, <3>1 DEF SetColor
    <3>3. color' \in [Servers -> [Nodes -> Colors \cup {Nil}]]
      BY <1>1 DEF SetColor
    <3> QED
      BY <1>1, <3>2, <3>3 DEF SetColor
  <2>3. CASE \E s \in Servers : Line(s)
    BY <1>1, <2>3, LineTypes
  <2>4. CASE \E s \in Servers : Finish(s)
    <3> PICK s \in Servers : Finish(s)
      BY <2>4
    <3>1. reading[s] # Nil /\ reading[s] \in Files
      BY <1>1 DEF Finish, Busy
    <3>2. [name |-> "add_graph", arg |-> reading[s]] \in Commands
      BY <3>1 DEF Commands
    <3>3. stream' \in Seq(Commands)
      <4> DEFINE c == [name |-> "add_graph", arg |-> reading[s]]
      <4>1. stream' = stream \/ stream' = Append(stream, c)
        BY DEF Finish
      <4>2. c \in Commands
        BY <3>2
      <4> HIDE DEF c
      <4>3. stream \in Seq(Commands)
        BY <1>1
      <4>4. Append(stream, c) \in Seq(Commands)
        BY SMT, <4>2, <4>3
      <4> QED
        BY <4>1, <4>3, <4>4
    <3>4. reading' \in [Servers -> Files \cup {Nil}]
      BY <1>1 DEF Finish
    <3>5. \A t \in Servers : reading'[t] = Nil => rest'[t] = <<>>
      BY <1>1 DEF Finish
    <3> QED
      BY <1>1, <3>3, <3>4, <3>5 DEF Finish, graph
  <2>5. CASE ReplicaAddGraph
    <3>1. Head(stream) \in Commands /\ Tail(stream) \in Seq(Commands)
      BY SMT, <1>1, <2>5 DEF ReplicaAddGraph
    <3>2. Head(stream).arg \in Files
      BY <3>1, <2>5 DEF ReplicaAddGraph, Commands
    <3>3. Head(stream).arg \in Seq(Nodes \X Nodes) /\ Head(stream).arg # Nil
      BY <3>2, FileAssumption
    <3> QED
      BY <1>1, <2>5, <3>1, <3>2, <3>3 DEF ReplicaAddGraph, Open, graph
  <2>6. CASE ReplicaSet
    <3>1. Head(stream) \in Commands /\ Tail(stream) \in Seq(Commands)
      BY SMT, <1>1, <2>6 DEF ReplicaSet
    <3>2. Head(stream).arg \in Nodes \X Colors
      BY <3>1, <2>6 DEF ReplicaSet, Commands
    <3>3. color' \in [Servers -> [Nodes -> Colors \cup {Nil}]]
      BY <1>1, <2>6, <3>2 DEF ReplicaSet
    <3> QED
      BY <1>1, <2>6, <3>1, <3>3 DEF ReplicaSet
  <2>7. CASE UNCHANGED vars
    BY <1>1, <2>7 DEF vars, graph
  <2> QED
    BY <1>1, <2>1, <2>2, <2>3, <2>4, <2>5, <2>6, <2>7 DEF Next
<1> QED
  BY <1>1, TypesInitially, PTL DEF Spec

-----------------------------------------------------------------------------
\* Only the lines that add an edge change the neighbour sets.
LEMMA OtherSteps ==
    ASSUME [Next]_vars
    PROVE  \/ nbrs' = nbrs
           \/ \E s \in Servers, e \in Nodes \X Nodes : ReadLine(s, e) /\ AddEdge(s, e)
  BY DEF Next, CallAddGraph, SetColor, Line, AddTwice, Skip, Finish, ReplicaAddGraph, ReplicaSet,
         vars, graph

\* addGraphCommand keeps the neighbour sets symmetric on every server, for every
\* graph file and any number of loads; GraphAssumption of the clients rests on it.
THEOREM NeighboursAreSymmetric == Spec => []Symmetric
<1>1. Init => Symmetric
  BY SMT DEF Init, Symmetric
<1>2. ASSUME TypeOK, Symmetric, [Next]_vars
      PROVE  Symmetric'
  <2>1. CASE nbrs' = nbrs
    BY <1>2, <2>1 DEF Symmetric
  <2>2. CASE \E s \in Servers, e \in Nodes \X Nodes : ReadLine(s, e) /\ AddEdge(s, e)
    <3> PICK s \in Servers, e \in Nodes \X Nodes : AddEdge(s, e)
      BY <2>2
    <3> SUFFICES ASSUME NEW t \in Servers, NEW n \in Nodes, NEW m \in Nodes
                 PROVE  m \in nbrs'[t][n] <=> n \in nbrs'[t][m]
      BY DEF Symmetric
    <3>1. m \in nbrs[t][n] <=> n \in nbrs[t][m]
      BY <1>2 DEF Symmetric
    <3>2. CASE t = s
      BY SMT, <1>2, <3>1, <3>2, NeighbourStep
    <3>3. CASE t # s
      BY <1>2, <3>1, <3>3, NeighbourStep
    <3> QED
      BY <3>2, <3>3
  <2> QED
    BY <1>2, <2>1, <2>2, OtherSteps
<1> QED
  BY <1>1, <1>2, TypeCorrect, PTL DEF Spec

-----------------------------------------------------------------------------
\* StoreInv holds initially.
LEMMA StoreInitially == Init => StoreInv
  BY SMT DEF Init, StoreInv, Servers

\* A line of a file on the master, whatever it does, keeps StoreInv.
LEMMA MasterLine ==
    ASSUME TypeOK, StoreInv, NEW e \in Nodes \X Nodes, ReadLine("master", e),
           AddTwice("master", e) \/ Skip("master", e) \/ AddEdge("master", e)
    PROVE  StoreInv'
<1> DEFINE M == "master"
           Edges == UNION {Lines(f) : f \in given}
           Old == Lines(rest[M])
           New == Lines(rest'[M])
<1>1. M \in Servers /\ rest[M] \in Seq(Nodes \X Nodes) /\ rest[M] # <<>>
  BY DEF TypeOK, Servers, ReadLine
<1>2. e = Head(rest[M]) /\ rest'[M] = Tail(rest[M])
  BY <1>1 DEF TypeOK, ReadLine
<1>3. Old = {e} \cup New
  BY <1>1, <1>2, FirstLine
<1>4. reading' = reading /\ given' = given /\ reading[M] # Nil
  BY DEF ReadLine, Busy
<1>5. e \in Edges
  <2>1. Old \subseteq Lines(reading[M]) /\ reading[M] \in given
    BY <1>4 DEF StoreInv
  <2> QED
    BY <2>1, <1>3
<1>6. Edges \subseteq Nodes \X Nodes
  <2>1. given \subseteq Seq(Nodes \X Nodes)
    BY FileAssumption DEF TypeOK
  <2>2. \A f \in given : Lines(f) \subseteq Nodes \X Nodes
    BY <2>1, LinesAreEdges
  <2> QED
    BY <2>2
<1>7. \A n \in Nodes : kind'[M][n] = "other" <=> kind[M][n] = "other"
  <2>1. CASE AddTwice(M, e)
    <3>1. kind' = [kind EXCEPT ![M] = Created(kind[M], {e[1]})]
      BY <2>1 DEF AddTwice
    <3> QED
      BY <1>1, <3>1, KindStep
  <2>2. CASE Skip(M, e)
    <3>1. kind' = kind \/ kind' = [kind EXCEPT ![M] = Created(kind[M], {e[1]})]
      BY <2>2 DEF Skip, TypeOK
    <3> QED
      BY <1>1, <3>1, KindStep
  <2>3. CASE AddEdge(M, e)
    <3>1. kind' = [kind EXCEPT ![M] = Created(kind[M], {e[1], e[2]})]
      BY <2>3 DEF AddEdge
    <3> QED
      BY <1>1, <3>1, KindStep
  <2> QED
    BY <2>1, <2>2, <2>3
<1>8. \A d \in Nodes \X Nodes : IsEdge(kind'[M], d) <=> IsEdge(kind[M], d)
  BY <1>7 DEF IsEdge
<1>9. /\ \A n, m \in Nodes : m \in nbrs[M][n] =>
             IsEdge(kind[M], <<n, m>>) /\ (<<n, m>> \in Edges \/ <<m, n>> \in Edges)
      /\ M \notin aborted => \A d \in Edges : IsEdge(kind[M], d) =>
             (d[2] \in nbrs[M][d[1]] /\ d[1] \in nbrs[M][d[2]]) \/ d \in Old
  BY DEF StoreInv
<1>10. \A n, m \in Nodes : m \in nbrs[M][n] => m \in nbrs'[M][n]
  <2>1. CASE AddTwice(M, e) \/ Skip(M, e)
    BY <2>1 DEF AddTwice, Skip
  <2>2. CASE AddEdge(M, e)
    BY <1>1, <2>2, NeighbourStep
  <2> QED
    BY <2>1, <2>2
<1>11. ASSUME NEW n \in Nodes, NEW m \in Nodes, m \in nbrs'[M][n]
       PROVE  IsEdge(kind'[M], <<n, m>>) /\ (<<n, m>> \in Edges \/ <<m, n>> \in Edges)
  <2>1. CASE m \in nbrs[M][n]
    BY <2>1, <1>8, <1>9
  <2>2. CASE m \notin nbrs[M][n]
    <3>1. AddEdge(M, e)
      BY <2>2, <1>11 DEF AddTwice, Skip
    <3>2. (n = e[1] /\ m = e[2]) \/ (n = e[2] /\ m = e[1])
      BY SMT, <1>1, <1>11, <2>2, <3>1, NeighbourStep
    <3>3. <<n, m>> = e \/ <<m, n>> = e
      BY SMT, <3>2
    <3>4. IsEdge(kind[M], <<n, m>>)
      BY <3>1, <3>2 DEF AddEdge, IsEdge
    <3> QED
      BY <3>3, <3>4, <1>5, <1>8
  <2> QED
    BY <2>1, <2>2
<1>12. ASSUME M \notin aborted', NEW d \in Edges, IsEdge(kind'[M], d)
       PROVE  (d[2] \in nbrs'[M][d[1]] /\ d[1] \in nbrs'[M][d[2]]) \/ d \in New
  <2>1. d \in Nodes \X Nodes /\ d[1] \in Nodes /\ d[2] \in Nodes
    BY <1>6
  <2>2. IsEdge(kind[M], d)
    BY <1>8, <1>12, <2>1
  <2>3. M \notin aborted
    BY DEF ReadLine, Busy
  <2>4. CASE d # e
    BY <2>1, <2>2, <2>3, <2>4, <1>3, <1>9, <1>10
  <2>5. CASE d = e
    <3>1. AddEdge(M, e)
      BY <2>2, <2>5, <1>12 DEF AddTwice, Skip
    <3> QED
      BY <1>1, <2>1, <2>5, <3>1, NeighbourStep
  <2> QED
    BY <2>4, <2>5
<1>13. reading'[M] # Nil => New \subseteq Lines(reading'[M])
  BY <1>3, <1>4 DEF StoreInv
<1>14. reading'[M] # Nil => reading'[M] \in given'
  BY <1>4 DEF StoreInv
<1> QED
  BY <1>4, <1>11, <1>12, <1>13, <1>14 DEF StoreInv

\* Every step keeps StoreInv.
LEMMA StoreStep ==
    ASSUME TypeOK, StoreInv, [Next]_vars
    PROVE  StoreInv'
<1> DEFINE M == "master"
           Edges == UNION {Lines(f) : f \in given}
<1> "master" \in Servers /\ "replica" \in Servers
  BY DEF Servers
<1>1. CASE \E f \in Files : CallAddGraph(f)
  <2> PICK f \in Files : CallAddGraph(f)
    BY <1>1
  <2>1. reading'[M] = f /\ rest'[M] = f /\ given' = given \cup {f}
    BY DEF CallAddGraph, Open, TypeOK
  <2>2. nbrs' = nbrs /\ kind' = kind /\ aborted' = aborted
    BY DEF CallAddGraph, graph
  <2>3. Free(M) /\ rest[M] = <<>> /\ Lines(rest[M]) = {}
    BY SMT DEF CallAddGraph, Free, TypeOK, Lines
  <2>4. UNION {Lines(g) : g \in given'} = Edges \cup Lines(f)
    BY <2>1
  <2>5. \A d \in Edges : IsEdge(kind[M], d) =>
           M \in aborted \/ (d[2] \in nbrs[M][d[1]] /\ d[1] \in nbrs[M][d[2]])
    BY <2>3 DEF StoreInv
  <2>6. \A n, m \in Nodes : m \in nbrs[M][n] =>
           IsEdge(kind[M], <<n, m>>) /\ (<<n, m>> \in Edges \/ <<m, n>> \in Edges)
    BY DEF StoreInv
  <2> QED
    BY <2>1, <2>2, <2>4, <2>5, <2>6 DEF StoreInv
<1>2. CASE Line(M)
  BY <1>2, MasterLine DEF Line
<1>3. CASE Finish(M)
  <2>1. rest'[M] = rest[M] /\ nbrs' = nbrs /\ kind' = kind /\ aborted' = aborted /\ given' = given
    BY <1>3 DEF Finish, graph
  <2>2. reading'[M] = Nil
    BY <1>3 DEF Finish, TypeOK
  <2> QED
    BY <2>1, <2>2 DEF StoreInv
<1>4. CASE Line("replica")
  <2> PICK e \in Nodes \X Nodes :
         /\ ReadLine("replica", e)
         /\ AddTwice("replica", e) \/ Skip("replica", e) \/ AddEdge("replica", e)
    BY <1>4 DEF Line
  <2>1. rest'[M] = rest[M] /\ reading' = reading /\ given' = given
    BY DEF ReadLine, TypeOK
  <2>2. kind'[M] = kind[M] /\ nbrs'[M] = nbrs[M] /\ (M \in aborted <=> M \in aborted')
    BY DEF AddTwice, Skip, AddEdge, TypeOK
  <2> QED
    BY <2>1, <2>2 DEF StoreInv
<1>5. CASE \/ \E n \in Nodes, c \in Colors : SetColor(n, c)
           \/ Finish("replica") \/ ReplicaAddGraph \/ ReplicaSet \/ UNCHANGED vars
  <2>1. /\ kind' = kind /\ nbrs' = nbrs /\ aborted' = aborted /\ given' = given
        /\ reading'[M] = reading[M] /\ rest'[M] = rest[M]
    BY <1>5 DEF SetColor, Finish, ReplicaAddGraph, Open, ReplicaSet, vars, graph, TypeOK
  <2> QED
    BY <2>1 DEF StoreInv
<1> QED
  BY <1>1, <1>2, <1>3, <1>4, <1>5 DEF Next, Servers

\* After a load the master holds exactly the edges of the files it was given, for
\* every file and any number of loads, but for those at a key of another type.
THEOREM FilesAreStored == Spec => []StoresTheFiles
<1>1. ASSUME TypeOK, StoreInv
      PROVE  StoresTheFiles
  <2> DEFINE M == "master"
             Edges == UNION {Lines(f) : f \in given}
  <2> SUFFICES ASSUME Free(M), NEW n \in Nodes, NEW m \in Nodes
               PROVE  m \in nbrs[M][n] <=>
                         IsEdge(kind[M], <<n, m>>) /\ (<<n, m>> \in Edges \/ <<m, n>> \in Edges)
    BY DEF StoresTheFiles
  <2>1. Lines(rest[M]) = {} /\ M \notin aborted
    BY SMT, <1>1 DEF Free, TypeOK, Lines, Servers
  <2>2. IsEdge(kind[M], <<n, m>>) <=> IsEdge(kind[M], <<m, n>>)
    BY DEF IsEdge
  <2>3. \A d \in Edges : IsEdge(kind[M], d) => d[2] \in nbrs[M][d[1]] /\ d[1] \in nbrs[M][d[2]]
    BY <1>1, <2>1 DEF StoreInv
  <2>4. m \in nbrs[M][n] =>
           IsEdge(kind[M], <<n, m>>) /\ (<<n, m>> \in Edges \/ <<m, n>> \in Edges)
    BY <1>1 DEF StoreInv
  <2> QED
    BY <2>2, <2>3, <2>4
<1> QED
  BY <1>1, StoreInitially, StoreStep, TypeCorrect, PTL DEF Spec

-----------------------------------------------------------------------------
(* The master and its replica. *)

\* The other types stay under their keys.
OthersKept == \A s \in Servers, n \in Nodes : kind'[s][n] = "other" <=> kind[s][n] = "other"

\* What is touched depends on the keys of another type only.
LEMMA TouchedSame ==
    ASSUME NEW k, NEW l, \A n \in Nodes : k[n] = "other" <=> l[n] = "other",
           NEW f \in Seq(Nodes \X Nodes)
    PROVE  /\ Touched(k, f) = Touched(l, f)
           /\ \A e \in Nodes \X Nodes : IsEdge(k, e) <=> IsEdge(l, e)
<1>1. \A e \in Nodes \X Nodes : IsEdge(k, e) <=> IsEdge(l, e)
  BY DEF IsEdge
<1>2. Lines(f) \subseteq Nodes \X Nodes
  BY LinesAreEdges
<1> QED
  BY <1>1, <1>2 DEF Touched

\* The nodes that a file touches are those of its first line, if this is not skipped,
\* and those of the lines after it.
LEMMA TouchedLine ==
    ASSUME NEW k, NEW f \in Seq(Nodes \X Nodes), f # <<>>
    PROVE  /\ \A n \in Nodes : n \in Touched(k, f) <=>
                 \/ IsEdge(k, Head(f)) /\ n \in {Head(f)[1], Head(f)[2]}
                 \/ n \in Touched(k, Tail(f))
           /\ Touched(k, Tail(f)) \subseteq Touched(k, f)
<1>1. Lines(f) = {Head(f)} \cup Lines(Tail(f))
  BY FirstLine
<1> QED
  BY <1>1 DEF Touched

\* No file touches no node.
LEMMA TouchedNothing ==
    ASSUME NEW k
    PROVE  Touched(k, <<>>) = {} /\ Lines(<<>>) = {}
  BY SMT DEF Touched, Lines

\* Who is touched is a node of an edge of the file.
LEMMA TouchedEnds ==
    ASSUME NEW k, NEW f
    PROVE  /\ \A e \in Lines(f) : IsEdge(k, e) => \A n \in Nodes : n \in {e[1], e[2]} => n \in Touched(k, f)
           /\ \A n \in Touched(k, f) : n \in Nodes /\ \E e \in Lines(f) : IsEdge(k, e) /\ n \in {e[1], e[2]}
  BY DEF Touched

\* Commands of the stream.
LEMMA CommandTypes ==
    ASSUME NEW c \in Commands
    PROVE  /\ c.name \in {"add_graph", "set"}
           /\ c.name = "add_graph" => c.arg \in Files /\ c.arg \in Seq(Nodes \X Nodes) /\ c.arg # Nil
           /\ c.name = "set" => c.arg[1] \in Nodes /\ c.arg[2] \in Colors
<1>1. \/ c.name = "add_graph" /\ c.arg \in Files
      \/ c.name = "set" /\ c.arg \in Nodes \X Colors
  BY DEF Commands
<1> QED
  BY <1>1, FileAssumption

\* No step changes a key of another type.
LEMMA OthersStep ==
    ASSUME TypeOK, [Next]_vars
    PROVE  OthersKept
<1>1. CASE kind' = kind
  BY <1>1 DEF OthersKept
<1>2. ASSUME NEW s \in Servers, NEW e \in Nodes \X Nodes, AddTwice(s, e) \/ Skip(s, e) \/ AddEdge(s, e)
      PROVE  OthersKept
  <2>1. \/ kind' = kind
        \/ kind' = [kind EXCEPT ![s] = Created(kind[s], {e[1]})]
        \/ kind' = [kind EXCEPT ![s] = Created(kind[s], {e[1], e[2]})]
    BY <1>2 DEF AddTwice, Skip, AddEdge, TypeOK
  <2> QED
    BY <1>1, <2>1, KindStep DEF OthersKept
<1> QED
  BY <1>1, <1>2 DEF Next, CallAddGraph, SetColor, Line, Finish, ReplicaAddGraph, ReplicaSet, vars, graph

\* What happens under the keys of another type stays the same after a step.
LEMMA TouchedKept ==
    ASSUME OthersKept, NEW s \in Servers
    PROVE  /\ \A f \in Seq(Nodes \X Nodes) : Touched(kind'[s], f) = Touched(kind[s], f)
           /\ \A e \in Nodes \X Nodes : IsEdge(kind'[s], e) <=> IsEdge(kind[s], e)
<1>1. \A n \in Nodes : kind'[s][n] = "other" <=> kind[s][n] = "other"
  BY DEF OthersKept
<1>2. \A e \in Nodes \X Nodes : IsEdge(kind'[s], e) <=> IsEdge(kind[s], e)
  BY <1>1 DEF IsEdge
<1> QED
  BY <1>1, <1>2, TouchedSame

-----------------------------------------------------------------------------
\* An edge is pending when it is in a line the replica reads, or in a file of the stream.
LEMMA PendingIs ==
    \A e : e \in Pending <=> \/ e \in Lines(rest["replica"])
                             \/ \E i \in DOMAIN stream : stream[i].name = "add_graph" /\ e \in Lines(stream[i].arg)
  BY DEF Pending

\* A sequence without its head.
LEMMA PopIndex ==
    ASSUME NEW S, NEW q \in Seq(S), q # <<>>
    PROVE  /\ 1 \in DOMAIN q /\ Head(q) = q[1] /\ Head(q) \in S /\ Tail(q) \in Seq(S)
           /\ DOMAIN q \subseteq Nat /\ DOMAIN Tail(q) \subseteq Nat
           /\ \A i \in DOMAIN Tail(q) : i + 1 \in DOMAIN q /\ Tail(q)[i] = q[i + 1]
           /\ \A i \in DOMAIN q : i = 1 \/ (i > 1 /\ i - 1 \in DOMAIN Tail(q) /\ q[i] = Tail(q)[i - 1])
  BY SMT

\* A sequence with one more element.
LEMMA PushIndex ==
    ASSUME NEW S, NEW q \in Seq(S), NEW c \in S
    PROVE  /\ DOMAIN q \subseteq Nat /\ DOMAIN Append(q, c) = DOMAIN q \cup {Len(q) + 1}
           /\ Len(q) + 1 \in Nat
           /\ \A i \in DOMAIN q : i < Len(q) + 1 /\ Append(q, c)[i] = q[i]
           /\ Append(q, c)[Len(q) + 1] = c
  BY SMT

\* Sending a command adds the edges of its file.
LEMMA PendingPush ==
    ASSUME TypeOK, NEW c \in Commands, stream' = Append(stream, c), rest'["replica"] = rest["replica"]
    PROVE  \A e : e \in Pending' <=> e \in Pending \/ (c.name = "add_graph" /\ e \in Lines(c.arg))
<1>1. stream \in Seq(Commands)
  BY DEF TypeOK
<1>2. /\ DOMAIN stream' = DOMAIN stream \cup {Len(stream) + 1}
      /\ \A i \in DOMAIN stream : stream'[i] = stream[i]
      /\ stream'[Len(stream) + 1] = c
  BY SMT, <1>1, PushIndex
<1>3. \A e : e \in Pending' <=>
         \/ e \in Lines(rest["replica"])
         \/ \E i \in DOMAIN stream' : stream'[i].name = "add_graph" /\ e \in Lines(stream'[i].arg)
  BY DEF Pending
<1> QED
  BY SMT, <1>2, <1>3, PendingIs

\* The replica takes a command from the stream: its edges stay pending.
LEMMA PendingPop ==
    ASSUME TypeOK, stream # <<>>, stream' = Tail(stream), rest["replica"] = <<>>,
           rest'["replica"] = IF Head(stream).name = "add_graph" THEN Head(stream).arg ELSE <<>>
    PROVE  Pending' = Pending
<1>1. stream \in Seq(Commands)
  BY DEF TypeOK
<1>2. /\ 1 \in DOMAIN stream /\ Head(stream) = stream[1]
      /\ \A i \in DOMAIN stream' : i + 1 \in DOMAIN stream /\ stream'[i] = stream[i + 1]
      /\ \A i \in DOMAIN stream : i = 1 \/ (i - 1 \in DOMAIN stream' /\ stream[i] = stream'[i - 1])
  BY <1>1, PopIndex
<1>3. \A e : e \in Pending' <=>
         \/ e \in Lines(rest'["replica"])
         \/ \E i \in DOMAIN stream' : stream'[i].name = "add_graph" /\ e \in Lines(stream'[i].arg)
  BY DEF Pending
<1>4. Lines(<<>>) = {}
  BY SMT DEF Lines
<1>5. ASSUME NEW e
      PROVE  e \in Pending' <=> e \in Pending
  <2>1. e \in Lines(rest'["replica"]) <=> Head(stream).name = "add_graph" /\ e \in Lines(Head(stream).arg)
    BY <1>4
  <2>2. (\E i \in DOMAIN stream : stream[i].name = "add_graph" /\ e \in Lines(stream[i].arg)) <=>
           \/ stream[1].name = "add_graph" /\ e \in Lines(stream[1].arg)
           \/ \E i \in DOMAIN stream' : stream'[i].name = "add_graph" /\ e \in Lines(stream'[i].arg)
    BY <1>2
  <2>3. e \notin Lines(rest["replica"])
    BY <1>4
  <2> QED
    BY <1>2, <1>3, <2>1, <2>2, <2>3, PendingIs
<1> QED
  BY <1>5

\* The replica reads a line.
LEMMA PendingRead ==
    ASSUME TypeOK, rest["replica"] # <<>>, rest'["replica"] = Tail(rest["replica"]), stream' = stream
    PROVE  \A e : e \in Pending <=> e \in Pending' \/ e = Head(rest["replica"])
<1>1. rest["replica"] \in Seq(Nodes \X Nodes)
  BY DEF TypeOK, Servers
<1>2. Lines(rest["replica"]) = {Head(rest["replica"])} \cup Lines(rest'["replica"])
  BY <1>1, FirstLine
<1>3. \A e : e \in Pending' <=>
         \/ e \in Lines(rest'["replica"])
         \/ \E i \in DOMAIN stream : stream[i].name = "add_graph" /\ e \in Lines(stream[i].arg)
  BY DEF Pending
<1> QED
  BY <1>2, <1>3, PendingIs

\* Pending edges are pairs of nodes.
LEMMA PendingTypes ==
    ASSUME TypeOK
    PROVE  Pending \subseteq Nodes \X Nodes
<1>1. Lines(rest["replica"]) \subseteq Nodes \X Nodes
  BY LinesAreEdges DEF TypeOK, Servers
<1>2. \A i \in DOMAIN stream : stream[i].name = "add_graph" => Lines(stream[i].arg) \subseteq Nodes \X Nodes
  <2> SUFFICES ASSUME NEW i \in DOMAIN stream, stream[i].name = "add_graph"
               PROVE  Lines(stream[i].arg) \subseteq Nodes \X Nodes
    OBVIOUS
  <2>1. stream[i] \in Commands
    BY SMT DEF TypeOK
  <2> QED
    BY <2>1, CommandTypes, LinesAreEdges
<1> QED
  BY <1>1, <1>2, PendingIs

\* EdgesInv is kept by the steps that change neither the sets nor what is pending.
LEMMA EdgesFrame ==
    ASSUME TypeOK, EdgesInv, OthersKept, nbrs' = nbrs, Pending' = Pending, aborted \subseteq aborted',
           reading["master"] # Nil =>
              reading'["master"] = reading["master"] /\ (dirty["master"] => dirty'["master"])
    PROVE  EdgesInv'
<1>1. "master" \in Servers /\ "replica" \in Servers
  BY DEF Servers
<1>2. \A n \in Nodes : kind'["master"][n] = "other" <=> kind'["replica"][n] = "other"
  BY <1>1 DEF OthersKept, EdgesInv
<1>3. \A e \in Pending : IsEdge(kind'["master"], e) <=> IsEdge(kind["master"], e)
  BY <1>1, PendingTypes, TouchedKept
<1>4. "replica" \notin aborted' =>
          \A n, m \in Nodes : m \in nbrs["master"][n] =>
             \/ m \in nbrs["replica"][n]
             \/ Edge(Pending, n, m)
             \/ reading'["master"] # Nil /\ dirty'["master"] /\ Edge(Lines(reading'["master"]), n, m)
  BY DEF EdgesInv
<1> QED
  BY <1>2, <1>3, <1>4 DEF EdgesInv, Edge

\* A line on the master: a new edge makes the command dirty.
LEMMA MasterLineEdges ==
    ASSUME TypeOK, StoreInv, EdgesInv, OthersKept, NEW e \in Nodes \X Nodes, ReadLine("master", e),
           AddTwice("master", e) \/ Skip("master", e) \/ AddEdge("master", e)
    PROVE  EdgesInv'
<1> DEFINE M == "master"
           R == "replica"
<1>1. /\ M \in Servers /\ R \in Servers /\ rest'[R] = rest[R] /\ stream' = stream /\ reading' = reading
      /\ reading[M] # Nil /\ rest[M] # <<>> /\ e = Head(rest[M])
  BY DEF Servers, ReadLine, Busy, TypeOK
<1>2. Pending' = Pending
  BY <1>1 DEF Pending
<1>3. CASE AddTwice(M, e) \/ Skip(M, e)
  <2>1. nbrs' = nbrs /\ dirty' = dirty /\ aborted \subseteq aborted'
    BY <1>3 DEF AddTwice, Skip
  <2> QED
    BY <1>1, <1>2, <2>1, EdgesFrame
<1>4. CASE AddEdge(M, e)
  <2>1. e \in Lines(reading[M])
    <3>1. rest[M] \in Seq(Nodes \X Nodes)
      BY <1>1 DEF TypeOK
    <3>2. e \in Lines(rest[M])
      BY <1>1, <3>1, FirstLine
    <3> QED
      BY <1>1, <3>2 DEF StoreInv
  <2>2. /\ \A n, m \in Nodes : m \in nbrs'[M][n] <=>
              m \in nbrs[M][n] \/ (n = e[1] /\ m = e[2]) \/ (n = e[2] /\ m = e[1])
        /\ nbrs'[R] = nbrs[R] /\ nbrs' \in [Servers -> [Nodes -> SUBSET Nodes]]
    BY <1>1, <1>4, NeighbourStep
  <2>3. aborted' = aborted /\ (dirty'[M] <=> dirty[M] \/ nbrs' # nbrs)
    <3>1. dirty' = [dirty EXCEPT ![M] = @ \/ nbrs' # nbrs] /\ aborted' = aborted
      BY <1>4 DEF AddEdge
    <3>2. dirty \in [Servers -> BOOLEAN]
      BY DEF TypeOK
    <3> QED
      BY <1>1, <3>1, <3>2
  <2>4. \A n \in Nodes : kind'[M][n] = "other" <=> kind'[R][n] = "other"
    BY <1>1 DEF OthersKept, EdgesInv
  <2>5. nbrs[R] \in [Nodes -> SUBSET Nodes] /\ nbrs[M] \in [Nodes -> SUBSET Nodes]
    BY <1>1 DEF TypeOK
  <2>6. \A n \in Nodes : nbrs'[R][n] \subseteq nbrs'[M][n]
    <3> SUFFICES ASSUME NEW n \in Nodes, NEW m \in nbrs[R][n]
                 PROVE  m \in nbrs'[M][n]
      BY <2>2
    <3>1. m \in Nodes /\ m \in nbrs[M][n]
      BY <2>5 DEF EdgesInv
    <3> QED
      BY <2>2, <3>1
  <2>7. ASSUME NEW d \in Pending, IsEdge(kind'[M], d)
        PROVE  d[2] \in nbrs'[M][d[1]] /\ d[1] \in nbrs'[M][d[2]]
    <3>1. d \in Nodes \X Nodes /\ d[1] \in Nodes /\ d[2] \in Nodes
      BY PendingTypes
    <3>2. IsEdge(kind[M], d)
      BY <1>1, <2>7, <3>1, TouchedKept
    <3>3. d[2] \in nbrs[M][d[1]] /\ d[1] \in nbrs[M][d[2]]
      BY <3>2 DEF EdgesInv
    <3> QED
      BY <2>2, <3>1, <3>3
  <2>8. ASSUME R \notin aborted, NEW n \in Nodes, NEW m \in Nodes, m \in nbrs'[M][n]
        PROVE  \/ m \in nbrs'[R][n]
               \/ Edge(Pending, n, m)
               \/ reading'[M] # Nil /\ dirty'[M] /\ Edge(Lines(reading'[M]), n, m)
    <3>1. CASE m \in nbrs[M][n]
      <4>1. \/ m \in nbrs[R][n]
            \/ Edge(Pending, n, m)
            \/ reading[M] # Nil /\ dirty[M] /\ Edge(Lines(reading[M]), n, m)
        BY <2>8, <3>1 DEF EdgesInv
      <4> QED
        BY <1>1, <2>2, <2>3, <4>1
    <3>2. CASE m \notin nbrs[M][n]
      <4>1. dirty'[M]
        BY <2>3, <2>8, <3>2
      <4>2. <<n, m>> = e \/ <<m, n>> = e
        BY SMT, <2>2, <2>8, <3>2
      <4> QED
        BY <1>1, <2>1, <4>1, <4>2 DEF Edge
    <3> QED
      BY <3>1, <3>2
  <2> QED
    BY <1>2, <2>3, <2>4, <2>6, <2>7, <2>8 DEF EdgesInv, Edge
<1> QED
  BY <1>3, <1>4

\* A line on the replica: the edge is no longer pending, but stored.
LEMMA ReplicaLineEdges ==
    ASSUME TypeOK, StoreInv, EdgesInv, OthersKept, NEW e \in Nodes \X Nodes, ReadLine("replica", e),
           AddTwice("replica", e) \/ Skip("replica", e) \/ AddEdge("replica", e)
    PROVE  EdgesInv'
<1> DEFINE M == "master"
           R == "replica"
<1>1. /\ M \in Servers /\ R \in Servers /\ M # R /\ rest'[R] = Tail(rest[R]) /\ stream' = stream /\ reading' = reading
      /\ rest[R] # <<>> /\ e = Head(rest[R])
  BY DEF Servers, ReadLine, Busy, TypeOK
<1>2. \A d : d \in Pending <=> d \in Pending' \/ d = e
  BY <1>1, PendingRead
<1>3. nbrs'[M] = nbrs[M] /\ dirty'[M] = dirty[M] /\ aborted \subseteq aborted'
  BY <1>1 DEF AddTwice, Skip, AddEdge, TypeOK
<1>4. \A n \in Nodes : kind'[M][n] = "other" <=> kind'[R][n] = "other"
  BY <1>1 DEF OthersKept, EdgesInv
<1>5. \A d \in Pending : /\ d \in Nodes \X Nodes /\ d[1] \in Nodes /\ d[2] \in Nodes
                         /\ IsEdge(kind'[M], d) <=> IsEdge(kind[M], d)
                         /\ IsEdge(kind[M], d) => d[2] \in nbrs[M][d[1]] /\ d[1] \in nbrs[M][d[2]]
  BY <1>1, PendingTypes, TouchedKept DEF EdgesInv
<1>6. IsEdge(kind[R], e) <=> IsEdge(kind[M], e)
  BY DEF IsEdge, EdgesInv
<1>s. \/ nbrs' = nbrs /\ ~AddEdge(R, e)
      \/ /\ AddEdge(R, e) /\ IsEdge(kind[R], e)
         /\ nbrs' \in [Servers -> [Nodes -> SUBSET Nodes]]
         /\ \A n, m \in Nodes : m \in nbrs'[R][n] <=>
               m \in nbrs[R][n] \/ (n = e[1] /\ m = e[2]) \/ (n = e[2] /\ m = e[1])
  <2>1. CASE AddEdge(R, e)
    <3>1. IsEdge(kind[R], e)
      BY <2>1 DEF AddEdge
    <3> QED
      BY <1>1, <2>1, <3>1, NeighbourStep
  <2>2. CASE ~AddEdge(R, e)
    <3>1. nbrs' = nbrs
      BY <2>2 DEF AddTwice, Skip
    <3> QED
      BY <2>2, <3>1
  <2> QED
    BY <2>1, <2>2
<1>7. nbrs[R] \in [Nodes -> SUBSET Nodes] /\ nbrs'[R] \in [Nodes -> SUBSET Nodes]
  <2>1. nbrs' \in [Servers -> [Nodes -> SUBSET Nodes]]
    BY <1>s DEF TypeOK
  <2> QED
    BY <1>1, <2>1 DEF TypeOK
<1>8. \A n, m \in Nodes : m \in nbrs[R][n] => m \in nbrs'[R][n]
  BY <1>s
<1>9. \A n, m \in Nodes : m \in nbrs'[R][n] /\ m \notin nbrs[R][n] =>
         IsEdge(kind[R], e) /\ ((n = e[1] /\ m = e[2]) \/ (n = e[2] /\ m = e[1]))
  BY <1>s
<1>10. R \notin aborted' /\ IsEdge(kind[R], e) => e[2] \in nbrs'[R][e[1]] /\ e[1] \in nbrs'[R][e[2]]
  <2> SUFFICES ASSUME R \notin aborted', IsEdge(kind[R], e)
               PROVE  e[2] \in nbrs'[R][e[1]] /\ e[1] \in nbrs'[R][e[2]]
    OBVIOUS
  <2>1. AddEdge(R, e)
    BY DEF AddTwice, Skip
  <2> QED
    BY <1>s, <2>1
<1>11. \A n \in Nodes : nbrs'[R][n] \subseteq nbrs'[M][n]
  <2> SUFFICES ASSUME NEW n \in Nodes, NEW m \in nbrs'[R][n]
               PROVE  m \in nbrs[M][n]
    BY <1>3
  <2>1. m \in Nodes
    BY <1>7
  <2>2. CASE m \in nbrs[R][n]
    BY <2>2 DEF EdgesInv
  <2>3. CASE m \notin nbrs[R][n]
    BY <1>2, <1>5, <1>6, <1>9, <2>1, <2>3
  <2> QED
    BY <2>2, <2>3
<1>12. ASSUME R \notin aborted', NEW n \in Nodes, NEW m \in Nodes, m \in nbrs[M][n]
       PROVE  \/ m \in nbrs'[R][n]
              \/ Edge(Pending', n, m)
              \/ reading[M] # Nil /\ dirty[M] /\ Edge(Lines(reading[M]), n, m)
  <2>1. \/ m \in nbrs[R][n]
        \/ Edge(Pending, n, m)
        \/ reading[M] # Nil /\ dirty[M] /\ Edge(Lines(reading[M]), n, m)
    BY <1>3, <1>12 DEF EdgesInv
  <2>2. CASE <<n, m>> = e \/ <<m, n>> = e
    <3>1. PICK d \in {<<n, m>>, <<m, n>>} : d = e
      BY <2>2
    <3>2. IsEdge(kind[M], e)
      <4>1. IsEdge(kind[M], <<n, m>>)
        BY <1>12 DEF StoreInv
      <4> QED
        BY SMT, <3>1, <4>1 DEF IsEdge
    <3> QED
      BY SMT, <1>6, <1>10, <1>12, <3>1, <3>2
  <2>3. CASE ~(<<n, m>> = e \/ <<m, n>> = e)
    BY <1>2, <1>8, <2>1, <2>3 DEF Edge
  <2> QED
    BY <2>2, <2>3
<1> QED
  BY <1>1, <1>2, <1>3, <1>4, <1>5, <1>11, <1>12 DEF EdgesInv, Edge

\* The master finishes a command, and passes it on if it has stored an edge.
LEMMA MasterFinishEdges ==
    ASSUME TypeOK, StoreInv, EdgesInv, Finish("master")
    PROVE  EdgesInv'
<1> DEFINE M == "master"
           R == "replica"
           f == reading[M]
           c == [name |-> "add_graph", arg |-> f]
<1>1. /\ M \in Servers /\ R \in Servers /\ M # R /\ M \notin aborted /\ reading[M] # Nil /\ rest[M] = <<>>
      /\ reading'[M] = Nil /\ rest' = rest /\ nbrs' = nbrs /\ kind' = kind /\ aborted' = aborted
      /\ IF dirty[M] THEN stream' = Append(stream, c) ELSE stream' = stream
  BY DEF Servers, Finish, Busy, TypeOK, graph, Propagates
<1>2. c \in Commands /\ c.name = "add_graph" /\ c.arg = f /\ f \in given
  BY <1>1 DEF Commands, TypeOK, StoreInv
<1>3. \A d \in Lines(f) : IsEdge(kind[M], d) => d[2] \in nbrs[M][d[1]] /\ d[1] \in nbrs[M][d[2]]
  <2>1. Lines(rest[M]) = {}
    BY SMT, <1>1 DEF Lines
  <2> QED
    BY <1>1, <1>2, <2>1 DEF StoreInv
<1> HIDE DEF c, f
<1>4. \A d : d \in Pending' <=> d \in Pending \/ (dirty[M] /\ d \in Lines(f))
  <2>1. CASE dirty[M]
    BY <1>1, <1>2, <2>1, PendingPush
  <2>2. CASE ~dirty[M]
    BY <1>1, <2>2 DEF Pending
  <2> QED
    BY <2>1, <2>2
<1>5. \A n, m \in Nodes : R \notin aborted /\ m \in nbrs[M][n] => m \in nbrs[R][n] \/ Edge(Pending', n, m)
  BY <1>4 DEF EdgesInv, Edge, f
<1>6. \A d \in Pending' : IsEdge(kind[M], d) => d[2] \in nbrs[M][d[1]] /\ d[1] \in nbrs[M][d[2]]
  BY <1>3, <1>4 DEF EdgesInv
<1> QED
  BY <1>1, <1>5, <1>6 DEF EdgesInv, Edge

\* Every step keeps EdgesInv.
LEMMA EdgesStep ==
    ASSUME TypeOK, StoreInv, EdgesInv, [Next]_vars
    PROVE  EdgesInv'
<1> DEFINE M == "master"
           R == "replica"
<1>1. OthersKept /\ M \in Servers /\ R \in Servers /\ M # R /\ Servers = {M, R}
  BY OthersStep DEF Servers
<1>2. CASE \E f \in Files : CallAddGraph(f)
  <2>1. reading[M] = Nil /\ nbrs' = nbrs /\ aborted' = aborted /\ stream' = stream /\ rest'[R] = rest[R]
    BY <1>1, <1>2 DEF CallAddGraph, Open, Free, graph, TypeOK
  <2>2. Pending' = Pending
    BY <2>1 DEF Pending
  <2> QED
    BY <1>1, <2>1, <2>2, EdgesFrame
<1>3. CASE \E n \in Nodes, c \in Colors : SetColor(n, c)
  <2> PICK n \in Nodes, c \in Colors : SetColor(n, c)
    BY <1>3
  <2> DEFINE x == [name |-> "set", arg |-> <<n, c>>]
  <2>1. /\ nbrs' = nbrs /\ aborted' = aborted /\ reading' = reading /\ dirty' = dirty /\ rest' = rest
        /\ stream' = Append(stream, x)
    BY DEF SetColor
  <2>2. x \in Commands /\ x.name # "add_graph"
    BY DEF Commands
  <2> HIDE DEF x
  <2>3. \A e : e \in Pending' <=> e \in Pending
    BY <2>1, <2>2, PendingPush
  <2> QED
    BY <1>1, <2>1, <2>3, EdgesFrame
<1>4. CASE Line(M)
  BY <1>1, <1>4, MasterLineEdges DEF Line
<1>5. CASE Line(R)
  BY <1>1, <1>5, ReplicaLineEdges DEF Line
<1>6. CASE Finish(M)
  BY <1>6, MasterFinishEdges
<1>7. CASE Finish(R) \/ UNCHANGED vars
  <2>1. /\ nbrs' = nbrs /\ aborted' = aborted /\ reading'[M] = reading[M] /\ dirty' = dirty
        /\ rest' = rest /\ stream' = stream
    BY <1>1, <1>7 DEF Finish, graph, vars, TypeOK
  <2>2. Pending' = Pending
    BY <2>1 DEF Pending
  <2> QED
    BY <1>1, <2>1, <2>2, EdgesFrame
<1>8. CASE ReplicaAddGraph
  <2>1. /\ nbrs' = nbrs /\ aborted' = aborted /\ reading'[M] = reading[M] /\ dirty'[M] = dirty[M]
        /\ rest[R] = <<>> /\ rest'[R] = Head(stream).arg /\ stream # <<>> /\ stream' = Tail(stream)
        /\ Head(stream).name = "add_graph"
    BY <1>1, <1>8 DEF ReplicaAddGraph, Open, graph, Free, TypeOK
  <2>2. Pending' = Pending
    BY <2>1, PendingPop
  <2> QED
    BY <1>1, <2>1, <2>2, EdgesFrame
<1>9. CASE ReplicaSet
  <2>1. /\ nbrs' = nbrs /\ aborted' = aborted /\ reading' = reading /\ dirty' = dirty
        /\ rest[R] = <<>> /\ rest' = rest /\ stream # <<>> /\ stream' = Tail(stream)
        /\ Head(stream).name # "add_graph"
    BY <1>1, <1>9 DEF ReplicaSet, Free, TypeOK
  <2>2. Pending' = Pending
    BY <2>1, PendingPop
  <2> QED
    BY <1>1, <2>1, <2>2, EdgesFrame
<1> QED
  BY <1>1, <1>2, <1>3, <1>4, <1>5, <1>6, <1>7, <1>8, <1>9 DEF Next

-----------------------------------------------------------------------------
(* The colours. *)

\* The nodes a file touches.
T(f) == Touched(kind["master"], f)

\* The colour of n after the lines l, if it is r before them.
Base(l, r, n) == IF n \in T(l) THEN 0 ELSE r

\* The colour of n is v after the commands of q, if it is b before them.
FinalIn(q, b, n, v) ==
    \/ \E i \in DOMAIN q : Gives(q[i], n, v) /\ \A j \in DOMAIN q : j > i => ~Touches(q[j], n)
    \/ (\A j \in DOMAIN q : ~Touches(q[j], n)) /\ v = b

\* n has neighbours before command i of q, if the lines l come first and g are the
\* neighbours before them.
LinkedIn(q, l, g, n, i) ==
    \/ g[n] # {} \/ n \in T(l)
    \/ \E j \in DOMAIN q : j < i /\ q[j].name = "add_graph" /\ n \in T(q[j].arg)

\* ColorsInv in these terms.
LEMMA ColorsElim ==
    ASSUME ColorsInv
    PROVE  /\ reading["master"] # Nil /\ "master" \notin aborted =>
                 \A n \in T(reading["master"]) \ T(rest["master"]) : color["master"][n] = 0
           /\ aborted = {} =>
                 \A n \in Nodes \ unseen :
                    \/ FinalIn(stream, Base(rest["replica"], color["replica"][n], n), n, color["master"][n])
                    \/ reading["master"] # Nil /\ color["master"][n] = 0 /\ n \in T(reading["master"])
           /\ "replica" \notin aborted =>
                 \A i \in DOMAIN stream : stream[i].name = "set" =>
                    LinkedIn(stream, rest["replica"], nbrs["replica"], stream[i].arg[1], i)
  BY DEF ColorsInv, T, FinalIn, Final, Base, LinkedIn, LinkedBefore

\* Conversely, in the next state.
LEMMA ColorsIntro ==
    ASSUME TypeOK', OthersKept,
           reading'["master"] # Nil /\ "master" \notin aborted' =>
              \A n \in T(reading'["master"]) \ T(rest'["master"]) : color'["master"][n] = 0,
           aborted' = {} =>
              \A n \in Nodes \ unseen' :
                 \/ FinalIn(stream', Base(rest'["replica"], color'["replica"][n], n), n, color'["master"][n])
                 \/ reading'["master"] # Nil /\ color'["master"][n] = 0 /\ n \in T(reading'["master"]),
           "replica" \notin aborted' =>
              \A i \in DOMAIN stream' : stream'[i].name = "set" =>
                 LinkedIn(stream', rest'["replica"], nbrs'["replica"], stream'[i].arg[1], i)
    PROVE  ColorsInv'
<1> DEFINE M == "master"
           R == "replica"
           U(f) == Touched(kind'[M], f)
           TouchesN(c, n) == \/ c.name = "set" /\ c.arg[1] = n
                             \/ c.name = "add_graph" /\ n \in U(c.arg)
<1>1. M \in Servers /\ R \in Servers
  BY DEF Servers
<1>2. \A f \in Seq(Nodes \X Nodes) : U(f) = T(f)
  BY <1>1, TouchedKept DEF T
<1>3. \A i \in DOMAIN stream' : stream'[i] \in Commands
  BY SMT DEF TypeOK
<1>4. \A i \in DOMAIN stream' : stream'[i].name = "add_graph" => U(stream'[i].arg) = T(stream'[i].arg)
  BY <1>2, <1>3, CommandTypes
<1>5. U(rest'[R]) = T(rest'[R]) /\ U(rest'[M]) = T(rest'[M])
  BY <1>1, <1>2 DEF TypeOK
<1>6. reading'[M] # Nil => U(reading'[M]) = T(reading'[M])
  BY <1>1, <1>2, FileAssumption DEF TypeOK
<1>7. \A i \in DOMAIN stream' : \A n : TouchesN(stream'[i], n) <=> Touches(stream'[i], n)
  BY <1>4 DEF Touches, T
<1> HIDE DEF U
<1>8. reading'[M] # Nil /\ M \notin aborted' => \A n \in U(reading'[M]) \ U(rest'[M]) : color'[M][n] = 0
  BY <1>5, <1>6
<1> DEFINE FinalN(n, v) ==
              \/ \E i \in DOMAIN stream' :
                    /\ TouchesN(stream'[i], n) /\ v = IF stream'[i].name = "set" THEN stream'[i].arg[2] ELSE 0
                    /\ \A j \in DOMAIN stream' : j > i => ~TouchesN(stream'[j], n)
              \/ /\ \A j \in DOMAIN stream' : ~TouchesN(stream'[j], n)
                 /\ v = IF n \in U(rest'[R]) THEN 0 ELSE color'[R][n]
           LinkedN(n, i) ==
              \/ nbrs'[R][n] # {} \/ n \in U(rest'[R])
              \/ \E j \in DOMAIN stream' : j < i /\ stream'[j].name = "add_graph" /\ n \in U(stream'[j].arg)
<1>9. \A n, v : FinalIn(stream', Base(rest'[R], color'[R][n], n), n, v) => FinalN(n, v)
  <2> SUFFICES ASSUME NEW n, NEW v, FinalIn(stream', Base(rest'[R], color'[R][n], n), n, v)
               PROVE  FinalN(n, v)
    OBVIOUS
  <2> HIDE DEF TouchesN
  <2>1. CASE \E i \in DOMAIN stream' :
                Gives(stream'[i], n, v) /\ \A j \in DOMAIN stream' : j > i => ~Touches(stream'[j], n)
    BY <1>7, <2>1 DEF Gives
  <2>2. CASE (\A j \in DOMAIN stream' : ~Touches(stream'[j], n)) /\ v = Base(rest'[R], color'[R][n], n)
    BY <1>5, <1>7, <2>2 DEF Base
  <2> QED
    BY <2>1, <2>2 DEF FinalIn
<1> HIDE DEF FinalN
<1>10. aborted' = {} => \A n \in Nodes \ unseen' :
                 \/ FinalN(n, color'[M][n])
                 \/ reading'[M] # Nil /\ color'[M][n] = 0 /\ n \in U(reading'[M])
  BY <1>6, <1>9
<1>11. R \notin aborted' => \A i \in DOMAIN stream' : stream'[i].name = "set" => LinkedN(stream'[i].arg[1], i)
  BY <1>4, <1>5 DEF LinkedIn
<1> QED
  BY <1>8, <1>10, <1>11 DEF ColorsInv, Final, FinalN, Gives, Touches, LinkedBefore, U

\* One more command.
LEMMA FinalPush ==
    ASSUME NEW q \in Seq(Commands), NEW c \in Commands, NEW b, NEW n, NEW v,
           (FinalIn(q, b, n, v) /\ ~Touches(c, n)) \/ Gives(c, n, v)
    PROVE  FinalIn(Append(q, c), b, n, v)
<1> DEFINE p == Append(q, c)
           k == Len(q) + 1
<1>1. /\ DOMAIN q \subseteq Nat /\ DOMAIN p = DOMAIN q \cup {k} /\ k \in Nat
      /\ \A i \in DOMAIN q : i < k /\ p[i] = q[i]
      /\ p[k] = c
  BY SMT, PushIndex
<1> SUFFICES FinalIn(p, b, n, v)
  OBVIOUS
<1> HIDE DEF p, k
<1>2. CASE Gives(c, n, v)
  <2>1. k \in DOMAIN p /\ Gives(p[k], n, v)
    BY <1>1, <1>2
  <2>2. \A j \in DOMAIN p : ~(j > k)
    BY SMT, <1>1
  <2> QED
    BY <2>1, <2>2 DEF FinalIn
<1>3. CASE FinalIn(q, b, n, v) /\ ~Touches(c, n)
  <2>1. CASE (\A j \in DOMAIN q : ~Touches(q[j], n)) /\ v = b
    BY <1>1, <1>3, <2>1 DEF FinalIn
  <2>2. CASE \E i \in DOMAIN q : Gives(q[i], n, v) /\ \A j \in DOMAIN q : j > i => ~Touches(q[j], n)
    <3>1. PICK i \in DOMAIN q : Gives(q[i], n, v) /\ \A j \in DOMAIN q : j > i => ~Touches(q[j], n)
      BY <2>2
    <3>2. i \in DOMAIN p /\ Gives(p[i], n, v)
      BY <1>1, <3>1
    <3>3. \A j \in DOMAIN p : j > i => ~Touches(p[j], n)
      BY <1>1, <1>3, <3>1
    <3> QED
      BY <3>2, <3>3 DEF FinalIn
  <2> QED
    BY <1>3, <2>1, <2>2 DEF FinalIn
<1> QED
  BY <1>2, <1>3

\* One command less: it has given the colour a, or b if it is about another node.
LEMMA FinalPop ==
    ASSUME NEW q \in Seq(Commands), q # <<>>, NEW b, NEW a, NEW n, NEW v, FinalIn(q, b, n, v),
           Touches(Head(q), n) => Gives(Head(q), n, a),
           ~Touches(Head(q), n) => a = b
    PROVE  FinalIn(Tail(q), a, n, v)
<1> DEFINE p == Tail(q)
<1>1. /\ 1 \in DOMAIN q /\ Head(q) = q[1]
      /\ DOMAIN q \subseteq Nat /\ DOMAIN p \subseteq Nat
      /\ \A i \in DOMAIN p : i + 1 \in DOMAIN q /\ p[i] = q[i + 1]
      /\ \A i \in DOMAIN q : i = 1 \/ (i > 1 /\ i - 1 \in DOMAIN p /\ q[i] = p[i - 1])
  BY PopIndex
<1> SUFFICES FinalIn(p, a, n, v)
  OBVIOUS
<1> HIDE DEF p
<1>2. CASE (\A j \in DOMAIN q : ~Touches(q[j], n)) /\ v = b
  <2>1. \A j \in DOMAIN p : ~Touches(p[j], n)
    BY <1>1, <1>2
  <2> QED
    BY <1>1, <1>2, <2>1 DEF FinalIn
<1>3. CASE \E i \in DOMAIN q : Gives(q[i], n, v) /\ \A j \in DOMAIN q : j > i => ~Touches(q[j], n)
  <2>1. PICK i \in DOMAIN q : Gives(q[i], n, v) /\ \A j \in DOMAIN q : j > i => ~Touches(q[j], n)
    BY <1>3
  <2>2. CASE i = 1
    <3>1. \A j \in DOMAIN p : ~Touches(p[j], n)
      <4> SUFFICES ASSUME NEW j \in DOMAIN p
                   PROVE  ~Touches(p[j], n)
        OBVIOUS
      <4>1. j + 1 \in DOMAIN q /\ p[j] = q[j + 1] /\ j \in Nat /\ j # 0
        <5>1. 0 \notin DOMAIN p
          BY SMT DEF p
        <5> QED
          BY <1>1, <5>1
      <4>2. j + 1 > i
        BY SMT, <2>2, <4>1
      <4> QED
        BY <2>1, <4>1, <4>2
    <3>2. v = a
      BY <1>1, <2>1, <2>2 DEF Gives
    <3> QED
      BY <3>1, <3>2 DEF FinalIn
  <2>3. CASE i # 1
    <3>1. i - 1 \in DOMAIN p /\ Gives(p[i - 1], n, v)
      BY <1>1, <2>1, <2>3
    <3>2. \A j \in DOMAIN p : j > i - 1 => ~Touches(p[j], n)
      <4> SUFFICES ASSUME NEW j \in DOMAIN p, j > i - 1
                   PROVE  ~Touches(p[j], n)
        OBVIOUS
      <4>1. j + 1 \in DOMAIN q /\ p[j] = q[j + 1] /\ j + 1 > i
        BY SMT, <1>1
      <4> QED
        BY <2>1, <4>1
    <3> QED
      BY <3>1, <3>2 DEF FinalIn
  <2> QED
    BY <2>2, <2>3
<1> QED
  BY <1>2, <1>3 DEF FinalIn

\* Who is coloured in a stream has neighbours before; nothing changes this that only
\* gives more nodes neighbours.
SetsLinked(q, l, g) ==
    \A i \in DOMAIN q : q[i].name = "set" => LinkedIn(q, l, g, q[i].arg[1], i)

\* More neighbours.
LEMMA LinkedMore ==
    ASSUME NEW q \in Seq(Commands), NEW l, NEW g, NEW k, NEW h, SetsLinked(q, l, g),
           \A n \in Nodes : g[n] # {} \/ n \in T(l) => h[n] # {} \/ n \in T(k)
    PROVE  SetsLinked(q, k, h)
<1> SUFFICES ASSUME NEW i \in DOMAIN q, q[i].name = "set"
             PROVE  LinkedIn(q, k, h, q[i].arg[1], i)
  BY DEF SetsLinked
<1>1. q[i] \in Commands
  BY SMT
<1>2. q[i].arg[1] \in Nodes
  BY <1>1, CommandTypes
<1> QED
  BY <1>2 DEF SetsLinked, LinkedIn

\* One more command.
LEMMA LinkedPush ==
    ASSUME NEW q \in Seq(Commands), NEW c \in Commands, NEW l, NEW g, SetsLinked(q, l, g),
           c.name = "set" =>
              \/ g[c.arg[1]] # {} \/ c.arg[1] \in T(l)
              \/ \E j \in DOMAIN q : q[j].name = "add_graph" /\ c.arg[1] \in T(q[j].arg)
    PROVE  SetsLinked(Append(q, c), l, g)
<1> DEFINE p == Append(q, c)
           k == Len(q) + 1
<1>1. /\ DOMAIN q \subseteq Nat /\ DOMAIN p = DOMAIN q \cup {k} /\ k \in Nat
      /\ \A i \in DOMAIN q : i < k /\ p[i] = q[i]
      /\ p[k] = c
  BY SMT, PushIndex
<1> SUFFICES ASSUME NEW i \in DOMAIN p, p[i].name = "set"
             PROVE  LinkedIn(p, l, g, p[i].arg[1], i)
  BY DEF SetsLinked
<1> HIDE DEF p, k
<1>2. CASE i = k
  BY <1>1, <1>2 DEF LinkedIn
<1>3. CASE i \in DOMAIN q
  <2>1. LinkedIn(q, l, g, p[i].arg[1], i)
    BY <1>1, <1>3 DEF SetsLinked
  <2> QED
    BY <1>1, <2>1 DEF LinkedIn
<1> QED
  BY <1>1, <1>2, <1>3

\* One command less: its lines are now being read.
LEMMA LinkedPop ==
    ASSUME NEW q \in Seq(Commands), q # <<>>, NEW g, SetsLinked(q, <<>>, g)
    PROVE  SetsLinked(Tail(q), IF Head(q).name = "add_graph" THEN Head(q).arg ELSE <<>>, g)
<1> DEFINE p == Tail(q)
           l == IF Head(q).name = "add_graph" THEN Head(q).arg ELSE <<>>
<1>1. /\ 1 \in DOMAIN q /\ Head(q) = q[1]
      /\ DOMAIN q \subseteq Nat /\ DOMAIN p \subseteq Nat
      /\ \A i \in DOMAIN p : i + 1 \in DOMAIN q /\ p[i] = q[i + 1]
      /\ \A i \in DOMAIN q : i = 1 \/ (i > 1 /\ i - 1 \in DOMAIN p /\ q[i] = p[i - 1])
  BY PopIndex
<1> SUFFICES ASSUME NEW i \in DOMAIN p, p[i].name = "set"
             PROVE  LinkedIn(p, l, g, p[i].arg[1], i)
  BY DEF SetsLinked
<1> HIDE DEF p
<1> DEFINE n == p[i].arg[1]
<1>2. LinkedIn(q, <<>>, g, n, i + 1) /\ i \in Nat
  BY <1>1 DEF SetsLinked
<1>3. n \notin T(<<>>)
  BY TouchedNothing DEF T
<1> HIDE DEF n
<1>4. CASE g[n] # {}
  BY <1>4 DEF LinkedIn, n
<1>5. CASE \E j \in DOMAIN q : j < i + 1 /\ q[j].name = "add_graph" /\ n \in T(q[j].arg)
  <2>1. PICK j \in DOMAIN q : j < i + 1 /\ q[j].name = "add_graph" /\ n \in T(q[j].arg)
    BY <1>5
  <2>2. CASE j = 1
    BY <1>1, <2>1, <2>2 DEF LinkedIn, n
  <2>3. CASE j # 1
    <3>1. j - 1 \in DOMAIN p /\ q[j] = p[j - 1] /\ j - 1 < i
      BY SMT, <1>1, <1>2, <2>1, <2>3
    <3> QED
      BY <2>1, <3>1 DEF LinkedIn, n
  <2> QED
    BY <2>2, <2>3
<1> QED
  BY <1>2, <1>3, <1>4, <1>5 DEF LinkedIn

-----------------------------------------------------------------------------
\* AddEdge gives the ends of the edge the colour 0.
LEMMA ColorStep ==
    ASSUME TypeOK, NEW s \in Servers, NEW e \in Nodes \X Nodes, AddEdge(s, e)
    PROVE  /\ \A t \in Servers : t # s => color'[t] = color[t]
           /\ \A n \in Nodes : color'[s][n] = IF n \in {e[1], e[2]} THEN 0 ELSE color[s][n]
  BY DEF AddEdge, TypeOK

\* Every step keeps ColoredIsLinked.
LEMMA ColoredStep ==
    ASSUME TypeOK, ColoredIsLinked, ColorsInv, [Next]_vars
    PROVE  ColoredIsLinked'
<1> DEFINE M == "master"
           R == "replica"
<1>1. M \in Servers /\ R \in Servers /\ M # R
  BY DEF Servers
<1>2. CASE nbrs' = nbrs /\ color' = color
  BY <1>2 DEF ColoredIsLinked
<1>3. ASSUME NEW s \in Servers, NEW e \in Nodes \X Nodes, AddEdge(s, e)
      PROVE  ColoredIsLinked'
  <2> SUFFICES ASSUME NEW t \in Servers, NEW n \in Nodes
               PROVE  color'[t][n] # Nil <=> nbrs'[t][n] # {}
    BY DEF ColoredIsLinked
  <2>1. color[t][n] # Nil <=> nbrs[t][n] # {}
    BY DEF ColoredIsLinked
  <2>2. CASE t # s
    BY SMT, <1>3, <2>1, <2>2, ColorStep, NeighbourStep
  <2>3. CASE t = s /\ n \in {e[1], e[2]}
    <3>1. color'[t][n] # Nil
      BY SMT, <1>3, <2>3, ColorStep, ColorAssumption
    <3>2. e[1] \in nbrs'[t][n] \/ e[2] \in nbrs'[t][n]
      BY <1>3, <2>3, NeighbourStep
    <3> QED
      BY <3>1, <3>2
  <2>4. CASE t = s /\ n \notin {e[1], e[2]}
    <3>1. color'[t][n] = color[t][n]
      BY SMT, <1>3, <2>4, ColorStep
    <3>2. nbrs[t][n] \subseteq Nodes /\ nbrs'[t][n] \subseteq Nodes
      BY SMT, <1>3, NeighbourStep DEF TypeOK
    <3>3. \A m \in Nodes : m \in nbrs'[t][n] <=> m \in nbrs[t][n]
      BY <1>3, <2>4, NeighbourStep
    <3> QED
      BY <2>1, <3>1, <3>2, <3>3
  <2> QED
    BY <2>2, <2>3, <2>4
<1>4. ASSUME NEW s \in Servers, NEW n \in Nodes, NEW c \in Colors, nbrs[s][n] # {}, nbrs' = nbrs,
             color' = [color EXCEPT ![s][n] = c]
      PROVE  ColoredIsLinked'
  <2>1. \A t \in Servers, m \in Nodes : color'[t][m] = IF t = s /\ m = n THEN c ELSE color[t][m]
    BY <1>4 DEF TypeOK
  <2> QED
    BY SMT, <1>4, <2>1, ColorAssumption DEF ColoredIsLinked
<1>5. CASE \E n \in Nodes, c \in Colors : SetColor(n, c)
  <2> PICK n \in Nodes, c \in Colors : SetColor(n, c)
    BY <1>5
  <2>1. nbrs' = nbrs /\ color' = [color EXCEPT ![M][n] = c] /\ color[M][n] # Nil
    BY DEF SetColor
  <2>2. nbrs[M][n] # {}
    BY <1>1, <2>1 DEF ColoredIsLinked
  <2> QED
    BY <1>1, <1>4, <2>1, <2>2
<1>6. CASE ReplicaSet
  <2> DEFINE n == Head(stream).arg[1]
             c == Head(stream).arg[2]
  <2>1. /\ R \notin aborted /\ rest[R] = <<>> /\ stream # <<>> /\ Head(stream).name = "set" /\ nbrs' = nbrs
        /\ color' = [color EXCEPT ![R][n] = c]
    BY <1>1, <1>6 DEF ReplicaSet, Free, TypeOK
  <2>2. stream \in Seq(Commands)
    BY DEF TypeOK
  <2>3. 1 \in DOMAIN stream /\ Head(stream) = stream[1] /\ Head(stream) \in Commands
    BY <2>1, <2>2, PopIndex
  <2>4. n \in Nodes /\ c \in Colors
    BY <2>1, <2>3, CommandTypes
  <2>5. LinkedIn(stream, rest[R], nbrs[R], n, 1)
    BY <2>1, <2>3, ColorsElim
  <2>6. T(rest[R]) = {}
    BY <2>1, TouchedNothing DEF T
  <2>7. \A j \in DOMAIN stream : ~(j < 1)
    BY SMT, <2>2
  <2>8. nbrs[R][n] # {}
    BY <2>5, <2>6, <2>7 DEF LinkedIn
  <2> HIDE DEF n, c
  <2> QED
    BY <1>1, <1>4, <2>1, <2>4, <2>8
<1> QED
  BY <1>2, <1>3, <1>5, <1>6 DEF Next, CallAddGraph, Line, AddTwice, Skip, Finish, ReplicaAddGraph, vars, graph

-----------------------------------------------------------------------------
\* ColorsInv is kept by the steps of the replica on its own graph that read a line or
\* finish a file, and by those that change nothing.
LEMMA ReplicaColors ==
    ASSUME TypeOK, TypeOK', OthersKept, ColorsInv, aborted \subseteq aborted',
           "master" \in aborted' => "master" \in aborted,
           unseen' = unseen, stream' = stream, color'["master"] = color["master"],
           reading'["master"] = reading["master"], rest'["master"] = rest["master"],
           "replica" \notin aborted' => \A n \in Nodes :
              /\ Base(rest'["replica"], color'["replica"][n], n) = Base(rest["replica"], color["replica"][n], n)
              /\ nbrs["replica"][n] # {} \/ n \in T(rest["replica"])
                    => nbrs'["replica"][n] # {} \/ n \in T(rest'["replica"])
    PROVE  ColorsInv'
<1> DEFINE M == "master"
           R == "replica"
<1>1. reading'[M] # Nil /\ M \notin aborted' => \A n \in T(reading'[M]) \ T(rest'[M]) : color'[M][n] = 0
  BY ColorsElim
<1>2. aborted' = {} => \A n \in Nodes \ unseen' :
         \/ FinalIn(stream', Base(rest'[R], color'[R][n], n), n, color'[M][n])
         \/ reading'[M] # Nil /\ color'[M][n] = 0 /\ n \in T(reading'[M])
  <2> SUFFICES ASSUME aborted' = {}, NEW n \in Nodes \ unseen
               PROVE  \/ FinalIn(stream, Base(rest'[R], color'[R][n], n), n, color[M][n])
                      \/ reading[M] # Nil /\ color[M][n] = 0 /\ n \in T(reading[M])
    OBVIOUS
  <2>1. aborted = {} /\ R \notin aborted'
    OBVIOUS
  <2>2. Base(rest'[R], color'[R][n], n) = Base(rest[R], color[R][n], n)
    BY <2>1
  <2> QED
    BY <2>1, <2>2, ColorsElim
<1>3. R \notin aborted' => SetsLinked(stream', rest'[R], nbrs'[R])
  <2> SUFFICES ASSUME R \notin aborted'
               PROVE  SetsLinked(stream, rest'[R], nbrs'[R])
    OBVIOUS
  <2>1. R \notin aborted /\ stream \in Seq(Commands)
    BY DEF TypeOK
  <2>2. SetsLinked(stream, rest[R], nbrs[R])
    BY <2>1, ColorsElim DEF SetsLinked
  <2> DEFINE l == rest[R]
             g == nbrs[R]
             k == rest'[R]
             h == nbrs'[R]
  <2>3. \A n \in Nodes : g[n] # {} \/ n \in T(l) => h[n] # {} \/ n \in T(k)
    OBVIOUS
  <2>4. SetsLinked(stream, l, g)
    BY <2>2
  <2> HIDE DEF l, g, k, h
  <2>5. SetsLinked(stream, k, h)
    BY <2>1, <2>3, <2>4, LinkedMore
  <2> QED
    BY <2>5 DEF k, h
<1> QED
  BY <1>1, <1>2, <1>3, ColorsIntro DEF SetsLinked

\* A line on the replica.
LEMMA ReplicaLineColors ==
    ASSUME TypeOK, TypeOK', EdgesInv, ColorsInv, OthersKept, NEW e \in Nodes \X Nodes, ReadLine("replica", e),
           AddTwice("replica", e) \/ Skip("replica", e) \/ AddEdge("replica", e)
    PROVE  ColorsInv'
<1> DEFINE M == "master"
           R == "replica"
<1>1. /\ M \in Servers /\ R \in Servers /\ M # R /\ rest'[R] = Tail(rest[R]) /\ stream' = stream /\ reading' = reading
      /\ rest[R] # <<>> /\ e = Head(rest[R]) /\ rest'[M] = rest[M] /\ unseen' = unseen
      /\ rest[R] \in Seq(Nodes \X Nodes)
  BY DEF Servers, ReadLine, Busy, TypeOK
<1>2. color'[M] = color[M] /\ aborted \subseteq aborted' /\ (M \in aborted' => M \in aborted)
  BY <1>1 DEF AddTwice, Skip, AddEdge, TypeOK
<1>3. IsEdge(kind[R], e) <=> IsEdge(kind[M], e)
  BY DEF IsEdge, EdgesInv
<1>4. \A n \in Nodes : n \in T(rest[R]) <=> (IsEdge(kind[R], e) /\ n \in {e[1], e[2]}) \/ n \in T(rest'[R])
  BY <1>1, <1>3, TouchedLine DEF T
<1>5. ASSUME R \notin aborted', NEW n \in Nodes
      PROVE  /\ Base(rest'[R], color'[R][n], n) = Base(rest[R], color[R][n], n)
             /\ nbrs[R][n] # {} \/ n \in T(rest[R]) => nbrs'[R][n] # {} \/ n \in T(rest'[R])
  <2>1. CASE Skip(R, e)
    <3>1. color' = color /\ nbrs' = nbrs /\ ~IsEdge(kind[R], e)
      BY <2>1 DEF Skip
    <3> QED
      BY <1>4, <3>1 DEF Base
  <2>2. CASE AddEdge(R, e)
    <3>1. IsEdge(kind[R], e)
      BY <2>2 DEF AddEdge
    <3>2. color'[R][n] = IF n \in {e[1], e[2]} THEN 0 ELSE color[R][n]
      BY SMT, <1>1, <2>2, ColorStep
    <3>3. n \in {e[1], e[2]} => nbrs'[R][n] # {}
      BY SMT, <1>1, <2>2, NeighbourStep
    <3>4. nbrs[R][n] # {} => nbrs'[R][n] # {}
      <4>1. nbrs[R][n] \subseteq Nodes
        BY SMT, <1>1 DEF TypeOK
      <4> QED
        BY <1>1, <2>2, <4>1, NeighbourStep
    <3> QED
      BY <1>4, <3>1, <3>2, <3>3, <3>4 DEF Base
  <2>3. ~AddTwice(R, e)
    BY <1>5 DEF AddTwice
  <2> QED
    BY <2>1, <2>2, <2>3
<1> QED
  BY <1>1, <1>2, <1>5, ReplicaColors

\* A line on the master: the ends of the edge have the colour 0 until the command ends.
LEMMA MasterLineColors ==
    ASSUME TypeOK, TypeOK', StoreInv, ColorsInv, OthersKept, NEW e \in Nodes \X Nodes, ReadLine("master", e),
           AddTwice("master", e) \/ Skip("master", e) \/ AddEdge("master", e)
    PROVE  ColorsInv'
<1> DEFINE M == "master"
           R == "replica"
<1>1. /\ M \in Servers /\ R \in Servers /\ M # R /\ rest'[M] = Tail(rest[M]) /\ stream' = stream /\ reading' = reading
      /\ rest[M] # <<>> /\ e = Head(rest[M]) /\ rest'[R] = rest[R] /\ unseen' = unseen
      /\ rest[M] \in Seq(Nodes \X Nodes) /\ reading[M] # Nil /\ M \notin aborted
  BY DEF Servers, ReadLine, Busy, TypeOK
<1>2. color'[R] = color[R] /\ nbrs'[R] = nbrs[R] /\ aborted \subseteq aborted'
  BY <1>1 DEF AddTwice, Skip, AddEdge, TypeOK
<1>3. \A n \in Nodes : n \in T(rest[M]) <=> (IsEdge(kind[M], e) /\ n \in {e[1], e[2]}) \/ n \in T(rest'[M])
  BY <1>1, TouchedLine DEF T
<1>4. \A n \in Nodes : IsEdge(kind[M], e) /\ n \in {e[1], e[2]} => n \in T(reading[M])
  <2>1. e \in Lines(reading[M])
    BY <1>1, FirstLine DEF StoreInv
  <2> QED
    BY <2>1, TouchedEnds DEF T
<1>5. M \notin aborted' =>
         \/ ~IsEdge(kind[M], e) /\ color' = color
         \/ /\ IsEdge(kind[M], e)
            /\ \A n \in Nodes : color'[M][n] = IF n \in {e[1], e[2]} THEN 0 ELSE color[M][n]
  <2> SUFFICES ASSUME M \notin aborted'
               PROVE  \/ ~IsEdge(kind[M], e) /\ color' = color
                      \/ /\ IsEdge(kind[M], e)
                         /\ \A n \in Nodes : color'[M][n] = IF n \in {e[1], e[2]} THEN 0 ELSE color[M][n]
    OBVIOUS
  <2>1. ~AddTwice(M, e)
    BY DEF AddTwice
  <2>2. CASE Skip(M, e)
    BY <2>2 DEF Skip
  <2>3. CASE AddEdge(M, e)
    <3>1. IsEdge(kind[M], e)
      BY <2>3 DEF AddEdge
    <3> QED
      BY SMT, <1>1, <2>3, <3>1, ColorStep
  <2> QED
    BY <2>1, <2>2, <2>3
<1>6. \A f : T(f) \subseteq Nodes
  BY DEF T, Touched
<1>7. reading'[M] # Nil /\ M \notin aborted' => \A n \in T(reading'[M]) \ T(rest'[M]) : color'[M][n] = 0
  <2> SUFFICES ASSUME M \notin aborted', NEW n \in T(reading[M]), n \notin T(rest'[M])
               PROVE  color'[M][n] = 0
    BY <1>1
  <2>1. n \in Nodes
    BY <1>6
  <2>2. n \notin T(rest[M]) => color[M][n] = 0
    BY <1>1, ColorsElim
  <2> QED
    BY <1>3, <1>5, <2>1, <2>2
<1>8. aborted' = {} => \A n \in Nodes \ unseen' :
         \/ FinalIn(stream', Base(rest'[R], color'[R][n], n), n, color'[M][n])
         \/ reading'[M] # Nil /\ color'[M][n] = 0 /\ n \in T(reading'[M])
  <2> SUFFICES ASSUME aborted' = {}, NEW n \in Nodes \ unseen
               PROVE  \/ FinalIn(stream, Base(rest[R], color[R][n], n), n, color'[M][n])
                      \/ color'[M][n] = 0 /\ n \in T(reading[M])
    BY <1>1, <1>2
  <2>1. \/ FinalIn(stream, Base(rest[R], color[R][n], n), n, color[M][n])
        \/ color[M][n] = 0 /\ n \in T(reading[M])
    <3>1. aborted = {}
      BY <1>2
    <3> QED
      BY <3>1, ColorsElim
  <2>2. color'[M][n] = color[M][n] \/ (color'[M][n] = 0 /\ n \in T(reading[M]))
    <3>1. M \notin aborted' /\ n \in Nodes
      OBVIOUS
    <3>2. \/ color' = color
          \/ IsEdge(kind[M], e) /\ color'[M][n] = IF n \in {e[1], e[2]} THEN 0 ELSE color[M][n]
      BY <1>5, <3>1
    <3>3. CASE n \in {e[1], e[2]}
      BY <1>4, <3>1, <3>2, <3>3
    <3>4. CASE n \notin {e[1], e[2]}
      BY <3>2, <3>4
    <3> QED
      BY <3>3, <3>4
  <2> QED
    BY <2>1, <2>2
<1>9. R \notin aborted' => \A i \in DOMAIN stream' : stream'[i].name = "set" =>
         LinkedIn(stream', rest'[R], nbrs'[R], stream'[i].arg[1], i)
  BY <1>1, <1>2, ColorsElim
<1> QED
  BY <1>7, <1>8, <1>9, ColorsIntro

\* The master finishes a command: the colours it has reset are in the stream or unseen.
LEMMA MasterFinishColors ==
    ASSUME TypeOK, TypeOK', ColorsInv, OthersKept, Finish("master")
    PROVE  ColorsInv'
<1> DEFINE M == "master"
           R == "replica"
           f == reading[M]
           c == [name |-> "add_graph", arg |-> f]
           B(n) == Base(rest[R], color[R][n], n)
<1>1. /\ M \in Servers /\ R \in Servers /\ M # R /\ M \notin aborted /\ f # Nil /\ rest[M] = <<>>
      /\ reading'[M] = Nil /\ rest' = rest /\ nbrs' = nbrs /\ color' = color /\ aborted' = aborted
      /\ stream \in Seq(Commands)
      /\ IF dirty[M] THEN stream' = Append(stream, c) /\ unseen' = unseen \ T(f)
                     ELSE stream' = stream /\ unseen' = unseen \cup T(f)
  BY DEF Servers, Finish, Busy, TypeOK, graph, Propagates, T
<1>2. c \in Commands /\ c.name = "add_graph" /\ c.arg = f
  BY <1>1 DEF Commands, TypeOK
<1>3. \A n \in T(f) : color[M][n] = 0
  <2>1. T(rest[M]) = {}
    BY <1>1, TouchedNothing DEF T
  <2> QED
    BY <1>1, <2>1, ColorsElim
<1>4. \A n : Touches(c, n) <=> n \in T(f)
  BY <1>2 DEF Touches, T
<1>5. \A n \in T(f) : Gives(c, n, color[M][n])
  BY <1>2, <1>3, <1>4 DEF Gives
<1>6. aborted = {} => \A n \in Nodes \ unseen : n \notin T(f) => FinalIn(stream, B(n), n, color[M][n])
  BY ColorsElim
<1>7. R \notin aborted => SetsLinked(stream, rest[R], nbrs[R])
  BY ColorsElim DEF SetsLinked
<1> HIDE DEF f, c, B
<1>8. aborted' = {} => \A n \in Nodes \ unseen' : FinalIn(stream', B(n), n, color'[M][n])
  <2> SUFFICES ASSUME aborted = {}, NEW n \in Nodes \ unseen'
               PROVE  FinalIn(stream', B(n), n, color[M][n])
    BY <1>1
  <2>1. CASE dirty[M]
    <3>1. (FinalIn(stream, B(n), n, color[M][n]) /\ ~Touches(c, n)) \/ Gives(c, n, color[M][n])
      BY <1>1, <1>4, <1>5, <1>6, <2>1
    <3>2. FinalIn(Append(stream, c), B(n), n, color[M][n])
      BY <1>1, <1>2, <3>1, FinalPush
    <3> QED
      BY <1>1, <2>1, <3>2
  <2>2. CASE ~dirty[M]
    BY <1>1, <1>6, <2>2
  <2> QED
    BY <2>1, <2>2
<1>9. R \notin aborted' => SetsLinked(stream', rest[R], nbrs[R])
  <2> SUFFICES ASSUME R \notin aborted
               PROVE  SetsLinked(stream', rest[R], nbrs[R])
    BY <1>1
  <2>1. SetsLinked(Append(stream, c), rest[R], nbrs[R])
    BY <1>1, <1>2, <1>7, LinkedPush
  <2> QED
    BY <1>1, <1>7, <2>1
<1>10. R \notin aborted' => \A i \in DOMAIN stream' : stream'[i].name = "set" =>
         LinkedIn(stream', rest'[R], nbrs'[R], stream'[i].arg[1], i)
  BY <1>1, <1>9 DEF SetsLinked
<1>11. aborted' = {} => \A n \in Nodes \ unseen' :
         FinalIn(stream', Base(rest'[R], color'[R][n], n), n, color'[M][n])
  BY <1>1, <1>8 DEF B
<1> QED
  BY <1>1, <1>10, <1>11, ColorsIntro

\* Who has neighbours on the master has them on the replica before the next command.
LEMMA LinkedByThen ==
    ASSUME TypeOK, StoreInv, EdgesInv, "replica" \notin aborted, reading["master"] = Nil,
           NEW n \in Nodes, nbrs["master"][n] # {}
    PROVE  \/ nbrs["replica"][n] # {} \/ n \in T(rest["replica"])
           \/ \E j \in DOMAIN stream : stream[j].name = "add_graph" /\ n \in T(stream[j].arg)
<1> DEFINE M == "master"
           R == "replica"
<1>1. PICK m \in Nodes : m \in nbrs[M][n]
  BY SMT DEF TypeOK, Servers
<1>2. m \in nbrs[R][n] \/ Edge(Pending, n, m)
  BY <1>1 DEF EdgesInv
<1>3. CASE Edge(Pending, n, m)
  <2>1. PICK e \in Pending : e \in {<<n, m>>, <<m, n>>}
    BY <1>3 DEF Edge
  <2>2. IsEdge(kind[M], <<n, m>>)
    BY <1>1 DEF StoreInv
  <2>3. IsEdge(kind[M], e) /\ n \in {e[1], e[2]}
    BY SMT, <2>1, <2>2 DEF IsEdge
  <2>4. \A f : e \in Lines(f) => n \in T(f)
    BY <2>3, TouchedEnds DEF T
  <2> QED
    BY <2>1, <2>4, PendingIs
<1> QED
  BY <1>2, <1>3

\* A client colours a node on the master.
LEMMA SetColorColors ==
    ASSUME TypeOK, TypeOK', StoreInv, ColoredIsLinked, EdgesInv, ColorsInv, OthersKept,
           NEW m \in Nodes, NEW v \in Colors, SetColor(m, v)
    PROVE  ColorsInv'
<1> DEFINE M == "master"
           R == "replica"
           c == [name |-> "set", arg |-> <<m, v>>]
           B(n) == Base(rest[R], color[R][n], n)
<1>1. /\ M \in Servers /\ R \in Servers /\ M # R /\ reading[M] = Nil /\ color[M][m] # Nil
      /\ reading' = reading /\ rest' = rest /\ nbrs' = nbrs /\ aborted' = aborted
      /\ stream \in Seq(Commands) /\ stream' = Append(stream, c) /\ unseen' = unseen \ {m}
  BY DEF Servers, SetColor, Free, TypeOK
<1>2. color'[R] = color[R] /\ \A n \in Nodes : color'[M][n] = IF n = m THEN v ELSE color[M][n]
  BY SMT, <1>1 DEF SetColor, TypeOK
<1>3. c \in Commands /\ c.name = "set" /\ c.arg[1] = m /\ c.arg[2] = v
  BY DEF Commands
<1> HIDE DEF c
<1>4. Gives(c, m, v) /\ \A n : Touches(c, n) <=> n = m
  BY <1>3 DEF Touches, Gives
<1>5. aborted = {} => \A n \in Nodes \ unseen : FinalIn(stream, B(n), n, color[M][n])
  BY <1>1, ColorsElim
<1>6. R \notin aborted => SetsLinked(stream, rest[R], nbrs[R])
  BY ColorsElim DEF SetsLinked
<1> HIDE DEF B
<1>7. aborted' = {} => \A n \in Nodes \ unseen' : FinalIn(stream', B(n), n, color'[M][n])
  <2> SUFFICES ASSUME aborted = {}, NEW n \in Nodes \ unseen'
               PROVE  FinalIn(Append(stream, c), B(n), n, color'[M][n])
    BY <1>1
  <2>1. (FinalIn(stream, B(n), n, color'[M][n]) /\ ~Touches(c, n)) \/ Gives(c, n, color'[M][n])
    <3>1. CASE n = m
      BY <1>2, <1>4, <3>1
    <3>2. CASE n # m
      <4>1. n \in Nodes \ unseen /\ color'[M][n] = color[M][n]
        BY <1>1, <1>2, <3>2
      <4> QED
        BY <1>4, <1>5, <3>2, <4>1
    <3> QED
      BY <3>1, <3>2
  <2> QED
    BY <1>1, <1>3, <2>1, FinalPush
<1>8. R \notin aborted' => SetsLinked(stream', rest[R], nbrs[R])
  <2> SUFFICES ASSUME R \notin aborted
               PROVE  SetsLinked(Append(stream, c), rest[R], nbrs[R])
    BY <1>1
  <2>1. nbrs[M][m] # {}
    BY <1>1 DEF ColoredIsLinked
  <2>2. \/ nbrs[R][m] # {} \/ m \in T(rest[R])
        \/ \E j \in DOMAIN stream : stream[j].name = "add_graph" /\ m \in T(stream[j].arg)
    BY <1>1, <2>1, LinkedByThen
  <2> QED
    BY <1>1, <1>3, <1>6, <2>2, LinkedPush
<1>9. R \notin aborted' => \A i \in DOMAIN stream' : stream'[i].name = "set" =>
         LinkedIn(stream', rest'[R], nbrs'[R], stream'[i].arg[1], i)
  BY <1>1, <1>8 DEF SetsLinked
<1>10. aborted' = {} => \A n \in Nodes \ unseen' :
         FinalIn(stream', Base(rest'[R], color'[R][n], n), n, color'[M][n])
  BY <1>1, <1>2, <1>7 DEF B
<1> QED
  BY <1>1, <1>9, <1>10, ColorsIntro

\* The replica takes a command from the stream; a colour it sets at once, the lines of
\* a file it has yet to read.
LEMMA ReplicaTakes ==
    ASSUME TypeOK, TypeOK', ColorsInv, OthersKept, "replica" \notin aborted, aborted' = aborted,
           rest["replica"] = <<>>, stream # <<>>, stream' = Tail(stream), nbrs' = nbrs, unseen' = unseen,
           color'["master"] = color["master"], reading'["master"] = reading["master"],
           rest'["master"] = rest["master"],
           rest'["replica"] = IF Head(stream).name = "add_graph" THEN Head(stream).arg ELSE <<>>,
           \A n \in Nodes : color'["replica"][n] = IF Head(stream).name = "set" /\ Head(stream).arg[1] = n
                                                   THEN Head(stream).arg[2] ELSE color["replica"][n]
    PROVE  ColorsInv'
<1> DEFINE M == "master"
           R == "replica"
           h == Head(stream)
           B(n) == Base(rest[R], color[R][n], n)
           A(n) == Base(rest'[R], color'[R][n], n)
<1>1. stream \in Seq(Commands)
  BY DEF TypeOK
<1>2. h \in Commands /\ h.name \in {"add_graph", "set"}
  BY <1>1, PopIndex, CommandTypes
<1>3. T(<<>>) = {}
  BY TouchedNothing DEF T
<1>4. ASSUME NEW n \in Nodes
      PROVE  /\ Touches(h, n) => Gives(h, n, A(n))
             /\ ~Touches(h, n) => A(n) = B(n)
  <2>1. CASE h.name = "add_graph"
    <3>1. Touches(h, n) <=> n \in T(rest'[R])
      BY <2>1 DEF Touches, T
    <3>2. color'[R][n] = color[R][n]
      BY <2>1
    <3> QED
      BY <1>3, <2>1, <3>1, <3>2 DEF Gives, Base
  <2>2. CASE h.name = "set"
    <3>1. Touches(h, n) <=> h.arg[1] = n
      BY <2>2 DEF Touches
    <3>2. rest'[R] = <<>>
      BY <2>2
    <3> QED
      BY <1>3, <2>2, <3>1, <3>2 DEF Gives, Base
  <2> QED
    BY <1>2, <2>1, <2>2
<1>5. reading'[M] # Nil /\ M \notin aborted' => \A n \in T(reading'[M]) \ T(rest'[M]) : color'[M][n] = 0
  BY ColorsElim
<1>6. aborted = {} => \A n \in Nodes \ unseen :
         \/ FinalIn(stream, B(n), n, color[M][n])
         \/ reading[M] # Nil /\ color[M][n] = 0 /\ n \in T(reading[M])
  BY ColorsElim
<1> HIDE DEF A, B, h
<1>7. aborted = {} => \A n \in Nodes \ unseen :
         \/ FinalIn(Tail(stream), A(n), n, color[M][n])
         \/ reading[M] # Nil /\ color[M][n] = 0 /\ n \in T(reading[M])
  <2> SUFFICES ASSUME aborted = {}, NEW n \in Nodes \ unseen, FinalIn(stream, B(n), n, color[M][n])
               PROVE  FinalIn(Tail(stream), A(n), n, color[M][n])
    BY <1>6
  <2>1. /\ Touches(Head(stream), n) => Gives(Head(stream), n, A(n))
        /\ ~Touches(Head(stream), n) => A(n) = B(n)
    BY <1>4 DEF h
  <2> QED
    BY <1>1, <2>1, FinalPop
<1>8. aborted' = {} => \A n \in Nodes \ unseen' :
         \/ FinalIn(stream', Base(rest'[R], color'[R][n], n), n, color'[M][n])
         \/ reading'[M] # Nil /\ color'[M][n] = 0 /\ n \in T(reading'[M])
  BY <1>7 DEF A
<1>9. SetsLinked(stream, <<>>, nbrs[R])
  BY ColorsElim DEF SetsLinked
<1>10. SetsLinked(stream', rest'[R], nbrs'[R])
  BY <1>1, <1>9, LinkedPop
<1> QED
  BY <1>5, <1>8, <1>10, ColorsIntro DEF SetsLinked

\* Every step keeps ColorsInv.
LEMMA ColorsStep ==
    ASSUME TypeOK, TypeOK', StoreInv, ColoredIsLinked, EdgesInv, ColorsInv, [Next]_vars
    PROVE  ColorsInv'
<1> DEFINE M == "master"
           R == "replica"
<1>1. OthersKept /\ M \in Servers /\ R \in Servers /\ M # R /\ Servers = {M, R}
  BY OthersStep DEF Servers
<1>2. CASE \E f \in Files : CallAddGraph(f)
  <2>1. /\ reading[M] = Nil /\ rest'[M] = reading'[M]
        /\ nbrs' = nbrs /\ color' = color /\ aborted' = aborted /\ stream' = stream /\ unseen' = unseen
        /\ rest'[R] = rest[R]
    BY SMT, <1>1, <1>2 DEF CallAddGraph, Open, Free, graph, TypeOK
  <2>2. \A n : n \notin T(reading'[M]) \ T(rest'[M])
    BY <2>1
  <2>3. aborted' = {} => \A n \in Nodes \ unseen' :
           FinalIn(stream', Base(rest'[R], color'[R][n], n), n, color'[M][n])
    BY <2>1, ColorsElim
  <2>4. R \notin aborted' => \A i \in DOMAIN stream' : stream'[i].name = "set" =>
           LinkedIn(stream', rest'[R], nbrs'[R], stream'[i].arg[1], i)
    BY <2>1, ColorsElim
  <2> QED
    BY <1>1, <2>2, <2>3, <2>4, ColorsIntro
<1>3. CASE \E n \in Nodes, c \in Colors : SetColor(n, c)
  BY <1>1, <1>3, SetColorColors
<1>4. CASE Line(M)
  BY <1>1, <1>4, MasterLineColors DEF Line
<1>5. CASE Line(R)
  BY <1>1, <1>5, ReplicaLineColors DEF Line
<1>6. CASE Finish(M)
  BY <1>1, <1>6, MasterFinishColors
<1>7. CASE Finish(R) \/ UNCHANGED vars
  <2>1. /\ nbrs' = nbrs /\ color' = color /\ aborted' = aborted /\ reading'[M] = reading[M]
        /\ rest' = rest /\ stream' = stream /\ unseen' = unseen
    BY <1>1, <1>7 DEF Finish, graph, vars, TypeOK
  <2> QED
    BY <1>1, <2>1, ReplicaColors
<1>8. CASE ReplicaAddGraph
  <2>1. /\ nbrs' = nbrs /\ color' = color /\ aborted' = aborted /\ R \notin aborted /\ unseen' = unseen
        /\ reading'[M] = reading[M] /\ rest'[M] = rest[M]
        /\ rest[R] = <<>> /\ rest'[R] = Head(stream).arg /\ stream # <<>> /\ stream' = Tail(stream)
        /\ Head(stream).name = "add_graph"
    BY <1>1, <1>8 DEF ReplicaAddGraph, Open, graph, Free, TypeOK
  <2>2. \A n \in Nodes : color'[R][n] = IF Head(stream).name = "set" /\ Head(stream).arg[1] = n
                                        THEN Head(stream).arg[2] ELSE color[R][n]
    BY <2>1
  <2> QED
    BY <1>1, <2>1, <2>2, ReplicaTakes
<1>9. CASE ReplicaSet
  <2>1. /\ nbrs' = nbrs /\ aborted' = aborted /\ R \notin aborted /\ reading' = reading /\ unseen' = unseen
        /\ rest[R] = <<>> /\ rest' = rest /\ stream # <<>> /\ stream' = Tail(stream)
        /\ Head(stream).name = "set" /\ Head(stream).name # "add_graph" /\ stream \in Seq(Commands)
    BY <1>1, <1>9 DEF ReplicaSet, Free, TypeOK
  <2>2. Head(stream).arg[1] \in Nodes
    BY <2>1, PopIndex, CommandTypes
  <2>3. /\ color'[M] = color[M]
        /\ \A n \in Nodes : color'[R][n] = IF Head(stream).arg[1] = n THEN Head(stream).arg[2] ELSE color[R][n]
    BY SMT, <1>1, <1>9, <2>2 DEF ReplicaSet, TypeOK
  <2>4. \A n \in Nodes : color'[R][n] = IF Head(stream).name = "set" /\ Head(stream).arg[1] = n
                                        THEN Head(stream).arg[2] ELSE color[R][n]
    BY <2>1, <2>3
  <2> QED
    BY <1>1, <2>1, <2>3, <2>4, ReplicaTakes
<1> QED
  BY <1>1, <1>2, <1>3, <1>4, <1>5, <1>6, <1>7, <1>8, <1>9 DEF Next

\* AgreeInv holds initially.
LEMMA AgreeInitially == Init => AgreeInv
<1> SUFFICES ASSUME Init
             PROVE  AgreeInv
  OBVIOUS
<1>1. "master" \in Servers /\ "replica" \in Servers
  BY DEF Servers
<1>2. /\ rest["replica"] = <<>> /\ stream = <<>> /\ reading["master"] = Nil
      /\ \A s \in Servers, n \in Nodes : nbrs[s][n] = {} /\ color[s][n] = Nil
      /\ kind["master"] = kind["replica"]
  BY <1>1 DEF Init
<1>3. Pending = {} /\ Touched(kind["master"], rest["replica"]) = {}
  BY SMT, <1>2 DEF Pending, Lines, Touched
<1>4. EdgesInv
  BY <1>1, <1>2, <1>3 DEF EdgesInv
<1>5. \A n \in Nodes : Final(n, color["master"][n])
  BY SMT, <1>1, <1>2, <1>3 DEF Final
<1>6. ColorsInv
  BY SMT, <1>2, <1>5 DEF ColorsInv
<1>7. ColoredIsLinked
  BY <1>2 DEF ColoredIsLinked
<1> QED
  BY <1>4, <1>6, <1>7, TypesInitially, StoreInitially DEF AgreeInv

\* Every step keeps what relates the graphs of the master and the replica with each
\* other and with the stream.
THEOREM GraphsInvariant == Spec => []AgreeInv
<1>1. ASSUME AgreeInv, TypeOK', [Next]_vars
      PROVE  AgreeInv'
  <2>1. StoreInv' /\ EdgesInv' /\ ColoredIsLinked' /\ ColorsInv'
    BY <1>1, StoreStep, EdgesStep, ColoredStep, ColorsStep DEF AgreeInv
  <2> QED
    BY <1>1, <2>1 DEF AgreeInv
<1> QED
  BY <1>1, AgreeInitially, TypeCorrect, PTL DEF Spec

\* A client never visits a neighbour without a colour: addGraphCommand and the colours
\* that clients write keep coloured and linked nodes the same, on both servers.
THEOREM ColoredNodesAreLinked == Spec => []ColoredIsLinked
<1>1. AgreeInv => ColoredIsLinked
  BY DEF AgreeInv
<1> QED
  BY <1>1, GraphsInvariant, PTL

\* A replica that has executed all it was sent has the graph of the master, and its
\* colours but for those that an add_graph without a new edge has reset, whatever files
\* are loaded and colours written and however far the replica is behind.
THEOREM ReplicaGraphAgrees == Spec => []ReplicaAgrees
<1>1. ASSUME AgreeInv, stream = <<>>, \A s \in Servers : Free(s)
      PROVE  /\ nbrs["replica"] = nbrs["master"]
             /\ \A n \in Nodes \ unseen : color["replica"][n] = color["master"][n]
  <2> DEFINE M == "master"
             R == "replica"
  <2>1. /\ M \in Servers /\ R \in Servers /\ aborted = {} /\ reading[M] = Nil /\ rest[R] = <<>>
        /\ nbrs[M] \in [Nodes -> SUBSET Nodes] /\ nbrs[R] \in [Nodes -> SUBSET Nodes]
    BY SMT, <1>1 DEF AgreeInv, TypeOK, Free, Servers
  <2>2. Pending = {} /\ T(rest[R]) = {}
    BY SMT, <1>1, <2>1 DEF Pending, Lines, Touched, T
  <2>3. ASSUME NEW n \in Nodes
        PROVE  nbrs[R][n] = nbrs[M][n]
    <3>1. nbrs[R][n] \subseteq nbrs[M][n]
      BY <1>1 DEF AgreeInv, EdgesInv
    <3>2. \A m \in Nodes : m \in nbrs[M][n] => m \in nbrs[R][n]
      BY <1>1, <2>1, <2>2 DEF AgreeInv, EdgesInv, Edge
    <3> QED
      BY <2>1, <3>1, <3>2
  <2>4. nbrs[R] = nbrs[M]
    BY SMT, <2>1, <2>3
  <2>5. ColorsInv
    BY <1>1 DEF AgreeInv
  <2>6. \A n \in Nodes \ unseen : FinalIn(stream, Base(rest[R], color[R][n], n), n, color[M][n])
    BY <2>1, <2>5, ColorsElim
  <2>7. \A n \in Nodes \ unseen : color[R][n] = color[M][n]
    <3>1. DOMAIN stream = {}
      BY SMT, <1>1
    <3> QED
      BY <2>2, <2>6, <3>1 DEF FinalIn, Base
  <2> QED
    BY <2>4, <2>7
<1>2. AgreeInv => ReplicaAgrees
  BY <1>1 DEF ReplicaAgrees
<1> QED
  BY <1>2, GraphsInvariant, PTL
=============================================================================
