------------------------------ MODULE AddGraph ------------------------------
(***************************************************************************)
(* The add_graph command, which the repository has added to KeyDB and      *)
(* Redis: it reads a file of edges and stores the neighbour sets and the   *)
(* colours of the nodes.  The scripts give it to one server; call() passes *)
(* it on to the replicas, which read their own copy of the file.  One step *)
(* is one line of the file.  A server runs one command at a time.          *)
(***************************************************************************)
EXTENDS Integers, Sequences

CONSTANTS
    Nodes,
    Files,          \* the graph files: sequences of edges
    Colors,         \* what a client may write as a colour
    Nil,            \* no key
    MaxCommands     \* bound on the commands the master gets

ASSUME FileAssumption == Files \subseteq Seq(Nodes \X Nodes) /\ Nil \notin Files

ASSUME ColorAssumption == 0 \in Colors /\ Nil \notin Colors

Servers == {"master", "replica"}
Commands == [name : {"add_graph"}, arg : Files] \cup [name : {"set"}, arg : Nodes \X Colors]

VARIABLES
    kind,       \* what is under node_*_neighbours of a server: "none", "set" or "other"
    nbrs,       \* the set that is there
    color,      \* node_*_color of a server
    reading,    \* the file a server executes add_graph for, Nil for none
    rest,       \* the lines it has not read yet
    dirty,      \* dirty of call(): the command has changed something
    aborted,    \* an assertion has stopped the server
    stream,     \* the commands on their way to the replica
    commands,   \* how many commands the master has got
    given,      \* the files add_graph was called with on the master
    unseen      \* the nodes whose colour was set to 0 without telling the replica

graph == <<kind, nbrs, color>>
vars == <<graph, reading, rest, dirty, aborted, stream, commands, given, unseen>>

Init ==
    /\ \E other \in SUBSET Nodes :
          kind = [s \in Servers |-> [n \in Nodes |-> IF n \in other THEN "other" ELSE "none"]]
    /\ nbrs = [s \in Servers |-> [n \in Nodes |-> {}]]
    /\ color = [s \in Servers |-> [n \in Nodes |-> Nil]]
    /\ reading = [s \in Servers |-> Nil]
    /\ rest = [s \in Servers |-> <<>>]
    /\ dirty = [s \in Servers |-> FALSE]
    /\ aborted = {}
    /\ stream = <<>>
    /\ commands = 0
    /\ given = {}
    /\ unseen = {}

Free(s) == s \notin aborted /\ reading[s] = Nil
Busy(s) == s \notin aborted /\ reading[s] # Nil
IsEdge(k, e) == k[e[1]] # "other" /\ k[e[2]] # "other"

\* The nodes of the edges of a file that add_graph does not skip.
Lines(f) == {f[i] : i \in DOMAIN f}
Touched(k, f) == {n \in Nodes : \E e \in Lines(f) : IsEdge(k, e) /\ n \in {e[1], e[2]}}

-----------------------------------------------------------------------------
\* Server s starts addGraphCommand.
Open(s, f) ==
    /\ reading' = [reading EXCEPT ![s] = f]
    /\ rest' = [rest EXCEPT ![s] = f]
    /\ dirty' = [dirty EXCEPT ![s] = FALSE]

\* add_graph comes from a client.  A file that cannot be opened is an empty one.
CallAddGraph(f) ==
    /\ Free("master") /\ commands < MaxCommands
    /\ Open("master", f)
    /\ commands' = commands + 1
    /\ given' = given \cup {f}
    /\ UNCHANGED <<graph, aborted, stream, unseen>>

\* Mutant: each edge in one direction only.
LinkedOneWay(g, e) ==
    [n \in Nodes |-> g[n] \cup {m \in Nodes : n = e[1] /\ m = e[2]}]

\* Mutant: the new set takes the place of the old one.
LinkedAnew(g, e) ==
    [n \in Nodes |-> IF n = e[1] THEN {e[2]} ELSE IF n = e[2] THEN {e[1]} ELSE g[n]]

\* setTypeAdd on both sets.
Linked(g, e) ==
    [n \in Nodes |-> g[n] \cup {m \in Nodes : (n = e[1] /\ m = e[2]) \/ (n = e[2] /\ m = e[1])}]

\* setTypeCreate and dbAdd for the keys that are not there.
Created(k, N) == [n \in Nodes |-> IF n \in N /\ k[n] = "none" THEN "set" ELSE k[n]]

ReadLine(s, e) ==
    /\ Busy(s) /\ rest[s] # <<>> /\ e = Head(rest[s])
    /\ rest' = [rest EXCEPT ![s] = Tail(@)]
    /\ UNCHANGED <<reading, stream, commands, given, unseen>>

\* dbAdd of the second, same key finds the first one.
AddTwice(s, e) ==
    /\ e[1] = e[2] /\ kind[s][e[1]] = "none"
    /\ aborted' = aborted \cup {s}
    /\ kind' = [kind EXCEPT ![s] = Created(@, {e[1]})]
    /\ UNCHANGED <<nbrs, color, dirty>>

\* WRONGTYPE for one of the keys; the set of the first node may have been created.
Skip(s, e) ==
    /\ ~IsEdge(kind[s], e)
    /\ kind' = [kind EXCEPT ![s] = IF @[e[1]] = "other" THEN @ ELSE Created(@, {e[1]})]
    /\ UNCHANGED <<nbrs, color, dirty, aborted>>

\* Mutant: only the first node gets a colour.
AddEdgeFirstColor(s, e) ==
    /\ IsEdge(kind[s], e) /\ ~(e[1] = e[2] /\ kind[s][e[1]] = "none")
    /\ kind' = [kind EXCEPT ![s] = Created(@, {e[1], e[2]})]
    /\ nbrs' = [nbrs EXCEPT ![s] = Linked(@, e)]
    /\ dirty' = [dirty EXCEPT ![s] = @ \/ nbrs' # nbrs]
    /\ color' = [color EXCEPT ![s] =
                    [n \in Nodes |-> IF n = e[1] THEN 0 ELSE @[n]]]
    /\ UNCHANGED aborted

\* The edge is added and both nodes get the colour 0.
AddEdge(s, e) ==
    /\ IsEdge(kind[s], e) /\ ~(e[1] = e[2] /\ kind[s][e[1]] = "none")
    /\ kind' = [kind EXCEPT ![s] = Created(@, {e[1], e[2]})]
    /\ nbrs' = [nbrs EXCEPT ![s] = Linked(@, e)]
    /\ dirty' = [dirty EXCEPT ![s] = @ \/ nbrs' # nbrs]
    /\ color' = [color EXCEPT ![s] =
                    [n \in Nodes |-> IF n \in {e[1], e[2]} THEN 0 ELSE @[n]]]
    /\ UNCHANGED aborted

\* One iteration of the loop of addGraphCommand.
Line(s) ==
    \E e \in Nodes \X Nodes : ReadLine(s, e) /\ (AddTwice(s, e) \/ Skip(s, e) \/ AddEdge(s, e))

\* Mutant: the changes are not counted.
PropagatesNever(s) == FALSE

\* call(): what the master has executed is passed on if it changed something.
Propagates(s) == dirty[s]

\* The end of addGraphCommand and of call().
Finish(s) ==
    /\ Busy(s) /\ rest[s] = <<>>
    /\ reading' = [reading EXCEPT ![s] = Nil]
    /\ IF s = "replica" THEN UNCHANGED <<stream, unseen>>
       ELSE IF Propagates(s)
       THEN /\ stream' = Append(stream, [name |-> "add_graph", arg |-> reading[s]])
            /\ unseen' = unseen \ Touched(kind[s], reading[s])
       ELSE /\ unseen' = unseen \cup Touched(kind[s], reading[s])
            /\ UNCHANGED stream
    /\ UNCHANGED <<graph, rest, dirty, aborted, commands, given>>

-----------------------------------------------------------------------------
\* A client colours a node that is in the graph.
SetColor(n, c) ==
    /\ Free("master") /\ commands < MaxCommands
    /\ color["master"][n] # Nil
    /\ color' = [color EXCEPT !["master"][n] = c]
    /\ stream' = Append(stream, [name |-> "set", arg |-> <<n, c>>])
    /\ commands' = commands + 1
    /\ unseen' = unseen \ {n}
    /\ UNCHANGED <<kind, nbrs, reading, rest, dirty, aborted, given>>

\* The replica takes the next command of the stream.
ReplicaAddGraph ==
    /\ Free("replica") /\ stream # <<>> /\ Head(stream).name = "add_graph"
    /\ Open("replica", Head(stream).arg)
    /\ stream' = Tail(stream)
    /\ UNCHANGED <<graph, aborted, commands, given, unseen>>

ReplicaSet ==
    /\ Free("replica") /\ stream # <<>> /\ Head(stream).name = "set"
    /\ color' = [color EXCEPT !["replica"][Head(stream).arg[1]] = Head(stream).arg[2]]
    /\ stream' = Tail(stream)
    /\ UNCHANGED <<kind, nbrs, reading, rest, dirty, aborted, commands, given, unseen>>

Next ==
    \/ \E f \in Files : CallAddGraph(f)
    \/ \E n \in Nodes, c \in Colors : SetColor(n, c)
    \/ \E s \in Servers : Line(s) \/ Finish(s)
    \/ ReplicaAddGraph \/ ReplicaSet

Spec == Init /\ [][Next]_vars

-----------------------------------------------------------------------------
\* Types; only a set has members, and who is not in add_graph has read its lines.
TypeOK ==
    /\ kind \in [Servers -> [Nodes -> {"none", "set", "other"}]]
    /\ nbrs \in [Servers -> [Nodes -> SUBSET Nodes]]
    /\ color \in [Servers -> [Nodes -> Colors \cup {Nil}]]
    /\ reading \in [Servers -> Files \cup {Nil}]
    /\ rest \in [Servers -> Seq(Nodes \X Nodes)]
    /\ dirty \in [Servers -> BOOLEAN]
    /\ aborted \subseteq Servers
    /\ stream \in Seq(Commands)
    /\ given \subseteq Files
    /\ \A s \in Servers, n \in Nodes : nbrs[s][n] # {} => kind[s][n] = "set"
    /\ \A s \in Servers : reading[s] = Nil => rest[s] = <<>>

\* The neighbour sets are symmetric on every server and after every line, although
\* lines repeat edges, name them the other way round, are skipped with WRONGTYPE or
\* stop the server: the locks of the clients rest on that.
Symmetric ==
    \A s \in Servers : \A n, m \in Nodes : m \in nbrs[s][n] <=> n \in nbrs[s][m]

\* What add_graph has stored on the master are the edges of all its files, but for
\* those at a key of another type.
StoresTheFiles ==
    Free("master") => \A n, m \in Nodes :
        m \in nbrs["master"][n] <=>
            /\ IsEdge(kind["master"], <<n, m>>)
            /\ \E f \in given : <<n, m>> \in Lines(f) \/ <<m, n>> \in Lines(f)

\* While a file is read, an edge of it that is not stored yet is in a line to come.
StoreInv ==
    LET Edges == UNION {Lines(f) : f \in given}
        Stored(e) == e[2] \in nbrs["master"][e[1]] /\ e[1] \in nbrs["master"][e[2]]
    IN
    /\ reading["master"] # Nil => Lines(rest["master"]) \subseteq Lines(reading["master"])
    /\ reading["master"] # Nil => reading["master"] \in given
    /\ \A n, m \in Nodes : m \in nbrs["master"][n] =>
          IsEdge(kind["master"], <<n, m>>) /\ (<<n, m>> \in Edges \/ <<m, n>> \in Edges)
    /\ "master" \notin aborted =>
          \A e \in Edges : IsEdge(kind["master"], e) => Stored(e) \/ e \in Lines(rest["master"])

\* A node has a colour if and only if it has neighbours, on both servers and after
\* every line: a client that visits a neighbour finds a colour there.
ColoredIsLinked ==
    \A s \in Servers, n \in Nodes : color[s][n] # Nil <=> nbrs[s][n] # {}

\* A replica that has executed all it was sent has the neighbours of the master, and
\* its colours except where an add_graph that added no edge has reset them.
ReplicaAgrees ==
    stream = <<>> /\ (\A s \in Servers : Free(s)) =>
        /\ nbrs["replica"] = nbrs["master"]
        /\ \A n \in Nodes \ unseen : color["replica"][n] = color["master"][n]

-----------------------------------------------------------------------------
(***************************************************************************)
(* The inductive invariant behind ColoredIsLinked and ReplicaAgrees.       *)
(***************************************************************************)
\* The edges the replica is still to read.
Pending ==
    Lines(rest["replica"]) \cup
    UNION {Lines(stream[i].arg) : i \in {j \in DOMAIN stream : stream[j].name = "add_graph"}}

Edge(E, n, m) == <<n, m>> \in E \/ <<m, n>> \in E

\* Command c gives node n a colour, and this is v.
Touches(c, n) ==
    \/ c.name = "set" /\ c.arg[1] = n
    \/ c.name = "add_graph" /\ n \in Touched(kind["master"], c.arg)
Gives(c, n, v) == Touches(c, n) /\ v = IF c.name = "set" THEN c.arg[2] ELSE 0

\* The colour of n on the replica will be v when it has executed what it was sent.
Final(n, v) ==
    \/ \E i \in DOMAIN stream :
          Gives(stream[i], n, v) /\ \A j \in DOMAIN stream : j > i => ~Touches(stream[j], n)
    \/ /\ \A j \in DOMAIN stream : ~Touches(stream[j], n)
       /\ v = IF n \in Touched(kind["master"], rest["replica"]) THEN 0 ELSE color["replica"][n]

\* Node n has neighbours on the replica before it executes command i of the stream.
LinkedBefore(n, i) ==
    \/ nbrs["replica"][n] # {}
    \/ n \in Touched(kind["master"], rest["replica"])
    \/ \E j \in DOMAIN stream :
          j < i /\ stream[j].name = "add_graph" /\ n \in Touched(kind["master"], stream[j].arg)

\* The master has stored what it has sent, and has sent what it has stored.
EdgesInv ==
    /\ \A n \in Nodes : kind["master"][n] = "other" <=> kind["replica"][n] = "other"
    /\ \A n \in Nodes : nbrs["replica"][n] \subseteq nbrs["master"][n]
    /\ \A e \in Pending : IsEdge(kind["master"], e) =>
          e[2] \in nbrs["master"][e[1]] /\ e[1] \in nbrs["master"][e[2]]
    /\ "replica" \notin aborted =>
          \A n, m \in Nodes : m \in nbrs["master"][n] =>
             \/ m \in nbrs["replica"][n]
             \/ Edge(Pending, n, m)
             \/ reading["master"] # Nil /\ dirty["master"] /\ Edge(Lines(reading["master"]), n, m)

\* What the master has coloured, or reset, it has sent, is about to send, or has noted
\* in unseen.
ColorsInv ==
    /\ reading["master"] # Nil /\ "master" \notin aborted =>
          \A n \in Touched(kind["master"], reading["master"])
                     \ Touched(kind["master"], rest["master"]) : color["master"][n] = 0
    /\ aborted = {} =>
          \A n \in Nodes \ unseen :
             \/ Final(n, color["master"][n])
             \/ /\ reading["master"] # Nil /\ color["master"][n] = 0
                /\ n \in Touched(kind["master"], reading["master"])
    /\ "replica" \notin aborted =>
          \A i \in DOMAIN stream : stream[i].name = "set" => LinkedBefore(stream[i].arg[1], i)

AgreeInv == TypeOK /\ StoreInv /\ ColoredIsLinked /\ EdgesInv /\ ColorsInv
=============================================================================
