----------------------------- MODULE Partition -----------------------------
(***************************************************************************)
(* get_partition of src/scripts/master_run_experiment.sh: it cuts the      *)
(* range of the node ids into one range for each client.  One step is one  *)
(* iteration of its loop.                                                  *)
(***************************************************************************)
EXTENDS Integers

CONSTANTS
    MaxNode,        \* bound on the node ids that are tried
    MaxPartitions   \* bound on the number of partitions that are tried

ASSUME BoundAssumption == MaxNode \in Nat /\ MaxPartitions \in Nat

VARIABLES
    startNode, endNode, numPartitions,    \* the arguments of the script
    partitionSize, remaining, currentStart,
    iter,           \* i of the loop
    partitions      \* the pairs <<first id, last id>> under Partition_<j>

pargs == <<startNode, endNode, numPartitions, partitionSize>>
pvars == <<pargs, remaining, currentStart, iter, partitions>>

PInit ==
    /\ startNode \in 0 .. MaxNode
    /\ endNode \in startNode .. MaxNode
    /\ numPartitions \in 1 .. MaxPartitions
    /\ partitionSize = (endNode - startNode + 1) \div numPartitions
    /\ remaining = (endNode - startNode + 1) % numPartitions
    /\ currentStart = startNode
    /\ iter = 1
    /\ partitions = [j \in {} |-> <<0, 0>>]

\* Mutants: the remainder is handed out at once; the next range starts at the end
\* of this one; the remainder is dropped.
ExtraAll(r) == r
NextStartOverlaps(e) == e
ExtraNever(r) == 0

\* The first partitions get one node of the remainder each.
Extra(r) == IF r > 0 THEN 1 ELSE 0

\* The start of the range after the one that ends with e.
NextStart(e) == e + 1

Iterate ==
    /\ iter <= numPartitions
    /\ LET currentEnd == currentStart + partitionSize - 1 + Extra(remaining)
       IN  /\ partitions' = [j \in 1 .. iter |->
                 IF j = iter THEN <<currentStart, currentEnd>> ELSE partitions[j]]
           /\ currentStart' = NextStart(currentEnd)
    /\ remaining' = IF remaining > 0 THEN remaining - 1 ELSE remaining
    /\ iter' = iter + 1
    /\ UNCHANGED pargs

\* The loop has ended.
Finished ==
    /\ iter > numPartitions
    /\ UNCHANGED pvars

PNext == Iterate \/ Finished

PSpec == PInit /\ [][PNext]_pvars

-----------------------------------------------------------------------------
FirstOf(j) == partitions[j][1]
LastOf(j) == partitions[j][2]

\* No node id is in two partitions, whatever the remainder of the division:
\* each range ends before the next one begins.
Disjoint ==
    \A j, k \in 1 .. (iter - 1) : j < k => LastOf(j) < FirstOf(k)

\* At the end of the loop every id from start_node to end_node is in some
\* partition, and no partition has another id.
Covering ==
    iter > numPartitions =>
       /\ \A n \in startNode .. endNode :
             \E j \in 1 .. numPartitions : FirstOf(j) <= n /\ n <= LastOf(j)
       /\ \A j \in 1 .. numPartitions :
             startNode <= FirstOf(j) /\ LastOf(j) <= endNode

\* The sizes differ by at most one, and no client gets an empty range, with
\* which it would exit before it reports, unless there are more clients than
\* nodes.
Balanced ==
    \A j \in 1 .. (iter - 1) :
       LET size == LastOf(j) - FirstOf(j) + 1
       IN  /\ size \in {partitionSize, partitionSize + 1}
           /\ numPartitions <= endNode - startNode + 1 => size > 0

-----------------------------------------------------------------------------
\* The state of the loop: what is left of the range is what the remaining
\* iterations hand out.
LoopInv ==
    /\ startNode \in Nat /\ endNode \in Nat /\ startNode <= endNode
    /\ numPartitions \in Nat /\ numPartitions > 0
    /\ partitionSize \in Nat
    /\ iter \in Nat /\ 1 <= iter /\ iter <= numPartitions + 1
    /\ remaining \in Nat /\ remaining <= numPartitions - iter + 1
    /\ currentStart \in Nat /\ startNode <= currentStart
    /\ currentStart + (numPartitions - iter + 1) * partitionSize + remaining
          = endNode + 1
    /\ numPartitions <= endNode - startNode + 1 => partitionSize > 0

\* The ranges so far are in order and cover the ids below current_start.
RangeInv ==
    /\ \A j \in 1 .. (iter - 1) :
          /\ FirstOf(j) \in Nat /\ LastOf(j) \in Int
          /\ startNode <= FirstOf(j) /\ LastOf(j) < currentStart
    /\ \A n \in startNode .. (currentStart - 1) :
          \E j \in 1 .. (iter - 1) : FirstOf(j) <= n /\ n <= LastOf(j)
=============================================================================
