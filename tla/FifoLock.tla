------------------------------ MODULE FifoLock ------------------------------
(***************************************************************************)
(* What a fair lock promises: threads line up, the first of the line has   *)
(* the lock, and only it leaves.                                           *)
(***************************************************************************)
EXTENDS Sequences

CONSTANT Threads

VARIABLE line

Init == line = <<>>

Request(t) ==
    /\ \A i \in DOMAIN line : line[i] # t
    /\ line' = Append(line, t)

Release == line # <<>> /\ line' = Tail(line)

Next == Release \/ \E t \in Threads : Request(t)

Spec == Init /\ [][Next]_line
=============================================================================
