----------------------------- MODULE MCFastLock -----------------------------
(***************************************************************************)
(* FastLock for TLC, with its liveness.                                    *)
(***************************************************************************)
EXTENDS FastLock

\* A thread that asks for the lock gets it.
Granted == \A t \in Threads : pc[t] = "take" ~> pc[t] = "in"

\* fastlock_unlock returns: the loop of unlock_futex, which looks again as long as
\* the bit of the next ticket is set, ends, unless the thread it let in has passed
\* the lock on as well (then a later ticket may have the same bit).
Released ==
    \A t \in Threads : pc[t] = "pass" ~> (pc[t] = "out" \/ active # ticket[t])
=============================================================================
