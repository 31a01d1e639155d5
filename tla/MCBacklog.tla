----------------------------- MODULE MCBacklog -----------------------------
(***************************************************************************)
(* The instance of BacklogSafety for TLC.                                  *)
(***************************************************************************)
EXTENDS BacklogSafety

CONSTANTS a, b

\* Two replicas, and each feature on its own: connections that are lost, the limit of
\* the output buffers, CONFIG SET, and PSYNC and shared BGSAVEs with a backlog that
\* does not get full.
Plain == [size |-> 2, sizes |-> {}, hardLimit |-> 0, failing |-> {}, diskless |-> TRUE,
          partial |-> FALSE]
Lossy == [Plain EXCEPT !.size = 3, !.failing = {a}]
Limited == [Plain EXCEPT !.failing = {a}, !.hardLimit = 5]
Configured == [Plain EXCEPT !.sizes = {4}]
Resuming == [Lossy EXCEPT !.size = 6, !.diskless = FALSE, !.partial = TRUE]
AnySettings == {Plain, Lossy, Limited, Configured, Resuming}

\* PSYNC with a backlog that gets full.
FullResuming == {[Lossy EXCEPT !.partial = TRUE]}
=============================================================================
