----------------------------- MODULE Completion -----------------------------
(***************************************************************************)
(* check_completion of master_run_code.sh beside the clients: the script   *)
(* starts the clients, empties the monitoring server, counts the reports   *)
(* of the clients there, and closes the servers when all have come in.     *)
(***************************************************************************)
EXTENDS ColorSafety

VARIABLE watch  \* "started": the clients have been started; "counting"; "closed"

watchVars == <<vars, watch>>

WatchInit == Init /\ watch = "started"

ClientStep(p) == Step(p) /\ UNCHANGED watch

\* keydb-cli flushall
Flush ==
    /\ watch = "started"
    /\ monitor' = [p \in Proc |-> Nil]
    /\ watch' = "counting"
    /\ UNCHANGED <<store, local, conn>>

\* Mutant: one report less is enough.
CompletedOneLess == Cardinality({p \in Proc : monitor[p] # Nil}) + 1 >= Cardinality(Proc)

\* Mutant: one report more is waited for.
CompletedOneMore == Cardinality({p \in Proc : monitor[p] # Nil}) = Cardinality(Proc) + 1

\* The keys that end in _status are as many as EXPECTED_CLIENTS.
Completed == Cardinality({p \in Proc : monitor[p] # Nil}) = Cardinality(Proc)

\* The iteration of the loop that finds all the reports, and close_servers.
Close ==
    /\ watch = "counting" /\ Completed
    /\ watch' = "closed"
    /\ UNCHANGED vars

WatchNext == (Next /\ UNCHANGED watch) \/ Flush \/ Close

\* The script and the clients go on.
WatchSpec ==
    /\ WatchInit /\ [][WatchNext]_watchVars
    /\ WF_watchVars(Flush) /\ WF_watchVars(Close)
    /\ \A p \in Proc : WF_watchVars(ClientStep(p))

-----------------------------------------------------------------------------
\* "All clients have completed coloring!": without failures the servers are closed
\* when every node is coloured and marked, every client has ended and no lock is
\* held, never before.
ClosedIsColored ==
    watch = "closed" =>
       /\ \A p \in Proc : Ended(p)
       /\ \A u \in Node : status[u] = 1 /\ u \in Colored
       /\ \A u \in Node : \A v \in Nbr[u] : flag[FlagKey(u, v)] # 1

\* Every node is in a partition.
Covered == \A u \in Node : \E p \in Proc : u \in First[p] .. Last[p]

\* The inductive invariant behind it, without failures: who has reported is at the
\* end of main, and the servers are closed after the last one.
WatchInv ==
    /\ IInv /\ FlagsOwned
    /\ \A p \in Proc :
          /\ conn[p]
          /\ monitor[p] # Nil \/ watch = "closed" => pc[p] = "done"
          /\ pc[p] = "done" => cur[p] > Last[p]

\* The script gets to its end, if no client has reported before the flushall, which
\* would erase that report.
Noticed ==
    [](watch = "started" => \A p \in Proc : monitor[p] = Nil) => <>(watch = "closed")
=============================================================================
