--------------------------- MODULE GraphProgress ---------------------------
(***************************************************************************)
(* The readiness rule on its own: a graph run in which every submit, every *)
(* record and every settle is one step, with no process between them.      *)
(* What does not hold here cannot hold of the scheduler, and what holds    *)
(* here is what the scheduler has to preserve under interleaving.          *)
(***************************************************************************)
EXTENDS Readiness

CONSTANTS
  Graphs,    \* the graphs to run
  MaxReruns  \* the bound of the reruns

ASSUME GraphsAssumption == \A g \in Graphs : IsGraph(g)

VARIABLES graph, run, recs, reruns
vars == <<graph, run, recs, reruns>>

State == NodeStates(graph, CurrentRecords(graph, run, recs))

Init ==
  /\ graph \in Graphs
  /\ run = [state |-> "active", settled |-> 0,
            expected |-> [n \in graph.nodes |-> 0]]
  /\ recs = [n \in graph.nodes |-> NoRecord(graph)]
  /\ reruns = 0

\* The task instance of n at its next rerun count, on the records seen,
\* terminates.
Recorded(n, seen, status) ==
  recs' = [recs EXCEPT ![n] = [status |-> status, rerun |-> NextRerun(recs, n),
                               basis |-> BasisFrom(graph, n, seen)]]

\* The records that were there when the nodes of S were read.
Seen(S) == [m \in graph.nodes |->
              IF m \in S THEN CurrentRecords(graph, run, recs)[m]
              ELSE NoRecord(graph)]

\* A ready node runs, on the records of today or, when more were written after
\* it was submitted, on the part of them that made it ready.
RunNode(n) ==
  /\ run.state = "active"
  /\ State[n] = "ready"
  /\ \E S \in SUBSET graph.nodes, status \in Terminal :
       IsReady(graph, n, Seen(S)) /\ Recorded(n, Seen(S), status)
  /\ UNCHANGED <<graph, run, reruns>>

SettleRun ==
  /\ run.state = "active"
  /\ SettledState(State) # "none"
  /\ run' = [run EXCEPT !.state = SettledState(State),
                        !.expected = RetainExpected(graph, run, recs)]
  /\ UNCHANGED <<graph, recs, reruns>>

\* A rerun of a node of the settled run, which its task instance ends.
RerunNode(n) ==
  /\ run.state # "active"
  /\ reruns < MaxReruns
  /\ recs[n].status # "absent"
  /\ LET reactivated == Reactivated(graph, run, recs, n)
         now == CurrentRecords(graph, reactivated, recs)
     IN /\ IsReady(graph, n, now)
        /\ run' = reactivated
        /\ \E status \in Terminal : Recorded(n, now, status)
  /\ reruns' = reruns + 1
  /\ UNCHANGED graph

Next ==
  \/ \E n \in graph.nodes : RunNode(n) \/ RerunNode(n)
  \/ SettleRun

Spec == Init /\ [][Next]_vars
FairSpec == Spec /\ WF_vars(SettleRun \/ \E n \in graph.nodes : RunNode(n))

-----------------------------------------------------------------------------
(* Properties *)

\* A run is never stuck: while no node is ready, every node is recorded or
\* blocked and the run settles.  node_states resolves every node, and no two
\* nodes wait for each other (readiness.rs, node_states and settled_state).
NeverStuck ==
  run.state = "active" =>
    (\E n \in graph.nodes : State[n] = "ready") \/ SettledState(State) # "none"

\* A blocked node stays blocked until a rerun changes a record, as the comment
\* on NodeState::Blocked says; a blocked node is never submitted too late.
BlockedIsFinal ==
  [][run.state = "active" =>
       \A n \in graph.nodes : State[n] = "blocked" => State'[n] = "blocked"]_vars

\* In a complete run every node with the all-succeeded rule ran on the present
\* outputs of its upstreams, whatever was rerun before, also after a rerun
\* that failed and was rerun itself (rerun_scope, is_current and the
\* expected_reruns that a settle retains).
OutputsAreFresh ==
  run.state = "complete" =>
    \A n \in graph.nodes :
      graph.rule[n] = "all_succeeded" =>
        recs[n].basis = BasisFrom(graph, n, recs)

\* A rerun of a complete run can complete again: when its task instance
\* succeeds, no node of the graph is left blocked.
RerunBlocksNothing ==
  [][/\ run.state = "complete" /\ run'.state = "active"
     /\ \A n \in graph.nodes : recs'[n] # recs[n] =>
                                 recs'[n].status = "succeeded"
     => \A n \in graph.nodes : State'[n] # "blocked"]_vars

\* A run settles when its task instances end.
EventuallySettles == run.state = "active" ~> run.state # "active"
=============================================================================
