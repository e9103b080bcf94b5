----------------------------- MODULE Readiness -----------------------------
(***************************************************************************)
(* The readiness rule of a graph run: the pure functions of readiness.rs   *)
(* (and unrecorded_run_id of task.rs) that every other component applies   *)
(* to the records it has read.                                             *)
(*                                                                         *)
(* A graph is a record g with                                              *)
(*   g.nodes  the nodes,                                                   *)
(*   g.up     the upstreams of a node,                                     *)
(*   g.rule   the trigger rule of a node,                                  *)
(*   g.pos    the position of a node in definition order.                  *)
(* The node records of a partition are a function r over g.nodes; a node   *)
(* without a record has the status "absent".  A rerun count that the run   *)
(* record does not list is 0, below which no record is.                    *)
(***************************************************************************)
EXTENDS Naturals, FiniteSets

Rules == {"all_succeeded", "all_done", "one_failed"}
Terminal == {"succeeded", "failed", "cancelled"}
RunStates == {"active", "cancelled", "complete", "failed"}

\* What Graph::build guarantees of a graph; no nonempty set of nodes lies
\* wholly downstream of itself, so the graph is acyclic.
IsGraph(g) ==
  /\ g.up \in [g.nodes -> SUBSET g.nodes]
  /\ g.rule \in [g.nodes -> Rules]
  /\ g.pos \in [g.nodes -> Nat]
  /\ \A m, n \in g.nodes : g.pos[m] = g.pos[n] => m = n
  /\ \A S \in SUBSET g.nodes : S # {} => \E n \in S : g.up[n] \cap S = {}

Downstreams(g, n) == {m \in g.nodes : n \in g.up[m]}
Roots(g) == {n \in g.nodes : g.up[n] = {}}

\* The first node of a set in definition order.
IsFirst(g, n, S) == n \in S /\ \A m \in S : g.pos[n] <= g.pos[m]

-----------------------------------------------------------------------------
(* Records *)

NoBasis(g) == [u \in g.nodes |-> 0]
NoRecord(g) == [status |-> "absent", rerun |-> 0, basis |-> NoBasis(g)]

\* A record at or past the rerun count that the run expects of its node.
IsCurrent(run, n, rec) == rec.rerun >= run.expected[n]

\* The records the run treats as current; a superseded one reads as absent.
CurrentRecords(g, run, r) ==
  [n \in g.nodes |-> IF IsCurrent(run, n, r[n]) THEN r[n] ELSE NoRecord(g)]

-----------------------------------------------------------------------------
(* Readiness *)

IsReady(g, n, r) ==
  \/ /\ g.rule[n] = "all_succeeded"
     /\ \A u \in g.up[n] : r[u].status = "succeeded"
  \/ /\ g.rule[n] = "all_done"
     /\ \A u \in g.up[n] : r[u].status # "absent"
  \/ /\ g.rule[n] = "one_failed"
     /\ \E u \in g.up[n] : r[u].status = "failed"

IsOpen(state) == state \in {"ready", "waiting"}

\* Mutant: one upstream that can succeed is enough.
CanBecomeReadyAnyUpstream(g, n, state) ==
  \/ /\ g.rule[n] = "all_succeeded"
     /\ \E u \in g.up[n] : state[u] = "succeeded" \/ IsOpen(state[u])
  \/ /\ g.rule[n] = "all_done"
     /\ \A u \in g.up[n] : state[u] # "blocked"
  \/ /\ g.rule[n] = "one_failed"
     /\ \E u \in g.up[n] : IsOpen(state[u])

\* Mutant: a waiting upstream counts as one that cannot terminate.
CanBecomeReadySoon(g, n, state) ==
  \/ /\ g.rule[n] = "all_succeeded"
     /\ \A u \in g.up[n] : state[u] \in {"succeeded", "ready"}
  \/ /\ g.rule[n] = "all_done"
     /\ \A u \in g.up[n] : state[u] \notin {"blocked", "waiting"}
  \/ /\ g.rule[n] = "one_failed"
     /\ \E u \in g.up[n] : state[u] = "ready"

\* Whether a record that follows for an open upstream can satisfy the rule of
\* n, which its present records do not satisfy; state gives the states of the
\* upstreams of n.
CanBecomeReady(g, n, state) ==
  \/ /\ g.rule[n] = "all_succeeded"
     /\ \A u \in g.up[n] : state[u] = "succeeded" \/ IsOpen(state[u])
  \/ /\ g.rule[n] = "all_done"
     /\ \A u \in g.up[n] : state[u] # "blocked"
  \/ /\ g.rule[n] = "one_failed"
     /\ \E u \in g.up[n] : IsOpen(state[u])

\* The state of every node.  The code resolves the nodes in passes over the
\* definition, a node once its upstreams are resolved.
NodeStates(g, r) ==
  LET state[n \in g.nodes] ==
        IF r[n].status # "absent" THEN r[n].status
        ELSE IF IsReady(g, n, r) THEN "ready"
        ELSE IF CanBecomeReady(g, n, [u \in g.up[n] |-> state[u]])
          THEN "waiting" ELSE "blocked"
  IN state

\* Mutant: a blocked node keeps the run open.
SettledStateUnlessBlocked(state) ==
  IF \E n \in DOMAIN state : state[n] \notin Terminal THEN "none"
  ELSE IF \A n \in DOMAIN state : state[n] = "succeeded" THEN "complete"
  ELSE "failed"

\* The final state of a run, or "none" while a node is ready or waiting.
SettledState(state) ==
  IF \E n \in DOMAIN state : IsOpen(state[n]) THEN "none"
  ELSE IF \A n \in DOMAIN state : state[n] = "succeeded" THEN "complete"
  ELSE "failed"

\* Mutant: the rule of a downstream node is not looked at.
RerunScopeEveryRule(g, n) ==
  LET IsClosed(S) == \A m \in g.nodes : g.up[m] \cap S # {} => m \in S
  IN {m \in g.nodes :
        \A S \in SUBSET g.nodes : n \in S /\ IsClosed(S) => m \in S}

\* The nodes a rerun of n runs again: n and every node downstream of it
\* through a node with the all-succeeded rule, the least set with n in which
\* the worklist of the code finds nothing to add.
RerunScope(g, n) ==
  LET IsClosed(S) ==
        \A m \in g.nodes :
          g.rule[m] = "all_succeeded" /\ g.up[m] \cap S # {} => m \in S
  IN {m \in g.nodes :
        \A S \in SUBSET g.nodes : n \in S /\ IsClosed(S) => m \in S}

\* The rerun count of the task instance of n without a current record, as a
\* set: empty after a current succeeded record.
UnrecordedRun(run, n, rec) ==
  IF rec.status = "absent" THEN {0}
  ELSE IF rec.status = "succeeded" /\ IsCurrent(run, n, rec) THEN {}
  ELSE {rec.rerun + 1}

-----------------------------------------------------------------------------
(* The run record of a rerun and of a settle *)

\* Mutant: the next count is expected of a node without a record too.
ReactivatedUnrecorded(g, run, r, n) ==
  LET expects == r[n].status = "succeeded" /\ IsCurrent(run, n, r[n])
  IN [run EXCEPT
        !.state = "active", !.settled = 0,
        !.expected = [m \in g.nodes |->
           IF expects /\ m \in RerunScope(g, n)
           THEN r[m].rerun + 1 ELSE run.expected[m]]]

\* Mutant: a rerun expects nothing.
ReactivatedAlone(g, run, r, n) == [run EXCEPT !.state = "active", !.settled = 0]

\* The active run record of a rerun of n.  After a succeeded current record it
\* expects the next count of every node of the rerun scope that has a record.
Reactivated(g, run, r, n) ==
  LET expects == r[n].status = "succeeded" /\ IsCurrent(run, n, r[n])
  IN [run EXCEPT
        !.state = "active", !.settled = 0,
        !.expected = [m \in g.nodes |->
           IF expects /\ m \in RerunScope(g, n) /\ r[m].status # "absent"
           THEN r[m].rerun + 1 ELSE run.expected[m]]]

RetainNothing(g, run, r) == [n \in g.nodes |-> 0]   \* mutant

\* The expected rerun counts that a settle retains: no record reached them.
RetainExpected(g, run, r) ==
  [n \in g.nodes |-> IF /\ r[n].status # "absent"
                        /\ r[n].rerun >= run.expected[n]
                     THEN 0 ELSE run.expected[n]]

\* The next rerun count of n.
NextRerun(r, n) == IF r[n].status = "absent" THEN 0 ELSE r[n].rerun + 1

\* The rerun counts of the outputs that the input of a task instance of n
\* includes: one more than the count, and 0 for an upstream without a record.
BasisFrom(g, n, r) ==
  [u \in g.nodes |-> IF u \in g.up[n] /\ r[u].status # "absent"
                     THEN r[u].rerun + 1 ELSE 0]
=============================================================================
