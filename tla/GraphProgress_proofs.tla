------------------------ MODULE GraphProgress_proofs ------------------------
(***************************************************************************)
(* The readiness rule for every graph.  node_states assigns every node a   *)
(* state that satisfies its rule, because no nonempty set of nodes lies    *)
(* downstream of itself; the same argument, on the nodes that wait and on  *)
(* the blocked nodes that a step would free, shows that a run is never     *)
(* stuck and that a blocked node stays blocked.  What a rerun expects is   *)
(* closed under the downstreams with the all-succeeded rule, which keeps a *)
(* current record on the present outputs of its upstreams.                 *)
(***************************************************************************)
EXTENDS GraphProgress, TLAPS

-----------------------------------------------------------------------------
(* The states of the nodes satisfy their recursive definition *)

\* The state of n when the upstreams of n have the states s.
StateOf(g, r, n, s) ==
  IF r[n].status # "absent" THEN r[n].status
  ELSE IF IsReady(g, n, r) THEN "ready"
  ELSE IF CanBecomeReady(g, n, [u \in g.up[n] |-> s[u]])
    THEN "waiting" ELSE "blocked"

\* A set of nodes with all that is upstream of them, and the states f on it.
Closed(g, D) == D \in SUBSET g.nodes /\ \A n \in D : g.up[n] \subseteq D
Solves(g, r, D, f) == \A n \in D : f[n] = StateOf(g, r, n, f)

\* Two assignments agree where both are defined.
LEMMA StatesAgree ==
  ASSUME NEW g, IsGraph(g), NEW r, NEW D, NEW E, Closed(g, D), Closed(g, E),
         NEW f, NEW h, Solves(g, r, D, f), Solves(g, r, E, h)
  PROVE  \A n \in D \cap E : f[n] = h[n]
<1> DEFINE S == {n \in D \cap E : f[n] # h[n]}
<1> SUFFICES ASSUME S # {} PROVE FALSE
  OBVIOUS
<1>1. S \in SUBSET g.nodes
  BY DEF Closed
<1>2. PICK n \in S : g.up[n] \cap S = {}
  BY <1>1 DEF IsGraph
<1>3. \A u \in g.up[n] : f[u] = h[u]
  BY <1>2 DEF Closed
<1>4. [u \in g.up[n] |-> f[u]] = [u \in g.up[n] |-> h[u]]
  BY <1>3
<1>5. StateOf(g, r, n, f) = StateOf(g, r, n, h)
  BY <1>4 DEF StateOf
<1> QED
  BY <1>5 DEF Solves

LEMMA StatesExist ==
  ASSUME NEW g, IsGraph(g), NEW r
  PROVE  \E f : f = [n \in g.nodes |-> StateOf(g, r, n, f)]
<1> DEFINE Good(D) == Closed(g, D) /\ \E f : Solves(g, r, D, f)
           All == UNION {D \in SUBSET g.nodes : Good(D)}
           G == [n \in g.nodes |->
                   CHOOSE v : \E D, f : /\ Closed(g, D) /\ Solves(g, r, D, f)
                                        /\ n \in D /\ v = f[n]]
<1>1. \A D, f : Closed(g, D) /\ Solves(g, r, D, f) => \A n \in D : G[n] = f[n]
  <2> SUFFICES ASSUME NEW D, NEW f, Closed(g, D), Solves(g, r, D, f), NEW n \in D
               PROVE  G[n] = f[n]
    OBVIOUS
  <2>1. n \in g.nodes
    BY DEF Closed
  <2>2. PICK E, h : /\ Closed(g, E) /\ Solves(g, r, E, h)
                    /\ n \in E /\ G[n] = h[n]
    BY <2>1
  <2>3. f[n] = h[n]
    BY <2>2, StatesAgree
  <2> QED
    BY <2>2, <2>3
<1> HIDE DEF G
<1>2. Closed(g, All)
  BY DEF Closed
<1>3. Solves(g, r, All, G)
  <2> SUFFICES ASSUME NEW n \in All PROVE G[n] = StateOf(g, r, n, G)
    BY DEF Solves
  <2>1. PICK D, f : Closed(g, D) /\ Solves(g, r, D, f) /\ n \in D
    OBVIOUS
  <2>2. G[n] = f[n] /\ \A u \in g.up[n] : G[u] = f[u]
    BY <1>1, <2>1 DEF Closed
  <2>3. [u \in g.up[n] |-> G[u]] = [u \in g.up[n] |-> f[u]]
    BY <2>2
  <2>4. StateOf(g, r, n, G) = StateOf(g, r, n, f)
    BY <2>3 DEF StateOf
  <2> QED
    BY <2>1, <2>2, <2>4 DEF Solves
<1>4. ASSUME NEW n \in g.nodes, g.up[n] \subseteq All
      PROVE  n \in All
  <2> DEFINE D == All \cup {n}
             f == [m \in g.nodes |-> IF m \in All THEN G[m] ELSE StateOf(g, r, n, G)]
  <2>1. CASE n \in All
    BY <2>1
  <2>2. CASE n \notin All
    <3>1. Closed(g, D)
      BY <1>2, <1>4 DEF Closed
    <3>2. \A m \in D : StateOf(g, r, m, f) = StateOf(g, r, m, G)
      <4> SUFFICES ASSUME NEW m \in D
                   PROVE  StateOf(g, r, m, f) = StateOf(g, r, m, G)
        OBVIOUS
      <4>1. g.up[m] \subseteq All /\ All \subseteq g.nodes
        BY <1>2, <1>4 DEF Closed
      <4>2. \A u \in g.up[m] : f[u] = G[u]
        BY <4>1
      <4>3. [u \in g.up[m] |-> f[u]] = [u \in g.up[m] |-> G[u]]
        BY <4>2
      <4> HIDE DEF f, All, D
      <4> QED
        BY <4>3 DEF StateOf
    <3>3. \A m \in D : f[m] = StateOf(g, r, m, G)
      <4>1. All \subseteq g.nodes
        BY <1>2 DEF Closed
      <4> HIDE DEF All
      <4> QED
        BY <1>3, <1>4, <2>2, <4>1 DEF Solves
    <3>4. Solves(g, r, D, f)
      <4> HIDE DEF D, f
      <4> QED
        BY <3>2, <3>3 DEF Solves
    <3>5. Good(D)
      <4> HIDE DEF D, f
      <4> QED
        BY <3>1, <3>4
    <3> QED
      BY <3>5 DEF Closed
  <2> QED
    BY <2>1, <2>2
<1> HIDE DEF All
<1>5. All = g.nodes
  <2>1. All \subseteq g.nodes
    BY <1>2 DEF Closed
  <2>2. g.nodes \ All = {}
    <3> SUFFICES ASSUME g.nodes \ All # {} PROVE FALSE
      OBVIOUS
    <3>1. PICK n \in g.nodes \ All : g.up[n] \cap (g.nodes \ All) = {}
      BY DEF IsGraph
    <3>2. g.up[n] \subseteq All
      BY <3>1 DEF IsGraph
    <3> QED
      BY <1>4, <3>1, <3>2
  <2> QED
    BY <2>1, <2>2
<1>6. G = [n \in g.nodes |-> StateOf(g, r, n, G)]
  <2>1. \A n \in g.nodes : G[n] = StateOf(g, r, n, G)
    BY <1>3, <1>5 DEF Solves
  <2>2. G = [n \in g.nodes |-> G[n]]
    BY DEF G
  <2> QED
    BY <2>1, <2>2
<1> QED
  BY <1>6

\* Every node has the state that its rule gives it.
LEMMA StatesOfNodes ==
  ASSUME NEW g, IsGraph(g), NEW r
  PROVE  NodeStates(g, r) =
           [n \in g.nodes |-> StateOf(g, r, n, NodeStates(g, r))]
<1> DEFINE IsSolution(f) == f = [n \in g.nodes |-> StateOf(g, r, n, f)]
<1>1. NodeStates(g, r) = CHOOSE f : IsSolution(f)
  BY DEF NodeStates, StateOf
<1>2. \E f : IsSolution(f)
  BY StatesExist
<1>3. IsSolution(CHOOSE f : IsSolution(f))
  <2> HIDE DEF IsSolution
  <2> QED
    BY <1>2
<1> QED
  BY <1>1, <1>3

-----------------------------------------------------------------------------
(* Types *)

Record(g) == [status: Terminal \cup {"absent"}, rerun: Nat, basis: [g.nodes -> Nat]]

ProgressInv ==
  /\ IsGraph(graph)
  /\ run \in [state: RunStates, settled: Nat, expected: [graph.nodes -> Nat]]
  /\ recs \in [graph.nodes -> Record(graph)]

LEMMA CurrentTypes ==
  ASSUME NEW g, NEW c, NEW r \in [g.nodes -> Record(g)]
  PROVE  CurrentRecords(g, c, r) \in [g.nodes -> Record(g)]
<1> NoRecord(g) \in Record(g)
  BY DEF NoRecord, NoBasis, Record
<1> QED
  BY DEF CurrentRecords

\* What was seen is typed, and a record that was seen is the current one.
LEMMA SeenFacts ==
  ASSUME ProgressInv, NEW S
  PROVE  /\ Seen(S) \in [graph.nodes -> Record(graph)]
         /\ \A u \in graph.nodes : Seen(S)[u].status # "absent" =>
              Seen(S)[u] = CurrentRecords(graph, run, recs)[u]
<1>1. CurrentRecords(graph, run, recs) \in [graph.nodes -> Record(graph)]
  BY CurrentTypes DEF ProgressInv
<1>2. NoRecord(graph) \in Record(graph) /\ NoRecord(graph).status = "absent"
  BY DEF NoRecord, NoBasis, Record
<1> QED
  BY <1>1, <1>2 DEF Seen

LEMMA RecordedTypes ==
  ASSUME ProgressInv, NEW n \in graph.nodes, NEW status \in Terminal,
         NEW seen \in [graph.nodes -> Record(graph)], Recorded(n, seen, status)
  PROVE  recs' \in [graph.nodes -> Record(graph)]
<1>2. BasisFrom(graph, n, seen) \in [graph.nodes -> Nat]
  BY DEF BasisFrom, Record
<1>3. NextRerun(recs, n) \in Nat
  BY DEF ProgressInv, NextRerun, Record
<1>4. [status |-> status, rerun |-> NextRerun(recs, n),
       basis |-> BasisFrom(graph, n, seen)] \in Record(graph)
  BY <1>2, <1>3 DEF Record
<1> QED
  BY <1>4 DEF ProgressInv, Recorded

LEMMA InitTypes == Init => ProgressInv
<1> SUFFICES ASSUME Init PROVE ProgressInv
  OBVIOUS
<1>1. IsGraph(graph)
  BY GraphsAssumption DEF Init
<1>2. NoRecord(graph) \in Record(graph)
  BY DEF NoRecord, NoBasis, Record
<1> QED
  BY <1>1, <1>2 DEF Init, ProgressInv, RunStates

LEMMA SettledStateTypes == \A s : SettledState(s) \in {"none", "complete", "failed"}
  BY DEF SettledState

LEMMA StepTypes == ProgressInv /\ [Next]_vars => ProgressInv'
<1> SUFFICES ASSUME ProgressInv, [Next]_vars PROVE ProgressInv'
  OBVIOUS
<1>1. ASSUME NEW n \in graph.nodes, RunNode(n) PROVE ProgressInv'
  <2>1. PICK S \in SUBSET graph.nodes, status \in Terminal :
          Recorded(n, Seen(S), status)
    BY <1>1 DEF RunNode
  <2>2. recs' \in [graph.nodes -> Record(graph)]
    BY <2>1, SeenFacts, RecordedTypes
  <2> QED
    BY <1>1, <2>2 DEF RunNode, ProgressInv
<1>2. ASSUME NEW n \in graph.nodes, RerunNode(n) PROVE ProgressInv'
  <2> DEFINE c == Reactivated(graph, run, recs, n)
             now == CurrentRecords(graph, c, recs)
  <2>1. PICK status \in Terminal : Recorded(n, now, status)
    BY <1>2 DEF RerunNode
  <2>2. recs' \in [graph.nodes -> Record(graph)]
    <3>1. now \in [graph.nodes -> Record(graph)]
      BY CurrentTypes DEF ProgressInv
    <3> HIDE DEF now
    <3> QED
      BY <2>1, <3>1, RecordedTypes
  <2>3. c \in [state: RunStates, settled: Nat, expected: [graph.nodes -> Nat]]
    <3> DEFINE expects == /\ recs[n].status = "succeeded"
                          /\ IsCurrent(run, n, recs[n])
               expected == [m \in graph.nodes |->
                 IF expects /\ m \in RerunScope(graph, n) /\ recs[m].status # "absent"
                 THEN recs[m].rerun + 1 ELSE run.expected[m]]
    <3>1. expected \in [graph.nodes -> Nat]
      BY DEF ProgressInv, Record
    <3>2. c = [run EXCEPT !.state = "active", !.settled = 0, !.expected = expected]
      BY DEF Reactivated
    <3>3. \A e \in [graph.nodes -> Nat] :
            [run EXCEPT !.state = "active", !.settled = 0, !.expected = e]
              \in [state: RunStates, settled: Nat, expected: [graph.nodes -> Nat]]
      BY DEF ProgressInv, RunStates
    <3> QED
      BY <3>1, <3>2, <3>3
  <2> QED
    BY <1>2, <2>2, <2>3 DEF RerunNode, ProgressInv
<1>3. CASE SettleRun
  <2>1. SettledState(State) \in RunStates
    BY <1>3, SettledStateTypes DEF SettleRun, RunStates
  <2>2. RetainExpected(graph, run, recs) \in [graph.nodes -> Nat]
    BY DEF RetainExpected, ProgressInv, Record
  <2> QED
    BY <1>3, <2>1, <2>2 DEF SettleRun, ProgressInv
<1>4. CASE UNCHANGED vars
  BY <1>4 DEF vars, ProgressInv, Record
<1> QED
  BY <1>1, <1>2, <1>3, <1>4 DEF Next

LEMMA ProgressTypes == Spec => []ProgressInv
  BY InitTypes, StepTypes, PTL DEF Spec

-----------------------------------------------------------------------------
(* A run is never stuck *)

\* What a state says of the record and of the rule of its node.
LEMMA StatesOfRecords ==
  ASSUME NEW g, IsGraph(g), NEW r \in [g.nodes -> Record(g)],
         NEW n \in g.nodes
  PROVE  LET s == NodeStates(g, r)
         IN /\ s[n] \in Terminal \cup {"ready", "waiting", "blocked"}
            /\ s[n] \in Terminal <=> r[n].status # "absent"
            /\ s[n] \in Terminal => s[n] = r[n].status
            /\ s[n] = "waiting" => ~IsReady(g, n, r) /\ CanBecomeReady(g, n, s)
            /\ s[n] = "blocked" <=> /\ r[n].status = "absent"
                                    /\ ~IsReady(g, n, r)
                                    /\ ~CanBecomeReady(g, n, s)
<1> DEFINE s == NodeStates(g, r)
<1>1. s[n] = StateOf(g, r, n, s)
  BY StatesOfNodes
<1>2. r[n].status \in Terminal \cup {"absent"}
  BY DEF Record
<1>3. CanBecomeReady(g, n, [u \in g.up[n] |-> s[u]]) <=> CanBecomeReady(g, n, s)
  BY DEF CanBecomeReady
<1> HIDE DEF s
<1>4. s[n] = IF r[n].status # "absent" THEN r[n].status
             ELSE IF IsReady(g, n, r) THEN "ready"
             ELSE IF CanBecomeReady(g, n, s) THEN "waiting" ELSE "blocked"
  BY <1>1, <1>3 DEF StateOf
<1>5. /\ s[n] \in Terminal \cup {"ready", "waiting", "blocked"}
      /\ s[n] \in Terminal <=> r[n].status # "absent"
      /\ s[n] \in Terminal => s[n] = r[n].status
      /\ s[n] = "waiting" => ~IsReady(g, n, r) /\ CanBecomeReady(g, n, s)
      /\ s[n] = "blocked" <=> /\ r[n].status = "absent"
                              /\ ~IsReady(g, n, r)
                              /\ ~CanBecomeReady(g, n, s)
  BY <1>2, <1>4 DEF Terminal
<1> QED
  BY <1>5 DEF s

\* A node that waits for nothing but terminated and blocked nodes is ready.
LEMMA OpenHasReady ==
  ASSUME NEW g, IsGraph(g), NEW r \in [g.nodes -> Record(g)],
         \A n \in g.nodes : NodeStates(g, r)[n] # "ready"
  PROVE  \A n \in g.nodes : NodeStates(g, r)[n] # "waiting"
<1> DEFINE s == NodeStates(g, r)
           W == {n \in g.nodes : s[n] = "waiting"}
<1> SUFFICES ASSUME W # {} PROVE FALSE
  OBVIOUS
<1>1. PICK n \in W : g.up[n] \cap W = {}
  BY DEF IsGraph
<1>2. g.up[n] \subseteq g.nodes /\ g.rule[n] \in Rules
  BY DEF IsGraph
<1>3. \A u \in g.up[n] : /\ ~IsOpen(s[u])
                         /\ s[u] = "succeeded" => r[u].status = "succeeded"
                         /\ s[u] # "blocked" => r[u].status # "absent"
  BY <1>1, <1>2, StatesOfRecords DEF IsOpen, Terminal
<1>4. ~IsReady(g, n, r) /\ CanBecomeReady(g, n, s)
  BY StatesOfRecords
<1> HIDE DEF s
<1> QED
  BY <1>2, <1>3, <1>4 DEF IsReady, CanBecomeReady, Rules

\* A run of any graph is never stuck: while no node is ready, every node is
\* recorded or blocked and the run settles (readiness.rs, node_states and
\* settled_state).
THEOREM RunIsNeverStuck == Spec => []NeverStuck
<1>1. ProgressInv => NeverStuck
  <2> SUFFICES ASSUME ProgressInv, \A n \in graph.nodes : State[n] # "ready"
               PROVE  SettledState(State) # "none"
    BY DEF NeverStuck
  <2> DEFINE r == CurrentRecords(graph, run, recs)
  <2>1. IsGraph(graph) /\ r \in [graph.nodes -> Record(graph)]
    BY CurrentTypes DEF ProgressInv
  <2>2. \A n \in graph.nodes : State[n] # "waiting"
    BY <2>1, OpenHasReady DEF State
  <2>3. DOMAIN State = graph.nodes
    BY <2>1, StatesOfNodes DEF State
  <2> QED
    BY <2>2, <2>3 DEF SettledState, IsOpen
<1> QED
  BY <1>1, ProgressTypes, PTL

-----------------------------------------------------------------------------
(* A blocked node stays blocked *)

\* A record of one ready node frees no blocked node.
LEMMA RecordFreesNothing ==
  ASSUME NEW g, IsGraph(g),
         NEW r \in [g.nodes -> Record(g)], NEW q \in [g.nodes -> Record(g)],
         NEW m \in g.nodes, NodeStates(g, r)[m] = "ready",
         \A n \in g.nodes \ {m} : q[n] = r[n]
  PROVE  \A n \in g.nodes : NodeStates(g, r)[n] = "blocked"
                              => NodeStates(g, q)[n] = "blocked"
<1> DEFINE s == NodeStates(g, r)
           t == NodeStates(g, q)
           B == {n \in g.nodes : s[n] = "blocked" /\ t[n] # "blocked"}
<1> SUFFICES ASSUME B # {} PROVE FALSE
  OBVIOUS
<1>1. PICK n \in B : g.up[n] \cap B = {}
  BY DEF IsGraph
<1>2. g.up[n] \subseteq g.nodes /\ g.rule[n] \in Rules
  BY DEF IsGraph
<1>3. /\ r[n].status = "absent" /\ q[n].status = "absent"
      /\ ~IsReady(g, n, r) /\ ~CanBecomeReady(g, n, s)
  <2>1. n # m
    BY <1>1
  <2> QED
    BY <2>1, StatesOfRecords
<1>4. IsReady(g, n, q) \/ CanBecomeReady(g, n, t)
  BY <1>3, StatesOfRecords
\* The upstreams of n keep the states that block n.
<1>5. ASSUME NEW u \in g.up[n]
      PROVE  /\ s[u] \in Terminal \cup {"ready", "waiting", "blocked"}
             /\ s[u] \in Terminal => s[u] = r[u].status
             /\ s[u] \in Terminal => t[u] = s[u] /\ q[u].status = s[u]
             /\ s[u] = "blocked" => t[u] = "blocked" /\ q[u].status = "absent"
  <2>1. u \in g.nodes
    BY <1>2
  <2>2. /\ s[u] \in Terminal \cup {"ready", "waiting", "blocked"}
        /\ s[u] \in Terminal => s[u] = r[u].status /\ r[u].status # "absent"
    BY <2>1, StatesOfRecords
  <2>3. s[u] = "blocked" => t[u] = "blocked"
    BY <1>1, <2>1
  <2>4. t[u] = "blocked" => q[u].status = "absent"
    BY <2>1, StatesOfRecords
  <2>5. s[u] \in Terminal => q[u] = r[u]
    BY <2>1 DEF Terminal
  <2>6. q[u].status # "absent" => t[u] = q[u].status
    BY <2>1, StatesOfRecords
  <2> HIDE DEF s, t, B
  <2> QED
    BY <2>2, <2>3, <2>4, <2>5, <2>6
<1> HIDE DEF s, t, B
<1>6. CASE g.rule[n] = "all_succeeded"
  <2>1. PICK u \in g.up[n] : s[u] # "succeeded" /\ ~IsOpen(s[u])
    BY <1>3, <1>6 DEF CanBecomeReady
  <2>2. t[u] # "succeeded" /\ ~IsOpen(t[u]) /\ q[u].status # "succeeded"
    BY <1>5, <2>1 DEF IsOpen, Terminal
  <2> QED
    BY <1>4, <1>6, <2>2 DEF IsReady, CanBecomeReady
<1>7. CASE g.rule[n] = "all_done"
  <2>1. PICK u \in g.up[n] : s[u] = "blocked"
    BY <1>3, <1>7 DEF CanBecomeReady
  <2> QED
    BY <1>4, <1>5, <1>7, <2>1 DEF IsReady, CanBecomeReady
<1>8. CASE g.rule[n] = "one_failed"
  <2>1. \A u \in g.up[n] : ~IsOpen(s[u]) /\ r[u].status # "failed"
    BY <1>3, <1>8 DEF IsReady, CanBecomeReady
  <2>2. \A u \in g.up[n] : ~IsOpen(t[u]) /\ q[u].status # "failed"
    BY <1>5, <2>1 DEF IsOpen, Terminal
  <2> QED
    BY <1>4, <1>8, <2>2 DEF IsReady, CanBecomeReady
<1> QED
  BY <1>2, <1>6, <1>7, <1>8 DEF Rules

LEMMA StepKeepsBlocked ==
  ASSUME ProgressInv, ProgressInv', [Next]_vars, run.state = "active"
  PROVE  \A n \in graph.nodes : State[n] = "blocked" => State'[n] = "blocked"
<1> DEFINE r == CurrentRecords(graph, run, recs)
           q == CurrentRecords(graph, run', recs')
<1>1. graph' = graph
  BY DEF Next, RunNode, RerunNode, SettleRun, vars
<1>2. State = NodeStates(graph, r) /\ State' = NodeStates(graph, q)
  BY <1>1 DEF State
<1>3. /\ IsGraph(graph)
      /\ r \in [graph.nodes -> Record(graph)]
      /\ q \in [graph.nodes -> Record(graph)]
  BY <1>1, CurrentTypes DEF ProgressInv
<1>4. ASSUME NEW m \in graph.nodes, RunNode(m)
      PROVE  \A n \in graph.nodes : State[n] = "blocked" => State'[n] = "blocked"
  <2>1. run' = run /\ \A n \in graph.nodes \ {m} : recs'[n] = recs[n]
    BY <1>4 DEF RunNode, Recorded, ProgressInv
  <2>2. \A n \in graph.nodes \ {m} : q[n] = r[n]
    BY <2>1 DEF CurrentRecords, IsCurrent
  <2>3. NodeStates(graph, r)[m] = "ready"
    BY <1>2, <1>4 DEF RunNode
  <2> HIDE DEF r, q
  <2> QED
    BY <1>2, <1>3, <2>2, <2>3, RecordFreesNothing
<1>5. CASE SettleRun
  <2>1. /\ recs' = recs
        /\ run'.expected = RetainExpected(graph, run, recs)
    BY <1>5 DEF SettleRun, ProgressInv
  <2>2. \A n \in graph.nodes : IsCurrent(run', n, recs[n]) = IsCurrent(run, n, recs[n])
    BY <2>1 DEF IsCurrent, RetainExpected, ProgressInv, Record
  <2>3. q = r
    BY <2>1, <2>2 DEF CurrentRecords
  <2> QED
    BY <1>2, <2>3
<1>6. CASE UNCHANGED vars
  BY <1>6 DEF vars, State
<1>7. ASSUME NEW m \in graph.nodes PROVE ~RerunNode(m)
  BY DEF RerunNode
<1> QED
  BY <1>4, <1>5, <1>6, <1>7 DEF Next

\* In a run of any graph a blocked node stays blocked until a rerun changes a
\* record, as the comment on NodeState::Blocked says.
THEOREM BlockedNodesStay == Spec => BlockedIsFinal
<1>1. ProgressInv /\ ProgressInv' /\ [Next]_vars
        => [run.state = "active" =>
              \A n \in graph.nodes : State[n] = "blocked" => State'[n] = "blocked"]_vars
  BY StepKeepsBlocked
<1> QED
  BY <1>1, ProgressTypes, PTL DEF Spec, BlockedIsFinal

-----------------------------------------------------------------------------
(* The scope of a rerun *)

\* What a rerun of n runs again holds n, holds with a node every downstream
\* with the all-succeeded rule, and holds nothing else but such downstreams.
LEMMA ScopeFacts ==
  ASSUME NEW g, IsGraph(g), NEW n \in g.nodes
  PROVE  /\ n \in RerunScope(g, n)
         /\ \A m \in g.nodes : /\ g.rule[m] = "all_succeeded"
                               /\ g.up[m] \cap RerunScope(g, n) # {}
                               => m \in RerunScope(g, n)
         /\ \A m \in RerunScope(g, n) \ {n} : g.rule[m] = "all_succeeded"
<1> DEFINE IsClosed(S) ==
             \A m \in g.nodes :
               g.rule[m] = "all_succeeded" /\ g.up[m] \cap S # {} => m \in S
           scope == {m \in g.nodes :
                       \A S \in SUBSET g.nodes : n \in S /\ IsClosed(S) => m \in S}
<1>1. RerunScope(g, n) = scope
  BY DEF RerunScope
<1>2. IsClosed(scope)
  <2> SUFFICES ASSUME NEW m \in g.nodes, g.rule[m] = "all_succeeded",
                      NEW u \in g.up[m], u \in scope,
                      NEW S \in SUBSET g.nodes, n \in S, IsClosed(S)
               PROVE  m \in S
    OBVIOUS
  <2> QED
    OBVIOUS
<1>3. scope \subseteq {n} \cup {m \in g.nodes : g.rule[m] = "all_succeeded"}
  <2> DEFINE S == {n} \cup {m \in g.nodes : g.rule[m] = "all_succeeded"}
  <2>1. S \in SUBSET g.nodes /\ n \in S /\ IsClosed(S)
    OBVIOUS
  <2> QED
    BY <2>1
<1> QED
  BY <1>1, <1>2, <1>3

-----------------------------------------------------------------------------
(* A complete run is fresh *)

Now == CurrentRecords(graph, run, recs)

\* A current record of a node with the all-succeeded rule was made on the
\* present, succeeded and current records of its upstreams.
IsFresh(g, c, r, n) ==
  IsCurrent(c, n, r[n]) /\ r[n].status # "absent" =>
    \A u \in g.nodes :
      IF u \in g.up[n]
      THEN /\ r[u].status = "succeeded" /\ IsCurrent(c, u, r[u])
           /\ r[n].basis[u] = r[u].rerun + 1
      ELSE r[n].basis[u] = 0

FreshInv ==
  /\ ProgressInv
  /\ \A n \in graph.nodes : graph.rule[n] = "all_succeeded"
                              => IsFresh(graph, run, recs, n)
  /\ run.state = "complete" => \A n \in graph.nodes : Now[n].status = "succeeded"

LEMMA NoSelfLoop ==
  ASSUME NEW g, IsGraph(g), NEW n \in g.nodes
  PROVE  n \notin g.up[n]
<1>1. {n} \in SUBSET g.nodes /\ {n} # {}
  OBVIOUS
<1>2. PICK m \in {n} : g.up[m] \cap {n} = {}
  BY <1>1 DEF IsGraph
<1> QED
  BY <1>2

\* A record of a node m that is ready on what was seen of the records under
\* the run c keeps every node fresh, when no node downstream of m by the
\* all-succeeded rule has a current record.
LEMMA RecordKeepsFresh ==
  ASSUME ProgressInv, NEW m \in graph.nodes, NEW status \in Terminal,
         NEW c, c.expected \in [graph.nodes -> Nat],
         NEW seen, Recorded(m, seen, status), IsReady(graph, m, seen),
         \A u \in graph.nodes : seen[u].status # "absent" =>
           seen[u] = CurrentRecords(graph, c, recs)[u],
         NEW n \in graph.nodes, graph.rule[n] = "all_succeeded",
         n # m => IsFresh(graph, c, recs, n),
         m \in graph.up[n] =>
           recs[n].status = "absent" \/ ~IsCurrent(c, n, recs[n])
  PROVE  IsFresh(graph, c, recs', n)
<1>1. \A x \in graph.nodes \ {m} : recs'[x] = recs[x]
  BY DEF Recorded, ProgressInv
<1>2. graph.up[n] \subseteq graph.nodes
  BY DEF ProgressInv, IsGraph
<1>3. CASE n # m
  <2>1. CASE m \in graph.up[n]
    BY <1>1, <1>3, <2>1 DEF IsFresh, IsCurrent
  <2>2. CASE m \notin graph.up[n]
    BY <1>1, <1>2, <1>3, <2>2 DEF IsFresh, IsCurrent
  <2> QED
    BY <2>1, <2>2
<1>4. CASE n = m
  <2>1. n \notin graph.up[n]
    BY NoSelfLoop DEF ProgressInv
  <2>2. \A u \in graph.up[n] : seen[u].status = "succeeded"
    BY <1>4 DEF IsReady
  <2>3. \A u \in graph.up[n] : /\ recs[u].status = "succeeded"
                               /\ IsCurrent(c, u, recs[u])
                               /\ seen[u] = recs[u]
    <3> TAKE u \in graph.up[n]
    <3>1. u \in graph.nodes /\ seen[u].status = "succeeded"
      BY <1>2, <2>2
    <3>2. seen[u] = CurrentRecords(graph, c, recs)[u]
      BY <3>1
    <3> QED
      BY <3>1, <3>2 DEF CurrentRecords, NoRecord
  <2>4. recs'[n].basis = BasisFrom(graph, n, seen)
    BY <1>4 DEF Recorded, ProgressInv
  <2>5. \A u \in graph.nodes :
          recs'[n].basis[u] = IF u \in graph.up[n] THEN recs[u].rerun + 1 ELSE 0
    BY <2>3, <2>4 DEF BasisFrom
  <2>6. \A u \in graph.up[n] : recs'[u] = recs[u]
    BY <1>1, <1>2, <1>4, <2>1
  <2> QED
    BY <2>3, <2>5, <2>6 DEF IsFresh
<1> QED
  BY <1>3, <1>4

\* The run record of a rerun of m: what is fresh stays fresh, and every fresh
\* downstream of m with the all-succeeded rule is superseded.
LEMMA ReactivatedKeepsFresh ==
  ASSUME ProgressInv, NEW m \in graph.nodes, NEW n \in graph.nodes,
         graph.rule[n] = "all_succeeded", IsFresh(graph, run, recs, n)
  PROVE  LET c == Reactivated(graph, run, recs, m)
         IN /\ IsFresh(graph, c, recs, n)
            /\ m \in graph.up[n] =>
                 recs[n].status = "absent" \/ ~IsCurrent(c, n, recs[n])
<1> DEFINE c == Reactivated(graph, run, recs, m)
           expects == recs[m].status = "succeeded" /\ IsCurrent(run, m, recs[m])
<1>1. \A x \in graph.nodes :
        c.expected[x] = IF /\ expects /\ x \in RerunScope(graph, m)
                           /\ recs[x].status # "absent"
                        THEN recs[x].rerun + 1 ELSE run.expected[x]
  BY DEF Reactivated, ProgressInv
<1>2. \A x \in graph.nodes : recs[x].rerun \in Nat /\ run.expected[x] \in Nat
  BY DEF ProgressInv, Record
<1>3. graph.up[n] \subseteq graph.nodes
  BY DEF ProgressInv, IsGraph
<1> HIDE DEF c
<1>4. CASE expects /\ n \in RerunScope(graph, m)
  <2>1. recs[n].status = "absent" \/ ~IsCurrent(c, n, recs[n])
    BY <1>1, <1>2, <1>4 DEF IsCurrent
  <2> QED
    BY <2>1 DEF IsFresh, c
<1>5. CASE expects /\ n \notin RerunScope(graph, m)
  <2>1. /\ m \in RerunScope(graph, m)
        /\ \A u \in graph.up[n] : u \notin RerunScope(graph, m)
    BY <1>5, ScopeFacts DEF ProgressInv
  <2>2. c.expected[n] = run.expected[n]
    BY <1>1, <1>5
  <2>3. \A u \in graph.up[n] : c.expected[u] = run.expected[u]
    BY <1>1, <1>3, <2>1
  <2>4. IsFresh(graph, c, recs, n)
    BY <1>3, <2>2, <2>3 DEF IsFresh, IsCurrent
  <2> QED
    BY <2>1, <2>4 DEF c
<1>6. CASE ~expects
  <2>1. \A x \in graph.nodes : c.expected[x] = run.expected[x]
    BY <1>1, <1>6
  <2>2. IsFresh(graph, c, recs, n)
    BY <1>3, <2>1 DEF IsFresh, IsCurrent
  <2>3. m \in graph.up[n] =>
          recs[n].status = "absent" \/ ~IsCurrent(c, n, recs[n])
    BY <1>6, <2>1 DEF IsFresh, IsCurrent
  <2> QED
    BY <2>2, <2>3 DEF c
<1> QED
  BY <1>4, <1>5, <1>6

LEMMA SettleKeepsCurrent ==
  ASSUME ProgressInv, SettleRun
  PROVE  /\ graph' = graph /\ recs' = recs
         /\ \A n \in graph.nodes : IsCurrent(run', n, recs[n])
                                     <=> IsCurrent(run, n, recs[n])
         /\ Now' = Now
<1>1. /\ recs' = recs /\ graph' = graph
      /\ run'.expected = RetainExpected(graph, run, recs)
  BY DEF SettleRun, ProgressInv
<1>2. \A n \in graph.nodes : IsCurrent(run', n, recs[n]) <=> IsCurrent(run, n, recs[n])
  BY <1>1 DEF IsCurrent, RetainExpected, ProgressInv, Record
<1> QED
  BY <1>1, <1>2 DEF Now, CurrentRecords

LEMMA InitFresh == Init => FreshInv
<1> SUFFICES ASSUME Init PROVE FreshInv
  OBVIOUS
<1>1. \A n \in graph.nodes : recs[n].status = "absent"
  BY DEF Init, NoRecord
<1> QED
  BY <1>1, InitTypes DEF Init, FreshInv, IsFresh

LEMMA StepFresh == FreshInv /\ [Next]_vars => FreshInv'
<1> SUFFICES ASSUME FreshInv, [Next]_vars PROVE FreshInv'
  OBVIOUS
<1>1. ProgressInv /\ ProgressInv'
  BY StepTypes DEF FreshInv
<1>2. ASSUME NEW m \in graph.nodes, RunNode(m) PROVE FreshInv'
  <2>1. PICK S \in SUBSET graph.nodes, status \in Terminal :
          Recorded(m, Seen(S), status) /\ IsReady(graph, m, Seen(S))
    BY <1>2 DEF RunNode
  <2>2. Now[m].status = "absent"
    <3>1. Now \in [graph.nodes -> Record(graph)] /\ IsGraph(graph)
      BY <1>1, CurrentTypes DEF ProgressInv, Now
    <3>2. NodeStates(graph, Now)[m] = "ready"
      BY <1>2 DEF RunNode, State, Now
    <3> QED
      BY <3>1, <3>2, StatesOfRecords DEF Terminal
  <2>3. ASSUME NEW n \in graph.nodes, graph.rule[n] = "all_succeeded"
        PROVE  IsFresh(graph, run, recs', n)
    <3>1. IsFresh(graph, run, recs, n)
      BY <2>3 DEF FreshInv
    <3>2. ~(recs[m].status = "succeeded" /\ IsCurrent(run, m, recs[m]))
      BY <2>2 DEF Now, CurrentRecords
    <3>3. m \in graph.up[n] =>
            recs[n].status = "absent" \/ ~IsCurrent(run, n, recs[n])
      BY <3>1, <3>2 DEF IsFresh
    <3>4. run.expected \in [graph.nodes -> Nat]
      BY <1>1 DEF ProgressInv
    <3>5. \A u \in graph.nodes : Seen(S)[u].status # "absent" =>
            Seen(S)[u] = CurrentRecords(graph, run, recs)[u]
      BY <1>1, SeenFacts
    <3> QED
      BY <1>1, <2>1, <2>3, <3>1, <3>3, <3>4, <3>5, RecordKeepsFresh
  <2>4. run' = run /\ graph' = graph /\ run.state = "active"
    BY <1>2 DEF RunNode
  <2> QED
    BY <1>1, <2>3, <2>4 DEF FreshInv
<1>3. ASSUME NEW m \in graph.nodes, RerunNode(m) PROVE FreshInv'
  <2> DEFINE c == Reactivated(graph, run, recs, m)
             now == CurrentRecords(graph, c, recs)
  <2>1. PICK status \in Terminal : Recorded(m, now, status)
    BY <1>3 DEF RerunNode
  <2>2. run' = c /\ graph' = graph
    BY <1>3 DEF RerunNode
  <2>3. IsReady(graph, m, now)
    BY <1>3 DEF RerunNode
  <2>4. c.state = "active" /\ c.expected \in [graph.nodes -> Nat]
    <3>1. c.state = "active"
      BY DEF Reactivated, ProgressInv
    <3> QED
      BY <1>1, <2>2, <3>1 DEF ProgressInv
  <2>5. ASSUME NEW n \in graph.nodes, graph.rule[n] = "all_succeeded"
        PROVE  IsFresh(graph, c, recs', n)
    <3>1. IsFresh(graph, run, recs, n)
      BY <2>5 DEF FreshInv
    <3>2. /\ IsFresh(graph, c, recs, n)
          /\ m \in graph.up[n] =>
               recs[n].status = "absent" \/ ~IsCurrent(c, n, recs[n])
      BY <1>1, <2>5, <3>1, ReactivatedKeepsFresh
    <3> HIDE DEF c
    <3>3. \A u \in graph.nodes : now[u].status # "absent" =>
            now[u] = CurrentRecords(graph, c, recs)[u]
      OBVIOUS
    <3> HIDE DEF now
    <3> QED
      BY <1>1, <2>1, <2>3, <2>4, <2>5, <3>2, <3>3, RecordKeepsFresh
  <2> HIDE DEF c
  <2> QED
    BY <1>1, <2>2, <2>4, <2>5 DEF FreshInv
<1>4. CASE SettleRun
  <2>1. /\ graph' = graph /\ recs' = recs /\ Now' = Now
        /\ \A n \in graph.nodes : IsCurrent(run', n, recs[n])
                                    <=> IsCurrent(run, n, recs[n])
    BY <1>1, <1>4, SettleKeepsCurrent
  <2>2. graph.up \in [graph.nodes -> SUBSET graph.nodes]
    BY <1>1 DEF ProgressInv, IsGraph
  <2>3. \A n \in graph.nodes : IsFresh(graph, run, recs, n)
                                 => IsFresh(graph, run', recs', n)
    BY <2>1, <2>2 DEF IsFresh
  <2>4. ASSUME run'.state = "complete", NEW n \in graph.nodes
        PROVE  Now[n].status = "succeeded"
    <3>1. Now \in [graph.nodes -> Record(graph)] /\ IsGraph(graph)
      BY <1>1, CurrentTypes DEF ProgressInv, Now
    <3>2. SettledState(NodeStates(graph, Now)) = "complete"
      BY <1>1, <1>4, <2>4 DEF SettleRun, ProgressInv, State, Now
    <3>3. NodeStates(graph, Now)[n] = "succeeded"
      <4>1. DOMAIN NodeStates(graph, Now) = graph.nodes
        BY <3>1, StatesOfNodes
      <4> QED
        BY <3>2, <4>1 DEF SettledState
    <3> QED
      BY <3>1, <3>3, StatesOfRecords DEF Terminal
  <2> QED
    BY <1>1, <2>1, <2>3, <2>4 DEF FreshInv
<1>5. CASE UNCHANGED vars
  BY <1>5 DEF vars, FreshInv, ProgressInv, Record, IsFresh, Now
<1> QED
  BY <1>2, <1>3, <1>4, <1>5 DEF Next

LEMMA FreshHolds == Spec => []FreshInv
  BY InitFresh, StepFresh, PTL DEF Spec

\* In a complete run of any graph, after any reruns, every node with the
\* all-succeeded rule ran on the present outputs of its upstreams (rerun_scope,
\* is_current and the expected_reruns that a settle retains).
THEOREM CompleteRunIsFresh == Spec => []OutputsAreFresh
<1>1. FreshInv => OutputsAreFresh
  <2> SUFFICES ASSUME FreshInv, run.state = "complete", NEW n \in graph.nodes,
                      graph.rule[n] = "all_succeeded"
               PROVE  recs[n].basis = BasisFrom(graph, n, recs)
    BY DEF OutputsAreFresh
  <2>1. IsCurrent(run, n, recs[n]) /\ recs[n].status # "absent"
    BY DEF FreshInv, Now, CurrentRecords, NoRecord
  <2>2. \A u \in graph.nodes :
          recs[n].basis[u] = IF u \in graph.up[n] /\ recs[u].status # "absent"
                             THEN recs[u].rerun + 1 ELSE 0
    BY <2>1 DEF FreshInv, IsFresh
  <2>3. recs[n].basis \in [graph.nodes -> Nat]
    BY DEF FreshInv, ProgressInv, Record
  <2> QED
    BY <2>2, <2>3 DEF BasisFrom
<1> QED
  BY <1>1, FreshHolds, PTL

-----------------------------------------------------------------------------
(* A rerun blocks nothing *)

\* When every record is a success and every node without one has the
\* all-succeeded rule, no node is blocked.
LEMMA NothingBlocked ==
  ASSUME NEW g, IsGraph(g), NEW q \in [g.nodes -> Record(g)],
         \A n \in g.nodes : \/ q[n].status = "succeeded"
                            \/ /\ q[n].status = "absent"
                               /\ g.rule[n] = "all_succeeded"
  PROVE  \A n \in g.nodes : NodeStates(g, q)[n] # "blocked"
<1> DEFINE t == NodeStates(g, q)
           B == {n \in g.nodes : t[n] = "blocked"}
<1> SUFFICES ASSUME B # {} PROVE FALSE
  OBVIOUS
<1>1. PICK n \in B : g.up[n] \cap B = {}
  BY DEF IsGraph
<1>2. g.up[n] \subseteq g.nodes
  BY DEF IsGraph
<1>3. q[n].status = "absent" /\ ~CanBecomeReady(g, n, t)
  BY <1>1, StatesOfRecords
<1>4. ASSUME NEW u \in g.up[n] PROVE t[u] = "succeeded" \/ IsOpen(t[u])
  <2>1. u \in g.nodes /\ t[u] # "blocked"
    BY <1>1, <1>2
  <2>2. /\ t[u] \in Terminal \cup {"ready", "waiting", "blocked"}
        /\ t[u] \in Terminal => t[u] = q[u].status /\ q[u].status # "absent"
    BY <2>1, StatesOfRecords
  <2> HIDE DEF t, B
  <2> QED
    BY <2>1, <2>2 DEF IsOpen
<1> HIDE DEF t, B
<1>5. g.rule[n] = "all_succeeded"
  BY <1>1, <1>3 DEF B
<1> QED
  BY <1>3, <1>4, <1>5 DEF CanBecomeReady

LEMMA StepBlocksNothing ==
  ASSUME FreshInv, FreshInv', [Next]_vars,
         run.state = "complete", run'.state = "active",
         \A n \in graph.nodes : recs'[n] # recs[n] => recs'[n].status = "succeeded"
  PROVE  \A n \in graph.nodes : State'[n] # "blocked"
<1>1. PICK m \in graph.nodes : RerunNode(m)
  BY DEF Next, RunNode, SettleRun, vars
<1> DEFINE c == Reactivated(graph, run, recs, m)
           q == CurrentRecords(graph, run', recs')
<1>2. PICK status \in Terminal :
        Recorded(m, CurrentRecords(graph, c, recs), status)
  BY <1>1 DEF RerunNode
<1>3. run' = c /\ graph' = graph
  BY <1>1 DEF RerunNode
<1>4. \A n \in graph.nodes : /\ recs[n].status = "succeeded"
                             /\ IsCurrent(run, n, recs[n])
                             /\ recs[n].rerun \in Nat
  BY DEF FreshInv, Now, CurrentRecords, NoRecord, ProgressInv, Record
<1>5. \A n \in graph.nodes :
        run'.expected[n] = IF n \in RerunScope(graph, m)
                           THEN recs[n].rerun + 1 ELSE run.expected[n]
  BY <1>3, <1>4 DEF Reactivated, FreshInv, ProgressInv
<1>6. /\ m \in RerunScope(graph, m)
      /\ \A n \in RerunScope(graph, m) \ {m} : graph.rule[n] = "all_succeeded"
  BY ScopeFacts DEF FreshInv, ProgressInv
<1>7. /\ recs'[m].rerun = recs[m].rerun + 1
      /\ \A n \in graph.nodes \ {m} : recs'[n] = recs[n]
  BY <1>2, <1>4 DEF Recorded, NextRerun, FreshInv, ProgressInv
<1>8. recs'[m].status = "succeeded"
  BY <1>4, <1>7
<1>9. \A n \in graph.nodes : \/ q[n].status = "succeeded"
                             \/ /\ q[n].status = "absent"
                                /\ graph.rule[n] = "all_succeeded"
  <2> TAKE n \in graph.nodes
  <2>1. q[n] = IF recs'[n].rerun >= run'.expected[n] THEN recs'[n]
               ELSE NoRecord(graph)
    BY DEF CurrentRecords, IsCurrent
  <2>2. CASE n = m
    BY <1>4, <1>5, <1>6, <1>7, <1>8, <2>1, <2>2
  <2>3. CASE n # m /\ n \in RerunScope(graph, m)
    BY <1>4, <1>5, <1>6, <1>7, <2>1, <2>3 DEF NoRecord
  <2>4. CASE n # m /\ n \notin RerunScope(graph, m)
    BY <1>4, <1>5, <1>7, <2>1, <2>4 DEF IsCurrent
  <2> QED
    BY <2>2, <2>3, <2>4
<1>10. IsGraph(graph) /\ q \in [graph.nodes -> Record(graph)]
  BY <1>3, CurrentTypes DEF FreshInv, ProgressInv
<1>11. State' = NodeStates(graph, q)
  BY <1>3 DEF State
<1> HIDE DEF q
<1> QED
  BY <1>9, <1>10, <1>11, NothingBlocked

\* In any graph a rerun of a complete run can complete again: when its task
\* instance succeeds, no node is left blocked (readiness.rs, rerun_scope, which
\* takes in nodes with the all-succeeded rule only).
THEOREM RerunNeverBlocks == Spec => RerunBlocksNothing
<1>1. FreshInv /\ FreshInv' /\ [Next]_vars
        => [/\ run.state = "complete" /\ run'.state = "active"
            /\ \A n \in graph.nodes : recs'[n] # recs[n] =>
                                        recs'[n].status = "succeeded"
            => \A n \in graph.nodes : State'[n] # "blocked"]_vars
  BY StepBlocksNothing
<1> QED
  BY <1>1, FreshHolds, PTL DEF Spec, RerunBlocksNothing
=============================================================================
