----------------------- MODULE SchedulerTypes_proofs -----------------------
(***************************************************************************)
(* The type invariant of Scheduler, for every graph and every value of the *)
(* bounds.  It is not inductive alone: a settle writes a state only because*)
(* the snapshot it was planned on is settled, and the request worker       *)
(* acknowledges only a request that was sent.                              *)
(***************************************************************************)
EXTENDS Scheduler, TLAPS

\* A process that looks for active task instances has a settled snapshot.
SettlesSettled ==
  \A p \in Procs : proc[p].at = "check" =>
    SettledState(NodeStates(Graph, Current(proc[p]))) # "none"

\* The request worker is busy only with a request.
BusyWithRequest == proc[Requester].at # "idle" => acked < Len(requests)

TypeInv == TypeOK /\ SettlesSettled /\ BusyWithRequest

-----------------------------------------------------------------------------
(* The operators *)

LEMMA ProcsFacts ==
  /\ Requester \in Procs /\ Reconciler \in Procs /\ Trigger \in Procs
  /\ EventWorkers \subseteq Procs
  /\ Requester \notin EventWorkers /\ Requester # Reconciler
  /\ Requester # Trigger /\ Reconciler # Trigger
  /\ Advancers \subseteq Procs /\ Requester \notin Advancers
BY EventWorkersAssumption DEF Procs, Requester, Reconciler, Trigger, Advancers

LEMMA ConstantTypes ==
  /\ NoBasis(Graph) \in [Nodes -> Nat]
  /\ NoRecord(Graph) \in NodeRecord
  /\ NoRecords \in [Nodes -> NodeRecord]
  /\ NoRun \in RunRecord
  /\ NoAnswer \in Answer
  /\ Idle \in Local
  /\ PassIdle \in Pass
<1>1. NoBasis(Graph) \in [Nodes -> Nat]
  BY DEF NoBasis, Nodes
<1>2. NoRecord(Graph) \in NodeRecord
  BY <1>1 DEF NoRecord, NodeRecord
<1>3. NoRecords \in [Nodes -> NodeRecord]
  BY <1>2 DEF NoRecords
<1>4. NoRun \in RunRecord
  BY DEF NoRun, RunRecord
<1>5. NoAnswer \in Answer
  BY DEF NoAnswer, Answer
<1>6. Idle \in Local
  BY <1>3, <1>4 DEF Idle, Local, Phases
<1>7. PassIdle \in Pass
  BY <1>4, <1>5 DEF PassIdle, Pass, Entry
<1> QED
  BY <1>1, <1>2, <1>3, <1>4, <1>5, <1>6, <1>7

LEMMA CurrentType ==
  ASSUME NEW l \in Local
  PROVE  Current(l) \in [Nodes -> NodeRecord]
BY ConstantTypes DEF Current, CurrentRecords, IsCurrent, Local, Nodes

LEMMA BasisType ==
  ASSUME NEW n \in Nodes, NEW r \in [Nodes -> NodeRecord]
  PROVE  BasisFrom(Graph, n, r) \in [Nodes -> Nat]
BY DEF BasisFrom, NodeRecord, Nodes

LEMMA ReactivatedType ==
  ASSUME NEW r \in RunRecord, NEW s \in [Nodes -> NodeRecord], NEW n \in Nodes
  PROVE  Reactivated(Graph, r, s, n) \in RunRecord
<1> DEFINE expects == s[n].status = "succeeded" /\ IsCurrent(r, n, s[n])
           expected == [m \in Nodes |->
             IF expects /\ m \in RerunScope(Graph, n) /\ s[m].status # "absent"
             THEN s[m].rerun + 1 ELSE r.expected[m]]
<1>1. expected \in [Nodes -> Nat]
  BY DEF RunRecord, NodeRecord
<1>2. Reactivated(Graph, r, s, n) =
        [r EXCEPT !.state = "active", !.settled = 0, !.expected = expected]
  BY DEF Reactivated, Nodes
<1>3. \A e \in [Nodes -> Nat] :
        [r EXCEPT !.state = "active", !.settled = 0, !.expected = e] \in RunRecord
  BY DEF RunRecord, RunStates
<1> QED
  BY <1>1, <1>2, <1>3

LEMMA RetainType ==
  ASSUME NEW r \in RunRecord, NEW s \in [Nodes -> NodeRecord]
  PROVE  RetainExpected(Graph, r, s) \in [Nodes -> Nat]
BY DEF RetainExpected, RunRecord, Nodes

LEMMA NextRerunType ==
  ASSUME NEW s \in [Nodes -> NodeRecord], NEW n \in Nodes
  PROVE  NextRerun(s, n) \in Nat
BY DEF NextRerun, NodeRecord

LEMMA SettledStateValues ==
  ASSUME NEW state
  PROVE  SettledState(state) \in {"none", "complete", "failed"}
BY DEF SettledState

-----------------------------------------------------------------------------
(* The steps of one process *)

LEMMA Stepped ==
  ASSUME proc \in [Procs -> Local], NEW p \in Procs, NEW l \in Local,
         Step(p, l)
  PROVE  /\ proc' \in [Procs -> Local]
         /\ proc'[p] = l
         /\ \A q \in Procs : q # p => proc'[q] = proc[q]
BY DEF Step

\* What is left to show of a step that changes the local state of p to l.
LEMMA SteppedInv ==
  ASSUME TypeInv, NEW p \in Procs, NEW l \in Local, Step(p, l),
         l.at = "check" => SettledState(NodeStates(Graph, Current(l))) # "none",
         p = Requester /\ l.at # "idle" => acked' < Len(requests'),
         p # Requester => UNCHANGED <<acked, requests>>
  PROVE  /\ proc' \in [Procs -> Local]
         /\ SettlesSettled'
         /\ BusyWithRequest'
<1>1. /\ proc' \in [Procs -> Local]
      /\ proc'[p] = l
      /\ \A q \in Procs : q # p => proc'[q] = proc[q]
  BY Stepped DEF TypeInv, TypeOK
<1>2. SettlesSettled'
  <2> SUFFICES ASSUME NEW q \in Procs, proc'[q].at = "check"
               PROVE  SettledState(NodeStates(Graph, Current(proc'[q]))) # "none"
    BY DEF SettlesSettled
  <2>1. CASE q = p
    BY <2>1, <1>1
  <2>2. CASE q # p
    BY <2>2, <1>1 DEF TypeInv, SettlesSettled
  <2> QED
    BY <2>1, <2>2
<1>3. BusyWithRequest'
  <2>1. CASE p = Requester
    BY <2>1, <1>1 DEF BusyWithRequest
  <2>2. CASE p # Requester
    BY <2>2, <1>1, ProcsFacts DEF BusyWithRequest, TypeInv
  <2> QED
    BY <2>1, <2>2
<1> QED
  BY <1>1, <1>2, <1>3

\* A step that leaves every process alone.
LEMMA NoStepInv ==
  ASSUME TypeInv, UNCHANGED proc, acked' = acked, Len(requests') >= Len(requests),
         Len(requests) \in Nat, Len(requests') \in Nat
  PROVE  /\ proc' \in [Procs -> Local]
         /\ SettlesSettled'
         /\ BusyWithRequest'
<1>1. SettlesSettled'
  BY DEF TypeInv, SettlesSettled
<1>2. BusyWithRequest'
  BY DEF TypeInv, TypeOK, BusyWithRequest
<1> QED
  BY <1>1, <1>2 DEF TypeInv, TypeOK

LEMMA SubmitType ==
  ASSUME TypeOK, NEW n \in Nodes, NEW r \in Nat,
         NEW s \in [Nodes -> NodeRecord], SubmitNode(n, r, s)
  PROVE  active' \in SUBSET Instance
<1>1. BasisFrom(Graph, n, s) \in [Nodes -> Nat]
  BY BasisType
<1>2. [node |-> n, rerun |-> r, cancel |-> FALSE,
       basis |-> BasisFrom(Graph, n, s)] \in Instance
  BY <1>1 DEF Instance
<1> QED
  BY <1>2 DEF SubmitNode, TypeOK

LEMMA CancelType ==
  ASSUME TypeOK, NEW n \in Nodes, NEW r \in Nat, CancelInstance(n, r)
  PROVE  active' \in SUBSET Instance
<1>1. \A i \in Instance : [i EXCEPT !.cancel = TRUE] \in Instance
  BY DEF Instance
<1> QED
  BY <1>1 DEF CancelInstance, TypeOK

LEMMA UnrecordedType ==
  ASSUME NEW l \in Local, NEW n \in Nodes,
         NEW r \in UnrecordedRun(l.run, n, l.recs[n])
  PROVE  r \in Nat
BY DEF UnrecordedRun, Local, NodeRecord

-----------------------------------------------------------------------------
(* The actions of the event workers and the reconciler *)

LEMMA ReadingType ==
  ASSUME TypeOK, NEW then \in {"advance", "rerun", "cancel"},
         NEW job \in SUBSET InstanceId, NEW scope \in SUBSET Nodes
  PROVE  Reading(then, job, scope) \in Local
BY ConstantTypes DEF Reading, TypeOK, Local, Phases, Idle

LEMMA HandleEventTypes ==
  ASSUME TypeInv, NEW w \in EventWorkers, HandleEvent(w)
  PROVE  TypeInv'
<1>1. w \in Procs /\ w # Requester
  BY ProcsFacts
<1>2. PICK e \in events :
        Step(w, IF run.state = "active"
                THEN Reading("advance", {e}, Downstreams(Graph, e.node))
                ELSE [Idle EXCEPT !.at = "ack", !.job = {e}])
  BY DEF HandleEvent
<1>3. {e} \in SUBSET InstanceId
  BY DEF TypeInv, TypeOK
<1>4. Downstreams(Graph, e.node) \in SUBSET Nodes
  BY DEF Downstreams, Nodes
<1>5. Reading("advance", {e}, Downstreams(Graph, e.node)) \in Local
  BY <1>3, <1>4, ReadingType DEF TypeInv
<1>6. [Idle EXCEPT !.at = "ack", !.job = {e}] \in Local
  BY <1>3, ConstantTypes DEF Local, Phases
<1>7. UNCHANGED <<acked, requests>>
  BY DEF HandleEvent, requestVars
<1>8. Reading("advance", {e}, Downstreams(Graph, e.node)).at = "records"
  BY DEF Reading, Idle
<1>9. [Idle EXCEPT !.at = "ack", !.job = {e}].at = "ack"
  BY DEF Idle
<1> DEFINE l == IF run.state = "active"
                THEN Reading("advance", {e}, Downstreams(Graph, e.node))
                ELSE [Idle EXCEPT !.at = "ack", !.job = {e}]
<1>10. l \in Local /\ l.at # "check"
  BY <1>5, <1>6, <1>8, <1>9
<1> HIDE DEF l
<1>11. proc' \in [Procs -> Local] /\ SettlesSettled' /\ BusyWithRequest'
  BY <1>1, <1>2, <1>7, <1>10, SteppedInv DEF l
<1> QED
  BY <1>11 DEF HandleEvent, TypeInv, TypeOK, storeVars, poolVars, requestVars,
               countVars

LEMMA ReconcileTypes ==
  ASSUME TypeInv, Reconcile
  PROVE  TypeInv'
<1>1. PICK then \in {"advance", "cancel"}, scope \in SUBSET Nodes :
        Step(Reconciler, Reading(then, {}, scope))
  BY DEF Reconcile
<1>2. Reading(then, {}, scope) \in Local
  BY ReadingType DEF TypeInv
<1>3. Reading(then, {}, scope).at = "records"
  BY DEF Reading, Idle
<1>4. UNCHANGED <<acked, requests>>
  BY DEF Reconcile, requestVars
<1>5. proc' \in [Procs -> Local] /\ SettlesSettled' /\ BusyWithRequest'
  BY <1>1, <1>2, <1>3, <1>4, SteppedInv, ProcsFacts
<1> QED
  BY <1>5 DEF Reconcile, TypeInv, TypeOK, storeVars, poolVars, requestVars,
              countVars

LEMMA ReadRecordTypes ==
  ASSUME TypeInv, NEW p \in Procs, ReadRecord(p)
  PROVE  TypeInv'
<1>1. PICK n \in Nodes :
        Step(p, [proc[p] EXCEPT !.recs[n] = recs[n], !.todo = @ \ {n}])
  BY DEF ReadRecord
<1> DEFINE l == [proc[p] EXCEPT !.recs[n] = recs[n], !.todo = @ \ {n}]
<1>2. proc[p] \in Local
  BY DEF TypeInv, TypeOK
<1>3. [proc[p].recs EXCEPT ![n] = recs[n]] \in [Nodes -> NodeRecord]
  BY <1>2 DEF TypeInv, TypeOK, Local
<1>4. l \in Local /\ l.at = proc[p].at
  BY <1>2, <1>3 DEF Local
<1>5. proc[p].at = "records" /\ UNCHANGED <<acked, requests>>
  BY DEF ReadRecord, requestVars
<1> HIDE DEF l
<1>6. p = Requester => acked' < Len(requests')
  BY <1>5 DEF TypeInv, BusyWithRequest
<1>7. proc' \in [Procs -> Local] /\ SettlesSettled' /\ BusyWithRequest'
  BY <1>1, <1>4, <1>5, <1>6, SteppedInv DEF l
<1> QED
  BY <1>7 DEF ReadRecord, TypeInv, TypeOK, storeVars, poolVars, requestVars,
              countVars

\* A step of a process that is busy already and acknowledges nothing.
LEMMA BusyStepInv ==
  ASSUME TypeInv, NEW p \in Procs, NEW l \in Local, Step(p, l),
         proc[p].at # "idle", UNCHANGED <<acked, requests>>,
         l.at = "check" => SettledState(NodeStates(Graph, Current(l))) # "none"
  PROVE  /\ proc' \in [Procs -> Local]
         /\ SettlesSettled'
         /\ BusyWithRequest'
<1>1. p = Requester => acked' < Len(requests')
  BY DEF TypeInv, BusyWithRequest
<1> QED
  BY <1>1, SteppedInv

LEMMA PlanAdvanceTypes ==
  ASSUME TypeInv, NEW p \in Procs, PlanAdvance(p)
  PROVE  TypeInv'
<1> DEFINE state == NodeStates(Graph, Current(proc[p]))
           ready == {n \in proc[p].scope : state[n] = "ready"}
           submits == [proc[p] EXCEPT !.at = "submit", !.todo = ready]
           acks == [proc[p] EXCEPT !.at = "ack"]
           checks == [proc[p] EXCEPT !.at = "check", !.todo = Unrecorded(proc[p])]
           l == IF ready # {} THEN submits
                ELSE IF SettledState(state) = "none" THEN acks ELSE checks
<1>1. Step(p, l) /\ UNCHANGED <<acked, requests>> /\ proc[p].at # "idle"
  BY DEF PlanAdvance, HasRead, requestVars
<1>2. proc[p] \in Local
  BY DEF TypeInv, TypeOK
<1>3. ready \in SUBSET Nodes
  BY <1>2 DEF Local
<1>4. Unrecorded(proc[p]) \in SUBSET Nodes
  BY DEF Unrecorded
<1>5. submits \in Local /\ submits.at = "submit"
  <2> HIDE DEF ready
  <2> QED
    BY <1>2, <1>3 DEF Local, Phases
<1>6. acks \in Local /\ acks.at = "ack"
  BY <1>2 DEF Local, Phases
<1>7. checks \in Local /\ Current(checks) = Current(proc[p])
  <2>1. checks \in Local
    BY <1>2, <1>4 DEF Local, Phases
  <2>2. checks.run = proc[p].run /\ checks.recs = proc[p].recs
    BY <1>2 DEF Local
  <2> QED
    BY <2>1, <2>2 DEF Current
<1>8. l \in Local
      /\ (l.at = "check" => SettledState(NodeStates(Graph, Current(l))) # "none")
  <2> HIDE DEF submits, acks, checks
  <2> QED
    BY <1>5, <1>6, <1>7
<1> HIDE DEF l
<1>9. proc' \in [Procs -> Local] /\ SettlesSettled' /\ BusyWithRequest'
  BY <1>1, <1>8, BusyStepInv
<1> QED
  BY <1>9 DEF PlanAdvance, TypeInv, TypeOK, storeVars, poolVars, requestVars,
              countVars

LEMMA SubmitReadyTypes ==
  ASSUME TypeInv, NEW p \in Procs, SubmitReady(p)
  PROVE  TypeInv'
<1>1. PICK n \in Nodes :
        /\ SubmitNode(n, NextRerun(proc[p].recs, n), Current(proc[p]))
        /\ Step(p, [proc[p] EXCEPT
                      !.at = IF proc[p].todo = {n} THEN "ack" ELSE "submit",
                      !.todo = @ \ {n}])
  BY DEF SubmitReady
<1> DEFINE l == [proc[p] EXCEPT
                   !.at = IF proc[p].todo = {n} THEN "ack" ELSE "submit",
                   !.todo = @ \ {n}]
<1>2. proc[p] \in Local
  BY DEF TypeInv, TypeOK
<1>3. l \in Local /\ l.at # "check"
  BY <1>2 DEF Local, Phases
<1>4. proc[p].at # "idle" /\ UNCHANGED <<acked, requests>>
  BY DEF SubmitReady, requestVars
<1> HIDE DEF l
<1>5. proc' \in [Procs -> Local] /\ SettlesSettled' /\ BusyWithRequest'
  BY <1>1, <1>3, <1>4, BusyStepInv DEF l
<1>6. NextRerun(proc[p].recs, n) \in Nat
  BY <1>2, NextRerunType DEF Local
<1>7. active' \in SUBSET Instance
  BY <1>1, <1>2, <1>6, SubmitType, CurrentType DEF TypeInv
<1> QED
  BY <1>5, <1>7 DEF SubmitReady, TypeInv, TypeOK, storeVars, requestVars,
                    countVars

LEMMA CheckActiveTypes ==
  ASSUME TypeInv, NEW p \in Procs, CheckActive(p)
  PROVE  TypeInv'
<1>1. PICK n \in Nodes, busy \in BOOLEAN :
        Step(p, [proc[p] EXCEPT !.at = IF busy THEN "ack" ELSE "check",
                                !.todo = IF busy THEN {} ELSE @ \ {n}])
  BY DEF CheckActive
<1> DEFINE l == [proc[p] EXCEPT !.at = IF busy THEN "ack" ELSE "check",
                                !.todo = IF busy THEN {} ELSE @ \ {n}]
<1>2. proc[p] \in Local
  BY DEF TypeInv, TypeOK
<1>3. l \in Local /\ l.run = proc[p].run /\ l.recs = proc[p].recs
  BY <1>2 DEF Local, Phases
<1>4. proc[p].at = "check" /\ UNCHANGED <<acked, requests>>
  BY DEF CheckActive, requestVars
<1>5. SettledState(NodeStates(Graph, Current(l))) # "none"
  BY <1>3, <1>4 DEF TypeInv, SettlesSettled, Current
<1> HIDE DEF l
<1>6. proc' \in [Procs -> Local] /\ SettlesSettled' /\ BusyWithRequest'
  BY <1>1, <1>3, <1>4, <1>5, BusyStepInv DEF l
<1> QED
  BY <1>6 DEF CheckActive, TypeInv, TypeOK, storeVars, poolVars, requestVars,
              countVars

LEMMA CommitSettledType ==
  ASSUME TypeOK, NEW old \in RunRecord, NEW settled \in RunRecord,
         CommitSettled(old, settled)
  PROVE  run' \in RunRecord /\ expiry' \in SUBSET Entry
<1>1. [settled EXCEPT !.settled = now] \in RunRecord
  BY DEF TypeOK, RunRecord
<1>2. RunEntry(now) \in Entry
  BY DEF TypeOK, RunEntry, Entry
<1> QED
  BY <1>1, <1>2 DEF CommitSettled, TypeOK

LEMMA SettleTypes ==
  ASSUME TypeInv, NEW p \in Procs, Settle(p)
  PROVE  TypeInv'
<1> DEFINE state == SettledState(NodeStates(Graph, Current(proc[p])))
           retained == RetainExpected(Graph, proc[p].run, proc[p].recs)
           settled == [proc[p].run EXCEPT !.state = state, !.expected = retained]
           l == [proc[p] EXCEPT !.at = "ack"]
<1>1. CommitSettled(proc[p].run, settled) /\ Step(p, l)
  BY DEF Settle
<1>2. proc[p] \in Local
  BY DEF TypeInv, TypeOK
<1>3. state \in {"complete", "failed"}
  <2>1. SettledState(NodeStates(Graph, Current(proc[p]))) # "none"
    BY DEF Settle, TypeInv, SettlesSettled
  <2> QED
    BY <2>1, SettledStateValues
<1>4. retained \in [Nodes -> Nat]
  BY <1>2, RetainType DEF Local
<1>5. settled \in RunRecord
  <2> HIDE DEF state, retained
  <2> QED
    BY <1>2, <1>3, <1>4 DEF Local, RunRecord, RunStates
<1>6. run' \in RunRecord /\ expiry' \in SUBSET Entry
  <2> HIDE DEF settled
  <2> QED
    BY <1>1, <1>2, <1>5, CommitSettledType DEF TypeInv, Local
<1>7. l \in Local /\ l.at = "ack"
  BY <1>2 DEF Local, Phases
<1>8. proc' \in [Procs -> Local] /\ SettlesSettled' /\ BusyWithRequest'
  <2> HIDE DEF l
  <2>1. proc[p].at # "idle" /\ UNCHANGED <<acked, requests>>
    BY DEF Settle, requestVars
  <2> QED
    BY <1>1, <1>7, <2>1, BusyStepInv
<1> QED
  BY <1>6, <1>8 DEF Settle, TypeInv, TypeOK, poolVars, requestVars, countVars

LEMMA PlanCancelTypes ==
  ASSUME TypeInv, NEW p \in Procs, PlanCancel(p)
  PROVE  TypeInv'
<1> DEFINE l == [proc[p] EXCEPT !.at = "cancel", !.todo = Unrecorded(proc[p])]
<1>1. Step(p, l) /\ UNCHANGED <<acked, requests>> /\ proc[p].at # "idle"
  BY DEF PlanCancel, HasRead, requestVars
<1>2. Unrecorded(proc[p]) \in SUBSET Nodes
  BY DEF Unrecorded
<1>3. l \in Local /\ l.at = "cancel"
  BY <1>2 DEF TypeInv, TypeOK, Local, Phases
<1> HIDE DEF l
<1>4. proc' \in [Procs -> Local] /\ SettlesSettled' /\ BusyWithRequest'
  BY <1>1, <1>3, BusyStepInv
<1> QED
  BY <1>4 DEF PlanCancel, TypeInv, TypeOK, storeVars, poolVars, requestVars,
              countVars

LEMMA CancelUnrecordedTypes ==
  ASSUME TypeInv, NEW p \in Procs, CancelUnrecorded(p)
  PROVE  TypeInv'
<1>1. PICK n \in Nodes :
        /\ \E r \in UnrecordedRun(proc[p].run, n, proc[p].recs[n]) :
             CancelInstance(n, r)
        /\ Step(p, [proc[p] EXCEPT !.todo = @ \ {n}])
  BY DEF CancelUnrecorded
<1> DEFINE l == [proc[p] EXCEPT !.todo = @ \ {n}]
<1>2. proc[p] \in Local
  BY DEF TypeInv, TypeOK
<1>3. l \in Local /\ l.at = proc[p].at
  BY <1>2 DEF Local
<1>4. proc[p].at = "cancel" /\ UNCHANGED <<acked, requests>>
  BY DEF CancelUnrecorded, requestVars
<1> HIDE DEF l
<1>5. proc' \in [Procs -> Local] /\ SettlesSettled' /\ BusyWithRequest'
  BY <1>1, <1>3, <1>4, BusyStepInv DEF l
<1>6. active' \in SUBSET Instance
  BY <1>1, <1>2, UnrecordedType, CancelType DEF TypeInv
<1> QED
  BY <1>5, <1>6 DEF CancelUnrecorded, TypeInv, TypeOK, storeVars, requestVars,
                    countVars

LEMMA EndCancelTypes ==
  ASSUME TypeInv, NEW p \in Procs, EndCancel(p)
  PROVE  TypeInv'
<1> DEFINE l == [proc[p] EXCEPT
                   !.at = IF p = Requester THEN "answer" ELSE "ack",
                   !.outcome = IF p = Requester THEN "cancelled" ELSE @]
<1>1. Step(p, l) /\ UNCHANGED <<acked, requests>> /\ proc[p].at # "idle"
  BY DEF EndCancel, requestVars
<1>2. l \in Local /\ l.at # "check"
  BY DEF TypeInv, TypeOK, Local, Phases, Outcomes
<1> HIDE DEF l
<1>3. proc' \in [Procs -> Local] /\ SettlesSettled' /\ BusyWithRequest'
  BY <1>1, <1>2, BusyStepInv
<1> QED
  BY <1>3 DEF EndCancel, TypeInv, TypeOK, storeVars, poolVars, requestVars,
              countVars

\* A process returns to idle, with or without an acknowledgement.
LEMMA IdleInv ==
  ASSUME TypeInv, NEW p \in Procs, Step(p, Idle), proc[p].at # "idle",
         UNCHANGED requests,
         acked' = acked \/ (p = Requester /\ acked' = acked + 1)
  PROVE  /\ proc' \in [Procs -> Local]
         /\ SettlesSettled'
         /\ BusyWithRequest'
         /\ acked' \in 0..Len(requests')
<1>1. Idle \in Local /\ Idle.at = "idle"
  BY ConstantTypes DEF Idle
<1>2. proc' \in [Procs -> Local] /\ SettlesSettled' /\ BusyWithRequest'
  BY <1>1, SteppedInv
<1>3. acked' \in 0..Len(requests')
  <2>1. CASE acked' = acked
    BY <2>1 DEF TypeInv, TypeOK
  <2>2. CASE p = Requester /\ acked' = acked + 1
    <3>1. acked < Len(requests) /\ acked \in Nat /\ Len(requests) \in Nat
      BY <2>2 DEF TypeInv, TypeOK, BusyWithRequest
    <3> QED
      BY <2>2, <3>1
  <2> QED
    BY <2>1, <2>2
<1> QED
  BY <1>2, <1>3

LEMMA AckTypes ==
  ASSUME TypeInv, NEW p \in Procs, Ack(p)
  PROVE  TypeInv'
<1>1. /\ proc' \in [Procs -> Local] /\ SettlesSettled' /\ BusyWithRequest'
      /\ acked' \in 0..Len(requests')
  BY IdleInv DEF Ack
<1> QED
  BY <1>1 DEF Ack, TypeInv, TypeOK, storeVars, countVars

LEMMA FailTypes ==
  ASSUME TypeInv, NEW p \in Procs, Fail(p)
  PROVE  TypeInv'
<1>1. /\ proc' \in [Procs -> Local] /\ SettlesSettled' /\ BusyWithRequest'
      /\ acked' \in 0..Len(requests')
  BY IdleInv DEF Fail
<1>2. events' \in SUBSET InstanceId
  BY DEF Fail, TypeInv, TypeOK
<1> QED
  BY <1>1, <1>2 DEF Fail, TypeInv, TypeOK, storeVars

LEMMA AdvancerTypes ==
  ASSUME TypeInv, NEW p \in Procs, AdvancerStep(p)
  PROVE  TypeInv'
BY ReadRecordTypes, PlanAdvanceTypes, SubmitReadyTypes, CheckActiveTypes,
   SettleTypes, PlanCancelTypes, CancelUnrecordedTypes, EndCancelTypes,
   AckTypes DEF AdvancerStep

-----------------------------------------------------------------------------
(* The actions of the request worker and the triggers worker *)

LEMMA SendTypes ==
  ASSUME TypeInv, Send
  PROVE  TypeInv'
<1>1. PICK q \in Kinds : requests' = Append(requests, q)
  BY DEF Send
<1>2. requests \in Seq(Request) /\ q \in Request
  BY KindsAssumption DEF TypeInv, TypeOK
<1>3. requests' \in Seq(Request) /\ Len(requests') = Len(requests) + 1
  BY <1>1, <1>2
<1>4. acked' \in 0..Len(requests')
  BY <1>3, <1>2 DEF Send, TypeInv, TypeOK
<1>5. answers' \in [1..Len(requests') -> Answer]
  BY <1>3, <1>2, ConstantTypes DEF Send, TypeInv, TypeOK
<1>6. proc' \in [Procs -> Local] /\ SettlesSettled' /\ BusyWithRequest'
  BY <1>2, <1>3, NoStepInv DEF Send
<1> QED
  BY <1>3, <1>4, <1>5, <1>6 DEF Send, TypeInv, TypeOK, storeVars, poolVars,
                                countVars

\* The request worker takes a job: it gets busy with a request.
LEMMA TakeJobInv ==
  ASSUME TypeInv, NEW l \in Local, Step(Requester, l), l.at # "check",
         acked < Len(requests), UNCHANGED <<acked, requests>>
  PROVE  /\ proc' \in [Procs -> Local]
         /\ SettlesSettled'
         /\ BusyWithRequest'
BY SteppedInv, ProcsFacts

LEMMA SkipAnsweredTypes ==
  ASSUME TypeInv, SkipAnswered
  PROVE  TypeInv'
<1> DEFINE l == [Idle EXCEPT !.at = "ack"]
<1>1. l \in Local /\ l.at = "ack"
  BY ConstantTypes DEF Local, Phases
<1>2. Step(Requester, l) /\ acked < Len(requests) /\ UNCHANGED <<acked, requests>>
  BY DEF SkipAnswered, requestVars
<1> HIDE DEF l
<1>3. proc' \in [Procs -> Local] /\ SettlesSettled' /\ BusyWithRequest'
  BY <1>1, <1>2, TakeJobInv
<1> QED
  BY <1>3 DEF SkipAnswered, TypeInv, TypeOK, storeVars, poolVars, requestVars,
              countVars

LEMMA AnsweringType ==
  ASSUME TypeOK, NEW o \in Outcomes \cup {"none"}
  PROVE  Answering(o) \in Local /\ Answering(o).at = "answer"
BY ConstantTypes DEF Answering, TypeOK, Local, Phases

\* A start by the request worker or the triggers worker.
LEMMA StartRunTypes ==
  ASSUME TypeInv, NEW p \in {Requester, Trigger}, StartRun(p),
         p = Requester => acked < Len(requests), UNCHANGED <<acked, requests>>
  PROVE  /\ run' \in RunRecord
         /\ proc' \in [Procs -> Local]
         /\ SettlesSettled'
         /\ BusyWithRequest'
<1> DEFINE started == [Idle EXCEPT !.at = "roots", !.todo = Roots(Graph),
                                   !.outcome = "started", !.time = now]
           unchanged == [Answering("unchanged") EXCEPT
                           !.at = IF p = Requester THEN "answer" ELSE "ack"]
<1>1. Roots(Graph) \in SUBSET Nodes
  BY DEF Roots, Nodes
<1>2. started \in Local /\ started.at = "roots"
  BY <1>1, ConstantTypes DEF TypeInv, TypeOK, Local, Phases, Outcomes
<1>3. unchanged \in Local /\ unchanged.at \in {"answer", "ack"}
  <2>1. Answering("unchanged") \in Local
    BY AnsweringType DEF TypeInv, Outcomes
  <2> QED
    BY <2>1 DEF Local, Phases
<1>4. NewRun \in RunRecord
  BY DEF NewRun, RunRecord, RunStates, TypeInv, TypeOK
<1>5. PICK l \in {started, unchanged} : Step(p, l)
  BY DEF StartRun
<1>6. run' \in RunRecord
  BY <1>4 DEF StartRun, TypeInv, TypeOK
<1> HIDE DEF started, unchanged
<1>7. l \in Local /\ l.at # "check"
  BY <1>2, <1>3
<1>8. p = Requester => acked' < Len(requests')
  OBVIOUS
<1> QED
  BY <1>5, <1>6, <1>7, <1>8, SteppedInv, ProcsFacts

LEMMA HandleStartTypes ==
  ASSUME TypeInv, HandleStart
  PROVE  TypeInv'
<1>1. run' \in RunRecord /\ proc' \in [Procs -> Local]
      /\ SettlesSettled' /\ BusyWithRequest'
  BY StartRunTypes DEF HandleStart, IsNext, requestVars
<1> QED
  BY <1>1 DEF HandleStart, TypeInv, TypeOK, poolVars, requestVars, countVars

LEMMA HandleTriggerTypes ==
  ASSUME TypeInv, HandleTrigger
  PROVE  TypeInv'
<1>1. run' \in RunRecord /\ proc' \in [Procs -> Local]
      /\ SettlesSettled' /\ BusyWithRequest'
  BY StartRunTypes, ProcsFacts DEF HandleTrigger, requestVars
<1> QED
  BY <1>1 DEF HandleTrigger, TypeInv, TypeOK, poolVars, requestVars

LEMMA SubmitRootTypes ==
  ASSUME TypeInv, NEW p \in Procs, SubmitRoot(p)
  PROVE  TypeInv'
<1>1. PICK n \in Nodes :
        /\ SubmitNode(n, 0, NoRecords)
        /\ Step(p, [proc[p] EXCEPT
                      !.at = IF proc[p].todo # {n} THEN "roots"
                             ELSE IF p = Requester THEN "answer" ELSE "ack",
                      !.todo = @ \ {n}])
  BY DEF SubmitRoot
<1> DEFINE l == [proc[p] EXCEPT
                   !.at = IF proc[p].todo # {n} THEN "roots"
                          ELSE IF p = Requester THEN "answer" ELSE "ack",
                   !.todo = @ \ {n}]
<1>2. l \in Local /\ l.at # "check"
  BY DEF TypeInv, TypeOK, Local, Phases
<1>3. proc[p].at # "idle" /\ UNCHANGED <<acked, requests>>
  BY DEF SubmitRoot, requestVars
<1> HIDE DEF l
<1>4. proc' \in [Procs -> Local] /\ SettlesSettled' /\ BusyWithRequest'
  BY <1>1, <1>2, <1>3, BusyStepInv DEF l
<1>5. active' \in SUBSET Instance
  BY <1>1, SubmitType, ConstantTypes DEF TypeInv
<1> QED
  BY <1>4, <1>5 DEF SubmitRoot, TypeInv, TypeOK, storeVars, requestVars,
                    countVars

LEMMA HandleRerunTypes ==
  ASSUME TypeInv, HandleRerun
  PROVE  TypeInv'
<1> DEFINE reads == [Reading("rerun", {}, {requests[Job].node}) EXCEPT
                       !.time = now]
<1>1. requests[Job].node \in Nodes
  <2>1. /\ requests \in Seq(Request) /\ Len(requests) \in Nat
        /\ acked \in 0..Len(requests) /\ acked < Len(requests)
    BY DEF HandleRerun, IsNext, TypeInv, TypeOK
  <2>2. Job \in 1..Len(requests)
    BY <2>1 DEF Job
  <2>3. requests[Job] \in Request
    BY <2>1, <2>2
  <2> QED
    BY <2>3 DEF Request
<1>2. reads \in Local /\ reads.at = "records"
  <2>1. Reading("rerun", {}, {requests[Job].node}) \in Local
    BY <1>1, ReadingType DEF TypeInv
  <2>2. Reading("rerun", {}, {requests[Job].node}).at = "records"
    BY DEF Reading, Idle
  <2> QED
    BY <2>1, <2>2 DEF Local, TypeInv, TypeOK
<1>3. Answering("refused") \in Local /\ Answering("refused").at = "answer"
  BY AnsweringType DEF TypeInv, Outcomes
<1>4. acked < Len(requests) /\ UNCHANGED <<acked, requests>>
  BY DEF HandleRerun, IsNext, requestVars
<1>5. PICK l \in {reads, Answering("refused")} : Step(Requester, l)
  BY DEF HandleRerun
<1> HIDE DEF reads
<1>6. proc' \in [Procs -> Local] /\ SettlesSettled' /\ BusyWithRequest'
  BY <1>2, <1>3, <1>4, <1>5, TakeJobInv
<1> QED
  BY <1>6 DEF HandleRerun, TypeInv, TypeOK, storeVars, poolVars, requestVars,
              countVars

LEMMA PlanRerunTypes ==
  ASSUME TypeInv, PlanRerun
  PROVE  TypeInv'
<1> DEFINE local == proc[Requester]
           refuses == [local EXCEPT !.at = "answer", !.outcome = "refused"]
<1>1. PICK l \in {refuses, [local EXCEPT !.at = "resubmit"],
                  [local EXCEPT !.at = "swap"]} : Step(Requester, l)
  BY DEF PlanRerun
<1>2. l \in Local /\ l.at # "check"
  <2>1. local \in Local
    BY ProcsFacts DEF TypeInv, TypeOK
  <2> QED
    BY <2>1 DEF Local, Phases, Outcomes
<1>3. local.at # "idle" /\ UNCHANGED <<acked, requests>>
  BY DEF PlanRerun, HasRead, requestVars
<1>4. proc' \in [Procs -> Local] /\ SettlesSettled' /\ BusyWithRequest'
  BY <1>1, <1>2, <1>3, ProcsFacts, BusyStepInv
<1> QED
  BY <1>4 DEF PlanRerun, TypeInv, TypeOK, storeVars, poolVars, requestVars,
              countVars

LEMMA SwapRunTypes ==
  ASSUME TypeInv, SwapRun
  PROVE  TypeInv'
<1> DEFINE local == proc[Requester]
<1>1. local \in Local
  BY ProcsFacts DEF TypeInv, TypeOK
<1>2. PICK n \in local.scope :
        IF run = local.run
        THEN /\ run' = Reactivated(Graph, local.run, local.recs, n)
             /\ Step(Requester, [local EXCEPT !.at = "resubmit"])
        ELSE UNCHANGED run /\ Step(Requester, Idle)
  BY DEF SwapRun
<1>3. n \in Nodes
  BY <1>1 DEF Local
<1>4. run' \in RunRecord
  <2>1. local.run \in RunRecord /\ local.recs \in [Nodes -> NodeRecord]
    BY <1>1 DEF Local
  <2>2. Reactivated(Graph, local.run, local.recs, n) \in RunRecord
    BY <2>1, <1>3, ReactivatedType
  <2> QED
    BY <1>2, <2>2 DEF TypeInv, TypeOK
<1>5. PICK l \in {[local EXCEPT !.at = "resubmit"], Idle} : Step(Requester, l)
  BY <1>2
<1>6. l \in Local /\ l.at # "check"
  BY <1>1, ConstantTypes DEF Local, Phases, Idle
<1>7. local.at # "idle" /\ UNCHANGED <<acked, requests>>
  BY DEF SwapRun, requestVars
<1>8. proc' \in [Procs -> Local] /\ SettlesSettled' /\ BusyWithRequest'
  BY <1>5, <1>6, <1>7, ProcsFacts, BusyStepInv
<1> QED
  BY <1>4, <1>8 DEF SwapRun, TypeInv, TypeOK, poolVars, requestVars, countVars

LEMMA RecordType ==
  ASSUME TypeOK, NEW q, NEW o \in Outcomes \cup {"none"}, NEW t \in Nat,
         q \in 1..Len(requests), Record(q, o, t)
  PROVE  answers' \in [1..Len(requests) -> Answer] /\ expiry' \in SUBSET Entry
<1>1. [outcome |-> o, time |-> t] \in Answer
  BY DEF Answer
<1>2. RequestEntry(t, q) \in Entry
  BY DEF RequestEntry, Entry, TypeOK
<1> QED
  BY <1>1, <1>2 DEF Record, TypeOK

LEMMA JobFacts ==
  ASSUME TypeInv, proc[Requester].at # "idle"
  PROVE  Job \in 1..Len(requests)
BY DEF TypeInv, TypeOK, BusyWithRequest, Job

LEMMA ResubmitTypes ==
  ASSUME TypeInv, Resubmit
  PROVE  TypeInv'
<1> DEFINE local == proc[Requester]
           refuses == [local EXCEPT !.at = "answer", !.outcome = "refused"]
<1>1. local \in Local
  BY ProcsFacts DEF TypeInv, TypeOK
<1>2. PICK n \in local.scope :
        /\ SubmitNode(n, local.recs[n].rerun + 1,
             CurrentRecords(Graph, Reactivated(Graph, local.run, local.recs, n),
                            local.recs))
        /\ \/ /\ Record(Job, "rerun", local.time)
              /\ Step(Requester, [local EXCEPT !.at = "ack"])
           \/ /\ UNCHANGED <<answers, expiry>>
              /\ Step(Requester, refuses)
  BY DEF Resubmit
<1>3. n \in Nodes /\ local.recs[n].rerun + 1 \in Nat
  BY <1>1 DEF Local, NodeRecord
<1>4. CurrentRecords(Graph, Reactivated(Graph, local.run, local.recs, n),
                     local.recs) \in [Nodes -> NodeRecord]
  BY <1>1, ConstantTypes DEF CurrentRecords, Local, Nodes
<1>5. active' \in SUBSET Instance
  BY <1>2, <1>3, <1>4, SubmitType DEF TypeInv
<1>6. local.at # "idle" /\ UNCHANGED <<acked, requests>>
  BY DEF Resubmit
<1>7. answers' \in [1..Len(requests') -> Answer] /\ expiry' \in SUBSET Entry
  BY <1>1, <1>2, <1>6, JobFacts, RecordType
  DEF TypeInv, TypeOK, Outcomes, Local
<1>8. PICK l \in {[local EXCEPT !.at = "ack"], refuses} : Step(Requester, l)
  BY <1>2
<1>9. l \in Local /\ l.at # "check"
  BY <1>1 DEF Local, Phases, Outcomes
<1>10. proc' \in [Procs -> Local] /\ SettlesSettled' /\ BusyWithRequest'
  BY <1>6, <1>8, <1>9, ProcsFacts, BusyStepInv
<1> QED
  BY <1>5, <1>7, <1>10 DEF Resubmit, TypeInv, TypeOK, countVars

LEMMA HandleCancelTypes ==
  ASSUME TypeInv, HandleCancel
  PROVE  TypeInv'
<1> DEFINE writes == [Answering("none") EXCEPT !.at = "settleCancelled",
                                               !.run = run]
<1>1. PICK l \in {writes, Answering("refused")} : Step(Requester, l)
  BY DEF HandleCancel
<1>2. Answering("none") \in Local /\ Answering("refused") \in Local
      /\ Answering("refused").at = "answer"
  BY AnsweringType DEF TypeInv, Outcomes
<1>3. writes \in Local /\ writes.at = "settleCancelled"
  BY <1>2 DEF TypeInv, TypeOK, Local, Phases
<1>4. acked < Len(requests) /\ UNCHANGED <<acked, requests>>
  BY DEF HandleCancel, IsNext, requestVars
<1> HIDE DEF writes
<1>5. proc' \in [Procs -> Local] /\ SettlesSettled' /\ BusyWithRequest'
  BY <1>1, <1>2, <1>3, <1>4, TakeJobInv
<1> QED
  BY <1>5 DEF HandleCancel, TypeInv, TypeOK, storeVars, poolVars, requestVars,
              countVars

LEMMA SettleCancelledTypes ==
  ASSUME TypeInv, SettleCancelled
  PROVE  TypeInv'
<1> DEFINE local == proc[Requester]
           cancels == [local EXCEPT !.at = "records", !.then = "cancel",
                                    !.todo = Nodes]
           refuses == [local EXCEPT !.at = "answer", !.outcome = "refused"]
<1>1. local \in Local
  BY ProcsFacts DEF TypeInv, TypeOK
<1>2. [local.run EXCEPT !.state = "cancelled"] \in RunRecord
  BY <1>1 DEF Local, RunRecord, RunStates
<1>3. run' \in RunRecord /\ expiry' \in SUBSET Entry
  BY <1>1, <1>2, CommitSettledType DEF SettleCancelled, TypeInv, Local
<1>4. PICK l \in {cancels, refuses} : Step(Requester, l)
  BY DEF SettleCancelled
<1>5. l \in Local /\ l.at # "check"
  BY <1>1 DEF Local, Phases, Outcomes
<1>6. local.at # "idle" /\ UNCHANGED <<acked, requests>>
  BY DEF SettleCancelled, requestVars
<1>7. proc' \in [Procs -> Local] /\ SettlesSettled' /\ BusyWithRequest'
  BY <1>4, <1>5, <1>6, ProcsFacts, BusyStepInv
<1> QED
  BY <1>3, <1>7 DEF SettleCancelled, TypeInv, TypeOK, poolVars, requestVars,
                    countVars

LEMMA WriteAnswerTypes ==
  ASSUME TypeInv, WriteAnswer
  PROVE  TypeInv'
<1> DEFINE local == proc[Requester]
           l == [local EXCEPT !.at = "ack"]
<1>1. local \in Local
  BY ProcsFacts DEF TypeInv, TypeOK
<1>2. /\ Record(Job, local.outcome, local.time) /\ Step(Requester, l)
      /\ local.at # "idle" /\ UNCHANGED <<acked, requests>>
  BY DEF WriteAnswer
<1>3. answers' \in [1..Len(requests') -> Answer] /\ expiry' \in SUBSET Entry
  BY <1>1, <1>2, JobFacts, RecordType DEF TypeInv, Local
<1>4. l \in Local /\ l.at = "ack"
  BY <1>1 DEF Local, Phases
<1>5. proc' \in [Procs -> Local] /\ SettlesSettled' /\ BusyWithRequest'
  <2> HIDE DEF l
  <2> QED
    BY <1>2, <1>4, ProcsFacts, BusyStepInv
<1> QED
  BY <1>3, <1>5 DEF WriteAnswer, TypeInv, TypeOK, poolVars, countVars

LEMMA RequesterTypes ==
  ASSUME TypeInv, RequesterStep
  PROVE  TypeInv'
BY SkipAnsweredTypes, HandleStartTypes, SubmitRootTypes, HandleRerunTypes,
   ReadRecordTypes, PlanRerunTypes, SwapRunTypes, ResubmitTypes,
   HandleCancelTypes, SettleCancelledTypes, PlanCancelTypes,
   CancelUnrecordedTypes, EndCancelTypes, WriteAnswerTypes, AckTypes, ProcsFacts
DEF RequesterStep

-----------------------------------------------------------------------------
(* The pools, the retention pass and the clock *)

LEMMA TerminateTypes ==
  ASSUME TypeInv, NEW i \in active, NEW status \in Terminal,
         Terminate(i, status)
  PROVE  TypeInv'
<1>1. i \in Instance
  BY DEF TypeInv, TypeOK
<1>2. [status |-> status, rerun |-> i.rerun, basis |-> i.basis] \in NodeRecord
  BY <1>1 DEF Instance, NodeRecord
<1>3. [node |-> i.node, rerun |-> i.rerun] \in InstanceId
  BY <1>1 DEF Instance, InstanceId
<1>4. recs' \in [Nodes -> NodeRecord]
  BY <1>2 DEF Terminate, TypeInv, TypeOK
<1>5. proc' \in [Procs -> Local] /\ SettlesSettled' /\ BusyWithRequest'
  BY NoStepInv DEF Terminate, requestVars, TypeInv, TypeOK
<1> QED
  BY <1>3, <1>4, <1>5 DEF Terminate, TypeInv, TypeOK, requestVars, countVars

LEMMA PassTypes ==
  ASSUME TypeInv, PassStep
  PROVE  TypeInv'
<1>1. proc' \in [Procs -> Local] /\ SettlesSettled' /\ BusyWithRequest'
  <2>1. proc' = proc /\ acked' = acked /\ requests' = requests
    BY DEF PassStep, ExpireRun, ExpireRequest, DropEntry, RemoveRun,
           RemoveRequest, requestVars
  <2> QED
    BY <2>1, NoStepInv DEF TypeInv, TypeOK
<1>2. CASE ExpireRun
  <2>1. PICK e \in expiry :
          pass' = IF run.settled = e.time
                  THEN [PassIdle EXCEPT !.at = "removeRun", !.entry = e,
                                        !.run = run]
                  ELSE Stale(e)
    BY <1>2 DEF ExpireRun
  <2>2. e \in Entry /\ run \in RunRecord
    BY DEF TypeInv, TypeOK
  <2>3. pass' \in Pass
    BY <2>1, <2>2, ConstantTypes DEF Stale, Pass
  <2> QED
    BY <1>1, <1>2, <2>3 DEF ExpireRun, TypeInv, TypeOK, storeVars, poolVars,
                            requestVars, countVars
<1>3. CASE ExpireRequest
  <2>1. PICK e \in expiry :
          /\ e.request \in DOMAIN answers
          /\ \/ pass' = [PassIdle EXCEPT !.at = "removeRequest", !.entry = e,
                                         !.answer = answers[e.request]]
             \/ pass' = Stale(e)
    BY <1>3 DEF ExpireRequest
  <2>2. e \in Entry /\ answers[e.request] \in Answer
    BY <2>1 DEF TypeInv, TypeOK
  <2>3. pass' \in Pass
    BY <2>1, <2>2, ConstantTypes DEF Stale, Pass
  <2> QED
    BY <1>1, <1>3, <2>3 DEF ExpireRequest, TypeInv, TypeOK, storeVars,
                            poolVars, requestVars, countVars
<1>4. CASE DropEntry
  BY <1>1, <1>4, ConstantTypes DEF DropEntry, TypeInv, TypeOK, poolVars,
                                   requestVars, countVars
<1>5. CASE RemoveRun
  BY <1>1, <1>5, ConstantTypes DEF RemoveRun, TypeInv, TypeOK, storeVars,
                                   requestVars, countVars
<1>6. CASE RemoveRequest
  <2>1. answers' \in [1..Len(requests) -> Answer]
    BY <1>6, ConstantTypes DEF RemoveRequest, TypeInv, TypeOK
  <2> QED
    BY <1>1, <1>6, <2>1, ConstantTypes DEF RemoveRequest, TypeInv, TypeOK,
                                           poolVars, countVars
<1> QED
  BY <1>2, <1>3, <1>4, <1>5, <1>6 DEF PassStep

LEMMA FailPassTypes ==
  ASSUME TypeInv, FailPass
  PROVE  TypeInv'
<1>1. proc' \in [Procs -> Local] /\ SettlesSettled' /\ BusyWithRequest'
  BY NoStepInv DEF FailPass, requestVars, TypeInv, TypeOK
<1> QED
  BY <1>1, ConstantTypes DEF FailPass, TypeInv, TypeOK, storeVars, poolVars,
                             requestVars

LEMMA TickTypes ==
  ASSUME TypeInv, Tick
  PROVE  TypeInv'
<1>1. proc' \in [Procs -> Local] /\ SettlesSettled' /\ BusyWithRequest'
  BY NoStepInv DEF Tick, requestVars, TypeInv, TypeOK
<1> QED
  BY <1>1 DEF Tick, TypeInv, TypeOK, storeVars, poolVars, requestVars,
              countVars

-----------------------------------------------------------------------------
(* The type invariant *)

LEMMA InitTypes == Init => TypeInv
<1> SUFFICES ASSUME Init PROVE TypeInv
  OBVIOUS
<1>1. TypeOK
  BY ConstantTypes DEF Init, TypeOK
<1>2. SettlesSettled
  BY DEF Init, SettlesSettled, Idle
<1>3. BusyWithRequest
  BY ProcsFacts DEF Init, BusyWithRequest, Idle
<1> QED
  BY <1>1, <1>2, <1>3 DEF TypeInv

LEMMA StutterTypes ==
  ASSUME TypeInv, UNCHANGED vars
  PROVE  TypeInv'
BY DEF TypeInv, TypeOK, SettlesSettled, BusyWithRequest, vars, storeVars,
       poolVars, requestVars, countVars

LEMMA NextTypes ==
  ASSUME TypeInv, [Next]_vars
  PROVE  TypeInv'
<1>1. CASE Send
  BY <1>1, SendTypes
<1>2. CASE Terminates
  BY <1>2, TerminateTypes DEF Terminates
<1>3. CASE \E w \in EventWorkers : HandleEvent(w)
  BY <1>3, HandleEventTypes
<1>4. CASE Reconcile
  BY <1>4, ReconcileTypes
<1>5. CASE \E p \in Advancers : AdvancerStep(p)
  BY <1>5, AdvancerTypes, ProcsFacts
<1>6. CASE RequesterStep
  BY <1>6, RequesterTypes
<1>7. CASE TriggerStep
  BY <1>7, HandleTriggerTypes, SubmitRootTypes, AckTypes, ProcsFacts
  DEF TriggerStep
<1>8. CASE PassStep
  BY <1>8, PassTypes
<1>9. CASE \E p \in Procs : Fail(p)
  BY <1>9, FailTypes
<1>10. CASE FailPass
  BY <1>10, FailPassTypes
<1>11. CASE Tick
  BY <1>11, TickTypes
<1>12. CASE UNCHANGED vars
  BY <1>12, StutterTypes
<1> QED
  BY <1>1, <1>2, <1>3, <1>4, <1>5, <1>6, <1>7, <1>8, <1>9, <1>10, <1>11, <1>12
  DEF Next

\* TypeInv is an invariant of every run of the scheduler.
THEOREM TypeInvariant == Spec => []TypeInv
<1>1. TypeInv /\ [Next]_vars => TypeInv'
  BY NextTypes
<1> QED
  BY InitTypes, <1>1, PTL DEF Spec

\* Every variable keeps its type: with this, a settle never writes a state that
\* is none and the request worker never acknowledges a request that was not
\* sent (scheduler.rs, settle; request.rs).
THEOREM TypesHold == Spec => []TypeOK
<1>1. TypeInv => TypeOK
  BY DEF TypeInv
<1> QED
  BY TypeInvariant, <1>1, PTL
=============================================================================
