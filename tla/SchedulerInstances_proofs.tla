--------------------- MODULE SchedulerInstances_proofs ---------------------
(***************************************************************************)
(* The task instances and the records of a run: a node has one active task *)
(* instance at most, and it is the one after the node's record; a          *)
(* succeeded record that the run counts on is final; and a settled run is  *)
(* quiet.  A run with starts alone implements the sequential readiness     *)
(* rule of GraphProgress.  All hold for every graph, any number of event   *)
(* workers and failures, on conditions that each theorem states: the       *)
(* runtimes refuse the id of a terminated task instance, no node record is *)
(* removed meanwhile, and, for complete runs, no settle drops an expected  *)
(* count under a process that is about to settle on older records.         *)
(*                                                                         *)
(* The argument: NextRerun of a node only grows, so a snapshot gives a     *)
(* count that is the next one or an earlier one; an earlier one has        *)
(* terminated, and the runtime refuses it.  What a process remembers of a  *)
(* succeeded record is therefore the present record, or one that the run   *)
(* or the snapshot has been told to expect a successor of.                 *)
(***************************************************************************)
EXTENDS SchedulerLifecycle_proofs

\* A step that removes no node record.
RecordsStay ==
  \A n \in Nodes : recs[n].status # "absent" => recs'[n].status # "absent"

OneEach == \A i, j \in active : i.node = j.node => i = j
NextOnly == \A i \in active : i.rerun = NextRerun(recs, i.node)

\* No run expects more than the next count.
ExpectedBounded == \A n \in Nodes : run.expected[n] <= NextRerun(recs, n)

\* The pools know every earlier task instance of a node.
EarlierTerminated ==
  \A n \in Nodes, k \in Nat :
    k < NextRerun(recs, n) => [node |-> n, rerun |-> k] \in terminated

\* No snapshot is ahead of the records.
SnapshotsOlder ==
  \A p \in Procs, n \in Nodes :
    NextRerun(proc[p].recs, n) <= NextRerun(recs, n)

\* A rerun is of one node, and of a recorded one from its plan on.
Planned(l) ==
  /\ (l.at = "records" /\ l.then = "rerun") \/ l.at \in {"swap", "resubmit"} =>
       \E n \in Nodes : l.scope = {n}
  /\ l.at \in {"swap", "resubmit"} =>
       \A n \in l.scope : l.recs[n].status # "absent"

InstancesInv ==
  /\ TypeInv
  /\ OneEach /\ NextOnly
  /\ ExpectedBounded
  /\ EarlierTerminated
  /\ SnapshotsOlder
  /\ Planned(proc[Requester])

-----------------------------------------------------------------------------
(* Steps that leave the records, the run and the pools alone *)

LEMMA NoRecordsNext ==
  \A n \in Nodes : NextRerun(NoRecords, n) = 0
BY DEF NextRerun, NoRecords, NoRecord

LEMMA LocalFacts ==
  ASSUME TypeInv, NEW p \in Procs
  PROVE  /\ proc[p] \in Local
         /\ proc[p].recs \in [Nodes -> NodeRecord]
         /\ proc[p].scope \subseteq Nodes
         /\ recs \in [Nodes -> NodeRecord]
         /\ \A n \in Nodes : NextRerun(recs, n) \in Nat
         /\ \A n \in Nodes : NextRerun(proc[p].recs, n) \in Nat
BY NextRerunType DEF TypeInv, TypeOK, Local

\* The local part of the invariant after a step of p to l.
LEMMA SnapshotInv ==
  ASSUME InstancesInv, NEW p \in Procs, NEW l, Step(p, l), UNCHANGED recs,
         \A n \in Nodes : NextRerun(l.recs, n) <= NextRerun(recs, n),
         p = Requester => Planned(l)
  PROVE  SnapshotsOlder' /\ Planned(proc'[Requester])
<1>1. /\ proc'[p] = l
      /\ \A q \in Procs : q # p => proc'[q] = proc[q]
  BY DEF Step, InstancesInv, TypeInv, TypeOK
<1>2. SnapshotsOlder'
  <2> SUFFICES ASSUME NEW q \in Procs, NEW n \in Nodes
               PROVE  NextRerun(proc'[q].recs, n) <= NextRerun(recs, n)
    BY DEF SnapshotsOlder
  <2>1. CASE q = p
    BY <2>1, <1>1
  <2>2. CASE q # p
    BY <2>2, <1>1 DEF InstancesInv, SnapshotsOlder
  <2> QED
    BY <2>1, <2>2
<1>3. Planned(proc'[Requester])
  <2>1. CASE p = Requester
    BY <2>1, <1>1
  <2>2. CASE p # Requester
    BY <2>2, <1>1, ProcsFacts DEF InstancesInv
  <2> QED
    BY <2>1, <2>2
<1> QED
  BY <1>2, <1>3

\* A step of p to l that changes nothing but the local state, events, answers
\* and counts.
LEMMA QuietStep ==
  ASSUME InstancesInv, TypeInv', NEW p \in Procs, NEW l, Step(p, l),
         UNCHANGED <<run, recs, active, terminated>>,
         l.recs = proc[p].recs \/ l.recs = NoRecords,
         p = Requester => Planned(l)
  PROVE  InstancesInv'
<1>1. \A n \in Nodes : NextRerun(l.recs, n) <= NextRerun(recs, n)
  <2>1. CASE l.recs = proc[p].recs
    BY <2>1 DEF InstancesInv, SnapshotsOlder
  <2>2. CASE l.recs = NoRecords
    BY <2>2, NoRecordsNext, LocalFacts DEF InstancesInv
  <2> QED
    BY <2>1, <2>2
<1>2. SnapshotsOlder' /\ Planned(proc'[Requester])
  BY <1>1, SnapshotInv
<1>3. OneEach' /\ NextOnly' /\ ExpectedBounded' /\ EarlierTerminated'
  BY DEF InstancesInv, OneEach, NextOnly, ExpectedBounded, EarlierTerminated
<1> QED
  BY <1>2, <1>3 DEF InstancesInv

\* A step of no process that changes nothing of these.
LEMMA StillStep ==
  ASSUME InstancesInv, TypeInv', UNCHANGED <<run, recs, active, terminated, proc>>
  PROVE  InstancesInv'
BY DEF InstancesInv, OneEach, NextOnly, ExpectedBounded, EarlierTerminated,
       SnapshotsOlder, Planned

-----------------------------------------------------------------------------
(* The pools *)

\* A submit at the next count, or at an earlier one, which the pools refuse.
LEMMA SubmitInv ==
  ASSUME RefuseTerminated, InstancesInv, NEW n \in Nodes, NEW k \in Nat, NEW s,
         k <= NextRerun(recs, n), SubmitNode(n, k, s),
         UNCHANGED <<run, recs, terminated>>
  PROVE  OneEach' /\ NextOnly' /\ ExpectedBounded' /\ EarlierTerminated'
<1> DEFINE i0 == [node |-> n, rerun |-> k, cancel |-> FALSE,
                  basis |-> BasisFrom(Graph, n, s)]
<1>1. NextRerun(recs, n) \in Nat
  BY LocalFacts, ProcsFacts DEF InstancesInv
<1>2. IsNew(n, k) => k = NextRerun(recs, n)
  BY <1>1 DEF IsNew, InstancesInv, EarlierTerminated
<1>3. IsNew(n, k) => \A i \in active : i.node # n
  BY <1>2 DEF IsNew, IsActive, InstancesInv, NextOnly
<1>4. active' = active \/ (IsNew(n, k) /\ active' = active \cup {i0})
  BY DEF SubmitNode
<1>5. i0.node = n /\ i0.rerun = k
  OBVIOUS
<1> HIDE DEF i0
<1>6. OneEach'
  BY <1>3, <1>4, <1>5 DEF InstancesInv, OneEach
<1>7. NextOnly'
  BY <1>2, <1>4, <1>5 DEF InstancesInv, NextOnly
<1>8. ExpectedBounded' /\ EarlierTerminated'
  BY DEF InstancesInv, ExpectedBounded, EarlierTerminated
<1> QED
  BY <1>6, <1>7, <1>8

LEMMA CancelInv ==
  ASSUME InstancesInv, NEW n, NEW k, CancelInstance(n, k),
         UNCHANGED <<run, recs, terminated>>
  PROVE  OneEach' /\ NextOnly' /\ ExpectedBounded' /\ EarlierTerminated'
<1> DEFINE f(i) == IF i.node = n /\ i.rerun = k THEN [i EXCEPT !.cancel = TRUE]
                   ELSE i
<1>1. active' = {f(i) : i \in active}
  BY DEF CancelInstance
<1>2. \A i \in active : f(i).node = i.node /\ f(i).rerun = i.rerun
  BY DEF InstancesInv, TypeInv, TypeOK, Instance
<1> HIDE DEF f
<1>3. OneEach'
  BY <1>1, <1>2 DEF InstancesInv, OneEach
<1>4. NextOnly'
  BY <1>1, <1>2 DEF InstancesInv, NextOnly
<1>5. ExpectedBounded' /\ EarlierTerminated'
  BY DEF InstancesInv, ExpectedBounded, EarlierTerminated
<1> QED
  BY <1>3, <1>4, <1>5

LEMMA TerminateInv ==
  ASSUME InstancesInv, TypeInv', NEW i \in active, NEW status \in Terminal,
         Terminate(i, status)
  PROVE  InstancesInv'
<1> DEFINE n == i.node
<1>1. /\ i \in Instance /\ n \in Nodes /\ recs \in [Nodes -> NodeRecord]
      /\ i.rerun = NextRerun(recs, n) /\ i.rerun \in Nat
  BY DEF InstancesInv, TypeInv, TypeOK, Instance, NextOnly
<1>2. NextRerun(recs', n) = i.rerun + 1
  BY <1>1 DEF Terminate, NextRerun, Terminal
<1>3. \A m \in Nodes : m # n => NextRerun(recs', m) = NextRerun(recs, m)
  BY <1>1 DEF Terminate, NextRerun
<1>4. \A m \in Nodes : /\ NextRerun(recs, m) \in Nat
                       /\ NextRerun(recs', m) \in Nat
                       /\ NextRerun(recs, m) <= NextRerun(recs', m)
  <2>1. \A m \in Nodes : NextRerun(recs, m) \in Nat
    BY LocalFacts, ProcsFacts DEF InstancesInv
  <2> QED
    BY <2>1, <1>1, <1>2, <1>3
<1> HIDE DEF n
<1>5. OneEach'
  BY DEF Terminate, InstancesInv, OneEach
<1>6. NextOnly'
  <2> SUFFICES ASSUME NEW j \in active, j # i
               PROVE  j.rerun = NextRerun(recs', j.node)
    BY DEF NextOnly, Terminate
  <2>1. j.node # n /\ j.node \in Nodes
    BY DEF InstancesInv, OneEach, n, TypeInv, TypeOK, Instance
  <2> QED
    BY <2>1, <1>3 DEF InstancesInv, NextOnly
<1>7. ExpectedBounded'
  <2> SUFFICES ASSUME NEW m \in Nodes
               PROVE  run.expected[m] <= NextRerun(recs', m)
    BY DEF ExpectedBounded, Terminate
  <2>1. run.expected[m] \in Nat /\ run.expected[m] <= NextRerun(recs, m)
    BY DEF InstancesInv, ExpectedBounded, TypeInv, TypeOK, RunRecord
  <2> QED
    BY <2>1, <1>4
<1>8. EarlierTerminated'
  <2> SUFFICES ASSUME NEW m \in Nodes, NEW k \in Nat, k < NextRerun(recs', m)
               PROVE  [node |-> m, rerun |-> k] \in terminated'
    BY DEF EarlierTerminated
  <2>1. terminated' = terminated \cup {[node |-> n, rerun |-> i.rerun]}
    BY DEF Terminate, n
  <2>2. CASE k < NextRerun(recs, m)
    BY <2>1, <2>2 DEF InstancesInv, EarlierTerminated
  <2>3. CASE ~(k < NextRerun(recs, m))
    <3>1. m = n /\ k = i.rerun
      BY <2>3, <1>1, <1>2, <1>3, <1>4 DEF n
    <3> QED
      BY <2>1, <3>1
  <2> QED
    BY <2>2, <2>3
<1>9. SnapshotsOlder' /\ Planned(proc'[Requester])
  <2>1. \A p \in Procs, m \in Nodes : /\ NextRerun(proc[p].recs, m) \in Nat
                                      /\ NextRerun(proc[p].recs, m)
                                           <= NextRerun(recs, m)
    BY LocalFacts DEF InstancesInv, SnapshotsOlder
  <2>2. \A p \in Procs, m \in Nodes :
          NextRerun(proc[p].recs, m) <= NextRerun(recs', m)
    BY <2>1, <1>4
  <2> QED
    BY <2>2 DEF Terminate, InstancesInv, SnapshotsOlder
<1> QED
  BY <1>5, <1>6, <1>7, <1>8, <1>9 DEF InstancesInv

-----------------------------------------------------------------------------
(* The event workers and the reconciler *)

LEMMA AdvancerQuiet ==
  ASSUME InstancesInv, TypeInv', NEW p \in Procs,
         PlanAdvance(p) \/ CheckActive(p) \/ PlanCancel(p) \/ EndCancel(p)
         \/ Ack(p) \/ Fail(p)
  PROVE  InstancesInv'
<1>1. proc[p] \in Local
  BY LocalFacts DEF InstancesInv
<1>2. CASE PlanAdvance(p)
  <2>0. PICK at \in {"submit", "ack", "check"} : \E todo :
          \/ Step(p, [proc[p] EXCEPT !.at = at, !.todo = todo])
          \/ Step(p, [proc[p] EXCEPT !.at = at])
    BY <1>2 DEF PlanAdvance
  <2>1. PICK todo :
          \/ Step(p, [proc[p] EXCEPT !.at = at, !.todo = todo])
          \/ Step(p, [proc[p] EXCEPT !.at = at])
    BY <2>0
  <2>2. UNCHANGED <<run, recs, active, terminated>>
    BY <1>2 DEF PlanAdvance, storeVars, poolVars
  <2>3. CASE Step(p, [proc[p] EXCEPT !.at = at, !.todo = todo])
    BY <1>1, <2>2, <2>3, QuietStep DEF Planned, Local
  <2>4. CASE Step(p, [proc[p] EXCEPT !.at = at])
    BY <1>1, <2>2, <2>4, QuietStep DEF Planned, Local
  <2> QED
    BY <2>1, <2>3, <2>4
<1>3. CASE CheckActive(p)
  <2>0. PICK at \in {"ack", "check"} : \E todo :
          Step(p, [proc[p] EXCEPT !.at = at, !.todo = todo])
    BY <1>3 DEF CheckActive
  <2>1. PICK todo :
          Step(p, [proc[p] EXCEPT !.at = at, !.todo = todo])
    BY <2>0
  <2>2. UNCHANGED <<run, recs, active, terminated>>
    BY <1>3 DEF CheckActive, storeVars, poolVars
  <2> QED
    BY <1>1, <2>1, <2>2, QuietStep DEF Planned, Local
<1>4. CASE PlanCancel(p)
  <2>1. Step(p, [proc[p] EXCEPT !.at = "cancel", !.todo = Unrecorded(proc[p])])
    BY <1>4 DEF PlanCancel
  <2>2. UNCHANGED <<run, recs, active, terminated>>
    BY <1>4 DEF PlanCancel, storeVars, poolVars
  <2> QED
    BY <1>1, <2>1, <2>2, QuietStep DEF Planned, Local
<1>5. CASE EndCancel(p)
  <2>0. PICK at \in {"answer", "ack"} : \E o :
          Step(p, [proc[p] EXCEPT !.at = at, !.outcome = o])
    BY <1>5 DEF EndCancel
  <2>1. PICK o :
          Step(p, [proc[p] EXCEPT !.at = at, !.outcome = o])
    BY <2>0
  <2>2. UNCHANGED <<run, recs, active, terminated>>
    BY <1>5 DEF EndCancel, storeVars, poolVars
  <2> QED
    BY <1>1, <2>1, <2>2, QuietStep DEF Planned, Local
<1>6. CASE Ack(p) \/ Fail(p)
  <2>1. Step(p, Idle) /\ UNCHANGED <<run, recs, active, terminated>>
    BY <1>6 DEF Ack, Fail, storeVars
  <2>2. Idle.recs = NoRecords /\ Planned(Idle)
    BY DEF Idle, Planned
  <2> QED
    BY <2>1, <2>2, QuietStep
<1> QED
  BY <1>2, <1>3, <1>4, <1>5, <1>6

LEMMA HandleEventInv ==
  ASSUME InstancesInv, TypeInv', NEW w \in EventWorkers, HandleEvent(w)
  PROVE  InstancesInv'
<1>1. PICK e \in events :
        \/ Step(w, Reading("advance", {e}, Downstreams(Graph, e.node)))
        \/ Step(w, [Idle EXCEPT !.at = "ack", !.job = {e}])
  BY DEF HandleEvent
<1>2. /\ Reading("advance", {e}, Downstreams(Graph, e.node)).recs = NoRecords
      /\ [Idle EXCEPT !.at = "ack", !.job = {e}].recs = NoRecords
  BY DEF Reading, Idle
<1>3. UNCHANGED <<run, recs, active, terminated>>
  BY DEF HandleEvent, storeVars, poolVars
<1> QED
  BY <1>1, <1>2, <1>3, ProcsFacts, QuietStep

LEMMA ReconcileInv ==
  ASSUME InstancesInv, TypeInv', Reconcile
  PROVE  InstancesInv'
<1>1. PICK then, scope : Step(Reconciler, Reading(then, {}, scope))
  BY DEF Reconcile
<1>2. Reading(then, {}, scope).recs = NoRecords
  BY DEF Reading, Idle
<1>3. UNCHANGED <<run, recs, active, terminated>>
  BY DEF Reconcile, storeVars, poolVars
<1> QED
  BY <1>1, <1>2, <1>3, ProcsFacts, QuietStep

LEMMA ReadRecordInv ==
  ASSUME InstancesInv, TypeInv', NEW p \in Procs, ReadRecord(p)
  PROVE  InstancesInv'
<1>1. PICK n \in Nodes :
        Step(p, [proc[p] EXCEPT !.recs[n] = recs[n], !.todo = @ \ {n}])
  BY DEF ReadRecord
<1> DEFINE l == [proc[p] EXCEPT !.recs[n] = recs[n], !.todo = @ \ {n}]
<1>2. /\ proc[p] \in Local /\ proc[p].recs \in [Nodes -> NodeRecord]
      /\ recs \in [Nodes -> NodeRecord]
      /\ \A m \in Nodes : /\ NextRerun(recs, m) \in Nat
                          /\ NextRerun(proc[p].recs, m) <= NextRerun(recs, m)
  BY LocalFacts DEF InstancesInv, SnapshotsOlder
<1>3. /\ l.recs = [proc[p].recs EXCEPT ![n] = recs[n]]
      /\ l.at = proc[p].at /\ l.then = proc[p].then /\ l.scope = proc[p].scope
  BY <1>2 DEF Local
<1> HIDE DEF l
<1>4. \A m \in Nodes : NextRerun(l.recs, m) <= NextRerun(recs, m)
  BY <1>2, <1>3 DEF NextRerun
<1>5. p = Requester => Planned(l)
  BY <1>3 DEF Planned, ReadRecord, InstancesInv
<1>6. UNCHANGED <<run, recs, active, terminated>>
  BY DEF ReadRecord, storeVars, poolVars
<1>7. SnapshotsOlder' /\ Planned(proc'[Requester])
  BY <1>1, <1>4, <1>5, <1>6, SnapshotInv DEF l
<1>8. OneEach' /\ NextOnly' /\ ExpectedBounded' /\ EarlierTerminated'
  BY <1>6 DEF InstancesInv, OneEach, NextOnly, ExpectedBounded,
              EarlierTerminated
<1> QED
  BY <1>7, <1>8 DEF InstancesInv

LEMMA SubmitReadyInv ==
  ASSUME RefuseTerminated, InstancesInv, TypeInv', NEW p \in Procs,
         SubmitReady(p)
  PROVE  InstancesInv'
<1>1. PICK n \in Nodes, at \in {"ack", "submit"} :
        /\ SubmitNode(n, NextRerun(proc[p].recs, n), Current(proc[p]))
        /\ Step(p, [proc[p] EXCEPT !.at = at, !.todo = @ \ {n}])
  BY DEF SubmitReady
<1> DEFINE l == [proc[p] EXCEPT !.at = at, !.todo = @ \ {n}]
<1>2. /\ NextRerun(proc[p].recs, n) \in Nat
      /\ \A m \in Nodes : NextRerun(proc[p].recs, m) <= NextRerun(recs, m)
  BY LocalFacts DEF InstancesInv, SnapshotsOlder
<1>3. l.recs = proc[p].recs /\ Planned(l)
  BY LocalFacts DEF InstancesInv, Local, Planned
<1>4. UNCHANGED <<run, recs, terminated>>
  BY DEF SubmitReady, storeVars
<1> HIDE DEF l
<1>5. SnapshotsOlder' /\ Planned(proc'[Requester])
  BY <1>1, <1>2, <1>3, <1>4, SnapshotInv DEF l
<1>6. OneEach' /\ NextOnly' /\ ExpectedBounded' /\ EarlierTerminated'
  BY <1>1, <1>2, <1>4, SubmitInv
<1> QED
  BY <1>5, <1>6 DEF InstancesInv

LEMMA CancelUnrecordedInv ==
  ASSUME InstancesInv, TypeInv', NEW p \in Procs, CancelUnrecorded(p)
  PROVE  InstancesInv'
<1>1. PICK n, r :
          /\ n \in Nodes
          /\ CancelInstance(n, r)
          /\ Step(p, [proc[p] EXCEPT !.todo = @ \ {n}])
  BY DEF CancelUnrecorded
<1> DEFINE l == [proc[p] EXCEPT !.todo = @ \ {n}]
<1>2. l.recs = proc[p].recs /\ l.at = "cancel"
  BY LocalFacts DEF InstancesInv, Local, CancelUnrecorded
<1>3. UNCHANGED <<run, recs, terminated>>
  BY DEF CancelUnrecorded, storeVars
<1>4. Planned(l) /\ \A m \in Nodes : NextRerun(l.recs, m) <= NextRerun(recs, m)
  BY <1>2 DEF Planned, InstancesInv, SnapshotsOlder
<1> HIDE DEF l
<1>5. SnapshotsOlder' /\ Planned(proc'[Requester])
  BY <1>1, <1>3, <1>4, SnapshotInv DEF l
<1>6. OneEach' /\ NextOnly' /\ ExpectedBounded' /\ EarlierTerminated'
  BY <1>1, <1>3, CancelInv
<1> QED
  BY <1>5, <1>6 DEF InstancesInv

\* A write of the run record that expects no more than the records allow.
LEMMA RunWriteInv ==
  ASSUME InstancesInv, TypeInv', NEW p \in Procs, NEW l, Step(p, l),
         l.recs = proc[p].recs \/ l.recs = NoRecords,
         p = Requester => Planned(l),
         UNCHANGED <<recs, active, terminated>>,
         \A n \in Nodes : run'.expected[n] <= NextRerun(recs, n)
  PROVE  InstancesInv'
<1>1. \A n \in Nodes : NextRerun(l.recs, n) <= NextRerun(recs, n)
  <2>1. CASE l.recs = proc[p].recs
    BY <2>1 DEF InstancesInv, SnapshotsOlder
  <2>2. CASE l.recs = NoRecords
    BY <2>2, NoRecordsNext, LocalFacts DEF InstancesInv
  <2> QED
    BY <2>1, <2>2
<1>2. SnapshotsOlder' /\ Planned(proc'[Requester])
  BY <1>1, SnapshotInv
<1>3. OneEach' /\ NextOnly' /\ ExpectedBounded' /\ EarlierTerminated'
  BY DEF InstancesInv, OneEach, NextOnly, ExpectedBounded, EarlierTerminated
<1> QED
  BY <1>2, <1>3 DEF InstancesInv

LEMMA SettleInv ==
  ASSUME InstancesInv, TypeInv', NEW p \in Procs, Settle(p)
  PROVE  InstancesInv'
<1> DEFINE local == proc[p]
           state == SettledState(NodeStates(Graph, Current(local)))
           retained == RetainExpected(Graph, local.run, local.recs)
           settled == [local.run EXCEPT !.state = state, !.expected = retained]
<1>1. local \in Local /\ local.run \in RunRecord
  BY LocalFacts DEF InstancesInv, Local
<1>2. \A n \in Nodes : retained[n] = 0 \/ retained[n] = local.run.expected[n]
  BY DEF RetainExpected, Nodes
<1>3. settled.expected = retained
  BY <1>1 DEF RunRecord
<1>4. CommitSettled(local.run, settled)
  BY DEF Settle
<1>5. settled \in [state : {state}, requested : Nat, settled : Nat,
                   expected : {retained}]
  BY <1>1 DEF RunRecord
<1> HIDE DEF settled, retained, state
<1>6. run' = run \/ (run = local.run /\ run'.expected = retained)
  BY <1>3, <1>4, <1>5 DEF CommitSettled
<1>7. \A n \in Nodes : run'.expected[n] <= NextRerun(recs, n)
  <2> SUFFICES ASSUME NEW n \in Nodes
               PROVE  run'.expected[n] <= NextRerun(recs, n)
    OBVIOUS
  <2>1. run.expected[n] <= NextRerun(recs, n) /\ NextRerun(recs, n) \in Nat
    BY LocalFacts DEF InstancesInv, ExpectedBounded
  <2> QED
    BY <2>1, <1>2, <1>6
<1>8. Step(p, [local EXCEPT !.at = "ack"]) /\ UNCHANGED <<recs, active, terminated>>
  BY DEF Settle, poolVars
<1>9. [local EXCEPT !.at = "ack"].recs = local.recs
      /\ Planned([local EXCEPT !.at = "ack"])
  BY <1>1 DEF Local, Planned
<1> QED
  BY <1>7, <1>8, <1>9, RunWriteInv

LEMMA AdvancerInv ==
  ASSUME RefuseTerminated, InstancesInv, TypeInv', NEW p \in Procs,
         AdvancerStep(p)
  PROVE  InstancesInv'
BY AdvancerQuiet, ReadRecordInv, SubmitReadyInv, CancelUnrecordedInv, SettleInv
DEF AdvancerStep

-----------------------------------------------------------------------------
(* The request worker and the triggers worker *)

LEMMA StartInv ==
  ASSUME InstancesInv, TypeInv', NEW p \in {Requester, Trigger}, StartRun(p),
         UNCHANGED <<recs, active, terminated>>
  PROVE  InstancesInv'
<1> DEFINE started == [Idle EXCEPT !.at = "roots", !.todo = Roots(Graph),
                                   !.outcome = "started", !.time = now]
           unchanged == [Answering("unchanged") EXCEPT
                           !.at = IF p = Requester THEN "answer" ELSE "ack"]
<1>1. started.recs = NoRecords /\ Planned(started)
  BY DEF Idle, Planned
<1>2. unchanged.recs = NoRecords /\ Planned(unchanged)
  BY DEF Answering, Idle, Planned
<1>3. \A n \in Nodes : run'.expected[n] <= NextRerun(recs, n)
  <2> SUFFICES ASSUME NEW n \in Nodes
               PROVE  run'.expected[n] <= NextRerun(recs, n)
    OBVIOUS
  <2>1. run' = run \/ run'.expected[n] = 0
    BY DEF StartRun, NewRun
  <2>2. run.expected[n] <= NextRerun(recs, n) /\ NextRerun(recs, n) \in Nat
    BY LocalFacts, ProcsFacts DEF InstancesInv, ExpectedBounded
  <2> QED
    BY <2>1, <2>2
<1>4. Step(p, started) \/ Step(p, unchanged)
  BY DEF StartRun
<1> HIDE DEF started, unchanged
<1> QED
  BY <1>1, <1>2, <1>3, <1>4, ProcsFacts, RunWriteInv

LEMMA SubmitRootInv ==
  ASSUME RefuseTerminated, InstancesInv, TypeInv', NEW p \in Procs,
         SubmitRoot(p)
  PROVE  InstancesInv'
<1>1. PICK n \in Nodes, at \in {"roots", "answer", "ack"} :
        /\ SubmitNode(n, 0, NoRecords)
        /\ Step(p, [proc[p] EXCEPT !.at = at, !.todo = @ \ {n}])
  BY DEF SubmitRoot
<1> DEFINE l == [proc[p] EXCEPT !.at = at, !.todo = @ \ {n}]
<1>2. l.recs = proc[p].recs /\ Planned(l)
  BY LocalFacts DEF InstancesInv, Local, Planned
<1>3. UNCHANGED <<run, recs, terminated>>
  BY DEF SubmitRoot, storeVars
<1>4. \A m \in Nodes : NextRerun(l.recs, m) <= NextRerun(recs, m)
  BY <1>2 DEF InstancesInv, SnapshotsOlder
<1> HIDE DEF l
<1>5. SnapshotsOlder' /\ Planned(proc'[Requester])
  BY <1>1, <1>2, <1>3, <1>4, SnapshotInv DEF l
<1>6. 0 <= NextRerun(recs, n)
  BY LocalFacts DEF InstancesInv
<1>7. OneEach' /\ NextOnly' /\ ExpectedBounded' /\ EarlierTerminated'
  BY <1>1, <1>3, <1>6, SubmitInv
<1> QED
  BY <1>5, <1>7 DEF InstancesInv

\* The steps of the request worker that read, plan or answer.
LEMMA RequesterQuiet ==
  ASSUME InstancesInv, TypeInv',
         SkipAnswered \/ HandleRerun \/ PlanRerun \/ HandleCancel \/ WriteAnswer
  PROVE  InstancesInv'
<1> DEFINE local == proc[Requester]
<1>1. /\ local \in Local /\ Requester \in Procs
      /\ UNCHANGED <<run, recs, active, terminated>>
  BY LocalFacts, ProcsFacts
  DEF InstancesInv, SkipAnswered, HandleRerun, PlanRerun, HandleCancel,
      WriteAnswer, storeVars, poolVars
<1>2. CASE SkipAnswered
  <2>1. Step(Requester, [Idle EXCEPT !.at = "ack"])
    BY <1>2 DEF SkipAnswered
  <2>2. [Idle EXCEPT !.at = "ack"].recs = NoRecords
        /\ Planned([Idle EXCEPT !.at = "ack"])
    BY DEF Idle, Planned
  <2> QED
    BY <1>1, <2>1, <2>2, QuietStep
<1>3. CASE HandleRerun
  <2> DEFINE reads == [Reading("rerun", {}, {requests[Job].node}) EXCEPT
                         !.time = now]
  <2>1. Step(Requester, Answering("refused")) \/ Step(Requester, reads)
    BY <1>3 DEF HandleRerun
  <2>2. requests[Job].node \in Nodes
    <3>1. requests \in Seq(Request) /\ Job \in 1..Len(requests)
      BY <1>3 DEF HandleRerun, IsNext, Job, InstancesInv, TypeInv, TypeOK
    <3>2. requests[Job] \in Request
      BY <3>1
    <3> QED
      BY <3>2 DEF Request
  <2>3. reads.recs = NoRecords /\ Planned(reads)
    BY <2>2 DEF Reading, Idle, Planned
  <2>4. Answering("refused").recs = NoRecords /\ Planned(Answering("refused"))
    BY DEF Answering, Idle, Planned
  <2> HIDE DEF reads
  <2> QED
    BY <1>1, <2>1, <2>3, <2>4, QuietStep
<1>4. CASE PlanRerun
  <2>1. /\ local.at = "records" /\ local.then = "rerun"
        /\ Planned(local)
    BY <1>4 DEF PlanRerun, HasRead, InstancesInv
  <2>2. PICK n \in local.scope :
          \/ Step(Requester, [local EXCEPT !.at = "answer", !.outcome = "refused"])
          \/ /\ local.recs[n].status # "absent"
             /\ \/ Step(Requester, [local EXCEPT !.at = "resubmit"])
                \/ Step(Requester, [local EXCEPT !.at = "swap"])
    BY <1>4 DEF PlanRerun
  <2>3. local.scope = {n}
    BY <2>1, <2>2 DEF Planned
  <2>4. CASE Step(Requester, [local EXCEPT !.at = "answer", !.outcome = "refused"])
    BY <1>1, <2>4, QuietStep DEF Local, Planned
  <2>5. CASE /\ local.recs[n].status # "absent"
             /\ Step(Requester, [local EXCEPT !.at = "resubmit"])
    BY <1>1, <2>3, <2>5, QuietStep DEF Local, Planned
  <2>6. CASE /\ local.recs[n].status # "absent"
             /\ Step(Requester, [local EXCEPT !.at = "swap"])
    BY <1>1, <2>3, <2>6, QuietStep DEF Local, Planned
  <2> QED
    BY <2>2, <2>4, <2>5, <2>6
<1>5. CASE HandleCancel
  <2> DEFINE writes == [Answering("none") EXCEPT !.at = "settleCancelled",
                                                 !.run = run]
  <2>1. Step(Requester, Answering("refused")) \/ Step(Requester, writes)
    BY <1>5 DEF HandleCancel
  <2>2. writes.recs = NoRecords /\ Planned(writes)
    BY DEF Answering, Idle, Planned
  <2>3. Answering("refused").recs = NoRecords /\ Planned(Answering("refused"))
    BY DEF Answering, Idle, Planned
  <2> HIDE DEF writes
  <2> QED
    BY <1>1, <2>1, <2>2, <2>3, QuietStep
<1>6. CASE WriteAnswer
  <2>1. Step(Requester, [local EXCEPT !.at = "ack"])
    BY <1>6 DEF WriteAnswer
  <2> QED
    BY <1>1, <2>1, QuietStep DEF Local, Planned
<1> QED
  BY <1>2, <1>3, <1>4, <1>5, <1>6

LEMMA SwapRunInv ==
  ASSUME InstancesInv, TypeInv', SwapRun
  PROVE  InstancesInv'
<1> DEFINE local == proc[Requester]
<1>1. /\ local \in Local /\ Requester \in Procs
      /\ UNCHANGED <<recs, active, terminated>>
  BY LocalFacts, ProcsFacts DEF InstancesInv, SwapRun, poolVars
<1>2. PICK n \in local.scope :
        \/ /\ run = local.run
           /\ run' = Reactivated(Graph, local.run, local.recs, n)
           /\ Step(Requester, [local EXCEPT !.at = "resubmit"])
        \/ UNCHANGED run /\ Step(Requester, Idle)
  BY DEF SwapRun
<1>3. CASE UNCHANGED run /\ Step(Requester, Idle)
  BY <1>1, <1>3, QuietStep DEF Idle, Planned
<1>4. CASE /\ run = local.run
           /\ run' = Reactivated(Graph, local.run, local.recs, n)
           /\ Step(Requester, [local EXCEPT !.at = "resubmit"])
  <2>1. local.at = "swap" /\ Planned(local)
    BY DEF SwapRun, InstancesInv
  <2>2. [local EXCEPT !.at = "resubmit"].recs = local.recs
        /\ Planned([local EXCEPT !.at = "resubmit"])
    BY <1>1, <2>1 DEF Planned, Local
  <2>3. \A m \in Nodes : run'.expected[m] <= NextRerun(recs, m)
    <3> SUFFICES ASSUME NEW m \in Nodes
                 PROVE  run'.expected[m] <= NextRerun(recs, m)
      OBVIOUS
    <3>1. \/ run'.expected[m] = run.expected[m]
          \/ run'.expected[m] = NextRerun(local.recs, m)
      <4>1. local.run \in RunRecord
        BY <1>1 DEF Local
      <4>2. run'.expected = [x \in Nodes |->
              IF /\ local.recs[n].status = "succeeded"
                 /\ IsCurrent(local.run, n, local.recs[n])
                 /\ x \in RerunScope(Graph, n)
                 /\ local.recs[x].status # "absent"
              THEN local.recs[x].rerun + 1 ELSE local.run.expected[x]]
        BY <1>4, <4>1 DEF Reactivated, RunRecord, Nodes
      <4> QED
        BY <1>4, <4>2 DEF NextRerun
    <3>2. /\ run.expected[m] <= NextRerun(recs, m)
          /\ NextRerun(local.recs, m) <= NextRerun(recs, m)
      BY <1>1 DEF InstancesInv, ExpectedBounded, SnapshotsOlder
    <3> QED
      BY <3>1, <3>2
  <2> QED
    BY <1>1, <1>4, <2>2, <2>3, RunWriteInv
<1> QED
  BY <1>2, <1>3, <1>4

LEMMA ResubmitInv ==
  ASSUME RefuseTerminated, InstancesInv, TypeInv', Resubmit
  PROVE  InstancesInv'
<1> DEFINE local == proc[Requester]
<1>1. /\ local \in Local /\ Requester \in Procs
      /\ UNCHANGED <<run, recs, terminated>>
  BY LocalFacts, ProcsFacts DEF InstancesInv, Resubmit
<1>2. PICK n \in local.scope :
        /\ SubmitNode(n, local.recs[n].rerun + 1,
             CurrentRecords(Graph, Reactivated(Graph, local.run, local.recs, n),
                            local.recs))
        /\ \/ Step(Requester, [local EXCEPT !.at = "ack"])
           \/ Step(Requester, [local EXCEPT !.at = "answer",
                                            !.outcome = "refused"])
  BY DEF Resubmit
<1>3. n \in Nodes /\ local.recs[n].status # "absent"
  BY <1>1 DEF Local, InstancesInv, Planned, Resubmit
<1>4. /\ local.recs[n].rerun + 1 = NextRerun(local.recs, n)
      /\ local.recs[n].rerun + 1 \in Nat
      /\ local.recs[n].rerun + 1 <= NextRerun(recs, n)
  <2>1. local.recs[n].rerun + 1 = NextRerun(local.recs, n)
    BY <1>3 DEF NextRerun
  <2>2. NextRerun(local.recs, n) \in Nat
        /\ NextRerun(local.recs, n) <= NextRerun(recs, n)
    BY <1>1, <1>3, LocalFacts DEF InstancesInv, SnapshotsOlder
  <2> QED
    BY <2>1, <2>2
<1>5. OneEach' /\ NextOnly' /\ ExpectedBounded' /\ EarlierTerminated'
  BY <1>1, <1>2, <1>3, <1>4, SubmitInv
<1>6. PICK l : /\ Step(Requester, l) /\ l.recs = local.recs /\ Planned(l)
  <2> DEFINE acks == [local EXCEPT !.at = "ack"]
             refuses == [local EXCEPT !.at = "answer", !.outcome = "refused"]
  <2>1. acks.recs = local.recs /\ Planned(acks)
    BY <1>1 DEF Local, Planned
  <2>2. refuses.recs = local.recs /\ Planned(refuses)
    BY <1>1 DEF Local, Planned
  <2>3. Step(Requester, acks) \/ Step(Requester, refuses)
    BY <1>2
  <2> HIDE DEF acks, refuses
  <2> QED
    BY <2>1, <2>2, <2>3
<1>7. \A m \in Nodes : NextRerun(l.recs, m) <= NextRerun(recs, m)
  BY <1>1, <1>6 DEF InstancesInv, SnapshotsOlder
<1>8. SnapshotsOlder' /\ Planned(proc'[Requester])
  BY <1>1, <1>6, <1>7, SnapshotInv
<1> QED
  BY <1>5, <1>8 DEF InstancesInv

LEMMA SettleCancelledInv ==
  ASSUME InstancesInv, TypeInv', SettleCancelled
  PROVE  InstancesInv'
<1> DEFINE local == proc[Requester]
           cancels == [local EXCEPT !.at = "records", !.then = "cancel",
                                    !.todo = Nodes]
           refuses == [local EXCEPT !.at = "answer", !.outcome = "refused"]
<1>1. /\ local \in Local /\ local.run \in RunRecord /\ Requester \in Procs
      /\ UNCHANGED <<recs, active, terminated>>
  BY LocalFacts, ProcsFacts DEF InstancesInv, SettleCancelled, poolVars, Local
<1>2. CommitSettled(local.run, [local.run EXCEPT !.state = "cancelled"])
  BY DEF SettleCancelled
<1>3. run'.expected = run.expected
  BY <1>1, <1>2 DEF CommitSettled, RunRecord
<1>4. \A m \in Nodes : run'.expected[m] <= NextRerun(recs, m)
  BY <1>3 DEF InstancesInv, ExpectedBounded
<1>5. Step(Requester, cancels) \/ Step(Requester, refuses)
  BY DEF SettleCancelled
<1>6. /\ cancels.recs = local.recs /\ Planned(cancels)
      /\ refuses.recs = local.recs /\ Planned(refuses)
  BY <1>1 DEF Local, Planned
<1> HIDE DEF cancels, refuses
<1> QED
  BY <1>1, <1>4, <1>5, <1>6, RunWriteInv

LEMMA RequesterInv ==
  ASSUME RefuseTerminated, InstancesInv, TypeInv', RequesterStep
  PROVE  InstancesInv'
<1>1. CASE HandleStart
  BY <1>1, StartInv DEF HandleStart, poolVars
<1>2. CASE \/ SkipAnswered \/ HandleRerun \/ PlanRerun \/ HandleCancel
           \/ WriteAnswer
  BY <1>2, RequesterQuiet
<1>3. CASE \/ PlanCancel(Requester) \/ EndCancel(Requester) \/ Ack(Requester)
  BY <1>3, ProcsFacts, AdvancerQuiet
<1>4. CASE ReadRecord(Requester) \/ CancelUnrecorded(Requester)
  BY <1>4, ProcsFacts, ReadRecordInv, CancelUnrecordedInv
<1> QED
  BY <1>1, <1>2, <1>3, <1>4, ProcsFacts, SubmitRootInv, SwapRunInv,
     ResubmitInv, SettleCancelledInv DEF RequesterStep

-----------------------------------------------------------------------------
(* The retention pass *)

\* A removal of records that were not there.
LEMMA RemoveRunInv ==
  ASSUME InstancesInv, TypeInv', RemoveRun, RecordsStay
  PROVE  InstancesInv'
<1>1. UNCHANGED <<active, proc>>
  BY DEF RemoveRun
<1>2. CASE UNCHANGED <<run, recs, terminated>>
  BY <1>1, <1>2, StillStep
<1>3. CASE run' = NoRun /\ recs' = NoRecords /\ terminated' = {}
  <2>1. \A n \in Nodes : NextRerun(recs, n) = 0 /\ NextRerun(recs', n) = 0
    <3>1. \A n \in Nodes : NextRerun(recs', n) = 0
      BY <1>3, NoRecordsNext
    <3>2. \A n \in Nodes : recs'[n].status = "absent"
      BY <1>3 DEF NoRecords, NoRecord
    <3> QED
      BY <3>1, <3>2 DEF RecordsStay, NextRerun
  <2>2. OneEach'
    BY <1>1 DEF InstancesInv, OneEach
  <2>3. NextOnly'
    BY <1>1, <2>1 DEF InstancesInv, NextOnly, TypeInv, TypeOK, Instance
  <2>4. ExpectedBounded'
    BY <1>3, <2>1 DEF ExpectedBounded, NoRun
  <2>5. EarlierTerminated'
    BY <2>1 DEF EarlierTerminated
  <2>6. SnapshotsOlder' /\ Planned(proc'[Requester])
    BY <1>1, <2>1 DEF InstancesInv, SnapshotsOlder
  <2> QED
    BY <2>2, <2>3, <2>4, <2>5, <2>6 DEF InstancesInv
<1> QED
  BY <1>2, <1>3 DEF RemoveRun, storeVars

-----------------------------------------------------------------------------
(* The theorems *)

LEMMA InitInstances == Init => InstancesInv
<1> SUFFICES ASSUME Init PROVE InstancesInv
  OBVIOUS
<1>1. OneEach /\ NextOnly
  BY DEF Init, OneEach, NextOnly
<1>2. ExpectedBounded /\ EarlierTerminated
  BY NoRecordsNext DEF Init, NoRun, ExpectedBounded, EarlierTerminated
<1>3. SnapshotsOlder /\ Planned(proc[Requester])
  BY NoRecordsNext, ProcsFacts DEF Init, Idle, SnapshotsOlder, Planned
<1> QED
  BY <1>1, <1>2, <1>3, InitTypes DEF InstancesInv

LEMMA NextInstances ==
  ASSUME RefuseTerminated, InstancesInv, [Next]_vars, [RecordsStay]_vars
  PROVE  InstancesInv'
<1> USE NextTypes DEF InstancesInv
<1>1. TypeInv'
  OBVIOUS
<1>2. CASE Send
  BY <1>1, <1>2, StillStep DEF Send, storeVars, poolVars
<1>3. CASE Terminates
  BY <1>1, <1>3, TerminateInv DEF Terminates
<1>4. CASE \E w \in EventWorkers : HandleEvent(w)
  BY <1>1, <1>4, HandleEventInv
<1>5. CASE Reconcile
  BY <1>1, <1>5, ReconcileInv
<1>6. CASE \E p \in Advancers : AdvancerStep(p)
  BY <1>1, <1>6, AdvancerInv, ProcsFacts
<1>7. CASE RequesterStep
  BY <1>1, <1>7, RequesterInv
<1>8. CASE TriggerStep
  BY <1>1, <1>8, StartInv, SubmitRootInv, AdvancerQuiet, ProcsFacts
  DEF TriggerStep, HandleTrigger, poolVars
<1>9. CASE RemoveRun
  <2>1. RecordsStay
    BY <1>9 DEF RecordsStay, vars, storeVars
  <2> QED
    BY <1>1, <1>9, <2>1, RemoveRunInv
<1>10. CASE ExpireRun \/ ExpireRequest \/ DropEntry \/ RemoveRequest
            \/ FailPass \/ Tick \/ UNCHANGED vars
  <2>1. UNCHANGED <<run, recs, active, terminated, proc>>
    BY <1>10 DEF ExpireRun, ExpireRequest, DropEntry, RemoveRequest, FailPass,
                 Tick, vars, storeVars, poolVars
  <2> QED
    BY <1>1, <2>1, StillStep
<1>11. CASE \E p \in Procs : Fail(p)
  BY <1>1, <1>11, AdvancerQuiet
<1> QED
  BY <1>2, <1>3, <1>4, <1>5, <1>6, <1>7, <1>8, <1>9, <1>10, <1>11
  DEF Next, PassStep

LEMMA InstancesImplied ==
  ASSUME InstancesInv
  PROVE  LatestInstanceOnly /\ ExpectedIsReachable
<1>1. LatestInstanceOnly
  BY DEF InstancesInv, OneEach, NextOnly, LatestInstanceOnly
<1>2. ExpectedIsReachable
  <2> SUFFICES ASSUME NEW n \in Nodes, run.expected[n] > 0
               PROVE  /\ recs[n].status # "absent"
                      /\ run.expected[n] <= recs[n].rerun + 1
    BY DEF ExpectedIsReachable
  <2>1. run.expected[n] <= NextRerun(recs, n) /\ run.expected[n] \in Nat
    BY DEF InstancesInv, ExpectedBounded, TypeInv, TypeOK, RunRecord
  <2> QED
    BY <2>1 DEF NextRerun
<1> QED
  BY <1>1, <1>2

\* While no node record is removed, a node has one active task instance at
\* most, and it is the one after the node's record, whatever stale records the
\* event workers, the reconciler and the reruns submit on (scheduler.rs, advance
\* and rerun_with; hook.rs, stage_effects).
THEOREM OneLatestInstance ==
  ASSUME RefuseTerminated
  PROVE  Spec /\ [][RecordsStay]_vars => []LatestInstanceOnly
<1>1. InstancesInv /\ [Next]_vars /\ [RecordsStay]_vars => InstancesInv'
  BY NextInstances
<1>2. InstancesInv => LatestInstanceOnly
  BY InstancesImplied
<1> QED
  BY InitInstances, <1>1, <1>2, PTL DEF Spec

\* While no node record is removed, a run expects no rerun count that the next
\* submit of the node does not reach (scheduler.rs, rerun_with and settle).
THEOREM ReachableCounts ==
  ASSUME RefuseTerminated
  PROVE  Spec /\ [][RecordsStay]_vars => []ExpectedIsReachable
<1>1. InstancesInv /\ [Next]_vars /\ [RecordsStay]_vars => InstancesInv'
  BY NextInstances
<1>2. InstancesInv => ExpectedIsReachable
  BY InstancesImplied
<1> QED
  BY InitInstances, <1>1, <1>2, PTL DEF Spec

-----------------------------------------------------------------------------
(* The states of the nodes *)

States == INSTANCE GraphProgress_proofs WITH
  Graphs <- {Graph}, MaxReruns <- 0, graph <- Graph, reruns <- 0,
  run <- [state |-> IF run.state = "absent" THEN "active" ELSE run.state,
          settled |-> 0, expected |-> run.expected]

\* What a state says of the record and of the rule of its node.
LEMMA StateFacts ==
  ASSUME NEW r \in [Nodes -> NodeRecord], NEW n \in Nodes
  PROVE  LET s == NodeStates(Graph, r)
         IN /\ s[n] \in Terminal \cup {"ready", "waiting", "blocked"}
            /\ s[n] \in Terminal <=> r[n].status # "absent"
            /\ s[n] \in Terminal => s[n] = r[n].status
            /\ s[n] = "waiting" =>
                 ~IsReady(Graph, n, r) /\ CanBecomeReady(Graph, n, s)
            /\ s[n] = "blocked" <=> /\ r[n].status = "absent"
                                    /\ ~IsReady(Graph, n, r)
                                    /\ ~CanBecomeReady(Graph, n, s)
<1>1. States!IsGraph(Graph)
  BY GraphAssumption DEF IsGraph, States!IsGraph, Rules, States!Rules
<1>2. States!NodeStates(Graph, r) = NodeStates(Graph, r)
  BY DEF States!NodeStates, NodeStates, States!IsReady, IsReady,
         States!CanBecomeReady, CanBecomeReady, States!IsOpen, IsOpen
<1>3. r \in [Graph.nodes -> States!Record(Graph)] /\ n \in Graph.nodes
  BY DEF Nodes, NodeRecord, States!Record, Terminal, States!Terminal
<1> HIDE DEF NodeStates
<1> QED
  BY <1>1, <1>2, <1>3, States!StatesOfRecords
  DEF States!IsReady, IsReady, States!CanBecomeReady, CanBecomeReady,
      States!IsOpen, IsOpen, States!Terminal, Terminal

-----------------------------------------------------------------------------
(* What a step does to the local state of a process *)

\* The process has read nothing: it rests, starts a run or answers.
Rests(l) ==
  /\ l.run = NoRun /\ l.recs = NoRecords
  /\ l.at \in {"idle", "roots", "answer", "ack"}
  /\ l.at = "roots" => l.todo = Roots(Graph)

\* The process has read the run, and no node record yet.
Takes(l) ==
  /\ l.run = run /\ l.recs = NoRecords
  /\ \/ l.at = "settleCancelled" /\ HandleCancel
     \/ /\ l.at = "records" /\ l.todo = Nodes
        /\ l.then = "rerun" => HandleRerun

\* The process reads the record of one node.
ReadsOne(k, l) ==
  \E n \in k.todo :
    /\ k.at = "records" /\ l.at = "records"
    /\ l.then = k.then /\ l.scope = k.scope /\ l.run = k.run
    /\ l.recs = [k.recs EXCEPT ![n] = recs[n]]
    /\ l.todo = k.todo \ {n}

\* The process goes on with what it has read.
Follows(from, to) ==
  CASE from = "records" -> to \in {"submit", "check", "cancel", "swap",
                                   "resubmit", "answer", "ack"}
    [] from = "settleCancelled" -> to \in {"records", "answer"}
    [] from = "submit" -> to \in {"submit", "ack"}
    [] from = "check" -> to \in {"check", "ack"}
    [] from = "cancel" -> to \in {"cancel", "answer", "ack"}
    [] from = "swap" -> to = "resubmit"
    [] OTHER -> to \in {"roots", "answer", "ack"}

ReadyOf(l) == {n \in l.scope : NodeStates(Graph, Current(l))[n] = "ready"}

GoesFrom(k, l) ==
  /\ l.run = k.run /\ l.recs = k.recs /\ l.scope = k.scope
  /\ k.at # "idle" /\ Follows(k.at, l.at)
  /\ k.at = "records" => k.todo = {}
  /\ IF l.at = "records" THEN l.todo = Nodes /\ l.then = "cancel"
                          ELSE l.then = k.then
  /\ l.at = "roots" => k.at = "roots" /\ l.todo \subseteq k.todo
  /\ l.at = "check" => k.at = "check" \/ k.then = "advance"
  /\ l.at \in {"swap", "resubmit"} => PlanRerun \/ SwapRun
  /\ l.at = "submit" =>
       l.todo \subseteq IF k.at = "submit" THEN k.todo ELSE ReadyOf(k)

Moves(k, l) ==
  l = k \/ Rests(l) \/ Takes(l) \/ ReadsOne(k, l) \/ GoesFrom(k, l)

LEMMA StepMoves ==
  ASSUME TypeInv, NEW p \in Procs, NEW l, Step(p, l), Moves(proc[p], l)
  PROVE  \A q \in Procs : Moves(proc[q], proc'[q])
BY DEF Step, TypeInv, TypeOK, Moves

LEMMA RestMoves ==
  /\ Rests(Idle)
  /\ \A s : Rests([Idle EXCEPT !.at = "ack", !.job = s])
  /\ Rests([Idle EXCEPT !.at = "ack"])
  /\ \A o : Rests(Answering(o))
  /\ \A p, o : Rests([Answering(o) EXCEPT
                        !.at = IF p = Requester THEN "answer" ELSE "ack"])
  /\ \A o, t : Rests([Idle EXCEPT !.at = "roots", !.todo = Roots(Graph),
                                  !.outcome = o, !.time = t])
BY DEF Rests, Idle, Answering

LEMMA TakeMoves ==
  /\ \A t, j, s : t # "rerun" => Takes(Reading(t, j, s))
  /\ \A s, m : HandleRerun => Takes([Reading("rerun", {}, s) EXCEPT !.time = m])
  /\ HandleCancel =>
       Takes([Answering("none") EXCEPT !.at = "settleCancelled", !.run = run])
BY DEF Takes, Reading, Answering, Idle

LEMMA RootMoves ==
  ASSUME TypeInv, NEW p \in Procs, SubmitRoot(p)
  PROVE  \A q \in Procs : Moves(proc[q], proc'[q])
<1> DEFINE k == proc[p]
<1>0. k \in Local
  BY LocalFacts
<1>1. PICK n \in Nodes, at \in {"roots", "answer", "ack"} :
        Step(p, [k EXCEPT !.at = at, !.todo = @ \ {n}])
  BY DEF SubmitRoot
<1>2. GoesFrom(k, [k EXCEPT !.at = at, !.todo = @ \ {n}])
  BY <1>0 DEF SubmitRoot, GoesFrom, Follows, Local
<1> QED
  BY <1>1, <1>2, StepMoves DEF Moves

LEMMA AdvancerMoves ==
  ASSUME TypeInv, NEW p \in Procs, AdvancerStep(p)
  PROVE  \A q \in Procs : Moves(proc[q], proc'[q])
<1> DEFINE k == proc[p]
<1>0. k \in Local
  BY LocalFacts
<1>1. CASE ReadRecord(p)
  <2>1. PICK n \in k.todo : Step(p, [k EXCEPT !.recs[n] = recs[n],
                                              !.todo = @ \ {n}])
    BY <1>1 DEF ReadRecord, IsFirst
  <2>2. ReadsOne(k, [k EXCEPT !.recs[n] = recs[n], !.todo = @ \ {n}])
    BY <1>0, <1>1 DEF ReadRecord, ReadsOne, Local
  <2> QED
    BY <2>1, <2>2, StepMoves DEF Moves
<1>2. CASE PlanAdvance(p)
  <2> DEFINE ready == ReadyOf(k)
             l1 == [k EXCEPT !.at = "submit", !.todo = ready]
             l2 == [k EXCEPT !.at = "ack"]
             l3 == [k EXCEPT !.at = "check", !.todo = Unrecorded(k)]
  <2>1. Step(p, l1) \/ Step(p, l2) \/ Step(p, l3)
    BY <1>2 DEF PlanAdvance, ReadyOf
  <2>2. GoesFrom(k, l1) /\ GoesFrom(k, l2) /\ GoesFrom(k, l3)
    BY <1>0, <1>2 DEF PlanAdvance, HasRead, GoesFrom, Follows, Local
  <2> HIDE DEF l1, l2, l3
  <2> QED
    BY <2>1, <2>2, StepMoves DEF Moves
<1>3. CASE SubmitReady(p)
  <2>0. PICK n \in Nodes :
          Step(p, [k EXCEPT !.at = IF k.todo = {n} THEN "ack" ELSE "submit",
                            !.todo = @ \ {n}])
    BY <1>3 DEF SubmitReady
  <2>1. PICK at \in {"ack", "submit"} :
          Step(p, [k EXCEPT !.at = at, !.todo = @ \ {n}])
    BY <2>0
  <2>2. GoesFrom(k, [k EXCEPT !.at = at, !.todo = @ \ {n}])
    BY <1>0, <1>3 DEF SubmitReady, GoesFrom, Follows, Local
  <2> QED
    BY <2>1, <2>2, StepMoves DEF Moves
<1>4. CASE CheckActive(p)
  <2>0. PICK at \in {"ack", "check"} : \E todo :
          Step(p, [k EXCEPT !.at = at, !.todo = todo])
    BY <1>4 DEF CheckActive
  <2>1. PICK todo : Step(p, [k EXCEPT !.at = at, !.todo = todo])
    BY <2>0
  <2>2. GoesFrom(k, [k EXCEPT !.at = at, !.todo = todo])
    BY <1>0, <1>4 DEF CheckActive, GoesFrom, Follows, Local
  <2> QED
    BY <2>1, <2>2, StepMoves DEF Moves
<1>5. CASE Settle(p)
  <2>1. Step(p, [k EXCEPT !.at = "ack"])
    BY <1>5 DEF Settle
  <2>2. GoesFrom(k, [k EXCEPT !.at = "ack"])
    BY <1>0, <1>5 DEF Settle, GoesFrom, Follows, Local
  <2> QED
    BY <2>1, <2>2, StepMoves DEF Moves
<1>6. CASE PlanCancel(p)
  <2>1. Step(p, [k EXCEPT !.at = "cancel", !.todo = Unrecorded(k)])
    BY <1>6 DEF PlanCancel
  <2>2. GoesFrom(k, [k EXCEPT !.at = "cancel", !.todo = Unrecorded(k)])
    BY <1>0, <1>6 DEF PlanCancel, HasRead, GoesFrom, Follows, Local
  <2> QED
    BY <2>1, <2>2, StepMoves DEF Moves
<1>7. CASE CancelUnrecorded(p)
  <2>1. PICK n : Step(p, [k EXCEPT !.todo = @ \ {n}])
    BY <1>7 DEF CancelUnrecorded
  <2>2. GoesFrom(k, [k EXCEPT !.todo = @ \ {n}])
    BY <1>0, <1>7 DEF CancelUnrecorded, GoesFrom, Follows, Local
  <2> QED
    BY <2>1, <2>2, StepMoves DEF Moves
<1>8. CASE EndCancel(p)
  <2>0. PICK at \in {"answer", "ack"} : \E o :
          Step(p, [k EXCEPT !.at = at, !.outcome = o])
    BY <1>8 DEF EndCancel
  <2>1. PICK o : Step(p, [k EXCEPT !.at = at, !.outcome = o])
    BY <2>0
  <2>2. GoesFrom(k, [k EXCEPT !.at = at, !.outcome = o])
    BY <1>0, <1>8 DEF EndCancel, GoesFrom, Follows, Local
  <2> QED
    BY <2>1, <2>2, StepMoves DEF Moves
<1>9. CASE Ack(p)
  <2>1. Step(p, Idle)
    BY <1>9 DEF Ack
  <2> QED
    BY <2>1, RestMoves, StepMoves DEF Moves
<1> QED
  BY <1>1, <1>2, <1>3, <1>4, <1>5, <1>6, <1>7, <1>8, <1>9 DEF AdvancerStep

LEMMA RequesterMoves ==
  ASSUME TypeInv, RequesterStep
  PROVE  \A q \in Procs : Moves(proc[q], proc'[q])
<1> DEFINE p == Requester
           k == proc[p]
<1>0. k \in Local /\ p \in Procs
  BY LocalFacts, ProcsFacts
<1>1. CASE SkipAnswered
  <2>1. Step(p, [Idle EXCEPT !.at = "ack"])
    BY <1>1 DEF SkipAnswered
  <2> QED
    BY <1>0, <2>1, RestMoves, StepMoves DEF Moves
<1>2. CASE HandleStart
  <2>1. \/ Step(p, [Idle EXCEPT !.at = "roots", !.todo = Roots(Graph),
                               !.outcome = "started", !.time = now])
        \/ Step(p, [Answering("unchanged") EXCEPT
                     !.at = IF p = Requester THEN "answer" ELSE "ack"])
    BY <1>2 DEF HandleStart, StartRun
  <2> QED
    BY <1>0, <2>1, RestMoves, StepMoves DEF Moves
<1>3. CASE HandleRerun
  <2> DEFINE reads == [Reading("rerun", {}, {requests[Job].node}) EXCEPT
                         !.time = now]
  <2>1. Takes(reads) /\ Rests(Answering("refused"))
    BY <1>3, RestMoves, TakeMoves
  <2>2. Step(p, Answering("refused")) \/ Step(p, reads)
    BY <1>3 DEF HandleRerun
  <2> HIDE DEF reads
  <2> QED
    BY <1>0, <2>1, <2>2, StepMoves DEF Moves
<1>4. CASE PlanRerun
  <2> DEFINE l1 == [k EXCEPT !.at = "answer", !.outcome = "refused"]
             l2 == [k EXCEPT !.at = "resubmit"]
             l3 == [k EXCEPT !.at = "swap"]
  <2>1. Step(p, l1) \/ Step(p, l2) \/ Step(p, l3)
    BY <1>4 DEF PlanRerun
  <2>2. GoesFrom(k, l1) /\ GoesFrom(k, l2) /\ GoesFrom(k, l3)
    BY <1>0, <1>4 DEF PlanRerun, HasRead, GoesFrom, Follows, Local
  <2> HIDE DEF l1, l2, l3
  <2> QED
    BY <1>0, <2>1, <2>2, StepMoves DEF Moves
<1>5. CASE SwapRun
  <2>1. Step(p, [k EXCEPT !.at = "resubmit"]) \/ Step(p, Idle)
    BY <1>5 DEF SwapRun
  <2>2. GoesFrom(k, [k EXCEPT !.at = "resubmit"])
    BY <1>0, <1>5 DEF SwapRun, GoesFrom, Follows, Local
  <2> QED
    BY <1>0, <2>1, <2>2, RestMoves, StepMoves DEF Moves
<1>6. CASE Resubmit
  <2> DEFINE l1 == [k EXCEPT !.at = "answer", !.outcome = "refused"]
             l2 == [k EXCEPT !.at = "ack"]
  <2>1. Step(p, l1) \/ Step(p, l2)
    BY <1>6 DEF Resubmit
  <2>2. GoesFrom(k, l1) /\ GoesFrom(k, l2)
    BY <1>0, <1>6 DEF Resubmit, GoesFrom, Follows, Local
  <2> HIDE DEF l1, l2
  <2> QED
    BY <1>0, <2>1, <2>2, StepMoves DEF Moves
<1>7. CASE HandleCancel
  <2> DEFINE cancels == [Answering("none") EXCEPT !.at = "settleCancelled",
                                                  !.run = run]
  <2>1. Takes(cancels) /\ Rests(Answering("refused"))
    BY <1>7, RestMoves, TakeMoves
  <2>2. Step(p, Answering("refused")) \/ Step(p, cancels)
    BY <1>7 DEF HandleCancel
  <2> HIDE DEF cancels
  <2> QED
    BY <1>0, <2>1, <2>2, StepMoves DEF Moves
<1>8. CASE SettleCancelled
  <2> DEFINE l1 == [k EXCEPT !.at = "answer", !.outcome = "refused"]
             l2 == [k EXCEPT !.at = "records", !.then = "cancel",
                             !.todo = Nodes]
  <2>1. Step(p, l1) \/ Step(p, l2)
    BY <1>8 DEF SettleCancelled
  <2>2. GoesFrom(k, l1) /\ GoesFrom(k, l2)
    BY <1>0, <1>8 DEF SettleCancelled, GoesFrom, Follows, Local
  <2> HIDE DEF l1, l2
  <2> QED
    BY <1>0, <2>1, <2>2, StepMoves DEF Moves
<1>9. CASE WriteAnswer
  <2>1. Step(p, [k EXCEPT !.at = "ack"])
    BY <1>9 DEF WriteAnswer
  <2>2. GoesFrom(k, [k EXCEPT !.at = "ack"])
    BY <1>0, <1>9 DEF WriteAnswer, GoesFrom, Follows, Local
  <2> QED
    BY <1>0, <2>1, <2>2, StepMoves DEF Moves
<1>10. CASE SubmitRoot(p)
  BY <1>0, <1>10, RootMoves
<1>11. CASE \/ ReadRecord(p) \/ PlanCancel(p) \/ CancelUnrecorded(p)
            \/ EndCancel(p) \/ Ack(p)
  BY <1>0, <1>11, AdvancerMoves DEF AdvancerStep
<1> QED
  BY <1>1, <1>2, <1>3, <1>4, <1>5, <1>6, <1>7, <1>8, <1>9, <1>10, <1>11
  DEF RequesterStep

LEMMA NextMoves ==
  ASSUME TypeInv, [Next]_vars
  PROVE  \A q \in Procs : Moves(proc[q], proc'[q])
<1>1. CASE UNCHANGED proc
  BY <1>1 DEF Moves
<1>2. CASE \E w \in EventWorkers : HandleEvent(w)
  <2>1. PICK w \in EventWorkers, e \in events :
          \/ Step(w, Reading("advance", {e}, Downstreams(Graph, e.node)))
          \/ Step(w, [Idle EXCEPT !.at = "ack", !.job = {e}])
    BY <1>2 DEF HandleEvent
  <2> QED
    BY <2>1, ProcsFacts, RestMoves, TakeMoves, StepMoves DEF Moves
<1>3. CASE Reconcile
  <2>1. PICK then \in {"advance", "cancel"}, scope \in SUBSET Nodes :
          Step(Reconciler, Reading(then, {}, scope))
    BY <1>3 DEF Reconcile
  <2> QED
    BY <2>1, ProcsFacts, TakeMoves, StepMoves DEF Moves
<1>4. CASE TriggerStep
  <2>1. CASE HandleTrigger
    <3>1. \/ Step(Trigger, [Idle EXCEPT !.at = "roots", !.todo = Roots(Graph),
                               !.outcome = "started", !.time = now])
          \/ Step(Trigger, [Answering("unchanged") EXCEPT
                     !.at = IF Trigger = Requester THEN "answer" ELSE "ack"])
      BY <2>1 DEF HandleTrigger, StartRun
    <3> QED
      BY <3>1, ProcsFacts, RestMoves, StepMoves DEF Moves
  <2>2. CASE SubmitRoot(Trigger) \/ Ack(Trigger)
    BY <2>2, ProcsFacts, RootMoves, AdvancerMoves DEF AdvancerStep
  <2> QED
    BY <1>4, <2>1, <2>2 DEF TriggerStep
<1>5. CASE \E p \in Procs : Fail(p)
  <2>1. PICK p \in Procs : Step(p, Idle)
    BY <1>5 DEF Fail
  <2> QED
    BY <2>1, RestMoves, StepMoves DEF Moves
<1>6. CASE Send \/ Terminates \/ PassStep \/ FailPass \/ Tick \/ UNCHANGED vars
  <2>1. UNCHANGED proc
    BY <1>6 DEF Send, Terminates, Terminate, PassStep, ExpireRun, ExpireRequest,
                DropEntry, RemoveRun, RemoveRequest, FailPass, Tick, vars
  <2> QED
    BY <2>1, <1>1
<1> QED
  BY <1>2, <1>3, <1>4, <1>5, <1>6, ProcsFacts, AdvancerMoves, RequesterMoves
  DEF Next

-----------------------------------------------------------------------------
(* What a step does to the run record, to the records and to the pools *)

LEMMA RunNext ==
  ASSUME [Next]_vars
  PROVE  \/ UNCHANGED run
         \/ \E p \in Advancers : Settle(p)
         \/ SwapRun \/ SettleCancelled \/ HandleStart \/ HandleTrigger
         \/ RemoveRun
<1>1. CASE UNCHANGED vars
  BY <1>1 DEF vars, storeVars
<1> QED
  BY <1>1, AdvancerFrame, RequesterFrame, OtherFrame DEF Next, FailPass, Tick,
     storeVars

LEMMA RecordsNext ==
  ASSUME [Next]_vars
  PROVE  Terminates \/ RemoveRun \/ UNCHANGED recs
<1>1. CASE \E p \in Advancers : AdvancerStep(p)
  BY <1>1 DEF AdvancerStep, ReadRecord, PlanAdvance, SubmitReady, CheckActive,
     Settle, PlanCancel, CancelUnrecorded, EndCancel, Ack, storeVars
<1>2. CASE RequesterStep
  <2>1. CASE \/ SkipAnswered \/ HandleStart \/ SubmitRoot(Requester)
             \/ HandleRerun \/ PlanRerun \/ SwapRun \/ Resubmit
             \/ HandleCancel \/ SettleCancelled \/ WriteAnswer
    BY <2>1 DEF SkipAnswered, HandleStart, SubmitRoot, HandleRerun, PlanRerun,
       SwapRun, Resubmit, HandleCancel, SettleCancelled, WriteAnswer, storeVars
  <2>2. CASE \/ ReadRecord(Requester) \/ PlanCancel(Requester)
             \/ CancelUnrecorded(Requester) \/ EndCancel(Requester)
             \/ Ack(Requester)
    BY <2>2 DEF ReadRecord, PlanCancel, CancelUnrecorded, EndCancel, Ack,
       storeVars
  <2> QED
    BY <1>2, <2>1, <2>2 DEF RequesterStep
<1>3. CASE TriggerStep
  BY <1>3 DEF TriggerStep, HandleTrigger, SubmitRoot, Ack, storeVars
<1>4. CASE \/ Send \/ (\E w \in EventWorkers : HandleEvent(w)) \/ Reconcile
           \/ (\E p \in Procs : Fail(p)) \/ FailPass \/ Tick \/ UNCHANGED vars
  BY <1>4 DEF Send, HandleEvent, Reconcile, Fail, FailPass, Tick, vars,
     storeVars
<1>5. CASE PassStep
  BY <1>5 DEF PassStep, ExpireRun, ExpireRequest, DropEntry, RemoveRequest,
     storeVars
<1> QED
  BY <1>1, <1>2, <1>3, <1>4, <1>5 DEF Next

Submits(p) == SubmitReady(p) \/ SubmitRoot(p) \/ (p = Requester /\ Resubmit)

LEMMA ActiveNext ==
  ASSUME [Next]_vars
  PROVE  \/ UNCHANGED active
         \/ Terminates
         \/ \E p \in Procs : CancelUnrecorded(p) \/ Submits(p)
<1> USE ProcsFacts
<1>1. CASE \E p \in Advancers : AdvancerStep(p)
  BY <1>1 DEF AdvancerStep, ReadRecord, PlanAdvance, CheckActive,
     Settle, PlanCancel, EndCancel, Ack, poolVars, Submits
<1>2. CASE RequesterStep
  <2>1. CASE \/ SkipAnswered \/ HandleStart \/ SubmitRoot(Requester)
             \/ HandleRerun \/ PlanRerun \/ SwapRun \/ Resubmit
             \/ HandleCancel \/ SettleCancelled \/ WriteAnswer
    BY <2>1 DEF SkipAnswered, HandleStart, HandleRerun, PlanRerun,
       SwapRun, HandleCancel, SettleCancelled, WriteAnswer, poolVars, Submits
  <2>2. CASE \/ ReadRecord(Requester) \/ PlanCancel(Requester)
             \/ CancelUnrecorded(Requester) \/ EndCancel(Requester)
             \/ Ack(Requester)
    BY <2>2 DEF ReadRecord, PlanCancel, EndCancel, Ack, poolVars
  <2> QED
    BY <1>2, <2>1, <2>2 DEF RequesterStep
<1>3. CASE TriggerStep
  BY <1>3 DEF TriggerStep, HandleTrigger, Ack, poolVars, Submits
<1>4. CASE \/ Send \/ (\E w \in EventWorkers : HandleEvent(w)) \/ Reconcile
           \/ (\E p \in Procs : Fail(p)) \/ FailPass \/ Tick \/ UNCHANGED vars
  BY <1>4 DEF Send, HandleEvent, Reconcile, Fail, FailPass, Tick, vars,
     poolVars
<1>5. CASE PassStep
  BY <1>5 DEF PassStep, ExpireRun, ExpireRequest, DropEntry, RemoveRequest,
     RemoveRun, poolVars
<1> QED
  BY <1>1, <1>2, <1>3, <1>4, <1>5 DEF Next

LEMMA SubmitsFrame ==
  ASSUME NEW p, Submits(p)
  PROVE  UNCHANGED <<run, recs, terminated>>
BY DEF Submits, SubmitReady, SubmitRoot, Resubmit, storeVars

LEMMA CommitShape ==
  ASSUME NEW c \in RunRecord, NEW state, NEW e,
         CommitSettled(c, [c EXCEPT !.state = state, !.expected = e])
  PROVE  \/ UNCHANGED run
         \/ run = c /\ run'.expected = e /\ run'.state = state
<1> DEFINE settled == [c EXCEPT !.state = state, !.expected = e]
<1>1. settled \in [state : {state}, requested : Nat, settled : Nat,
                   expected : {e}]
  BY DEF RunRecord
<1> HIDE DEF settled
<1> QED
  BY <1>1 DEF CommitSettled, settled

\* A settle replaces the run of the snapshot and retains what it expects.
LEMMA SettleShape ==
  ASSUME TypeInv, NEW p \in Procs, Settle(p)
  PROVE  \/ UNCHANGED run
         \/ /\ run = proc[p].run
            /\ run'.expected = RetainExpected(Graph, proc[p].run, proc[p].recs)
            /\ run'.state = SettledState(NodeStates(Graph, Current(proc[p])))
BY LocalRun, CommitShape DEF Settle

\* A cancel replaces the run that it read and expects the same.
LEMMA CancelShape ==
  ASSUME TypeInv, SettleCancelled
  PROVE  \/ UNCHANGED run
         \/ /\ run = proc[Requester].run
            /\ run'.expected = run.expected
            /\ run'.state = "cancelled"
BY LocalRun, ProcsFacts DEF SettleCancelled, CommitSettled, RunRecord

\* A rerun replaces the run that it read.
LEMMA SwapShape ==
  ASSUME TypeInv, SwapRun
  PROVE  \/ UNCHANGED run /\ Step(Requester, Idle)
         \/ /\ run = proc[Requester].run
            /\ Step(Requester, [proc[Requester] EXCEPT !.at = "resubmit"])
            /\ \E n \in proc[Requester].scope :
                 run' = Reactivated(Graph, run, proc[Requester].recs, n)
BY DEF SwapRun

LEMMA ReactivatedShape ==
  ASSUME NEW c \in RunRecord, NEW r, NEW n
  PROVE  /\ Reactivated(Graph, c, r, n).state = "active"
         /\ \A m \in Nodes :
              Reactivated(Graph, c, r, n).expected[m] =
                 IF /\ r[n].status = "succeeded" /\ IsCurrent(c, n, r[n])
                    /\ m \in RerunScope(Graph, n) /\ r[m].status # "absent"
                 THEN r[m].rerun + 1 ELSE c.expected[m]
BY DEF Reactivated, RunRecord, Nodes

LEMMA StartShape ==
  ASSUME NEW p, StartRun(p)
  PROVE  UNCHANGED run \/ (run.state = "absent" /\ run' = NewRun)
BY DEF StartRun

-----------------------------------------------------------------------------
(* What a process remembers *)

\* The run c expects a rerun of n that no record of r has reached.
Pending(c, r, n) == r[n].status # "absent" /\ c.expected[n] > r[n].rerun

\* No active task instance will replace a succeeded record, unless the run
\* expects the rerun.
SuccessesStand ==
  \A i \in active : recs[i.node].status = "succeeded" =>
                      Pending(run, recs, i.node)

AbsentExpectsNothing ==
  run.state = "absent" => \A n \in Nodes : run.expected[n] = 0

\* The local state l beside the run c and the records r: the record of n that
\* it has read is the present one or has an earlier rerun count; what its run
\* expects is reachable, and still expected while no record has reached it.
Recalls(l, c, r, n) ==
  /\ r[n].status # "absent" /\ NextRerun(l.recs, n) = NextRerun(r, n)
       => l.recs[n] = r[n]
  /\ l.run.expected[n] <= NextRerun(r, n)
  /\ Pending(l.run, r, n) => Pending(c, r, n)

\* The snapshot was read after the run, so that the run expects no more.
Reaches(l) ==
  \A n \in Nodes :
    (l.at = "records" /\ n \notin l.todo) \/ l.at = "swap" =>
      l.run.expected[n] <= NextRerun(l.recs, n)

Unfinished(l, n) ==
  l.recs[n].status = "absent" \/ ~IsCurrent(l.run, n, l.recs[n])

Remembers(l, c, r) ==
  /\ \A n \in Nodes : Recalls(l, c, r, n)
  /\ Reaches(l)
  /\ l.at = "submit" => \A n \in l.todo : Unfinished(l, n)

\* The rerun of a succeeded node is one that the run expects.
ResubmitsExpected(l, c, r) ==
  l.at = "resubmit" =>
    \A n \in l.scope :
      /\ l.recs[n].status = "succeeded"
      /\ r[n].status # "absent" /\ r[n].rerun = l.recs[n].rerun
      => Pending(c, r, n)

SuccessInv ==
  /\ InstancesInv
  /\ SuccessesStand
  /\ AbsentExpectsNothing
  /\ \A p \in Procs : /\ Remembers(proc[p], run, recs)
                      /\ ResubmitsExpected(proc[p], run, recs)

LEMMA RecordTypes ==
  ASSUME TypeInv
  PROVE  /\ \A n \in Nodes : /\ recs[n] \in NodeRecord /\ recs[n].rerun \in Nat
                             /\ NextRerun(recs, n) \in Nat
                             /\ run.expected[n] \in Nat
         /\ \A p \in Procs, n \in Nodes :
              /\ proc[p].recs[n] \in NodeRecord /\ proc[p].recs[n].rerun \in Nat
              /\ NextRerun(proc[p].recs, n) \in Nat
              /\ proc[p].run.expected[n] \in Nat
<1>1. /\ recs \in [Nodes -> NodeRecord] /\ run \in RunRecord
      /\ \A p \in Procs : /\ proc[p].recs \in [Nodes -> NodeRecord]
                          /\ proc[p].run \in RunRecord
  BY DEF TypeInv, TypeOK, Local
<1> QED
  BY <1>1, NextRerunType DEF NodeRecord, RunRecord

\* A ready node has no current record.
LEMMA ReadyUnfinished ==
  ASSUME NEW k \in Local, NEW n \in ReadyOf(k)
  PROVE  Unfinished(k, n)
<1>1. /\ k.recs \in [Nodes -> NodeRecord] /\ k.run \in RunRecord
      /\ n \in Nodes
  BY DEF Local, ReadyOf
<1>2. Current(k) \in [Nodes -> NodeRecord]
  BY <1>1, CurrentType DEF Current
<1>3. Current(k)[n].status = "absent"
  BY <1>1, <1>2, StateFacts DEF ReadyOf, Terminal, NodeRecord
<1> QED
  BY <1>1, <1>3 DEF Current, CurrentRecords, Unfinished, Nodes

\* A step of a process, on the run and the records before it.
LEMMA MoveRemembers ==
  ASSUME InstancesInv, NEW k \in Local, NEW l \in Local,
         Remembers(k, run, recs), Moves(k, l)
  PROVE  Remembers(l, run, recs)
<1>0. /\ \A n \in Nodes : /\ recs[n].rerun \in Nat /\ NextRerun(recs, n) \in Nat
                          /\ run.expected[n] \in Nat
      /\ \A n \in Nodes : run.expected[n] <= NextRerun(recs, n)
      /\ recs \in [Nodes -> NodeRecord]
  BY RecordTypes DEF InstancesInv, ExpectedBounded, TypeInv, TypeOK
<1>1. CASE l = k
  BY <1>1
<1>2. CASE Rests(l)
  <2>1. /\ l.run.expected = [n \in Nodes |-> 0]
        /\ \A n \in Nodes : NextRerun(l.recs, n) = 0
    BY <1>2, NoRecordsNext DEF Rests, NoRun
  <2>2. \A n \in Nodes : Recalls(l, run, recs, n)
    BY <1>0, <2>1 DEF Recalls, Pending, NextRerun
  <2> QED
    BY <1>2, <2>2 DEF Rests, Remembers, Reaches
<1>3. CASE Takes(l)
  <2>1. l.run = run /\ \A n \in Nodes : NextRerun(l.recs, n) = 0
    BY <1>3, NoRecordsNext DEF Takes
  <2>2. \A n \in Nodes : Recalls(l, run, recs, n)
    BY <1>0, <2>1 DEF Recalls, NextRerun
  <2> QED
    BY <1>3, <2>2 DEF Takes, Remembers, Reaches
<1>4. CASE ReadsOne(k, l)
  <2>1. PICK n \in k.todo :
          /\ k.at = "records" /\ l.at = "records" /\ l.run = k.run
          /\ l.recs = [k.recs EXCEPT ![n] = recs[n]] /\ l.todo = k.todo \ {n}
    BY <1>4 DEF ReadsOne
  <2>2. /\ n \in Nodes /\ l.recs[n] = recs[n]
        /\ NextRerun(l.recs, n) = NextRerun(recs, n)
        /\ \A m \in Nodes \ {n} : /\ l.recs[m] = k.recs[m]
                                  /\ NextRerun(l.recs, m) = NextRerun(k.recs, m)
    BY <2>1 DEF Local, NextRerun
  <2>3. \A m \in Nodes : Recalls(l, run, recs, m)
    BY <2>1, <2>2 DEF Remembers, Recalls
  <2>4. Reaches(l)
    BY <2>1, <2>2, <2>3 DEF Remembers, Recalls, Reaches
  <2> QED
    BY <2>1, <2>3, <2>4 DEF Remembers
<1>5. CASE GoesFrom(k, l)
  <2>1. l.run = k.run /\ l.recs = k.recs
    BY <1>5 DEF GoesFrom
  <2>2. \A n \in Nodes : Recalls(l, run, recs, n)
    BY <2>1 DEF Remembers, Recalls
  <2>3. Reaches(l)
    BY <1>5, <2>1 DEF GoesFrom, Follows, Remembers, Reaches, Local
  <2>4. ASSUME l.at = "submit", NEW n \in l.todo PROVE Unfinished(l, n)
    <3>1. Unfinished(k, n)
      BY <1>5, <2>4, ReadyUnfinished DEF GoesFrom, Remembers
    <3> QED
      BY <2>1, <3>1 DEF Unfinished
  <2> QED
    BY <2>2, <2>3, <2>4 DEF Remembers
<1> QED
  BY <1>1, <1>2, <1>3, <1>4, <1>5 DEF Moves

\* A run that expects what was pending.
LEMMA RunRemembers ==
  ASSUME NEW l, NEW c, NEW d, NEW r, Remembers(l, c, r),
         \A n \in Nodes : Pending(c, r, n) => Pending(d, r, n)
  PROVE  Remembers(l, d, r)
BY DEF Remembers, Recalls

LEMMA Grows ==
  ASSUME InstancesInv, NEW i \in active, NEW status \in Terminal,
         Terminate(i, status)
  PROVE  /\ i.node \in Nodes /\ i.rerun \in Nat
         /\ i.rerun = NextRerun(recs, i.node)
         /\ recs'[i.node].status = status /\ recs'[i.node].rerun = i.rerun
         /\ NextRerun(recs', i.node) = NextRerun(recs, i.node) + 1
         /\ \A n \in Nodes : n # i.node =>
              recs'[n] = recs[n] /\ NextRerun(recs', n) = NextRerun(recs, n)
<1>1. /\ i \in Instance /\ i.node \in Nodes /\ recs \in [Nodes -> NodeRecord]
      /\ i.rerun = NextRerun(recs, i.node) /\ i.rerun \in Nat
  BY DEF InstancesInv, TypeInv, TypeOK, Instance, NextOnly
<1>2. /\ recs'[i.node].status = status /\ recs'[i.node].rerun = i.rerun
      /\ \A n \in Nodes : n # i.node => recs'[n] = recs[n]
  BY <1>1 DEF Terminate
<1> QED
  BY <1>1, <1>2 DEF NextRerun, Terminal

\* A record reaches every count that a process could expect of the node.
LEMMA RecordRemembers ==
  ASSUME InstancesInv, NEW i \in active, NEW status \in Terminal,
         Terminate(i, status), NEW p \in Procs,
         Remembers(proc[p], run, recs), ResubmitsExpected(proc[p], run, recs)
  PROVE  /\ Remembers(proc[p], run, recs')
         /\ ResubmitsExpected(proc[p], run, recs')
<1> DEFINE l == proc[p]
<1>1. l \in Local
  BY LocalFacts DEF InstancesInv
<1>2. \A n \in Nodes :
        /\ NextRerun(recs, n) \in Nat /\ NextRerun(l.recs, n) \in Nat
        /\ NextRerun(l.recs, n) <= NextRerun(recs, n)
        /\ l.run.expected[n] \in Nat /\ l.recs[n].rerun \in Nat
        /\ l.run.expected[n] <= NextRerun(recs, n)
  BY RecordTypes DEF InstancesInv, SnapshotsOlder, Remembers, Recalls
<1>3. Recalls(l, run, recs', i.node)
  BY <1>2, Grows DEF Recalls, Pending
<1>4. \A n \in Nodes : Recalls(l, run, recs', n)
  BY <1>3, Grows DEF Remembers, Recalls, Pending
<1>5. ASSUME l.at = "resubmit", NEW n \in l.scope, l.recs[n].status = "succeeded",
             recs'[n].rerun = l.recs[n].rerun, recs'[n].status # "absent"
      PROVE  Pending(run, recs', n)
  <2>1. n \in Nodes
    BY <1>1, <1>5 DEF Local
  <2>2. NextRerun(l.recs, n) = l.recs[n].rerun + 1
    BY <1>5 DEF NextRerun
  <2>3. n # i.node
    BY <1>2, <1>5, <2>1, <2>2, Grows
  <2> QED
    BY <1>5, <2>1, <2>3, Grows DEF ResubmitsExpected, Pending
<1> QED
  BY <1>4, <1>5 DEF Remembers, ResubmitsExpected

\* A removal that removes no record finds none.
LEMMA RemovesNothing ==
  ASSUME RemoveRun, RecordsStay, ~UNCHANGED <<run, recs, terminated>>
  PROVE  /\ run' = NoRun /\ recs' = NoRecords
         /\ \A n \in Nodes : recs[n].status = "absent" /\ NextRerun(recs, n) = 0
<1>1. run' = NoRun /\ recs' = NoRecords
  BY DEF RemoveRun, storeVars
<1>2. \A n \in Nodes : recs'[n].status = "absent"
  BY <1>1 DEF NoRecords, NoRecord
<1> QED
  BY <1>1, <1>2 DEF RecordsStay, NextRerun

\* No write of the run record drops an expected count that no record reached.
LEMMA PendingStays ==
  ASSUME SuccessInv, [Next]_vars, [RecordsStay]_vars, NEW n \in Nodes,
         Pending(run, recs, n)
  PROVE  Pending(run', recs, n)
<1>0. /\ TypeInv
      /\ run.expected[n] \in Nat /\ recs[n].rerun \in Nat
      /\ \A p \in Procs : proc[p].recs[n].rerun \in Nat
      /\ \A p \in Procs : NextRerun(proc[p].recs, n) <= NextRerun(recs, n)
      /\ \A p \in Procs : Recalls(proc[p], run, recs, n)
  BY RecordTypes DEF SuccessInv, InstancesInv, SnapshotsOlder, Remembers
<1>1. CASE UNCHANGED run
  BY <1>1 DEF Pending
<1>2. CASE \E p \in Advancers : Settle(p)
  <2>1. PICK p \in Procs : Settle(p)
    BY <1>2, ProcsFacts
  <2>2. CASE /\ run = proc[p].run
             /\ run'.expected = RetainExpected(Graph, proc[p].run, proc[p].recs)
    <3>1. run'.expected[n] =
            IF /\ proc[p].recs[n].status # "absent"
               /\ proc[p].recs[n].rerun >= run.expected[n]
            THEN 0 ELSE run.expected[n]
      BY <2>2 DEF RetainExpected, Nodes
    <3>2. proc[p].recs[n].status # "absent" =>
            proc[p].recs[n].rerun <= recs[n].rerun
      BY <1>0 DEF NextRerun, Pending
    <3> QED
      BY <1>0, <3>1, <3>2 DEF Pending
  <2> QED
    BY <1>0, <1>1, <2>1, <2>2, SettleShape
<1>3. CASE SwapRun
  <2> DEFINE l == proc[Requester]
  <2>1. CASE /\ run = l.run
             /\ \E m \in l.scope : run' = Reactivated(Graph, run, l.recs, m)
    <3>1. PICK m \in l.scope : run' = Reactivated(Graph, run, l.recs, m)
      BY <2>1
    <3>2. run \in RunRecord
      BY <1>0 DEF TypeInv, TypeOK
    <3>3. \/ run'.expected[n] = run.expected[n]
          \/ /\ run'.expected[n] = l.recs[n].rerun + 1
             /\ l.recs[n].status # "absent"
      BY <3>1, <3>2, ReactivatedShape
    <3>4. run.expected[n] <= NextRerun(l.recs, n)
      BY <1>3, <2>1, ProcsFacts DEF SuccessInv, Remembers, Reaches, SwapRun
    <3> QED
      BY <1>0, <3>3, <3>4, ProcsFacts DEF Pending, NextRerun
  <2> QED
    BY <1>0, <1>1, <1>3, <2>1, SwapShape
<1>4. CASE SettleCancelled
  BY <1>0, <1>1, <1>4, CancelShape DEF Pending
<1>5. CASE HandleStart \/ HandleTrigger
  <2>1. UNCHANGED run \/ run.state = "absent"
    BY <1>5, StartShape DEF HandleStart, HandleTrigger
  <2> QED
    BY <1>0, <1>1, <2>1 DEF SuccessInv, AbsentExpectsNothing, Pending
<1>6. CASE RemoveRun /\ ~UNCHANGED run
  <2>1. RecordsStay
    BY <1>6 DEF vars, storeVars
  <2> QED
    BY <1>6, <2>1, RemovesNothing DEF Pending
<1> QED
  BY <1>1, <1>2, <1>3, <1>4, <1>5, <1>6, RunNext

LEMMA AbsentNext ==
  ASSUME SuccessInv, [Next]_vars, [RecordsStay]_vars
  PROVE  AbsentExpectsNothing'
<1>0. TypeInv /\ run \in RunRecord
  BY DEF SuccessInv, InstancesInv, TypeInv, TypeOK
<1>1. CASE UNCHANGED run
  BY <1>1 DEF SuccessInv, AbsentExpectsNothing
<1>2. CASE run'.state # "absent"
  BY <1>2 DEF AbsentExpectsNothing
<1>3. CASE \E p \in Advancers : Settle(p)
  BY <1>0, <1>1, <1>2, <1>3, SettleShape, SettledStateValues, ProcsFacts
<1>4. CASE SwapRun
  BY <1>0, <1>1, <1>2, <1>4, SwapShape, ReactivatedShape
<1>5. CASE SettleCancelled
  BY <1>0, <1>1, <1>2, <1>5, CancelShape
<1>6. CASE HandleStart \/ HandleTrigger
  <2>1. UNCHANGED run \/ run' = NewRun
    BY <1>6, StartShape DEF HandleStart, HandleTrigger
  <2> QED
    BY <1>1, <1>2, <2>1 DEF NewRun
<1>7. CASE RemoveRun
  <2>1. UNCHANGED run \/ run' = NoRun
    BY <1>7 DEF RemoveRun, storeVars
  <2> QED
    BY <1>1, <2>1 DEF AbsentExpectsNothing, NoRun
<1> QED
  BY <1>1, <1>3, <1>4, <1>5, <1>6, <1>7, RunNext

\* The snapshot of a process that does not plan or write a rerun.
LEMMA RemembersNext ==
  ASSUME SuccessInv, InstancesInv', [Next]_vars, [RecordsStay]_vars,
         NEW p \in Procs
  PROVE  Remembers(proc'[p], run', recs')
<1>0. /\ TypeInv /\ TypeInv' /\ InstancesInv /\ Moves(proc[p], proc'[p])
      /\ proc[p] \in Local /\ proc'[p] \in Local
  BY NextMoves, LocalFacts DEF SuccessInv, InstancesInv, TypeInv, TypeOK
<1>1. CASE UNCHANGED recs
  <2>1. Remembers(proc'[p], run, recs)
    BY <1>0, MoveRemembers DEF SuccessInv
  <2>2. Remembers(proc'[p], run', recs)
    BY <2>1, PendingStays, RunRemembers
  <2> QED
    BY <1>1, <2>2
<1>2. CASE Terminates
  <2>1. PICK i \in active, status \in Terminal : Terminate(i, status)
    BY <1>2 DEF Terminates
  <2> QED
    BY <1>0, <2>1, RecordRemembers DEF SuccessInv, Terminate
<1>3. CASE RemoveRun /\ ~UNCHANGED <<run, recs, terminated>>
  <2>1. RecordsStay
    BY <1>3 DEF vars, storeVars, poolVars
  <2>2. UNCHANGED proc
    BY <1>3 DEF RemoveRun
  <2>3. \A n \in Nodes : recs[n].status = "absent" /\ recs'[n].status = "absent"
    BY <1>3, <2>1, RemovesNothing DEF NoRecords, NoRecord
  <2>4. \A n \in Nodes : Recalls(proc[p], run', recs', n)
    BY <2>3 DEF SuccessInv, Remembers, Recalls, Pending, NextRerun
  <2> QED
    BY <2>2, <2>4 DEF SuccessInv, Remembers
<1> QED
  BY <1>1, <1>2, <1>3, RecordsNext

\* A plan of a rerun whose run record needs no write.
LEMMA PlanExpects ==
  ASSUME SuccessInv, PlanRerun
  PROVE  ResubmitsExpected(proc'[Requester], run, recs)
<1> DEFINE l == proc[Requester]
           refuses == [l EXCEPT !.at = "answer", !.outcome = "refused"]
           swaps == [l EXCEPT !.at = "swap"]
           resubmits == [l EXCEPT !.at = "resubmit"]
<1>0. /\ TypeInv /\ Requester \in Procs /\ l \in Local /\ l.run \in RunRecord
      /\ l.recs \in [Nodes -> NodeRecord]
      /\ Remembers(l, run, recs) /\ Planned(l)
  BY ProcsFacts, LocalRun, LocalFacts DEF SuccessInv, InstancesInv
<1>1. PICK n \in l.scope :
        \/ Step(Requester, refuses)
        \/ Step(Requester, swaps)
        \/ /\ Reactivated(Graph, l.run, l.recs, n) = l.run
           /\ Step(Requester, resubmits)
  BY DEF PlanRerun
<1>2. n \in Nodes /\ l.scope = {n}
  BY <1>0 DEF PlanRerun, HasRead, Planned, Local
<1>3. refuses.at = "answer" /\ swaps.at = "swap"
  BY <1>0 DEF Local
<1>4. /\ resubmits.recs = l.recs /\ resubmits.scope = {n}
  BY <1>0, <1>2 DEF Local
<1> HIDE DEF refuses, swaps, resubmits
<1>5. \A x : Step(Requester, x) => proc'[Requester] = x
  BY <1>0 DEF Step, TypeInv, TypeOK
<1>6. CASE Step(Requester, refuses) \/ Step(Requester, swaps)
  BY <1>3, <1>5, <1>6 DEF ResubmitsExpected
<1>7. ASSUME Reactivated(Graph, l.run, l.recs, n) = l.run,
             l.recs[n].status = "succeeded",
             recs[n].status # "absent", recs[n].rerun = l.recs[n].rerun
      PROVE  Pending(run, recs, n)
  <2>1. l.run.expected[n] =
          IF IsCurrent(l.run, n, l.recs[n]) /\ n \in RerunScope(Graph, n)
          THEN l.recs[n].rerun + 1 ELSE l.run.expected[n]
    BY <1>0, <1>2, <1>7, ReactivatedShape
  <2>2. n \in RerunScope(Graph, n)
    BY <1>2 DEF RerunScope, Nodes
  <2>3. ~IsCurrent(l.run, n, l.recs[n])
    BY <1>0, <1>2, <2>1, <2>2, RecordTypes DEF IsCurrent
  <2>4. Pending(l.run, recs, n) /\ Pending(run, recs, n)
    BY <1>0, <1>2, <1>7, <2>3, RecordTypes
    DEF IsCurrent, Pending, Remembers, Recalls
  <2> QED
    BY <2>4
<1> QED
  BY <1>1, <1>4, <1>5, <1>6, <1>7 DEF ResubmitsExpected

\* A rerun that has written the run record.
LEMMA SwapExpects ==
  ASSUME SuccessInv, SwapRun
  PROVE  ResubmitsExpected(proc'[Requester], run', recs)
<1> DEFINE l == proc[Requester]
           resubmits == [l EXCEPT !.at = "resubmit"]
<1>0. /\ TypeInv /\ Requester \in Procs /\ l \in Local
      /\ run \in RunRecord /\ Planned(l) /\ l.at = "swap"
  BY ProcsFacts, LocalFacts
  DEF SuccessInv, InstancesInv, SwapRun, TypeInv, TypeOK
<1>1. \A x : Step(Requester, x) => proc'[Requester] = x
  BY <1>0 DEF Step, TypeInv, TypeOK
<1>2. CASE Step(Requester, Idle)
  BY <1>1, <1>2 DEF ResubmitsExpected, Idle
<1>3. CASE /\ run = l.run
           /\ Step(Requester, resubmits)
           /\ \E n \in l.scope : run' = Reactivated(Graph, run, l.recs, n)
  <2>1. PICK n \in Nodes : l.scope = {n} /\ run' = Reactivated(Graph, run, l.recs, n)
    BY <1>0, <1>3 DEF Planned
  <2>2. resubmits.recs = l.recs /\ resubmits.scope = {n}
    BY <1>0, <2>1 DEF Local
  <2> HIDE DEF resubmits
  <2>3. ASSUME l.recs[n].status = "succeeded",
               recs[n].status # "absent", recs[n].rerun = l.recs[n].rerun
        PROVE  Pending(run', recs, n)
    <3>1. n \in RerunScope(Graph, n)
      BY DEF RerunScope, Nodes
    <3>2. \/ run'.expected[n] = l.recs[n].rerun + 1
          \/ ~IsCurrent(run, n, l.recs[n]) /\ run'.expected[n] = run.expected[n]
      BY <1>0, <2>1, <2>3, <3>1, ReactivatedShape
    <3> QED
      BY <1>0, <2>3, <3>2, RecordTypes DEF Pending, IsCurrent
  <2> QED
    BY <1>1, <1>3, <2>2, <2>3 DEF ResubmitsExpected
<1> QED
  BY <1>0, <1>2, <1>3, SwapShape

LEMMA ResubmitsNext ==
  ASSUME SuccessInv, [Next]_vars, [RecordsStay]_vars, NEW p \in Procs
  PROVE  ResubmitsExpected(proc'[p], run', recs')
<1> DEFINE l == proc[p]
<1>0. /\ TypeInv /\ InstancesInv /\ proc \in [Procs -> Local]
      /\ l \in Local /\ Requester \in Procs
      /\ Remembers(l, run, recs) /\ ResubmitsExpected(l, run, recs)
  BY LocalFacts, ProcsFacts DEF SuccessInv, InstancesInv, TypeInv, TypeOK
<1>1. CASE p = Requester /\ PlanRerun
  BY <1>1, PlanExpects DEF PlanRerun, storeVars
<1>2. CASE p = Requester /\ SwapRun
  BY <1>2, SwapExpects DEF SwapRun
<1>3. CASE ~(p = Requester /\ (PlanRerun \/ SwapRun))
  <2>1. proc'[p].at = "resubmit" => proc'[p] = l
    <3>1. CASE PlanRerun \/ SwapRun
      <4>1. PICK x : Step(Requester, x)
        BY <3>1 DEF PlanRerun, SwapRun
      <4> QED
        BY <1>0, <1>3, <3>1, <4>1 DEF Step
    <3>2. CASE ~(PlanRerun \/ SwapRun)
      BY <1>0, <3>2, NextMoves
      DEF Moves, Rests, Takes, ReadsOne, GoesFrom
    <3> QED
      BY <3>1, <3>2
  <2>2. CASE proc'[p].at # "resubmit"
    BY <2>2 DEF ResubmitsExpected
  <2>3. CASE proc'[p] = l
    <3>1. CASE UNCHANGED recs
      <4>1. \A n \in Nodes : Pending(run, recs, n) => Pending(run', recs, n)
        BY PendingStays
      <4> QED
        BY <1>0, <2>3, <3>1, <4>1 DEF ResubmitsExpected, Local
    <3>2. CASE Terminates
      <4>1. PICK i \in active, status \in Terminal : Terminate(i, status)
        BY <3>2 DEF Terminates
      <4> QED
        BY <1>0, <2>3, <4>1, RecordRemembers DEF Terminate
    <3>3. CASE RemoveRun /\ ~UNCHANGED <<run, recs, terminated>>
      <4>1. RecordsStay
        BY <3>3 DEF vars, storeVars, poolVars
      <4>2. \A n \in Nodes : recs'[n].status = "absent"
        BY <3>3, <4>1, RemovesNothing DEF NoRecords, NoRecord
      <4> QED
        BY <1>0, <2>3, <4>2 DEF ResubmitsExpected, Local
    <3> QED
      BY <3>1, <3>2, <3>3, RecordsNext
  <2> QED
    BY <2>1, <2>2, <2>3
<1> QED
  BY <1>1, <1>2, <1>3

\* A new task instance has the next rerun count.
LEMMA NewIsNext ==
  ASSUME RefuseTerminated, InstancesInv, NEW n \in Nodes, NEW k \in Nat,
         k <= NextRerun(recs, n), IsNew(n, k)
  PROVE  k = NextRerun(recs, n)
BY RecordTypes DEF IsNew, InstancesInv, EarlierTerminated

\* What a process submits: the next task instance of a node, of which it may
\* know that its success, if any, is not the one that the run expects.
LEMMA SubmitsNew ==
  ASSUME RefuseTerminated, SuccessInv, NEW p \in Procs, Submits(p)
  PROVE  \A i \in active' : \/ i \in active
                            \/ /\ i.node \in Nodes /\ i.cancel = FALSE
                               /\ i.rerun = NextRerun(recs, i.node)
                               /\ recs[i.node].status = "succeeded" =>
                                    Pending(run, recs, i.node)
<1> DEFINE l == proc[p]
<1>0. /\ TypeInv /\ InstancesInv /\ l \in Local /\ Requester \in Procs
      /\ Remembers(l, run, recs) /\ ResubmitsExpected(l, run, recs)
      /\ SnapshotsOlder
  BY LocalFacts, ProcsFacts DEF SuccessInv, InstancesInv
<1>1. ASSUME NEW n \in Nodes, NEW k \in Nat, k <= NextRerun(recs, n), NEW s,
             SubmitNode(n, k, s),
             /\ k = NextRerun(recs, n) /\ recs[n].status = "succeeded"
             => Pending(run, recs, n),
             NEW i \in active', i \notin active
      PROVE  /\ i.node \in Nodes /\ i.cancel = FALSE
             /\ i.rerun = NextRerun(recs, i.node)
             /\ recs[i.node].status = "succeeded" => Pending(run, recs, i.node)
  <2>1. IsNew(n, k) /\ i.node = n /\ i.rerun = k /\ i.cancel = FALSE
    BY <1>1 DEF SubmitNode
  <2>2. k = NextRerun(recs, n)
    BY <1>0, <1>1, <2>1, NewIsNext
  <2> QED
    BY <1>1, <2>1, <2>2
<1>2. CASE SubmitReady(p)
  <2>1. PICK n \in l.todo :
          SubmitNode(n, NextRerun(l.recs, n), Current(l))
    BY <1>2 DEF SubmitReady, IsFirst
  <2>2. /\ n \in Nodes /\ NextRerun(l.recs, n) \in Nat
        /\ NextRerun(l.recs, n) <= NextRerun(recs, n)
    BY <1>0, RecordTypes DEF Local, SnapshotsOlder
  <2>3. ASSUME NextRerun(l.recs, n) = NextRerun(recs, n),
               recs[n].status = "succeeded"
        PROVE  Pending(run, recs, n)
    <3>1. l.recs[n] = recs[n] /\ Unfinished(l, n)
      BY <1>0, <1>2, <2>2, <2>3 DEF Remembers, Recalls, SubmitReady
    <3>2. Pending(l.run, recs, n)
      BY <1>0, <2>2, <2>3, <3>1, RecordTypes
      DEF Unfinished, IsCurrent, Pending
    <3> QED
      BY <1>0, <2>2, <3>2 DEF Remembers, Recalls
  <2> QED
    BY <1>1, <2>1, <2>2, <2>3
<1>3. CASE SubmitRoot(p)
  <2>1. PICK n \in Nodes : SubmitNode(n, 0, NoRecords)
    BY <1>3 DEF SubmitRoot
  <2>2. /\ 0 \in Nat /\ 0 <= NextRerun(recs, n)
        /\ 0 = NextRerun(recs, n) => recs[n].status = "absent"
    BY <1>0, RecordTypes DEF NextRerun
  <2> QED
    BY <1>1, <2>1, <2>2
<1>4. CASE p = Requester /\ Resubmit
  <2>1. PICK n \in l.scope :
          SubmitNode(n, l.recs[n].rerun + 1,
             CurrentRecords(Graph, Reactivated(Graph, l.run, l.recs, n),
                            l.recs))
    BY <1>4 DEF Resubmit
  <2>2. /\ n \in Nodes /\ l.at = "resubmit" /\ l.recs[n].status # "absent"
    BY <1>0, <1>4 DEF Local, InstancesInv, Planned, Resubmit
  <2>3. /\ l.recs[n].rerun + 1 = NextRerun(l.recs, n)
        /\ NextRerun(l.recs, n) \in Nat
        /\ NextRerun(l.recs, n) <= NextRerun(recs, n)
    BY <1>0, <2>2, RecordTypes DEF NextRerun, SnapshotsOlder
  <2>4. ASSUME NextRerun(l.recs, n) = NextRerun(recs, n),
               recs[n].status = "succeeded"
        PROVE  Pending(run, recs, n)
    <3>1. l.recs[n] = recs[n]
      BY <1>0, <2>2, <2>4 DEF Remembers, Recalls
    <3> QED
      BY <1>0, <2>2, <2>4, <3>1 DEF ResubmitsExpected
  <2> QED
    BY <1>1, <2>1, <2>3, <2>4, <2>2
<1> QED
  BY <1>2, <1>3, <1>4 DEF Submits

LEMMA StandNext ==
  ASSUME RefuseTerminated, SuccessInv, [Next]_vars, [RecordsStay]_vars
  PROVE  SuccessesStand'
<1>0. InstancesInv /\ TypeInv /\ \A i \in active : i.node \in Nodes
  BY DEF SuccessInv, InstancesInv, TypeInv, TypeOK, Instance
<1>1. CASE Terminates
  <2>1. PICK i \in active, status \in Terminal : Terminate(i, status)
    BY <1>1 DEF Terminates
  <2>2. \A j \in active' : j \in active /\ j.node # i.node /\ j.node \in Nodes
    BY <1>0, <2>1 DEF Terminate, InstancesInv, OneEach
  <2>3. \A j \in active' : recs'[j.node] = recs[j.node]
    BY <1>0, <2>1, <2>2, Grows
  <2> QED
    BY <2>1, <2>2, <2>3 DEF Terminate, SuccessInv, SuccessesStand, Pending
<1>2. CASE RemoveRun /\ ~UNCHANGED <<run, recs, terminated>>
  <2>1. RecordsStay /\ UNCHANGED active
    BY <1>2 DEF RemoveRun, vars, storeVars, poolVars
  <2>2. \A n \in Nodes : recs'[n].status = "absent"
    BY <1>2, <2>1, RemovesNothing DEF NoRecords, NoRecord
  <2> QED
    BY <1>0, <2>1, <2>2 DEF SuccessesStand
<1>3. CASE UNCHANGED recs
  <2>1. SUFFICES ASSUME NEW i \in active', recs[i.node].status = "succeeded",
                        ~Terminates
                 PROVE  Pending(run', recs, i.node)
    BY <1>1, <1>3 DEF SuccessesStand
  <2>2. CASE \E j \in active : i.node = j.node
    <3>1. i.node \in Nodes /\ Pending(run, recs, i.node)
      BY <1>0, <2>1, <2>2 DEF SuccessInv, SuccessesStand
    <3> QED
      BY <3>1, PendingStays
  <2>3. CASE \E p \in Procs : CancelUnrecorded(p)
    <3>1. PICK n, k : CancelInstance(n, k)
      BY <2>3 DEF CancelUnrecorded
    <3>2. \E j \in active : i = j \/ i = [j EXCEPT !.cancel = TRUE]
      BY <2>1, <3>1 DEF CancelInstance
    <3>3. \A j \in active : [j EXCEPT !.cancel = TRUE].node = j.node
      BY <1>0 DEF TypeInv, TypeOK, Instance
    <3> QED
      BY <2>2, <3>2, <3>3
  <2>4. CASE \E p \in Procs : Submits(p)
    <3>1. PICK p \in Procs : Submits(p)
      BY <2>4
    <3>2. i \in active \/ Pending(run, recs, i.node)
      BY <2>1, <3>1, SubmitsNew
    <3> QED
      BY <2>2, <3>1, <3>2, SubmitsFrame DEF Pending
  <2> QED
    BY <2>1, <2>2, <2>3, <2>4, ActiveNext
<1> QED
  BY <1>1, <1>2, <1>3, RecordsNext

LEMMA InitSuccess == Init => SuccessInv
<1> SUFFICES ASSUME Init PROVE SuccessInv
  OBVIOUS
<1>1. SuccessesStand /\ AbsentExpectsNothing
  BY DEF Init, NoRun, SuccessesStand, AbsentExpectsNothing
<1>2. ASSUME NEW p \in Procs
      PROVE  /\ Remembers(proc[p], run, recs)
             /\ ResubmitsExpected(proc[p], run, recs)
  <2>1. /\ proc[p].at = "idle"
        /\ \A n \in Nodes : /\ recs[n].status = "absent"
                            /\ NextRerun(recs, n) = 0
                            /\ proc[p].run.expected[n] = 0
    BY <1>2, NoRecordsNext DEF Init, Idle, NoRun, NoRecords, NoRecord
  <2> QED
    BY <2>1 DEF Remembers, Recalls, Reaches, Pending, ResubmitsExpected
<1> QED
  BY <1>1, <1>2, InitInstances DEF SuccessInv

LEMMA NextSuccess ==
  ASSUME RefuseTerminated, SuccessInv, [Next]_vars, [RecordsStay]_vars
  PROVE  SuccessInv'
<1>1. InstancesInv'
  BY NextInstances DEF SuccessInv
<1>2. \A p \in Procs : /\ Remembers(proc[p], run, recs)'
                       /\ ResubmitsExpected(proc[p], run, recs)'
  BY <1>1, RemembersNext, ResubmitsNext
<1> QED
  BY <1>1, <1>2, StandNext, AbsentNext DEF SuccessInv

\* A succeeded record that the run counts on is final: no active task instance
\* will replace it until a rerun of the node, or of one upstream of it, has
\* made the run expect the next count, whatever stale records the workers
\* submit on (scheduler.rs, advance and rerun_with; readiness.rs, is_current).
THEOREM SuccessesAreFinal ==
  ASSUME RefuseTerminated
  PROVE  Spec /\ [][RecordsStay]_vars => []SuccessesStand
<1>1. SuccessInv /\ [Next]_vars /\ [RecordsStay]_vars => SuccessInv'
  BY NextSuccess
<1>2. SuccessInv => SuccessesStand
  BY DEF SuccessInv
<1> QED
  BY InitSuccess, <1>1, <1>2, PTL DEF Spec

LEMMA StateDomain == \A r : DOMAIN NodeStates(Graph, r) = Nodes
<1> SUFFICES ASSUME NEW r PROVE DOMAIN NodeStates(Graph, r) = Nodes
  OBVIOUS
<1>1. States!IsGraph(Graph)
  BY GraphAssumption DEF IsGraph, States!IsGraph, Rules, States!Rules
<1>2. States!NodeStates(Graph, r) = NodeStates(Graph, r)
  BY DEF States!NodeStates, NodeStates, States!IsReady, IsReady,
         States!CanBecomeReady, CanBecomeReady, States!IsOpen, IsOpen
<1> HIDE DEF NodeStates
<1> QED
  BY <1>1, <1>2, States!StatesOfNodes DEF Nodes

\* What a settle finds in its snapshot.
LEMMA SettledFacts ==
  ASSUME NEW r \in [Nodes -> NodeRecord]
  PROVE  LET s == NodeStates(Graph, r)
         IN /\ SettledState(s) = "complete" =>
                 \A n \in Nodes : r[n].status = "succeeded"
            /\ SettledState(s) # "none" => \A n \in Nodes : ~IsOpen(s[n])
BY StateFacts, StateDomain DEF SettledState, Terminal

-----------------------------------------------------------------------------
(* Complete runs *)

\* A process is about to settle the run on the records that it reads.
Holds(l) == l.at = "check" \/ (l.at = "records" /\ l.then = "advance")

\* A step that drops no expected count while an event worker or the reconciler
\* is about to settle the run.
DropsAlone ==
  \A p \in Advancers :
    Holds(proc[p]) /\ Holds(proc'[p]) =>
      \A n \in Nodes : run'.expected[n] >= run.expected[n]

\* A success that the process has read is the present record, or the run
\* expects a rerun.
KeepsSuccess(l, c, r, n) ==
  /\ l.at = "records" => n \notin l.todo
  /\ l.recs[n].status = "succeeded" /\ IsCurrent(l.run, n, l.recs[n])
  => r[n] = l.recs[n] \/ c.expected[n] > l.recs[n].rerun

HoldsSuccesses ==
  \A p \in Advancers : Holds(proc[p]) =>
    \A n \in Nodes : KeepsSuccess(proc[p], run, recs, n)

CompleteInv == SuccessInv /\ HoldsSuccesses /\ CompleteIsSound

LEMMA HoldsNext ==
  ASSUME CompleteInv, [Next]_vars, [RecordsStay]_vars, [DropsAlone]_vars
  PROVE  HoldsSuccesses'
<1> SUFFICES ASSUME NEW p \in Advancers, Holds(proc'[p]), NEW n \in Nodes
             PROVE  KeepsSuccess(proc'[p], run', recs', n)
  BY DEF HoldsSuccesses
<1> DEFINE k == proc[p]
           l == proc'[p]
<1>0. /\ TypeInv /\ InstancesInv /\ SuccessInv /\ p \in Procs /\ Moves(k, l)
      /\ k \in Local
      /\ Holds(k) => KeepsSuccess(k, run, recs, n)
      /\ run.expected[n] \in Nat /\ k.recs[n].rerun \in Nat
  BY NextMoves, ProcsFacts, LocalFacts, RecordTypes
  DEF CompleteInv, SuccessInv, InstancesInv, HoldsSuccesses
<1>1. Holds(k) => run'.expected[n] \in Nat /\ run'.expected[n] >= run.expected[n]
  <2>1. TypeInv'
    BY <1>0, NextTypes
  <2>2. run'.expected[n] \in Nat
    BY <2>1 DEF TypeInv, TypeOK, RunRecord
  <2>3. CASE UNCHANGED vars
    BY <1>0, <2>3 DEF vars, storeVars
  <2>4. CASE DropsAlone
    BY <2>2, <2>4 DEF DropsAlone
  <2> QED
    BY <2>2, <2>3, <2>4
<1>2. CASE UNCHANGED recs
  <2>1. CASE l = k
    BY <1>0, <1>1, <1>2, <2>1 DEF KeepsSuccess
  <2>2. CASE Rests(l) \/ Takes(l)
    BY <2>2 DEF Rests, Takes, Holds, KeepsSuccess
  <2>3. CASE ReadsOne(k, l)
    <3>1. PICK m \in k.todo :
            /\ k.at = "records" /\ l.at = "records"
            /\ l.then = k.then /\ l.run = k.run
            /\ l.recs = [k.recs EXCEPT ![m] = recs[m]] /\ l.todo = k.todo \ {m}
      BY <2>3 DEF ReadsOne
    <3>2. Holds(k)
      BY <2>3, <3>1 DEF Holds
    <3>3. CASE n = m
      BY <1>0, <1>2, <3>1, <3>3 DEF KeepsSuccess, Local
    <3>4. CASE n # m
      <4>1. l.recs[n] = k.recs[n]
        BY <1>0, <3>1, <3>4 DEF Local
      <4> QED
        BY <1>0, <1>1, <1>2, <3>1, <3>2, <3>4, <4>1 DEF KeepsSuccess
    <3> QED
      BY <3>3, <3>4
  <2>4. CASE GoesFrom(k, l)
    <3>1. CASE l.at = "records"
      BY <2>4, <3>1 DEF GoesFrom, KeepsSuccess
    <3>2. CASE l.at = "check"
      <4>1. /\ k.at = "check" \/ (k.at = "records" /\ k.then = "advance")
            /\ l.run = k.run /\ l.recs = k.recs
        BY <1>0, <2>4, <3>2 DEF GoesFrom, Follows, Local
      <4>2. Holds(k) /\ (k.at = "records" => n \notin k.todo)
        BY <2>4, <4>1 DEF Holds, GoesFrom
      <4> QED
        BY <1>0, <1>1, <1>2, <4>1, <4>2 DEF KeepsSuccess
    <3> QED
      BY <3>1, <3>2 DEF Holds
  <2> QED
    BY <1>0, <2>1, <2>2, <2>3, <2>4 DEF Moves
<1>3. CASE Terminates
  <2>1. PICK i \in active, status \in Terminal : Terminate(i, status)
    BY <1>3 DEF Terminates
  <2>2. UNCHANGED <<run, proc>>
    BY <2>1 DEF Terminate
  <2>3. CASE n = i.node
    <3>1. recs[n].status = "succeeded" => Pending(run, recs, n)
      BY <1>0, <2>3 DEF SuccessInv, SuccessesStand
    <3> QED
      BY <1>0, <2>2, <3>1 DEF KeepsSuccess, Pending
  <2>4. CASE n # i.node
    BY <1>0, <2>1, <2>2, <2>4, Grows DEF KeepsSuccess
  <2> QED
    BY <2>3, <2>4
<1>4. CASE RemoveRun /\ ~UNCHANGED <<run, recs, terminated>>
  <2>1. RecordsStay /\ UNCHANGED proc
    BY <1>4 DEF RemoveRun, vars, storeVars, poolVars
  <2>2. NextRerun(recs, n) = 0
    BY <1>4, <2>1, RemovesNothing
  <2>3. k.recs[n].status = "absent"
    BY <1>0, <2>2, RecordTypes DEF InstancesInv, SnapshotsOlder, NextRerun
  <2> QED
    BY <2>1, <2>3 DEF KeepsSuccess
<1> QED
  BY <1>2, <1>3, <1>4, RecordsNext

\* A settle writes the complete state on records that are still the present
\* ones.
LEMMA SettleIsSound ==
  ASSUME CompleteInv, NEW p \in Advancers, Settle(p), ~UNCHANGED run,
         run'.state = "complete"
  PROVE  CompleteIsSound'
<1> DEFINE k == proc[p]
<1>0. /\ TypeInv /\ p \in Procs /\ k \in Local /\ UNCHANGED recs
      /\ k.recs \in [Nodes -> NodeRecord] /\ k.run \in RunRecord
  BY LocalFacts, LocalRun, ProcsFacts DEF Settle, CompleteInv, SuccessInv, InstancesInv
<1>1. /\ run = k.run
      /\ run'.expected = RetainExpected(Graph, run, k.recs)
      /\ SettledState(NodeStates(Graph, Current(k))) = "complete"
  BY <1>0, SettleShape
<1>2. Current(k) \in [Nodes -> NodeRecord]
  BY <1>0, CurrentType DEF Current
<1>3. \A n \in Nodes : Current(k)[n].status = "succeeded"
  BY <1>1, <1>2, SettledFacts
<1> SUFFICES ASSUME NEW n \in Nodes
             PROVE  recs[n].status = "succeeded" /\ IsCurrent(run', n, recs[n])
  BY <1>0 DEF CompleteIsSound
<1>4. k.recs[n].status = "succeeded" /\ IsCurrent(run, n, k.recs[n])
  BY <1>1, <1>3 DEF Current, CurrentRecords, Nodes, NoRecord
<1>5. recs[n] = k.recs[n]
  <2>1. Holds(k) => KeepsSuccess(k, run, recs, n)
    BY DEF CompleteInv, HoldsSuccesses
  <2>2. k.at = "check" /\ Holds(k)
    BY DEF Settle, Holds
  <2>3. run.expected[n] \in Nat /\ k.recs[n].rerun \in Nat
    BY <1>0, RecordTypes
  <2> QED
    BY <1>1, <1>4, <2>1, <2>2, <2>3 DEF KeepsSuccess, IsCurrent
<1>6. run'.expected[n] = 0 /\ recs[n].rerun \in Nat
  BY <1>0, <1>1, <1>4, <1>5, RecordTypes
  DEF RetainExpected, Nodes, IsCurrent
<1> QED
  BY <1>4, <1>5, <1>6 DEF IsCurrent

LEMMA CompleteNext ==
  ASSUME CompleteInv, [Next]_vars, [RecordsStay]_vars
  PROVE  CompleteIsSound'
<1> SUFFICES ASSUME run'.state = "complete" PROVE CompleteIsSound'
  BY DEF CompleteIsSound
<1>0. TypeInv /\ InstancesInv /\ SuccessInv /\ run \in RunRecord
  BY DEF CompleteInv, SuccessInv, InstancesInv, TypeInv, TypeOK
<1>1. CASE UNCHANGED run /\ UNCHANGED recs
  BY <1>1 DEF CompleteInv, CompleteIsSound
<1>2. CASE UNCHANGED run /\ Terminates
  <2>1. PICK i \in active : i.node \in Nodes
    BY <1>0, <1>2 DEF Terminates, TypeInv, TypeOK, Instance
  <2>2. /\ recs[i.node].status = "succeeded"
        /\ IsCurrent(run, i.node, recs[i.node])
    BY <1>2, <2>1 DEF CompleteInv, CompleteIsSound
  <2>3. Pending(run, recs, i.node)
    BY <2>1, <2>2 DEF CompleteInv, SuccessInv, SuccessesStand
  <2> QED
    BY <1>0, <2>1, <2>2, <2>3, RecordTypes DEF Pending, IsCurrent
<1>3. CASE RemoveRun /\ ~UNCHANGED <<run, recs, terminated>>
  BY <1>3 DEF RemoveRun, NoRun, storeVars
<1>4. CASE UNCHANGED run
  BY <1>1, <1>2, <1>3, <1>4, RecordsNext
<1>5. CASE ~UNCHANGED run
  <2>1. CASE \E p \in Advancers : Settle(p)
    BY <1>5, <2>1, SettleIsSound
  <2>2. ~SwapRun
    BY <1>0, <1>5, SwapShape, ReactivatedShape
  <2>3. ~SettleCancelled
    BY <1>0, <1>5, CancelShape
  <2>4. ~HandleStart /\ ~HandleTrigger
    BY <1>5, StartShape DEF HandleStart, HandleTrigger, NewRun
  <2>5. ~RemoveRun
    BY <1>5 DEF RemoveRun, NoRun, storeVars
  <2> QED
    BY <1>5, <2>1, <2>2, <2>3, <2>4, <2>5, RunNext
<1> QED
  BY <1>4, <1>5

LEMMA InitComplete == Init => CompleteInv
<1> SUFFICES ASSUME Init PROVE CompleteInv
  OBVIOUS
<1>1. HoldsSuccesses
  BY ProcsFacts DEF Init, Idle, HoldsSuccesses, Holds
<1> QED
  BY <1>1, InitSuccess DEF CompleteInv, CompleteIsSound, Init, NoRun

LEMMA NextComplete ==
  ASSUME RefuseTerminated, CompleteInv, [Next]_vars, [RecordsStay]_vars,
         [DropsAlone]_vars
  PROVE  CompleteInv'
BY NextSuccess, HoldsNext, CompleteNext DEF CompleteInv

LEMMA CompleteImplied ==
  ASSUME CompleteInv
  PROVE  CompleteIsSound /\ CompleteIsQuiet
<1> SUFFICES ASSUME run.state = "complete", NEW i \in active PROVE FALSE
  BY DEF CompleteInv, CompleteIsQuiet
<1>0. TypeInv /\ i.node \in Nodes
  BY DEF CompleteInv, SuccessInv, InstancesInv, TypeInv, TypeOK, Instance
<1>1. recs[i.node].status = "succeeded" /\ IsCurrent(run, i.node, recs[i.node])
  BY <1>0 DEF CompleteInv, CompleteIsSound
<1>2. Pending(run, recs, i.node)
  BY <1>1 DEF CompleteInv, SuccessInv, SuccessesStand
<1> QED
  BY <1>0, <1>1, <1>2, RecordTypes DEF Pending, IsCurrent

\* A complete run has a current succeeded record of every node, with any number
\* of event workers, unless a settle drops an expected count while another
\* process is about to settle on the records that it has read (scheduler.rs,
\* settle against rerun_with).
THEOREM CompleteRunsAreSound ==
  ASSUME RefuseTerminated
  PROVE  Spec /\ [][RecordsStay]_vars /\ [][DropsAlone]_vars
           => []CompleteIsSound
<1>1. CompleteInv /\ [Next]_vars /\ [RecordsStay]_vars /\ [DropsAlone]_vars
        => CompleteInv'
  BY NextComplete
<1>2. CompleteInv => CompleteIsSound
  BY CompleteImplied
<1> QED
  BY InitComplete, <1>1, <1>2, PTL DEF Spec

\* No task instance of a complete run is active, on the same condition
\* (scheduler.rs, settle and run_is_active).
THEOREM CompleteRunsAreQuiet ==
  ASSUME RefuseTerminated
  PROVE  Spec /\ [][RecordsStay]_vars /\ [][DropsAlone]_vars
           => []CompleteIsQuiet
<1>1. CompleteInv /\ [Next]_vars /\ [RecordsStay]_vars /\ [DropsAlone]_vars
        => CompleteInv'
  BY NextComplete
<1>2. CompleteInv => CompleteIsQuiet
  BY CompleteImplied
<1> QED
  BY InitComplete, <1>1, <1>2, PTL DEF Spec

LEMMA ReadyFacts ==
  ASSUME NEW r, NEW n \in Nodes, NodeStates(Graph, r)[n] = "ready",
         r[n].status \in Terminal \cup {"absent"}
  PROVE  r[n].status = "absent" /\ IsReady(Graph, n, r)
<1>1. States!IsGraph(Graph)
  BY GraphAssumption DEF IsGraph, States!IsGraph, Rules, States!Rules
<1>2. States!NodeStates(Graph, r) = NodeStates(Graph, r)
  BY DEF States!NodeStates, NodeStates, States!IsReady, IsReady,
         States!CanBecomeReady, CanBecomeReady, States!IsOpen, IsOpen
<1> HIDE DEF NodeStates
<1>3. NodeStates(Graph, r)[n] =
        States!StateOf(Graph, r, n, NodeStates(Graph, r))
  BY <1>1, <1>2, States!StatesOfNodes DEF Nodes
<1> QED
  BY <1>3 DEF States!StateOf, States!IsReady, IsReady, Terminal

LEMMA GraphFacts ==
  \A n \in Nodes : /\ Graph.up[n] \subseteq Nodes
                   /\ Graph.rule[n] \in {"all_succeeded", "all_done", "one_failed"}
BY GraphAssumption DEF IsGraph, Nodes, Rules

\* A node that is ready on some records is ready on more of them.
LEMMA ReadyGrows ==
  ASSUME NEW r, NEW s, NEW n \in Nodes, IsReady(Graph, n, r),
         \A m \in Nodes : r[m].status # "absent" => s[m].status = r[m].status
  PROVE  IsReady(Graph, n, s)
BY GraphFacts DEF IsReady

-----------------------------------------------------------------------------
(* Runs without reruns *)

\* No sender asks for a rerun.
NoReruns == \A q \in Kinds : q.kind # "rerun"

\* No node without upstreams has the one-failed rule, which never makes it
\* ready, so that every submit is that of a ready node.
RootsReady == \A n \in Nodes : Graph.up[n] = {} => Graph.rule[n] # "one_failed"

SentKinds == \A q \in 1..Len(requests) : requests[q] \in Kinds

NeverReruns(l) ==
  /\ \A n \in Nodes : l.run.expected[n] = 0
  /\ l.at \notin {"swap", "resubmit"}
  /\ l.at = "records" => l.then # "rerun"
  /\ l.at = "submit" => \A n \in l.todo : IsReady(Graph, n, l.recs)
  /\ l.at = "roots" => l.todo \subseteq Roots(Graph)

\* Every task instance is the first one of its node.
RunsOnce ==
  /\ \A n \in Nodes : run.expected[n] = 0 /\ recs[n].rerun = 0
  /\ \A i \in active : recs[i.node].status = "absent"

Ran(n) == recs[n].status # "absent" \/ \E i \in active : i.node = n

\* A node that ran is ready, also on the records of today.
RanIsReady == \A n \in Nodes : Ran(n) => IsReady(Graph, n, recs)

\* In a settled run no node is left to submit.
FinalIsDone ==
  run.state \in {"complete", "failed"} =>
    \A n \in Nodes : recs[n].status # "absent" \/ ~IsReady(Graph, n, recs)

OnceInv ==
  /\ SuccessInv
  /\ SentKinds
  /\ \A p \in Procs : NeverReruns(proc[p])
  /\ RunsOnce
  /\ RanIsReady
  /\ FinalIsDone

LEMMA OnceTypes ==
  ASSUME OnceInv
  PROVE  /\ TypeInv /\ InstancesInv /\ SuccessInv
         /\ \A i \in active : i.node \in Nodes
         /\ run \in RunRecord
         /\ recs \in [Nodes -> NodeRecord]
         /\ proc \in [Procs -> Local]
BY DEF OnceInv, SuccessInv, InstancesInv, TypeInv, TypeOK, Instance

\* A snapshot is a part of the records, and all of it is current.
LEMMA SnapshotPart ==
  ASSUME OnceInv, NEW p \in Procs, NEW n \in Nodes
  PROVE  /\ proc[p].recs[n].status # "absent" => recs[n] = proc[p].recs[n]
         /\ Current(proc[p])[n] = proc[p].recs[n]
         /\ proc[p].recs[n].status \in Terminal \cup {"absent"}
<1> DEFINE l == proc[p]
<1>0. /\ InstancesInv /\ recs[n].rerun = 0
      /\ l.recs[n] \in NodeRecord /\ l.recs[n].rerun \in Nat
      /\ l.run.expected[n] = 0
      /\ Recalls(l, run, recs, n)
  BY OnceTypes, RecordTypes
  DEF OnceInv, RunsOnce, NeverReruns, SuccessInv, Remembers
<1>1. NextRerun(l.recs, n) <= NextRerun(recs, n)
  BY <1>0 DEF InstancesInv, SnapshotsOlder
<1>2. l.recs[n].status # "absent" => recs[n] = l.recs[n]
  BY <1>0, <1>1 DEF NextRerun, Recalls
<1>3. Current(l)[n] = l.recs[n]
  BY <1>0 DEF Current, CurrentRecords, IsCurrent, Nodes
<1> QED
  BY <1>0, <1>2, <1>3 DEF NodeRecord

\* While no node is left to submit, no task instance is active.
LEMMA DoneIsQuiet ==
  ASSUME OnceInv, run.state \in {"complete", "failed"}
  PROVE  active = {}
<1> SUFFICES ASSUME NEW i \in active PROVE FALSE
  OBVIOUS
<1>1. i.node \in Nodes /\ Ran(i.node) /\ recs[i.node].status = "absent"
  BY OnceTypes DEF OnceInv, RunsOnce, Ran
<1> QED
  BY <1>1 DEF OnceInv, RanIsReady, FinalIsDone

\* A node that is blocked in a snapshot never runs.
LEMMA BlockedNeverRuns ==
  ASSUME OnceInv, NEW p \in Procs, NEW m \in Nodes,
         NodeStates(Graph, Current(proc[p]))[m] = "blocked",
         \A n \in Nodes : ~IsOpen(NodeStates(Graph, Current(proc[p]))[n])
  PROVE  ~IsReady(Graph, m, recs)
<1> DEFINE r == Current(proc[p])
           s == NodeStates(Graph, r)
           S == {n \in Nodes : s[n] = "blocked" /\ IsReady(Graph, n, recs)}
<1> SUFFICES ASSUME S # {} PROVE FALSE
  OBVIOUS
<1>1. PICK n \in S : Graph.up[n] \cap S = {}
  BY GraphAssumption DEF IsGraph, Nodes
<1>2. r \in [Nodes -> NodeRecord]
  BY OnceTypes, CurrentType DEF Current, Local
<1>3. /\ ~IsReady(Graph, n, r) /\ ~CanBecomeReady(Graph, n, s)
      /\ IsReady(Graph, n, recs) /\ n \in Nodes
  BY <1>2, StateFacts
<1>4. ASSUME NEW u \in Graph.up[n]
      PROVE  /\ ~IsOpen(s[u])
             /\ s[u] = "blocked" => recs[u].status = "absent"
             /\ s[u] # "blocked" => /\ recs[u].status = s[u]
                                    /\ r[u].status = s[u]
                                    /\ s[u] \in Terminal
  <2>1. u \in Nodes /\ ~IsOpen(s[u])
    BY <1>3, GraphFacts
  <2>2. s[u] = "blocked" => recs[u].status = "absent"
    BY <1>1, <2>1 DEF OnceInv, RanIsReady, Ran
  <2>3. s[u] # "blocked" => s[u] \in Terminal /\ s[u] = r[u].status
    BY <1>2, <2>1, StateFacts DEF IsOpen
  <2>4. s[u] # "blocked" => recs[u].status = s[u]
    BY <2>1, <2>3, SnapshotPart DEF Terminal
  <2> QED
    BY <2>1, <2>2, <2>3, <2>4
<1> HIDE DEF r, s, S
<1> QED
  BY <1>3, <1>4, GraphFacts DEF IsReady, CanBecomeReady, IsOpen, Terminal

LEMMA RequestsNext ==
  ASSUME [Next]_vars
  PROVE  Send \/ UNCHANGED requests
<1>1. CASE \E p \in Advancers : AdvancerStep(p)
  BY <1>1 DEF AdvancerStep, ReadRecord, PlanAdvance, SubmitReady, CheckActive,
     Settle, PlanCancel, CancelUnrecorded, EndCancel, Ack, requestVars
<1>2. CASE RequesterStep
  <2>1. CASE \/ SkipAnswered \/ HandleStart \/ SubmitRoot(Requester)
             \/ HandleRerun \/ PlanRerun \/ SwapRun \/ Resubmit
             \/ HandleCancel \/ SettleCancelled \/ WriteAnswer
    BY <2>1 DEF SkipAnswered, HandleStart, SubmitRoot, HandleRerun, PlanRerun,
       SwapRun, Resubmit, HandleCancel, SettleCancelled, WriteAnswer,
       requestVars
  <2>2. CASE \/ ReadRecord(Requester) \/ PlanCancel(Requester)
             \/ CancelUnrecorded(Requester) \/ EndCancel(Requester)
             \/ Ack(Requester)
    BY <2>2 DEF ReadRecord, PlanCancel, CancelUnrecorded, EndCancel, Ack,
       requestVars
  <2> QED
    BY <1>2, <2>1, <2>2 DEF RequesterStep
<1>3. CASE TriggerStep
  BY <1>3 DEF TriggerStep, HandleTrigger, SubmitRoot, Ack, requestVars
<1>4. CASE \/ Terminates \/ (\E w \in EventWorkers : HandleEvent(w))
           \/ Reconcile \/ (\E p \in Procs : Fail(p)) \/ FailPass \/ Tick
           \/ UNCHANGED vars
  BY <1>4 DEF Terminates, Terminate, HandleEvent, Reconcile, Fail, FailPass,
     Tick, vars, requestVars
<1>5. CASE PassStep
  BY <1>5 DEF PassStep, ExpireRun, ExpireRequest, DropEntry, RemoveRequest,
     RemoveRun, requestVars
<1> QED
  BY <1>1, <1>2, <1>3, <1>4, <1>5 DEF Next

LEMMA SentNext ==
  ASSUME TypeInv, SentKinds, [Next]_vars
  PROVE  SentKinds'
<1>1. CASE UNCHANGED requests
  BY <1>1 DEF SentKinds
<1>2. CASE Send
  <2>1. PICK q \in Kinds : requests' = Append(requests, q)
    BY <1>2 DEF Send
  <2>2. requests \in Seq(Request) /\ q \in Request
    BY KindsAssumption DEF TypeInv, TypeOK
  <2>3. /\ Len(requests') = Len(requests) + 1
        /\ \A x \in 1..Len(requests) : requests'[x] = requests[x]
        /\ requests'[Len(requests) + 1] = q
    BY <2>1, <2>2
  <2> QED
    BY <2>2, <2>3 DEF SentKinds
<1> QED
  BY <1>1, <1>2, RequestsNext

LEMMA NoneReruns ==
  ASSUME NoReruns, OnceInv
  PROVE  ~HandleRerun /\ ~PlanRerun /\ ~SwapRun /\ ~Resubmit
<1>1. ~HandleRerun
  <2> SUFFICES ASSUME HandleRerun PROVE FALSE
    OBVIOUS
  <2>1. Job \in 1..Len(requests) /\ requests[Job].kind = "rerun"
    BY OnceTypes DEF HandleRerun, IsNext, Job, TypeInv, TypeOK
  <2> QED
    BY <2>1 DEF OnceInv, SentKinds, NoReruns
<1>2. ~PlanRerun /\ ~SwapRun /\ ~Resubmit
  BY ProcsFacts DEF OnceInv, NeverReruns, PlanRerun, HasRead, SwapRun, Resubmit
<1> QED
  BY <1>1, <1>2

LEMMA NeverRerunsNext ==
  ASSUME NoReruns, OnceInv, [Next]_vars, NEW p \in Procs
  PROVE  NeverReruns(proc'[p])
<1> DEFINE k == proc[p]
           l == proc'[p]
<1>0. /\ Moves(k, l) /\ k \in Local /\ NeverReruns(k)
      /\ \A n \in Nodes : run.expected[n] = 0
  BY OnceTypes, NextMoves DEF OnceInv, RunsOnce
<1>1. CASE l = k
  BY <1>0, <1>1
<1>2. CASE Rests(l)
  BY <1>2 DEF Rests, NeverReruns, NoRun
<1>3. CASE Takes(l)
  BY <1>0, <1>3, NoneReruns DEF Takes, NeverReruns
<1>4. CASE ReadsOne(k, l)
  BY <1>0, <1>4 DEF ReadsOne, NeverReruns
<1>5. CASE GoesFrom(k, l)
  <2>1. ASSUME l.at = "submit", NEW n \in l.todo PROVE IsReady(Graph, n, l.recs)
    <3>1. CASE n \in ReadyOf(k)
      <4>1. n \in Nodes /\ NodeStates(Graph, Current(k))[n] = "ready"
        BY <1>0, <3>1 DEF ReadyOf, Local
      <4>2. IsReady(Graph, n, Current(k))
        BY <4>1, SnapshotPart, ReadyFacts
      <4>3. IsReady(Graph, n, k.recs)
        BY <4>1, <4>2, SnapshotPart, ReadyGrows
      <4> QED
        BY <1>5, <4>3 DEF GoesFrom
    <3>2. CASE k.at = "submit" /\ n \in k.todo
      BY <1>0, <1>5, <3>2 DEF GoesFrom, NeverReruns
    <3> QED
      BY <1>5, <2>1, <3>1, <3>2 DEF GoesFrom
  <2>2. l.at \notin {"swap", "resubmit"}
    BY <1>5, NoneReruns DEF GoesFrom
  <2> QED
    BY <1>0, <1>5, <2>1, <2>2 DEF GoesFrom, NeverReruns
<1> QED
  BY <1>0, <1>1, <1>2, <1>3, <1>4, <1>5 DEF Moves

\* Every submit that is new is the first one of a ready node.
LEMMA OnceSubmits ==
  ASSUME RefuseTerminated, NoReruns, RootsReady, OnceInv, NEW p \in Procs,
         Submits(p)
  PROVE  \A i \in active' : \/ i \in active
                            \/ /\ i.node \in Nodes
                               /\ recs[i.node].status = "absent"
                               /\ IsReady(Graph, i.node, recs)
<1> DEFINE l == proc[p]
<1>0. /\ TypeInv /\ InstancesInv /\ l \in Local /\ NeverReruns(l)
      /\ Remembers(l, run, recs)
  BY OnceTypes, LocalFacts DEF OnceInv, SuccessInv
<1>1. PICK n \in Nodes : /\ \E s : SubmitNode(n, 0, s)
                         /\ IsReady(Graph, n, recs)
  <2>1. CASE SubmitReady(p)
    <3>1. PICK n \in l.todo : SubmitNode(n, NextRerun(l.recs, n), Current(l))
      BY <2>1 DEF SubmitReady, IsFirst
    <3>2. n \in Nodes /\ l.at = "submit"
      BY <1>0, <2>1 DEF Local, SubmitReady
    <3>3. l.recs[n].status = "absent"
      BY <1>0, <3>2, RecordTypes
      DEF Remembers, Unfinished, IsCurrent, NeverReruns
    <3>4. IsReady(Graph, n, l.recs)
      BY <1>0, <3>2 DEF NeverReruns
    <3>5. IsReady(Graph, n, recs)
      BY <3>2, <3>4, SnapshotPart, ReadyGrows
    <3> QED
      BY <3>1, <3>2, <3>3, <3>5 DEF NextRerun
  <2>2. CASE SubmitRoot(p)
    <3>1. PICK n \in l.todo : SubmitNode(n, 0, NoRecords)
      BY <2>2 DEF SubmitRoot, IsFirst
    <3>2. n \in Nodes /\ Graph.up[n] = {}
      BY <1>0, <2>2 DEF SubmitRoot, NeverReruns, Roots, Nodes
    <3>3. IsReady(Graph, n, recs)
      BY <3>2, GraphFacts DEF RootsReady, IsReady
    <3> QED
      BY <3>1, <3>2, <3>3
  <2> QED
    BY <2>1, <2>2, NoneReruns DEF Submits
<1>2. NextRerun(recs, n) \in Nat
  BY <1>0, RecordTypes
<1>3. IsNew(n, 0) => recs[n].status = "absent"
  <2>1. IsNew(n, 0) => 0 = NextRerun(recs, n)
    BY <1>0, <1>2, NewIsNext
  <2> QED
    BY <1>0, <2>1, RecordTypes DEF NextRerun
<1> QED
  BY <1>1, <1>3 DEF SubmitNode

\* The task instances after a step that leaves the records alone.
LEMMA ActiveFrom ==
  ASSUME RefuseTerminated, NoReruns, RootsReady, OnceInv, [Next]_vars,
         ~Terminates, NEW i \in active'
  PROVE  \/ \E j \in active : j.node = i.node
         \/ /\ i.node \in Nodes
            /\ recs[i.node].status = "absent"
            /\ IsReady(Graph, i.node, recs)
<1>1. CASE \E p \in Procs : CancelUnrecorded(p)
  <2>1. PICK n, k : CancelInstance(n, k)
    BY <1>1 DEF CancelUnrecorded
  <2>2. PICK j \in active : i = j \/ i = [j EXCEPT !.cancel = TRUE]
    BY <2>1 DEF CancelInstance
  <2>3. [j EXCEPT !.cancel = TRUE].node = j.node
    BY OnceTypes DEF TypeInv, TypeOK, Instance
  <2> QED
    BY <2>2, <2>3
<1>2. CASE \E p \in Procs : Submits(p)
  BY <1>2, OnceSubmits
<1> QED
  BY <1>1, <1>2, ActiveNext

LEMMA RunsOnceNext ==
  ASSUME RefuseTerminated, NoReruns, RootsReady, OnceInv, [Next]_vars,
         [RecordsStay]_vars
  PROVE  RunsOnce'
<1>0. /\ TypeInv /\ InstancesInv /\ run \in RunRecord
      /\ \A n \in Nodes : run.expected[n] = 0 /\ recs[n].rerun = 0
      /\ \A i \in active : i.node \in Nodes /\ recs[i.node].status = "absent"
  BY OnceTypes DEF OnceInv, RunsOnce
<1>1. \A n \in Nodes : run'.expected[n] = 0
  <2>1. CASE UNCHANGED run
    BY <1>0, <2>1
  <2>2. CASE \E p \in Advancers : Settle(p)
    <3>1. PICK p \in Procs : Settle(p)
      BY <2>2, ProcsFacts
    <3>2. \A n \in Nodes : proc[p].run.expected[n] = 0
      BY DEF OnceInv, NeverReruns
    <3> QED
      BY <1>0, <2>1, <3>1, <3>2, SettleShape DEF RetainExpected, Nodes
  <2>3. CASE SettleCancelled
    BY <1>0, <2>1, <2>3, CancelShape
  <2>4. CASE HandleStart \/ HandleTrigger
    BY <1>0, <2>1, <2>4, StartShape DEF HandleStart, HandleTrigger, NewRun
  <2>5. CASE RemoveRun
    BY <1>0, <2>1, <2>5 DEF RemoveRun, storeVars, NoRun
  <2> QED
    BY <2>1, <2>2, <2>3, <2>4, <2>5, NoneReruns, RunNext
<1>2. CASE Terminates
  <2>1. PICK i \in active, status \in Terminal : Terminate(i, status)
    BY <1>2 DEF Terminates
  <2>2. i.rerun = 0
    BY <1>0, <2>1, Grows DEF NextRerun
  <2>3. \A n \in Nodes : recs'[n].rerun = 0
    BY <1>0, <2>1, <2>2, Grows
  <2>4. \A j \in active' : j \in active /\ j.node # i.node
    BY <1>0, <2>1 DEF Terminate, InstancesInv, OneEach
  <2> QED
    BY <1>0, <1>1, <2>1, <2>3, <2>4, Grows DEF RunsOnce
<1>3. CASE RemoveRun /\ ~UNCHANGED <<run, recs, terminated>>
  <2>1. recs' = NoRecords /\ UNCHANGED active
    BY <1>3 DEF RemoveRun, storeVars
  <2> QED
    BY <1>0, <1>1, <2>1 DEF RunsOnce, NoRecords, NoRecord
<1>4. CASE UNCHANGED recs /\ ~Terminates
  <2>1. \A i \in active' : recs[i.node].status = "absent"
    BY <1>0, <1>4, ActiveFrom
  <2> QED
    BY <1>0, <1>1, <1>4, <2>1 DEF RunsOnce
<1> QED
  BY <1>2, <1>3, <1>4, RecordsNext

LEMMA RanNext ==
  ASSUME RefuseTerminated, NoReruns, RootsReady, OnceInv, [Next]_vars,
         [RecordsStay]_vars
  PROVE  RanIsReady'
<1> SUFFICES ASSUME NEW n \in Nodes,
                    recs'[n].status # "absent" \/ \E i \in active' : i.node = n
             PROVE  IsReady(Graph, n, recs')
  BY DEF RanIsReady, Ran
<1>0. /\ InstancesInv
      /\ \A i \in active : i.node \in Nodes /\ recs[i.node].status = "absent"
      /\ \A m \in Nodes : Ran(m) => IsReady(Graph, m, recs)
  BY OnceTypes DEF OnceInv, RunsOnce, RanIsReady
<1>1. CASE Terminates
  <2>1. PICK i \in active, status \in Terminal : Terminate(i, status)
    BY <1>1 DEF Terminates
  <2>2. Ran(n)
    BY <2>1, <1>0, Grows DEF Ran, Terminate
  <2>3. \A m \in Nodes : recs[m].status # "absent" => recs'[m] = recs[m]
    BY <1>0, <2>1, Grows
  <2> QED
    BY <1>0, <2>2, <2>3, ReadyGrows
<1>2. CASE RemoveRun /\ ~UNCHANGED <<run, recs, terminated>>
  <2>1. RecordsStay /\ UNCHANGED active
    BY <1>2 DEF RemoveRun, vars, storeVars, poolVars
  <2>2. \A m \in Nodes : recs[m].status = "absent" /\ recs'[m].status = "absent"
    BY <1>2, <2>1, RemovesNothing DEF NoRecords, NoRecord
  <2>3. Ran(n)
    BY <2>1, <2>2 DEF Ran
  <2> QED
    BY <1>0, <2>2, <2>3, ReadyGrows
<1>3. CASE UNCHANGED recs /\ ~Terminates
  BY <1>0, <1>3, ActiveFrom DEF Ran
<1> QED
  BY <1>1, <1>2, <1>3, RecordsNext

\* The settle of a snapshot leaves no node to submit.
LEMMA SettleIsDone ==
  ASSUME OnceInv, NEW p \in Procs, Settle(p), NEW n \in Nodes,
         recs[n].status = "absent"
  PROVE  ~IsReady(Graph, n, recs)
<1> DEFINE r == Current(proc[p])
           s == NodeStates(Graph, r)
<1>1. r \in [Nodes -> NodeRecord]
  BY OnceTypes, CurrentType DEF Current, Local
<1>2. SettledState(s) # "none"
  BY OnceTypes DEF TypeInv, SettlesSettled, Settle
<1>3. \A m \in Nodes : ~IsOpen(s[m])
  BY <1>1, <1>2, SettledFacts
<1>4. r[n].status = "absent"
  BY SnapshotPart
<1>5. s[n] = "blocked"
  BY <1>1, <1>3, <1>4, StateFacts DEF IsOpen
<1> QED
  BY <1>3, <1>5, BlockedNeverRuns

LEMMA DoneNext ==
  ASSUME NoReruns, OnceInv, [Next]_vars, [RecordsStay]_vars
  PROVE  FinalIsDone'
<1> SUFFICES ASSUME run'.state \in {"complete", "failed"} PROVE FinalIsDone'
  BY DEF FinalIsDone
<1>0. TypeInv /\ InstancesInv /\ run \in RunRecord
  BY OnceTypes
<1>1. CASE UNCHANGED run /\ UNCHANGED recs
  BY <1>1 DEF OnceInv, FinalIsDone
<1>2. CASE UNCHANGED run /\ Terminates
  BY <1>2, DoneIsQuiet DEF Terminates
<1>3. CASE RemoveRun /\ ~UNCHANGED <<run, recs, terminated>>
  BY <1>3 DEF RemoveRun, NoRun, storeVars
<1>4. CASE UNCHANGED run
  BY <1>1, <1>2, <1>3, <1>4, RecordsNext
<1>5. CASE ~UNCHANGED run
  <2>1. CASE \E p \in Advancers : Settle(p)
    <3>1. PICK p \in Procs : Settle(p)
      BY <2>1, ProcsFacts
    <3>2. UNCHANGED recs
      BY <3>1 DEF Settle
    <3> QED
      BY <3>1, <3>2, SettleIsDone DEF FinalIsDone
  <2>2. ~SettleCancelled
    BY <1>0, <1>5, CancelShape
  <2>3. ~HandleStart /\ ~HandleTrigger
    BY <1>5, StartShape DEF HandleStart, HandleTrigger, NewRun
  <2>4. ~RemoveRun
    BY <1>5 DEF RemoveRun, NoRun, storeVars
  <2> QED
    BY <1>5, <2>1, <2>2, <2>3, <2>4, NoneReruns, RunNext
<1> QED
  BY <1>4, <1>5

LEMMA InitOnce == Init => OnceInv
<1> SUFFICES ASSUME Init PROVE OnceInv
  OBVIOUS
<1>1. SentKinds
  BY DEF Init, SentKinds
<1>2. \A p \in Procs : NeverReruns(proc[p])
  BY DEF Init, Idle, NoRun, NeverReruns
<1>3. RunsOnce
  BY DEF Init, NoRun, NoRecords, NoRecord, RunsOnce
<1>4. RanIsReady /\ FinalIsDone
  BY DEF Init, NoRun, NoRecords, NoRecord, RanIsReady, Ran, FinalIsDone
<1> QED
  BY <1>1, <1>2, <1>3, <1>4, InitSuccess DEF OnceInv

LEMMA NextOnce ==
  ASSUME RefuseTerminated, NoReruns, RootsReady, OnceInv, [Next]_vars,
         [RecordsStay]_vars
  PROVE  OnceInv'
<1>1. SuccessInv'
  BY NextSuccess DEF OnceInv
<1>2. SentKinds'
  BY SentNext, OnceTypes DEF OnceInv
<1> QED
  BY <1>1, <1>2, NeverRerunsNext, RunsOnceNext, RanNext, DoneNext DEF OnceInv

\* Without reruns no task instance of a failed run is active, whatever the
\* other processes submit, settle or cancel meanwhile: a node that is blocked
\* in the snapshot of the settle is never submitted, and one that the settle
\* found recorded is not submitted again (scheduler.rs, settle and
\* run_is_active).
THEOREM FailedRunsAreQuiet ==
  ASSUME RefuseTerminated, NoReruns, RootsReady
  PROVE  Spec /\ [][RecordsStay]_vars => []FailedIsQuiet
<1>1. OnceInv /\ [Next]_vars /\ [RecordsStay]_vars => OnceInv'
  BY NextOnce
<1>2. OnceInv => FailedIsQuiet
  BY DoneIsQuiet DEF FailedIsQuiet
<1> QED
  BY InitOnce, <1>1, <1>2, PTL DEF Spec

LEMMA OnceDropsAlone ==
  ASSUME OnceInv, OnceInv'
  PROVE  DropsAlone
<1>1. \A n \in Nodes : run.expected[n] = 0 /\ run'.expected[n] = 0
  BY DEF OnceInv, RunsOnce
<1> QED
  BY <1>1 DEF DropsAlone

\* Without reruns a complete run has a succeeded record of every node and no
\* active task instance, with any number of event workers (scheduler.rs,
\* settle and run_is_active).
THEOREM CompleteWithoutReruns ==
  ASSUME RefuseTerminated, NoReruns, RootsReady
  PROVE  Spec /\ [][RecordsStay]_vars => [](CompleteIsSound /\ CompleteIsQuiet)
<1> DEFINE Inv == OnceInv /\ CompleteInv
<1>1. Inv /\ [Next]_vars /\ [RecordsStay]_vars => Inv'
  BY NextOnce, NextComplete, OnceDropsAlone
<1>2. Inv => CompleteIsSound /\ CompleteIsQuiet
  BY CompleteImplied
<1>3. Init => Inv
  BY InitOnce, InitComplete
<1> HIDE DEF Inv
<1> QED
  BY <1>1, <1>2, <1>3, PTL DEF Spec

-----------------------------------------------------------------------------
(* Runs without reruns and cancels implement the readiness rule *)

\* Every request is a start.
OnlyStarts == \A q \in Kinds : q.kind = "start"

\* The part of the records that the nodes of S have.
Part(r, S) == [m \in Nodes |-> IF m \in S THEN r[m] ELSE NoRecord(Graph)]

\* The task instance i was submitted on a part of the records, on which its
\* node is ready.
SawPart(i, r) ==
  \E S \in SUBSET Nodes :
    /\ \A m \in S : r[m].status # "absent"
    /\ IsReady(Graph, i.node, Part(r, S))
    /\ i.basis = BasisFrom(Graph, i.node, Part(r, S))

NeverCancels(l) == l.at # "settleCancelled"

PlainInv ==
  /\ OnceInv
  /\ LifeInv
  /\ run.state # "cancelled"
  /\ \A p \in Procs : NeverCancels(proc[p])
  /\ \A i \in active : SawPart(i, recs)

LEMMA OnlyStartsNoReruns == OnlyStarts => NoReruns
BY DEF OnlyStarts, NoReruns

\* A removal of node records is one of the run.
LEMMA RunStaysRecordsStay ==
  ASSUME LifeInv, InstancesInv, [Next]_vars, [RunStays]_vars
  PROVE  [RecordsStay]_vars
<1>1. CASE Terminates
  BY <1>1, Grows DEF Terminates, RecordsStay, Terminal
<1>2. CASE RemoveRun
  <2>1. CASE run = pass.run
    <3>1. run.state # "absent" /\ run'.state = "absent"
      BY <1>2, <2>1 DEF RemoveRun, LifeInv, KnowsExpired, OnlyFinalSettled, NoRun
    <3> QED
      BY <3>1 DEF RunStays, vars, storeVars
  <2>2. CASE run # pass.run
    BY <1>2, <2>2 DEF RemoveRun, storeVars, RecordsStay
  <2> QED
    BY <2>1, <2>2
<1> QED
  BY <1>1, <1>2, RecordsNext DEF RecordsStay

LEMMA NeverCancelsNext ==
  ASSUME OnlyStarts, PlainInv, [Next]_vars, NEW p \in Procs
  PROVE  NeverCancels(proc'[p])
<1>1. ~HandleCancel
  <2> SUFFICES ASSUME HandleCancel PROVE FALSE
    OBVIOUS
  <2>1. Job \in 1..Len(requests) /\ requests[Job].kind = "cancel"
    BY OnceTypes DEF PlainInv, HandleCancel, IsNext, Job, TypeInv, TypeOK
  <2> QED
    BY <2>1 DEF PlainInv, OnceInv, SentKinds, OnlyStarts
<1>2. Moves(proc[p], proc'[p]) /\ proc[p] \in Local
  BY NextMoves, OnceTypes, LocalFacts DEF PlainInv
<1> QED
  BY <1>1, <1>2 DEF PlainInv, NeverCancels, Moves, Rests, Takes, ReadsOne,
     GoesFrom, Follows, Local, Phases

LEMMA NeverCancelled ==
  ASSUME OnlyStarts, PlainInv, [Next]_vars
  PROVE  run'.state # "cancelled"
<1>1. ~SettleCancelled /\ ~SwapRun
  BY ProcsFacts, NoneReruns, OnlyStartsNoReruns
  DEF PlainInv, NeverCancels, SettleCancelled
<1>2. CASE \E p \in Advancers : Settle(p)
  <2>1. PICK p \in Procs : Settle(p)
    BY <1>2, ProcsFacts
  <2> QED
    BY <2>1, SettleShape, SettledStateValues, OnceTypes DEF PlainInv
<1>3. CASE HandleStart \/ HandleTrigger
  BY <1>3, StartShape DEF HandleStart, HandleTrigger, NewRun, PlainInv
<1>4. CASE RemoveRun
  BY <1>4 DEF RemoveRun, NoRun, storeVars, PlainInv
<1> QED
  BY <1>1, <1>2, <1>3, <1>4, RunNext DEF PlainInv

\* Without reruns a record never changes.
LEMMA RecordsGrow ==
  ASSUME OnceInv, [Next]_vars, [RecordsStay]_vars,
         NEW n \in Nodes, recs[n].status # "absent"
  PROVE  recs'[n] = recs[n]
<1>0. InstancesInv /\ \A i \in active : recs[i.node].status = "absent"
  BY OnceTypes DEF OnceInv, RunsOnce
<1>1. CASE Terminates
  BY <1>0, <1>1, Grows DEF Terminates
<1>2. CASE RemoveRun
  <2>1. CASE run = pass.run
    <3>1. recs' = NoRecords /\ recs'[n].status = "absent"
      BY <1>2, <2>1 DEF RemoveRun, NoRecords, NoRecord
    <3> QED
      BY <3>1 DEF RecordsStay, vars, storeVars
  <2>2. CASE run # pass.run
    BY <1>2, <2>2 DEF RemoveRun, storeVars
  <2> QED
    BY <2>1, <2>2
<1> QED
  BY <1>1, <1>2, RecordsNext

LEMMA SawGrows ==
  ASSUME NEW i, NEW r, NEW q, SawPart(i, r),
         \A n \in Nodes : r[n].status # "absent" => q[n] = r[n]
  PROVE  SawPart(i, q)
<1>1. PICK S \in SUBSET Nodes :
        /\ \A m \in S : r[m].status # "absent"
        /\ IsReady(Graph, i.node, Part(r, S))
        /\ i.basis = BasisFrom(Graph, i.node, Part(r, S))
  BY DEF SawPart
<1>2. Part(q, S) = Part(r, S)
  BY <1>1 DEF Part
<1>3. \A m \in S : q[m].status # "absent"
  BY <1>1
<1> QED
  BY <1>1, <1>2, <1>3 DEF SawPart

\* What a submit takes for the records is a part of them.
LEMMA SawCurrent ==
  ASSUME NEW i, i.node \in Nodes, NEW r, NEW c,
         \A n \in Nodes : c[n].status # "absent" => r[n] = c[n],
         IsReady(Graph, i.node, c), i.basis = BasisFrom(Graph, i.node, c)
  PROVE  SawPart(i, r)
<1> DEFINE S == {n \in Nodes : c[n].status # "absent"}
           q == Part(r, S)
<1>1. NoRecord(Graph).status = "absent"
  BY DEF NoRecord
<1>2. \A n \in Nodes : q[n].status = c[n].status
  BY <1>1 DEF Part
<1>3. \A n \in Nodes : c[n].status # "absent" => q[n] = c[n]
  BY DEF Part
<1>4. \A m \in S : r[m].status # "absent"
  OBVIOUS
<1> HIDE DEF q
<1>5. IsReady(Graph, i.node, q)
  BY <1>2, ReadyGrows
<1>6. BasisFrom(Graph, i.node, q) = BasisFrom(Graph, i.node, c)
  BY <1>2, <1>3 DEF BasisFrom, Nodes
<1> HIDE DEF S
<1>7. S \in SUBSET Nodes
  BY DEF S
<1> QED
  BY <1>4, <1>5, <1>6, <1>7 DEF SawPart, q

LEMMA SubmitsSaw ==
  ASSUME RootsReady, NoReruns, OnceInv, NEW p \in Procs, Submits(p),
         NEW i \in active', i \notin active
  PROVE  SawPart(i, recs)
<1> DEFINE l == proc[p]
<1>0. l \in Local /\ NeverReruns(l)
  BY OnceTypes, LocalFacts DEF OnceInv
<1>1. CASE SubmitReady(p)
  <2>1. PICK n \in l.todo : SubmitNode(n, NextRerun(l.recs, n), Current(l))
    BY <1>1 DEF SubmitReady, IsFirst
  <2>2. n \in Nodes /\ IsReady(Graph, n, l.recs)
    BY <1>0, <1>1 DEF Local, SubmitReady, NeverReruns
  <2>3. i.node = n /\ i.basis = BasisFrom(Graph, n, Current(l))
    BY <2>1 DEF SubmitNode
  <2>4. \A m \in Nodes : /\ Current(l)[m] = l.recs[m]
                         /\ Current(l)[m].status # "absent" =>
                              recs[m] = Current(l)[m]
    BY SnapshotPart
  <2>5. IsReady(Graph, n, Current(l))
    BY <2>2, <2>4, ReadyGrows
  <2> HIDE DEF l
  <2> QED
    BY <2>2, <2>3, <2>4, <2>5, SawCurrent
<1>2. CASE SubmitRoot(p)
  <2>1. PICK n \in l.todo : SubmitNode(n, 0, NoRecords)
    BY <1>2 DEF SubmitRoot, IsFirst
  <2>2. n \in Nodes /\ Graph.up[n] = {}
    BY <1>0, <1>2 DEF SubmitRoot, NeverReruns, Roots, Nodes
  <2>3. i.node = n /\ i.basis = BasisFrom(Graph, n, NoRecords)
    BY <2>1 DEF SubmitNode
  <2>4. IsReady(Graph, n, NoRecords)
    BY <2>2, GraphFacts DEF RootsReady, IsReady
  <2>5. \A m \in Nodes : NoRecords[m].status = "absent"
    BY DEF NoRecords, NoRecord
  <2> QED
    BY <2>2, <2>3, <2>4, <2>5, SawCurrent
<1> QED
  BY <1>1, <1>2, NoneReruns DEF Submits

LEMMA SawNext ==
  ASSUME RootsReady, NoReruns, OnceInv, [Next]_vars, [RecordsStay]_vars,
         \A i \in active : SawPart(i, recs), NEW i \in active'
  PROVE  SawPart(i, recs')
<1>1. SawPart(i, recs)
  <2>1. CASE \E p \in Procs : CancelUnrecorded(p)
    <3>1. PICK n, k : CancelInstance(n, k)
      BY <2>1 DEF CancelUnrecorded
    <3>2. PICK j \in active : i = j \/ i = [j EXCEPT !.cancel = TRUE]
      BY <3>1 DEF CancelInstance
    <3>3. i.node = j.node /\ i.basis = j.basis
      BY <3>2, OnceTypes DEF TypeInv, TypeOK, Instance
    <3> QED
      BY <3>3 DEF SawPart
  <2>2. CASE \E p \in Procs : Submits(p)
    BY <2>2, SubmitsSaw
  <2>3. CASE UNCHANGED active \/ Terminates
    BY <2>3 DEF Terminates, Terminate
  <2> QED
    BY <2>1, <2>2, <2>3, ActiveNext
<1> QED
  BY <1>1, RecordsGrow, SawGrows

LEMMA InitPlain == Init => PlainInv
<1> SUFFICES ASSUME Init PROVE PlainInv
  OBVIOUS
<1>1. run.state # "cancelled" /\ active = {}
  BY DEF Init, NoRun
<1>2. \A p \in Procs : NeverCancels(proc[p])
  BY DEF Init, Idle, NeverCancels
<1> QED
  BY <1>1, <1>2, InitOnce, InitLife DEF PlainInv

LEMMA NextPlain ==
  ASSUME RefuseTerminated, OnlyStarts, RootsReady, PlainInv, [Next]_vars,
         [RunStays]_vars
  PROVE  PlainInv'
<1>1. OnceInv /\ LifeInv /\ InstancesInv /\ NoReruns
  BY OnlyStartsNoReruns, OnceTypes DEF PlainInv
<1>2. [RecordsStay]_vars
  BY <1>1, RunStaysRecordsStay
<1>3. OnceInv' /\ LifeInv'
  BY <1>1, <1>2, NextOnce, NextLife
<1>4. \A i \in active' : SawPart(i, recs')
  BY <1>1, <1>2, SawNext DEF PlainInv
<1> QED
  BY <1>3, <1>4, NeverCancelsNext, NeverCancelled DEF PlainInv

\* The states of the nodes follow from the statuses of the records.
LEMMA StatesFromStatus ==
  ASSUME NEW r, NEW q, \A n \in Nodes : r[n].status = q[n].status
  PROVE  NodeStates(Graph, r) = NodeStates(Graph, q)
<1> DEFINE f == NodeStates(Graph, r)
           h == NodeStates(Graph, q)
<1>1. States!IsGraph(Graph)
  BY GraphAssumption DEF IsGraph, States!IsGraph, Rules, States!Rules
<1>2. \A s : States!NodeStates(Graph, s) = NodeStates(Graph, s)
  BY DEF States!NodeStates, NodeStates, States!IsReady, IsReady,
         States!CanBecomeReady, CanBecomeReady, States!IsOpen, IsOpen
<1> HIDE DEF NodeStates
<1>3. f = [n \in Nodes |-> States!StateOf(Graph, r, n, f)]
  BY <1>1, <1>2, States!StatesOfNodes DEF Nodes
<1>4. h = [n \in Nodes |-> States!StateOf(Graph, q, n, h)]
  BY <1>1, <1>2, States!StatesOfNodes DEF Nodes
<1> HIDE DEF f, h
<1>5. \A n \in Nodes : h[n] = States!StateOf(Graph, r, n, h)
  <2> TAKE n \in Nodes
  <2>1. States!IsReady(Graph, n, r) = States!IsReady(Graph, n, q)
    BY GraphFacts DEF States!IsReady
  <2>2. States!StateOf(Graph, r, n, h) = States!StateOf(Graph, q, n, h)
    BY <2>1 DEF States!StateOf
  <2> QED
    BY <1>4, <2>2
<1>6. States!Closed(Graph, Nodes)
  BY GraphFacts DEF States!Closed, Nodes
<1>7. States!Solves(Graph, r, Nodes, f) /\ States!Solves(Graph, r, Nodes, h)
  BY <1>3, <1>5 DEF States!Solves
<1>8. \A n \in Nodes \cap Nodes : f[n] = h[n]
  BY <1>1, <1>6, <1>7, States!StatesAgree
<1>9. f = [n \in Nodes |-> f[n]] /\ h = [n \in Nodes |-> h[n]]
  BY <1>3, <1>4
<1> QED
  BY <1>8, <1>9 DEF f, h

LEMMA ReadyState ==
  ASSUME NEW r, NEW n \in Nodes, r[n].status = "absent", IsReady(Graph, n, r)
  PROVE  NodeStates(Graph, r)[n] = "ready"
<1>1. States!IsGraph(Graph)
  BY GraphAssumption DEF IsGraph, States!IsGraph, Rules, States!Rules
<1>2. States!NodeStates(Graph, r) = NodeStates(Graph, r)
  BY DEF States!NodeStates, NodeStates, States!IsReady, IsReady,
         States!CanBecomeReady, CanBecomeReady, States!IsOpen, IsOpen
<1> HIDE DEF NodeStates
<1>3. NodeStates(Graph, r)[n] =
        States!StateOf(Graph, r, n, NodeStates(Graph, r))
  BY <1>1, <1>2, States!StatesOfNodes DEF Nodes
<1> QED
  BY <1>3 DEF States!StateOf, States!IsReady, IsReady

\* The run record as GraphProgress has it.
Mapped(c) == [state |-> IF c.state = "absent" THEN "active" ELSE c.state,
              settled |-> 0, expected |-> c.expected]

LEMMA SameOperators ==
  /\ \A r : Progress!NodeStates(Graph, r) = NodeStates(Graph, r)
  /\ \A s : Progress!SettledState(s) = SettledState(s)
  /\ \A n, r : /\ Progress!IsReady(Graph, n, r) = IsReady(Graph, n, r)
               /\ Progress!BasisFrom(Graph, n, r) = BasisFrom(Graph, n, r)
               /\ Progress!NextRerun(r, n) = NextRerun(r, n)
  /\ Progress!NoRecord(Graph) = NoRecord(Graph)
  /\ Progress!Terminal = Terminal
<1>1. \A r : Progress!NodeStates(Graph, r) = NodeStates(Graph, r)
  BY DEF Progress!NodeStates, NodeStates, Progress!IsReady, IsReady,
         Progress!CanBecomeReady, CanBecomeReady, Progress!IsOpen, IsOpen
<1>2. \A s : Progress!SettledState(s) = SettledState(s)
  BY DEF Progress!SettledState, SettledState, Progress!IsOpen, IsOpen
<1>3. \A n, r : /\ Progress!IsReady(Graph, n, r) = IsReady(Graph, n, r)
                /\ Progress!BasisFrom(Graph, n, r) = BasisFrom(Graph, n, r)
                /\ Progress!NextRerun(r, n) = NextRerun(r, n)
  BY DEF Progress!IsReady, IsReady, Progress!BasisFrom, BasisFrom,
         Progress!NextRerun, NextRerun
<1>4. Progress!NoRecord(Graph) = NoRecord(Graph)
  BY DEF Progress!NoRecord, NoRecord, Progress!NoBasis, NoBasis
<1> QED
  BY <1>1, <1>2, <1>3, <1>4 DEF Progress!Terminal, Terminal

\* Without reruns every record is current.
LEMMA MappedFacts ==
  ASSUME OnceInv
  PROVE  /\ Progress!CurrentRecords(Graph, Mapped(run), recs) = recs
         /\ Progress!State = NodeStates(Graph, recs)
         /\ \A S : Progress!Seen(S) = Part(recs, S)
         /\ run.expected = [n \in Nodes |-> 0]
<1>0. /\ recs \in [Nodes -> NodeRecord]
      /\ run.expected \in [Nodes -> Nat]
      /\ \A n \in Nodes : run.expected[n] = 0 /\ recs[n].rerun = 0
  BY OnceTypes DEF OnceInv, RunsOnce, RunRecord
<1>1. Progress!CurrentRecords(Graph, Mapped(run), recs) = recs
  BY <1>0 DEF Progress!CurrentRecords, Progress!IsCurrent, Mapped, Nodes
<1>2. Progress!State = NodeStates(Graph, recs)
  BY <1>1, SameOperators DEF Progress!State, Mapped
<1>3. \A S : Progress!Seen(S) = Part(recs, S)
  BY <1>1, SameOperators DEF Progress!Seen, Part, Mapped, Nodes
<1>4. run.expected = [n \in Nodes |-> 0]
  BY <1>0
<1> QED
  BY <1>1, <1>2, <1>3, <1>4

\* A step that leaves the records alone and the run as GraphProgress has it.
LEMMA StutterStep ==
  ASSUME UNCHANGED recs, Mapped(run)' = Mapped(run)
  PROVE  UNCHANGED Progress!vars
BY DEF Progress!vars, Mapped

\* The end of a task instance is the run of a ready node.
LEMMA TerminateStep ==
  ASSUME PlainInv, NEW i \in active, NEW status \in Terminal,
         Terminate(i, status)
  PROVE  \E n \in Graph.nodes : Progress!RunNode(n)
<1> DEFINE n == i.node
<1>0. /\ InstancesInv /\ OnceInv /\ run \in RunRecord
      /\ n \in Nodes /\ recs[n].status = "absent"
      /\ IsReady(Graph, n, recs)
      /\ i.rerun = NextRerun(recs, n)
  BY OnceTypes
  DEF PlainInv, OnceInv, RunsOnce, RanIsReady, Ran, InstancesInv, NextOnly
<1>1. Mapped(run).state = "active"
  <2>1. run.state \notin {"complete", "failed", "cancelled"}
    BY <1>0, DoneIsQuiet DEF PlainInv
  <2> QED
    BY <1>0, <2>1 DEF Mapped, RunRecord, RunStates
<1>2. Progress!State[n] = "ready"
  BY <1>0, MappedFacts, ReadyState
<1>3. PICK S \in SUBSET Nodes :
        /\ IsReady(Graph, n, Part(recs, S))
        /\ i.basis = BasisFrom(Graph, n, Part(recs, S))
  BY DEF PlainInv, SawPart
<1>4. Progress!IsReady(Graph, n, Progress!Seen(S))
  BY <1>0, <1>3, MappedFacts, SameOperators
<1>5. Progress!Recorded(n, Progress!Seen(S), status)
  <2>1. recs' = [recs EXCEPT ![n] =
                   [status |-> status, rerun |-> i.rerun, basis |-> i.basis]]
    BY DEF Terminate
  <2>2. Progress!NextRerun(recs, n) = i.rerun
    BY <1>0, SameOperators
  <2>3. Progress!BasisFrom(Graph, n, Progress!Seen(S)) = i.basis
    BY <1>0, <1>3, MappedFacts, SameOperators
  <2> QED
    BY <2>1, <2>2, <2>3 DEF Progress!Recorded
<1>6. UNCHANGED run
  BY DEF Terminate
<1>7. S \in SUBSET Graph.nodes /\ n \in Graph.nodes /\ status \in Progress!Terminal
  BY <1>0, SameOperators DEF Nodes
<1>8. Progress!RunNode(n)
  BY <1>1, <1>2, <1>4, <1>5, <1>6, <1>7 DEF Progress!RunNode, Mapped
<1> QED
  BY <1>7, <1>8

\* A settle of a snapshot is the settle of the records: what the snapshot has
\* is there, and the rest of it is blocked for good.
LEMMA SettleNodeStates ==
  ASSUME OnceInv, NEW p \in Procs, Settle(p)
  PROVE  NodeStates(Graph, Current(proc[p])) = NodeStates(Graph, recs)
<1> DEFINE r == Current(proc[p])
           s == NodeStates(Graph, r)
<1>1. r \in [Nodes -> NodeRecord]
  BY OnceTypes, CurrentType DEF Current, Local
<1>2. SettledState(s) # "none"
  BY OnceTypes DEF TypeInv, SettlesSettled, Settle
<1>3. \A m \in Nodes : ~IsOpen(s[m])
  BY <1>1, <1>2, SettledFacts
<1>4. ASSUME NEW n \in Nodes PROVE r[n].status = recs[n].status
  <2>1. CASE r[n].status # "absent"
    BY <2>1, SnapshotPart
  <2>2. CASE r[n].status = "absent"
    <3>1. s[n] = "blocked"
      BY <1>1, <1>3, <2>2, StateFacts DEF IsOpen
    <3>2. ~IsReady(Graph, n, recs)
      BY <1>3, <3>1, BlockedNeverRuns
    <3> QED
      BY <2>2, <3>2 DEF OnceInv, RanIsReady, Ran
  <2> QED
    BY <2>1, <2>2
<1> HIDE DEF r
<1> QED
  BY <1>4, StatesFromStatus DEF r

LEMMA SettleRefines ==
  ASSUME PlainInv, OnceInv', NEW p \in Procs, Settle(p)
  PROVE  Progress!SettleRun \/ UNCHANGED Progress!vars
<1> DEFINE state == SettledState(NodeStates(Graph, recs))
<1>0. /\ OnceInv /\ TypeInv /\ run \in RunRecord
      /\ recs \in [Nodes -> NodeRecord] /\ UNCHANGED recs
      /\ KnowsState(proc[p]) /\ proc[p].at = "check"
  BY OnceTypes DEF PlainInv, LifeInv, Settle
<1>1. CASE UNCHANGED run
  BY <1>0, <1>1, StutterStep DEF Mapped
<1>2. CASE /\ run = proc[p].run
           /\ run'.state = SettledState(NodeStates(Graph, Current(proc[p])))
  <2>1. run.state = "active" /\ run'.state = state
    BY <1>0, <1>2, SettleNodeStates DEF KnowsState
  <2>2. state \in {"complete", "failed"}
    BY <1>0, <1>2, <2>1, SettledStateValues
    DEF TypeInv, SettlesSettled, Settle
  <2>3. state = Progress!SettledState(Progress!State)
    BY <1>0, MappedFacts, SameOperators
  <2>4. run'.expected = [n \in Nodes |-> 0]
    <3>1. /\ run'.expected \in [Nodes -> Nat]
          /\ \A n \in Nodes : run'.expected[n] = 0
      BY DEF OnceInv, RunsOnce, SuccessInv, InstancesInv, TypeInv, TypeOK,
             RunRecord
    <3> QED
      BY <3>1
  <2>5. Progress!RetainExpected(Graph, Mapped(run), recs) = [n \in Nodes |-> 0]
    BY <1>0, MappedFacts DEF Progress!RetainExpected, Mapped, Nodes
  <2>6. Mapped(run)' = [Mapped(run) EXCEPT
          !.state = Progress!SettledState(Progress!State),
          !.expected = Progress!RetainExpected(Graph, Mapped(run), recs)]
    <3> DEFINE zero == [n \in Nodes |-> 0]
               d == [Mapped(run) EXCEPT !.state = state, !.expected = zero]
               D == {"state", "settled", "expected"}
               f == Mapped(run)'
    <3>1. Mapped(run) = [state |-> "active", settled |-> 0,
                         expected |-> run.expected]
      BY <2>1 DEF Mapped
    <3>2. f = [state |-> state, settled |-> 0, expected |-> zero]
      BY <2>1, <2>2, <2>4 DEF Mapped
    <3> HIDE DEF state, zero
    <3>3. /\ d = [k \in D |-> d[k]]
          /\ d.state = state /\ d.settled = 0 /\ d.expected = zero
      <4>1. DOMAIN Mapped(run) = D /\ Mapped(run).settled = 0
        BY <3>1
      <4>2. DOMAIN d = D
        BY <4>1
      <4>3. d.state = state /\ d.settled = 0 /\ d.expected = zero
        BY <4>1
      <4>4. d = [k \in DOMAIN d |-> d[k]]
        OBVIOUS
      <4> QED
        BY <4>2, <4>3, <4>4
    <3> HIDE DEF f
    <3>4. /\ f = [k \in D |-> f[k]]
          /\ f.state = state /\ f.settled = 0 /\ f.expected = zero
      BY <3>2
    <3> HIDE DEF d
    <3>5. \A k \in D : d[k] = f[k]
      BY <3>3, <3>4
    <3> HIDE DEF D
    <3>6. [k \in D |-> d[k]] = [k \in D |-> f[k]]
      BY <3>5
    <3>7. d = f
      BY <3>3, <3>4, <3>6
    <3> QED
      BY <2>3, <2>5, <3>7 DEF d, f, zero
  <2>7. Mapped(run).state = "active"
    BY <2>1 DEF Mapped
  <2>8. Progress!SettledState(Progress!State) # "none"
    BY <2>2, <2>3
  <2> HIDE DEF state
  <2> QED
    BY <1>0, <2>6, <2>7, <2>8 DEF Progress!SettleRun, Mapped
<1> QED
  BY <1>0, <1>1, <1>2, SettleShape

LEMMA PlainStep ==
  ASSUME OnlyStarts, PlainInv, PlainInv', [Next]_vars, [RunStays]_vars
  PROVE  [Progress!Next]_(Progress!vars)
<1>0. OnceInv /\ OnceInv' /\ LifeInv /\ NoReruns /\ TypeInv /\ InstancesInv
  BY OnlyStartsNoReruns, OnceTypes DEF PlainInv
<1>1. CASE Terminates
  BY <1>1, TerminateStep DEF Terminates, Progress!Next
<1>2. CASE UNCHANGED <<run, recs>>
  BY <1>2, StutterStep DEF Mapped
<1>3. CASE \E p \in Advancers : Settle(p)
  BY <1>0, <1>3, SettleRefines, ProcsFacts DEF Progress!Next
<1>4. CASE HandleStart \/ HandleTrigger
  <2>1. UNCHANGED recs
    BY <1>4 DEF HandleStart, HandleTrigger
  <2>2. CASE run.state = "absent" /\ run' = NewRun
    <3>1. Mapped(run)' = [state |-> "active", settled |-> 0,
                          expected |-> [n \in Nodes |-> 0]]
      BY <2>2 DEF NewRun, Mapped
    <3>2. Mapped(run) = [state |-> "active", settled |-> 0,
                         expected |-> [n \in Nodes |-> 0]]
      BY <1>0, <2>2, MappedFacts DEF Mapped
    <3> QED
      BY <2>1, <3>1, <3>2, StutterStep
  <2> QED
    BY <1>2, <1>4, <2>1, <2>2, StartShape DEF HandleStart, HandleTrigger
<1>5. CASE RemoveRun
  <2>1. CASE run = pass.run
    <3>1. run.state # "absent" /\ run'.state = "absent"
      BY <1>0, <1>5, <2>1
      DEF RemoveRun, LifeInv, KnowsExpired, OnlyFinalSettled, NoRun
    <3> QED
      BY <3>1 DEF RunStays, vars, storeVars
  <2>2. CASE run # pass.run
    BY <1>2, <1>5, <2>2 DEF RemoveRun, storeVars
  <2> QED
    BY <2>1, <2>2
<1>6. ~SwapRun /\ ~SettleCancelled
  BY <1>0, NoneReruns, ProcsFacts DEF PlainInv, NeverCancels, SettleCancelled
<1> QED
  BY <1>1, <1>2, <1>3, <1>4, <1>5, <1>6, RunNext, RecordsNext

\* Without reruns and cancels the event workers, the reconciler, the request
\* worker and the triggers worker, with every failure of theirs, implement the
\* sequential readiness rule: a node runs once, when it is ready, and the run
\* settles as its records say (scheduler.rs, advance and settle).  The run is
\* taken not to expire meanwhile.
THEOREM ProgressRefined ==
  ASSUME RefuseTerminated, OnlyStarts, RootsReady
  PROVE  Spec /\ [][RunStays]_vars => ImplementsProgress
<1>1. Init => Progress!Init
  <2> SUFFICES ASSUME Init PROVE Progress!Init
    OBVIOUS
  <2>1. recs = [n \in Graph.nodes |-> Progress!NoRecord(Graph)]
    BY SameOperators DEF Init, NoRecords, Nodes
  <2> QED
    BY <2>1 DEF Init, NoRun, Nodes, Progress!Init
<1>2. PlainInv /\ [Next]_vars /\ [RunStays]_vars => PlainInv'
  BY NextPlain
<1>3. PlainInv /\ PlainInv' /\ [Next]_vars /\ [RunStays]_vars
        => [Progress!Next]_(Progress!vars)
  BY PlainStep
<1> QED
  BY InitPlain, <1>1, <1>2, <1>3, PTL DEF Spec, ImplementsProgress, Progress!Spec

\* A record was made on a part of the records too.
RecordSaw(n, r) == SawPart([node |-> n, basis |-> r[n].basis], r)

FreshOnceInv ==
  /\ OnceInv
  /\ CompleteInv
  /\ \A i \in active : SawPart(i, recs)
  /\ \A n \in Nodes : recs[n].status # "absent" => RecordSaw(n, recs)

LEMMA RecordSawNext ==
  ASSUME FreshOnceInv, [Next]_vars, [RecordsStay]_vars,
         NEW n \in Nodes, recs'[n].status # "absent"
  PROVE  RecordSaw(n, recs')
<1> DEFINE x == [node |-> n, basis |-> recs'[n].basis]
<1>0. OnceInv /\ InstancesInv
  BY OnceTypes DEF FreshOnceInv
<1>1. SawPart(x, recs)
  <2>1. CASE Terminates
    <3>1. PICK i \in active, status \in Terminal : Terminate(i, status)
      BY <2>1 DEF Terminates
    <3>2. CASE n = i.node
      <4>1. x.node = i.node /\ x.basis = i.basis
        BY <1>0, <3>1, <3>2, OnceTypes DEF Terminate
      <4> QED
        BY <4>1 DEF FreshOnceInv, SawPart
    <3>3. CASE n # i.node
      BY <1>0, <3>1, <3>3, Grows DEF FreshOnceInv, RecordSaw
    <3> QED
      BY <3>2, <3>3
  <2>2. CASE UNCHANGED recs
    BY <2>2 DEF FreshOnceInv, RecordSaw
  <2>3. CASE RemoveRun
    BY <2>2, <2>3 DEF RemoveRun, storeVars, NoRecords, NoRecord
  <2> QED
    BY <2>1, <2>2, <2>3, RecordsNext
<1> HIDE DEF x
<1>2. SawPart(x, recs')
  BY <1>0, <1>1, RecordsGrow, SawGrows
<1> QED
  BY <1>2 DEF RecordSaw, x

\* Without reruns every node of a complete run with the all-succeeded rule ran
\* on the present outputs of its upstreams, with any number of event workers,
\* cancels and failures; finding 2 of the README needs a rerun (scheduler.rs,
\* the comment of rerun; input.rs).
THEOREM FreshWithoutReruns ==
  ASSUME RefuseTerminated, NoReruns, RootsReady
  PROVE  Spec /\ [][RecordsStay]_vars => []OutputsAreFresh
<1>1. Init => FreshOnceInv
  <2> SUFFICES ASSUME Init PROVE FreshOnceInv
    OBVIOUS
  <2>1. active = {} /\ \A n \in Nodes : recs[n].status = "absent"
    BY DEF Init, NoRecords, NoRecord
  <2> QED
    BY <2>1, InitOnce, InitComplete DEF FreshOnceInv
<1>2. FreshOnceInv /\ [Next]_vars /\ [RecordsStay]_vars => FreshOnceInv'
  <2> SUFFICES ASSUME FreshOnceInv, [Next]_vars, [RecordsStay]_vars
               PROVE  FreshOnceInv'
    OBVIOUS
  <2>1. OnceInv' /\ CompleteInv'
    BY NextOnce, NextComplete, OnceDropsAlone DEF FreshOnceInv
  <2>2. \A i \in active' : SawPart(i, recs')
    BY SawNext DEF FreshOnceInv
  <2> QED
    BY <2>1, <2>2, RecordSawNext DEF FreshOnceInv
<1>3. FreshOnceInv => OutputsAreFresh
  <2> SUFFICES ASSUME FreshOnceInv, run.state = "complete", NEW n \in Nodes,
                      Graph.rule[n] = "all_succeeded"
               PROVE  recs[n].basis = BasisFrom(Graph, n, recs)
    BY DEF OutputsAreFresh
  <2>1. recs[n].status # "absent"
    BY CompleteImplied DEF FreshOnceInv, CompleteIsSound
  <2>2. PICK S \in SUBSET Nodes :
          /\ IsReady(Graph, n, Part(recs, S))
          /\ recs[n].basis = BasisFrom(Graph, n, Part(recs, S))
    BY <2>1 DEF FreshOnceInv, RecordSaw, SawPart
  <2>3. \A u \in Graph.up[n] : u \in S
    BY <2>2, GraphFacts DEF IsReady, Part, NoRecord
  <2>4. BasisFrom(Graph, n, Part(recs, S)) = BasisFrom(Graph, n, recs)
    BY <2>3 DEF BasisFrom, Part, Nodes
  <2> QED
    BY <2>2, <2>4
<1> QED
  BY <1>1, <1>2, <1>3, PTL DEF Spec

=============================================================================
