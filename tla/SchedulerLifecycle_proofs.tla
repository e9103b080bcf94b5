--------------------- MODULE SchedulerLifecycle_proofs ---------------------
(***************************************************************************)
(* The run record of the scheduler implements RunLifecycle; a settled run  *)
(* has its expiry entry, and so has a request record; a cancel decides by  *)
(* the stored state; and a waiting command sees its request through.       *)
(*                                                                         *)
(* Every write of the run record is a compare with a snapshot, so what a   *)
(* process knows of its snapshot holds of the record that it replaces.     *)
(***************************************************************************)
EXTENDS SchedulerTypes_proofs, RequestStatus

\* A run that is absent or active has no settle time.
OnlyFinalSettled == run.state \in {"absent", "active"} => run.settled = 0

\* The entry of a run is dated; 0 is the settle time of a run without one.
EntriesDated == \A e \in expiry : e.request = 0 => e.time # 0

\* What a process knows of the run it has read.
KnowsState(l) ==
  /\ \/ l.at = "records" /\ l.then = "advance"
     \/ l.at \in {"check", "settleCancelled"}
     => l.run.state = "active"
  /\ \/ l.at = "records" /\ l.then = "rerun"
     \/ l.at = "swap"
     => l.run.state # "absent"

\* What the pass knows of the run it is about to remove.
KnowsExpired ==
  pass.at = "removeRun" =>
    /\ pass.run.settled = pass.entry.time
    /\ pass.entry.time # 0
    /\ IsDue(pass.entry)

LifeInv ==
  /\ TypeInv
  /\ OnlyFinalSettled
  /\ EntriesDated
  /\ \A p \in Procs : KnowsState(proc[p])
  /\ KnowsExpired

-----------------------------------------------------------------------------
(* What the actions leave alone *)

LEMMA AdvancerFrame ==
  ASSUME NEW p, AdvancerStep(p)
  PROVE  /\ UNCHANGED <<pass, now>>
         /\ Settle(p) \/ UNCHANGED <<run, expiry>>
<1>1. CASE \/ ReadRecord(p) \/ PlanAdvance(p) \/ SubmitReady(p)
           \/ CheckActive(p) \/ PlanCancel(p)
  BY <1>1 DEF ReadRecord, PlanAdvance, SubmitReady, CheckActive, PlanCancel,
              storeVars
<1>2. CASE CancelUnrecorded(p) \/ EndCancel(p) \/ Ack(p) \/ Settle(p)
  BY <1>2 DEF CancelUnrecorded, EndCancel, Ack, Settle, storeVars
<1> QED
  BY <1>1, <1>2 DEF AdvancerStep

LEMMA RequesterFrame ==
  ASSUME RequesterStep
  PROVE  /\ UNCHANGED <<pass, now>>
         /\ \/ HandleStart \/ SwapRun \/ SettleCancelled \/ UNCHANGED run
         /\ \/ Resubmit \/ WriteAnswer \/ SettleCancelled \/ UNCHANGED expiry
<1>1. CASE HandleStart \/ SwapRun \/ SettleCancelled \/ Resubmit \/ WriteAnswer
  BY <1>1 DEF HandleStart, SwapRun, SettleCancelled, Resubmit, WriteAnswer
<1>2. CASE \/ SkipAnswered \/ SubmitRoot(Requester) \/ HandleRerun
           \/ PlanRerun \/ HandleCancel
  BY <1>2 DEF SkipAnswered, SubmitRoot, HandleRerun, PlanRerun, HandleCancel,
              storeVars
<1>3. CASE \/ ReadRecord(Requester) \/ PlanCancel(Requester)
           \/ CancelUnrecorded(Requester) \/ EndCancel(Requester)
           \/ Ack(Requester)
  BY <1>3 DEF ReadRecord, PlanCancel, CancelUnrecorded, EndCancel, Ack,
              storeVars
<1> QED
  BY <1>1, <1>2, <1>3 DEF RequesterStep

\* The steps of the environment and of the failures.
LEMMA OtherFrame ==
  /\ Send \/ Terminates \/ (\E w \in EventWorkers : HandleEvent(w)) \/ Reconcile
     \/ (\E p \in Procs : Fail(p)) => UNCHANGED <<run, expiry, pass, now>>
  /\ FailPass => UNCHANGED <<run, expiry, now>> /\ pass' = PassIdle
  /\ Tick => UNCHANGED <<run, expiry, pass>>
  /\ TriggerStep => /\ UNCHANGED <<expiry, pass, now>>
                    /\ HandleTrigger \/ UNCHANGED run
  /\ PassStep => UNCHANGED now /\ (RemoveRun \/ UNCHANGED run)
<1>1. Send => UNCHANGED <<run, expiry, pass, now>>
  BY DEF Send, storeVars
<1>2. Terminates => UNCHANGED <<run, expiry, pass, now>>
  BY DEF Terminates, Terminate
<1>3. (\E w \in EventWorkers : HandleEvent(w)) \/ Reconcile
        => UNCHANGED <<run, expiry, pass, now>>
  BY DEF HandleEvent, Reconcile, storeVars
<1>4. (\E p \in Procs : Fail(p)) => UNCHANGED <<run, expiry, pass, now>>
  BY DEF Fail, storeVars
<1>5. FailPass => UNCHANGED <<run, expiry, now>> /\ pass' = PassIdle
  BY DEF FailPass, storeVars
<1>6. Tick => UNCHANGED <<run, expiry, pass>>
  BY DEF Tick, storeVars
<1>7. TriggerStep => /\ UNCHANGED <<expiry, pass, now>>
                     /\ HandleTrigger \/ UNCHANGED run
  BY DEF TriggerStep, HandleTrigger, SubmitRoot, Ack, storeVars
<1>8. PassStep => UNCHANGED now /\ (RemoveRun \/ UNCHANGED run)
  BY DEF PassStep, ExpireRun, ExpireRequest, DropEntry, RemoveRun,
         RemoveRequest, storeVars
<1> QED
  BY <1>1, <1>2, <1>3, <1>4, <1>5, <1>6, <1>7, <1>8

-----------------------------------------------------------------------------
(* The steps of the run record *)

LEMMA StartStep ==
  ASSUME LifeInv, NEW p, StartRun(p), UNCHANGED now
  PROVE  [Lifecycle!Next]_(Lifecycle!vars)
<1>1. CASE run.state = "absent"
  <2>1. run' = NewRun /\ run.settled = 0
    BY <1>1 DEF StartRun, LifeInv, OnlyFinalSettled
  <2>2. Lifecycle!Start
    BY <1>1, <2>1 DEF Lifecycle!Start, NewRun
  <2> QED
    BY <2>2 DEF Lifecycle!Next
<1>2. CASE run.state # "absent"
  BY <1>2 DEF StartRun, Lifecycle!vars
<1> QED
  BY <1>1, <1>2

LEMMA CommitStep ==
  ASSUME LifeInv, NEW old \in RunRecord, NEW settled \in RunRecord,
         CommitSettled(old, settled), old.state = "active",
         settled.state \in {"complete", "failed", "cancelled"},
         settled.requested = old.requested, UNCHANGED now
  PROVE  [Lifecycle!Next]_(Lifecycle!vars)
<1>1. CASE run = old
  <2>1. /\ run'.state = settled.state /\ run'.settled = now
        /\ run'.requested = settled.requested
    BY <1>1 DEF CommitSettled, RunRecord
  <2>2. Lifecycle!Settle
    BY <1>1, <2>1 DEF Lifecycle!Settle, Lifecycle!Final
  <2> QED
    BY <2>2 DEF Lifecycle!Next
<1>2. CASE run # old
  BY <1>2 DEF CommitSettled, Lifecycle!vars
<1> QED
  BY <1>1, <1>2

LEMMA LocalRun ==
  ASSUME TypeInv, NEW p \in Procs
  PROVE  /\ proc[p] \in Local /\ proc[p].run \in RunRecord
         /\ proc[p].scope \subseteq Nodes
BY DEF TypeInv, TypeOK, Local

LEMMA SettleStep ==
  ASSUME LifeInv, NEW p \in Procs, Settle(p)
  PROVE  [Lifecycle!Next]_(Lifecycle!vars)
<1> DEFINE old == proc[p].run
           state == SettledState(NodeStates(Graph, Current(proc[p])))
           retained == RetainExpected(Graph, old, proc[p].recs)
           settled == [old EXCEPT !.state = state, !.expected = retained]
<1>1. proc[p] \in Local /\ old \in RunRecord
  BY LocalRun DEF LifeInv
<1>2. CommitSettled(old, settled) /\ UNCHANGED now /\ proc[p].at = "check"
  BY DEF Settle
<1>3. old.state = "active"
  BY <1>2 DEF LifeInv, KnowsState
<1>4. state \in {"complete", "failed"}
  <2>1. SettledState(NodeStates(Graph, Current(proc[p]))) # "none"
    BY <1>2 DEF LifeInv, TypeInv, SettlesSettled
  <2> QED
    BY <2>1, SettledStateValues
<1>5. retained \in [Nodes -> Nat]
  BY <1>1, RetainType DEF Local
<1> HIDE DEF state, retained
<1>6. /\ settled \in RunRecord /\ settled.state = state
      /\ settled.requested = old.requested
  BY <1>1, <1>4, <1>5 DEF RunRecord, RunStates
<1> HIDE DEF settled, old
<1> QED
  BY <1>1, <1>2, <1>3, <1>4, <1>6, CommitStep

LEMMA SettleCancelledStep ==
  ASSUME LifeInv, SettleCancelled
  PROVE  [Lifecycle!Next]_(Lifecycle!vars)
<1> DEFINE old == proc[Requester].run
           settled == [old EXCEPT !.state = "cancelled"]
<1>1. old \in RunRecord
  BY LocalRun, ProcsFacts DEF LifeInv
<1>2. /\ CommitSettled(old, settled) /\ UNCHANGED now
      /\ proc[Requester].at = "settleCancelled"
  BY DEF SettleCancelled
<1>3. old.state = "active"
  BY <1>2, ProcsFacts DEF LifeInv, KnowsState
<1>4. /\ settled \in RunRecord /\ settled.state = "cancelled"
      /\ settled.requested = old.requested
  BY <1>1 DEF RunRecord, RunStates
<1> HIDE DEF settled, old
<1> QED
  BY <1>1, <1>2, <1>3, <1>4, CommitStep

LEMMA SwapStep ==
  ASSUME LifeInv, SwapRun
  PROVE  [Lifecycle!Next]_(Lifecycle!vars)
<1> DEFINE local == proc[Requester]
<1>1. local \in Local /\ local.run \in RunRecord /\ local.scope \subseteq Nodes
  BY LocalRun, ProcsFacts DEF LifeInv
<1>2. local.run.state # "absent"
  BY ProcsFacts DEF SwapRun, LifeInv, KnowsState
<1>3. PICK n \in local.scope :
        \/ run = local.run /\ run' = Reactivated(Graph, local.run, local.recs, n)
        \/ UNCHANGED run
  BY DEF SwapRun
<1>4. UNCHANGED now
  BY DEF SwapRun
<1>5. CASE UNCHANGED run
  BY <1>4, <1>5 DEF Lifecycle!vars
<1>6. CASE run = local.run /\ run' = Reactivated(Graph, local.run, local.recs, n)
  <2>1. /\ run'.state = "active" /\ run'.settled = 0
        /\ run'.requested = run.requested
    BY <1>1, <1>6 DEF Reactivated, RunRecord
  <2>2. run.state \in {"active"} \cup Lifecycle!Final
    BY <1>1, <1>2, <1>6 DEF RunRecord, RunStates, Lifecycle!Final
  <2>3. CASE run.state = "active"
    BY <1>4, <2>1, <2>3 DEF LifeInv, OnlyFinalSettled, Lifecycle!vars
  <2>4. CASE run.state \in Lifecycle!Final
    <3>1. Lifecycle!Reactivate
      BY <1>4, <2>1, <2>4 DEF Lifecycle!Reactivate
    <3> QED
      BY <3>1 DEF Lifecycle!Next
  <2> QED
    BY <2>2, <2>3, <2>4
<1> QED
  BY <1>3, <1>5, <1>6

LEMMA RemoveStep ==
  ASSUME LifeInv, RemoveRun
  PROVE  [Lifecycle!Next]_(Lifecycle!vars)
<1>1. UNCHANGED now /\ pass.at = "removeRun"
  BY DEF RemoveRun
<1>2. CASE run = pass.run
  <2>1. run' = NoRun
    BY <1>2 DEF RemoveRun
  <2>2. run.settled # 0 /\ run.settled + Retention <= now
    BY <1>1, <1>2 DEF LifeInv, KnowsExpired, IsDue
  <2>3. run.state \in Lifecycle!Final
    BY <2>2 DEF LifeInv, OnlyFinalSettled, TypeInv, TypeOK, RunRecord,
                RunStates, Lifecycle!Final
  <2>4. Lifecycle!Expire
    BY <1>1, <2>1, <2>2, <2>3 DEF Lifecycle!Expire, NoRun
  <2> QED
    BY <2>4 DEF Lifecycle!Next
<1>3. CASE run # pass.run
  BY <1>1, <1>3 DEF RemoveRun, storeVars, Lifecycle!vars
<1> QED
  BY <1>2, <1>3

LEMMA LifeStep ==
  ASSUME LifeInv, [Next]_vars
  PROVE  [Lifecycle!Next]_(Lifecycle!vars)
<1>1. CASE UNCHANGED <<run, now>>
  BY <1>1 DEF Lifecycle!vars
<1>2. CASE HandleStart \/ HandleTrigger
  BY <1>2, StartStep DEF HandleStart, HandleTrigger
<1>3. CASE \E p \in Procs : Settle(p)
  BY <1>3, SettleStep
<1>4. CASE SettleCancelled
  BY <1>4, SettleCancelledStep
<1>5. CASE SwapRun
  BY <1>5, SwapStep
<1>6. CASE RemoveRun
  BY <1>6, RemoveStep
<1>7. CASE Tick
  <2>1. Lifecycle!Tick
    BY <1>7 DEF Tick, storeVars, Lifecycle!Tick
  <2> QED
    BY <2>1 DEF Lifecycle!Next
<1>8. CASE \E p \in Advancers : AdvancerStep(p)
  BY <1>8, <1>1, <1>3, AdvancerFrame, ProcsFacts
<1>9. CASE RequesterStep
  BY <1>9, <1>1, <1>2, <1>4, <1>5, RequesterFrame
<1>10. CASE TriggerStep
  BY <1>10, <1>1, <1>2, OtherFrame
<1>11. CASE PassStep
  BY <1>11, <1>1, <1>6, OtherFrame
<1>12. CASE UNCHANGED vars
  BY <1>12, <1>1 DEF vars, storeVars
<1> QED
  BY <1>1, <1>7, <1>8, <1>9, <1>10, <1>11, <1>12, OtherFrame DEF Next

-----------------------------------------------------------------------------
(* The invariant *)

LEMMA OnlyFinalStep ==
  ASSUME LifeInv, [Lifecycle!Next]_(Lifecycle!vars)
  PROVE  OnlyFinalSettled'
BY DEF LifeInv, OnlyFinalSettled, Lifecycle!Next, Lifecycle!Start,
       Lifecycle!Settle, Lifecycle!Reactivate, Lifecycle!Expire,
       Lifecycle!Tick, Lifecycle!vars, Lifecycle!Final

\* Every entry that a step adds is of the run, at the present time, or of a
\* request.
LEMMA NewEntries ==
  ASSUME TypeInv, [Next]_vars
  PROVE  \A e \in expiry' : \/ e \in expiry
                            \/ e.request = 0 => e = RunEntry(now)
<1> DEFINE Dated == \A e \in expiry' : \/ e \in expiry
                                       \/ e.request = 0 => e = RunEntry(now)
<1>1. CASE UNCHANGED expiry
  BY <1>1
<1>2. CASE Resubmit \/ WriteAnswer
  <2>1. UNCHANGED expiry \/ \E t : expiry' = expiry \cup {RequestEntry(t, Job)}
    BY <1>2 DEF Resubmit, WriteAnswer, Record
  <2>2. Job # 0
    BY DEF Job, TypeInv, TypeOK
  <2> QED
    BY <2>1, <2>2 DEF RequestEntry
<1>3. CASE (\E p \in Procs : Settle(p)) \/ SettleCancelled
  BY <1>3 DEF Settle, SettleCancelled, CommitSettled
<1>4. CASE PassStep
  BY <1>4 DEF PassStep, ExpireRun, ExpireRequest, DropEntry, RemoveRun,
              RemoveRequest, storeVars
<1>5. CASE \E p \in Advancers : AdvancerStep(p)
  BY <1>5, <1>1, <1>3, AdvancerFrame, ProcsFacts
<1>6. CASE RequesterStep
  BY <1>6, <1>1, <1>2, <1>3, RequesterFrame
<1>7. CASE UNCHANGED vars
  BY <1>7, <1>1 DEF vars, storeVars
<1> HIDE DEF Dated
<1> QED
  BY <1>1, <1>4, <1>5, <1>6, <1>7, OtherFrame DEF Next

LEMMA EntriesStep ==
  ASSUME LifeInv, [Next]_vars
  PROVE  EntriesDated'
<1>1. RunEntry(now).time # 0
  BY DEF RunEntry, LifeInv, TypeInv, TypeOK
<1> QED
  BY <1>1, NewEntries DEF LifeInv, EntriesDated

\* A step of p to l keeps what the processes know.
LEMMA KnowsStep ==
  ASSUME LifeInv, NEW p \in Procs, NEW l, Step(p, l), KnowsState(l)
  PROVE  \A q \in Procs : KnowsState(proc'[q])
BY DEF Step, LifeInv, TypeInv, TypeOK

LEMMA KnowsAdvance ==
  ASSUME LifeInv, NEW p \in Procs,
         AdvancerStep(p) \/ SubmitRoot(p) \/ Fail(p)
  PROVE  \A q \in Procs : KnowsState(proc'[q])
<1> DEFINE local == proc[p]
<1>1. local \in Local /\ KnowsState(local)
  BY LocalRun DEF LifeInv
<1>2. CASE ReadRecord(p) \/ CancelUnrecorded(p)
  <2>1. PICK n : \/ Step(p, [local EXCEPT !.recs[n] = recs[n], !.todo = @ \ {n}])
                 \/ Step(p, [local EXCEPT !.todo = @ \ {n}])
    BY <1>2 DEF ReadRecord, CancelUnrecorded
  <2>2. /\ KnowsState([local EXCEPT !.recs[n] = recs[n], !.todo = @ \ {n}])
        /\ KnowsState([local EXCEPT !.todo = @ \ {n}])
    BY <1>1 DEF Local, KnowsState
  <2> QED
    BY <2>1, <2>2, KnowsStep
<1>3. CASE PlanAdvance(p)
  <2>0. PICK at \in {"submit", "ack", "check"} : \E todo :
          \/ Step(p, [local EXCEPT !.at = at, !.todo = todo])
          \/ Step(p, [local EXCEPT !.at = at])
    BY <1>3 DEF PlanAdvance
  <2>1. local.run.state = "active"
    BY <1>1, <1>3 DEF PlanAdvance, HasRead, KnowsState
  <2>2. PICK todo :
          \/ Step(p, [local EXCEPT !.at = at, !.todo = todo])
          \/ Step(p, [local EXCEPT !.at = at])
    BY <2>0
  <2>3. /\ KnowsState([local EXCEPT !.at = at, !.todo = todo])
        /\ KnowsState([local EXCEPT !.at = at])
    BY <1>1, <2>1 DEF Local, KnowsState
  <2> QED
    BY <2>2, <2>3, KnowsStep
<1>4. CASE CheckActive(p)
  <2>0. PICK at \in {"check", "ack"} : \E todo :
          Step(p, [local EXCEPT !.at = at, !.todo = todo])
    BY <1>4 DEF CheckActive
  <2>1. PICK todo :
          Step(p, [local EXCEPT !.at = at, !.todo = todo])
    BY <2>0
  <2>2. KnowsState([local EXCEPT !.at = at, !.todo = todo])
    BY <1>1, <1>4 DEF CheckActive, Local, KnowsState
  <2> QED
    BY <2>1, <2>2, KnowsStep
<1>5. CASE SubmitReady(p) \/ PlanCancel(p) \/ SubmitRoot(p)
  <2>0. PICK at \in {"submit", "ack", "cancel", "roots", "answer"} : \E todo :
          Step(p, [local EXCEPT !.at = at, !.todo = todo])
    BY <1>5 DEF SubmitReady, PlanCancel, SubmitRoot
  <2>1. PICK todo :
          Step(p, [local EXCEPT !.at = at, !.todo = todo])
    BY <2>0
  <2>2. KnowsState([local EXCEPT !.at = at, !.todo = todo])
    BY <1>1 DEF Local, KnowsState
  <2> QED
    BY <2>1, <2>2, KnowsStep
<1>6. CASE Settle(p) \/ EndCancel(p)
  <2>0. PICK at \in {"ack", "answer"} : \E o :
          \/ Step(p, [local EXCEPT !.at = at])
          \/ Step(p, [local EXCEPT !.at = at, !.outcome = o])
    BY <1>6 DEF Settle, EndCancel
  <2>1. PICK o :
          \/ Step(p, [local EXCEPT !.at = at])
          \/ Step(p, [local EXCEPT !.at = at, !.outcome = o])
    BY <2>0
  <2>2. /\ KnowsState([local EXCEPT !.at = at])
        /\ KnowsState([local EXCEPT !.at = at, !.outcome = o])
    BY <1>1 DEF Local, KnowsState
  <2> QED
    BY <2>1, <2>2, KnowsStep
<1>7. CASE Ack(p) \/ Fail(p)
  <2>1. Step(p, Idle) /\ KnowsState(Idle)
    BY <1>7 DEF Ack, Fail, Idle, KnowsState
  <2> QED
    BY <2>1, KnowsStep
<1> QED
  BY <1>2, <1>3, <1>4, <1>5, <1>6, <1>7 DEF AdvancerStep

LEMMA KnowsTake ==
  ASSUME LifeInv,
         (\E w \in EventWorkers : HandleEvent(w)) \/ Reconcile
  PROVE  \A q \in Procs : KnowsState(proc'[q])
<1>1. CASE \E w \in EventWorkers : HandleEvent(w)
  <2>1. PICK w \in EventWorkers : HandleEvent(w)
    BY <1>1
  <2>2. PICK e \in events :
          \/ /\ run.state = "active"
             /\ Step(w, Reading("advance", {e}, Downstreams(Graph, e.node)))
          \/ Step(w, [Idle EXCEPT !.at = "ack", !.job = {e}])
    BY <2>1 DEF HandleEvent
  <2>3. KnowsState([Idle EXCEPT !.at = "ack", !.job = {e}])
    BY DEF Idle, KnowsState
  <2>4. run.state = "active" =>
          KnowsState(Reading("advance", {e}, Downstreams(Graph, e.node)))
    BY DEF Reading, Idle, KnowsState
  <2> QED
    BY <2>2, <2>3, <2>4, ProcsFacts, KnowsStep
<1>2. CASE Reconcile
  <2>1. \/ /\ run.state = "active"
           /\ Step(Reconciler, Reading("advance", {}, Nodes))
        \/ Step(Reconciler, Reading("cancel", {}, {}))
    BY <1>2 DEF Reconcile
  <2>2. /\ run.state = "active" => KnowsState(Reading("advance", {}, Nodes))
        /\ KnowsState(Reading("cancel", {}, {}))
    BY DEF Reading, Idle, KnowsState
  <2> QED
    BY <2>1, <2>2, ProcsFacts, KnowsStep
<1> QED
  BY <1>1, <1>2

LEMMA KnowsRequest ==
  ASSUME LifeInv,
         \/ SkipAnswered \/ HandleStart \/ HandleTrigger \/ HandleRerun
         \/ PlanRerun \/ SwapRun \/ Resubmit \/ HandleCancel
         \/ SettleCancelled \/ WriteAnswer
  PROVE  \A q \in Procs : KnowsState(proc'[q])
<1> DEFINE local == proc[Requester]
<1>1. local \in Local /\ KnowsState(local)
  BY LocalRun, ProcsFacts DEF LifeInv
<1>2. CASE SkipAnswered
  <2>1. Step(Requester, [Idle EXCEPT !.at = "ack"])
    BY <1>2 DEF SkipAnswered
  <2>2. KnowsState([Idle EXCEPT !.at = "ack"])
    BY DEF Idle, KnowsState
  <2> QED
    BY <2>1, <2>2, ProcsFacts, KnowsStep
<1>3. CASE HandleStart \/ HandleTrigger
  <2>1. PICK p \in {Requester, Trigger}, at \in {"answer", "ack"} :
          \/ Step(p, [Idle EXCEPT !.at = "roots", !.todo = Roots(Graph),
                                  !.outcome = "started", !.time = now])
          \/ Step(p, [Answering("unchanged") EXCEPT !.at = at])
    BY <1>3 DEF HandleStart, HandleTrigger, StartRun
  <2>2. /\ KnowsState([Idle EXCEPT !.at = "roots", !.todo = Roots(Graph),
                                   !.outcome = "started", !.time = now])
        /\ KnowsState([Answering("unchanged") EXCEPT !.at = at])
    BY DEF Answering, Idle, KnowsState
  <2> QED
    BY <2>1, <2>2, ProcsFacts, KnowsStep
<1>4. CASE HandleRerun
  <2> DEFINE reads == [Reading("rerun", {}, {requests[Job].node}) EXCEPT
                         !.time = now]
  <2>1. \/ run.state # "absent" /\ Step(Requester, reads)
        \/ Step(Requester, Answering("refused"))
    BY <1>4 DEF HandleRerun
  <2>2. /\ run.state # "absent" => KnowsState(reads)
        /\ KnowsState(Answering("refused"))
    BY DEF Reading, Answering, Idle, KnowsState
  <2> HIDE DEF reads
  <2> QED
    BY <2>1, <2>2, ProcsFacts, KnowsStep
<1>5. CASE PlanRerun
  <2>0. PICK at \in {"resubmit", "swap", "answer"} : \E o :
          \/ Step(Requester, [local EXCEPT !.at = at])
          \/ Step(Requester, [local EXCEPT !.at = at, !.outcome = o])
    BY <1>5 DEF PlanRerun
  <2>1. local.run.state # "absent"
    BY <1>1, <1>5 DEF PlanRerun, HasRead, KnowsState
  <2>2. PICK o :
          \/ Step(Requester, [local EXCEPT !.at = at])
          \/ Step(Requester, [local EXCEPT !.at = at, !.outcome = o])
    BY <2>0
  <2>3. /\ KnowsState([local EXCEPT !.at = at])
        /\ KnowsState([local EXCEPT !.at = at, !.outcome = o])
    BY <1>1, <2>1 DEF Local, KnowsState
  <2> QED
    BY <2>2, <2>3, ProcsFacts, KnowsStep
<1>6. CASE SwapRun \/ Resubmit \/ WriteAnswer
  <2>0. PICK at \in {"resubmit", "ack", "answer"} : \E o :
          \/ Step(Requester, [local EXCEPT !.at = at])
          \/ Step(Requester, [local EXCEPT !.at = at, !.outcome = o])
          \/ Step(Requester, Idle)
    BY <1>6 DEF SwapRun, Resubmit, WriteAnswer
  <2>1. PICK o :
          \/ Step(Requester, [local EXCEPT !.at = at])
          \/ Step(Requester, [local EXCEPT !.at = at, !.outcome = o])
          \/ Step(Requester, Idle)
    BY <2>0
  <2>2. /\ KnowsState([local EXCEPT !.at = at])
        /\ KnowsState([local EXCEPT !.at = at, !.outcome = o])
        /\ KnowsState(Idle)
    BY <1>1 DEF Local, KnowsState, Idle
  <2> QED
    BY <2>1, <2>2, ProcsFacts, KnowsStep
<1>7. CASE HandleCancel
  <2> DEFINE writes == [Answering("none") EXCEPT !.at = "settleCancelled",
                                                 !.run = run]
  <2>1. \/ run.state = "active" /\ Step(Requester, writes)
        \/ Step(Requester, Answering("refused"))
    BY <1>7 DEF HandleCancel
  <2>2. /\ run.state = "active" => KnowsState(writes)
        /\ KnowsState(Answering("refused"))
    BY DEF Answering, Idle, KnowsState
  <2> HIDE DEF writes
  <2> QED
    BY <2>1, <2>2, ProcsFacts, KnowsStep
<1>8. CASE SettleCancelled
  <2> DEFINE cancels == [local EXCEPT !.at = "records", !.then = "cancel",
                                      !.todo = Nodes]
             refuses == [local EXCEPT !.at = "answer", !.outcome = "refused"]
  <2>1. Step(Requester, cancels) \/ Step(Requester, refuses)
    BY <1>8 DEF SettleCancelled
  <2>2. KnowsState(cancels) /\ KnowsState(refuses)
    BY <1>1 DEF Local, KnowsState
  <2> HIDE DEF cancels, refuses
  <2> QED
    BY <2>1, <2>2, ProcsFacts, KnowsStep
<1> QED
  BY <1>2, <1>3, <1>4, <1>5, <1>6, <1>7, <1>8

LEMMA KnowsNext ==
  ASSUME LifeInv, [Next]_vars
  PROVE  \A q \in Procs : KnowsState(proc'[q])
<1>1. CASE UNCHANGED proc
  BY <1>1 DEF LifeInv
<1>2. CASE Send \/ Terminates \/ PassStep \/ FailPass \/ Tick \/ UNCHANGED vars
  <2>1. UNCHANGED proc
    BY <1>2 DEF Send, Terminates, Terminate, PassStep, ExpireRun,
                ExpireRequest, DropEntry, RemoveRun, RemoveRequest, FailPass,
                Tick, vars
  <2> QED
    BY <1>1, <2>1
<1>3. CASE \/ \E p \in Advancers : AdvancerStep(p)
           \/ \E p \in Procs : Fail(p)
  BY <1>3, KnowsAdvance, ProcsFacts
<1>4. CASE RequesterStep
  <2>1. \/ SkipAnswered \/ HandleStart \/ HandleRerun \/ PlanRerun \/ SwapRun
        \/ Resubmit \/ HandleCancel \/ SettleCancelled \/ WriteAnswer
        \/ AdvancerStep(Requester) \/ SubmitRoot(Requester)
    BY <1>4 DEF RequesterStep, AdvancerStep
  <2> QED
    BY <2>1, KnowsRequest, KnowsAdvance, ProcsFacts
<1>5. CASE TriggerStep
  <2>1. HandleTrigger \/ SubmitRoot(Trigger) \/ AdvancerStep(Trigger)
    BY <1>5 DEF TriggerStep, AdvancerStep
  <2> QED
    BY <2>1, KnowsRequest, KnowsAdvance, ProcsFacts
<1> QED
  BY <1>2, <1>3, <1>4, <1>5, KnowsTake DEF Next

\* Time does not go back.
LEMMA NowGrows ==
  ASSUME TypeInv, [Next]_vars
  PROVE  now' \in Nat /\ now' >= now
<1>1. CASE UNCHANGED now
  BY <1>1 DEF TypeInv, TypeOK
<1>2. CASE Tick
  BY <1>2 DEF Tick, TypeInv, TypeOK
<1>3. CASE UNCHANGED vars
  BY <1>3, <1>1 DEF vars
<1> QED
  BY <1>1, <1>2, <1>3, AdvancerFrame, RequesterFrame, OtherFrame DEF Next

\* What a step does to the retention pass.
LEMMA PassMoves ==
  ASSUME [Next]_vars
  PROVE  UNCHANGED pass \/ pass' = PassIdle \/ ExpireRun \/ ExpireRequest
<1>1. CASE UNCHANGED vars
  BY <1>1 DEF vars
<1>2. CASE PassStep
  BY <1>2 DEF PassStep, DropEntry, RemoveRun, RemoveRequest
<1> QED
  BY <1>1, <1>2, AdvancerFrame, RequesterFrame, OtherFrame DEF Next

LEMMA KnowsExpiredNext ==
  ASSUME LifeInv, [Next]_vars
  PROVE  KnowsExpired'
<1>1. now' \in Nat /\ now' >= now /\ now \in Nat /\ Retention \in Nat
  BY NowGrows, RetentionAssumption DEF LifeInv, TypeInv, TypeOK
<1>2. CASE UNCHANGED pass
  <2> SUFFICES ASSUME pass.at = "removeRun" PROVE KnowsExpired'
    BY <1>2 DEF KnowsExpired
  <2>1. pass.entry.time \in Nat
    BY DEF LifeInv, TypeInv, TypeOK, Pass, Entry
  <2> QED
    BY <1>1, <1>2, <2>1 DEF LifeInv, KnowsExpired, IsDue
<1>3. CASE pass' = PassIdle
  BY <1>3 DEF PassIdle, KnowsExpired
<1>4. CASE ExpireRun
  <2>1. PICK e \in expiry :
          /\ IsDue(e) /\ e.request = 0
          /\ \/ /\ run.settled = e.time
                /\ pass' = [PassIdle EXCEPT !.at = "removeRun", !.entry = e,
                                            !.run = run]
             \/ pass' = Stale(e)
    BY <1>4 DEF ExpireRun
  <2>2. e.time # 0 /\ UNCHANGED now
    BY <1>4, <2>1 DEF LifeInv, EntriesDated, ExpireRun
  <2> QED
    BY <2>1, <2>2 DEF KnowsExpired, IsDue, Stale, PassIdle
<1>5. CASE ExpireRequest
  BY <1>5 DEF ExpireRequest, Stale, PassIdle, KnowsExpired
<1> QED
  BY <1>2, <1>3, <1>4, <1>5, PassMoves

LEMMA InitLife == Init => LifeInv
<1> SUFFICES ASSUME Init PROVE LifeInv
  OBVIOUS
<1>1. OnlyFinalSettled /\ EntriesDated /\ KnowsExpired
  BY DEF Init, NoRun, PassIdle, OnlyFinalSettled, EntriesDated, KnowsExpired
<1>2. \A p \in Procs : KnowsState(proc[p])
  BY DEF Init, Idle, KnowsState
<1> QED
  BY <1>1, <1>2, InitTypes DEF LifeInv

LEMMA NextLife ==
  ASSUME LifeInv, [Next]_vars
  PROVE  LifeInv'
<1>1. TypeInv'
  BY NextTypes DEF LifeInv
<1>2. OnlyFinalSettled'
  BY LifeStep, OnlyFinalStep
<1> QED
  BY <1>1, <1>2, EntriesStep, KnowsNext, KnowsExpiredNext DEF LifeInv

\* The run record behaves as RunLifecycle says, whatever the processes read
\* before their writes: it starts once, settles from the active state, returns
\* to it by a rerun only from a final state, and is removed only a retention
\* window after its settle (scheduler.rs, start_run, rerun_with,
\* commit_settled; retention.rs, expire_run).
THEOREM LifecycleRefined == Spec => ImplementsLifecycle
<1>1. Init => Lifecycle!Init
  BY DEF Init, NoRun, Lifecycle!Init
<1>2. LifeInv /\ [Next]_vars => [Lifecycle!Next]_(Lifecycle!vars)
  BY LifeStep
<1>3. LifeInv /\ [Next]_vars => LifeInv'
  BY NextLife
<1> QED
  BY InitLife, <1>1, <1>2, <1>3, PTL DEF Spec, ImplementsLifecycle,
                                         Lifecycle!Spec

-----------------------------------------------------------------------------
(* The expiry entry of a settled run *)

\* The entry that the pass drops is not that of the settle of the run, and can
\* not become it; an entry that it removes with a request is not of the run.
DropsStale ==
  /\ (pass.at = "drop" /\ pass.entry.request = 0) =>
       /\ pass.entry.time < now
       /\ run.settled = 0 \/ run.settled # pass.entry.time
  /\ pass.at = "removeRequest" => pass.entry.request # 0

EntryInv == TypeInv /\ SettledHasEntry /\ DropsStale

LEMMA CommitDates ==
  ASSUME NEW old \in RunRecord, NEW settled,
         \/ \E s, x : settled = [old EXCEPT !.state = s, !.expected = x]
         \/ \E s : settled = [old EXCEPT !.state = s],
         CommitSettled(old, settled)
  PROVE  UNCHANGED run \/ (run'.settled = now /\ RunEntry(now) \in expiry')
<1>1. CASE run = old
  <2>1. run' = [settled EXCEPT !.settled = now] /\ RunEntry(now) \in expiry'
    BY <1>1 DEF CommitSettled
  <2>2. "settled" \in DOMAIN settled
    BY DEF RunRecord
  <2> QED
    BY <2>1, <2>2
<1>2. CASE run # old
  BY <1>2 DEF CommitSettled
<1> QED
  BY <1>1, <1>2

\* The settle time of the run changes to 0, or to the present time with the
\* entry of that time.
LEMMA SettleMoves ==
  ASSUME TypeInv, [Next]_vars
  PROVE  \/ run'.settled = 0
         \/ run'.settled = run.settled
         \/ run'.settled = now /\ RunEntry(now) \in expiry'
<1>1. CASE UNCHANGED run
  BY <1>1
<1>2. CASE HandleStart \/ HandleTrigger
  BY <1>2 DEF HandleStart, HandleTrigger, StartRun, NewRun
<1>3. CASE SwapRun
  <2>1. proc[Requester].run \in RunRecord
    BY LocalRun, ProcsFacts
  <2>2. \/ UNCHANGED run
        \/ \E n \in proc[Requester].scope :
             run' = Reactivated(Graph, proc[Requester].run,
                                proc[Requester].recs, n)
    BY <1>3 DEF SwapRun
  <2> QED
    BY <2>1, <2>2 DEF Reactivated, RunRecord
<1>4. CASE \E p \in Procs : Settle(p)
  <2>1. PICK p \in Procs : Settle(p)
    BY <1>4
  <2>2. PICK s, x :
          CommitSettled(proc[p].run,
                        [proc[p].run EXCEPT !.state = s, !.expected = x])
    BY <2>1 DEF Settle
  <2> QED
    BY <2>2, LocalRun, CommitDates
<1>5. CASE SettleCancelled
  <2>1. CommitSettled(proc[Requester].run,
                      [proc[Requester].run EXCEPT !.state = "cancelled"])
    BY <1>5 DEF SettleCancelled
  <2> QED
    BY <2>1, LocalRun, ProcsFacts, CommitDates
<1>6. CASE RemoveRun
  BY <1>6 DEF RemoveRun, NoRun, storeVars
<1>7. CASE \E p \in Advancers : AdvancerStep(p)
  BY <1>7, <1>1, <1>4, AdvancerFrame, ProcsFacts
<1>8. CASE RequesterStep
  BY <1>8, <1>1, <1>2, <1>3, <1>5, RequesterFrame
<1>9. CASE UNCHANGED vars
  BY <1>9, <1>1 DEF vars, storeVars
<1> QED
  BY <1>1, <1>2, <1>6, <1>7, <1>8, <1>9, OtherFrame DEF Next

LEMMA LostEntries ==
  ASSUME [Next]_vars
  PROVE  expiry \subseteq expiry' \/ DropEntry \/ RemoveRun \/ RemoveRequest
<1>1. CASE UNCHANGED expiry
  BY <1>1
<1>2. CASE Resubmit \/ WriteAnswer \/ SettleCancelled \/ \E p : Settle(p)
  BY <1>2 DEF Resubmit, WriteAnswer, Record, SettleCancelled, Settle,
              CommitSettled
<1>3. CASE PassStep
  BY <1>3 DEF PassStep, ExpireRun, ExpireRequest, storeVars
<1>4. CASE UNCHANGED vars
  BY <1>4 DEF vars, storeVars
<1> QED
  BY <1>1, <1>2, <1>3, <1>4, AdvancerFrame, RequesterFrame, OtherFrame DEF Next

LEMMA HasEntryNext ==
  ASSUME EntryInv, [Next]_vars
  PROVE  SettledHasEntry'
<1> SUFFICES ASSUME run'.settled # 0
             PROVE  RunEntry(run'.settled) \in expiry'
  BY DEF SettledHasEntry, RunEntry
<1>1. CASE run'.settled = now /\ RunEntry(now) \in expiry'
  BY <1>1
<1>2. CASE run'.settled = run.settled
  <2>1. RunEntry(run.settled) \in expiry
    BY <1>2 DEF EntryInv, SettledHasEntry
  <2>2. CASE expiry \subseteq expiry'
    BY <1>2, <2>1, <2>2
  <2>3. CASE DropEntry \/ RemoveRequest
    <3>1. /\ RunEntry(run.settled).time = run.settled
          /\ RunEntry(run.settled).request = 0
      BY DEF RunEntry
    <3>2. RunEntry(run.settled) # pass.entry
      BY <1>2, <2>3, <3>1 DEF EntryInv, DropsStale, DropEntry, RemoveRequest
    <3> QED
      BY <1>2, <2>1, <2>3, <3>2 DEF DropEntry, RemoveRequest
  <2>4. CASE RemoveRun
    BY <1>2, <2>1, <2>4 DEF RemoveRun, NoRun, storeVars
  <2> QED
    BY <2>2, <2>3, <2>4, LostEntries
<1> QED
  BY <1>1, <1>2, SettleMoves DEF EntryInv

LEMMA DropsNext ==
  ASSUME Retention # 0, EntryInv, [Next]_vars
  PROVE  DropsStale'
<1>1. now' \in Nat /\ now' >= now /\ now \in Nat /\ Retention \in Nat
  BY NowGrows, RetentionAssumption DEF EntryInv, TypeInv, TypeOK
<1>2. CASE UNCHANGED pass
  <2>1. pass.entry.time \in Nat
    BY DEF EntryInv, TypeInv, TypeOK, Pass, Entry
  <2> QED
    BY <1>1, <1>2, <2>1, SettleMoves DEF EntryInv, DropsStale
<1>3. CASE pass' = PassIdle
  BY <1>3 DEF PassIdle, DropsStale
<1>4. CASE ExpireRun
  <2>1. PICK e \in expiry :
          /\ IsDue(e)
          /\ \/ pass' = [PassIdle EXCEPT !.at = "removeRun", !.entry = e,
                                         !.run = run]
             \/ run.settled # e.time /\ pass' = Stale(e)
    BY <1>4 DEF ExpireRun
  <2>2. e.time \in Nat /\ e.time + Retention <= now
    BY <2>1 DEF EntryInv, TypeInv, TypeOK, Entry, IsDue
  <2>3. e.time < now /\ UNCHANGED <<run, now>>
    BY <1>1, <1>4, <2>2 DEF ExpireRun, storeVars
  <2> QED
    BY <2>1, <2>3 DEF DropsStale, Stale, PassIdle
<1>5. CASE ExpireRequest
  <2>1. PICK e \in expiry :
          /\ e.request \in DOMAIN answers
          /\ \/ pass' = [PassIdle EXCEPT !.at = "removeRequest", !.entry = e,
                                         !.answer = answers[e.request]]
             \/ pass' = Stale(e)
    BY <1>5 DEF ExpireRequest
  <2>2. e.request # 0
    BY <2>1 DEF EntryInv, TypeInv, TypeOK
  <2> QED
    BY <2>1, <2>2 DEF DropsStale, Stale, PassIdle
<1> QED
  BY <1>2, <1>3, <1>4, <1>5, PassMoves

\* A settled run has its expiry entry, so the retention pass reaches it, though
\* the pass drops the entries of earlier settles without a compare: with a
\* retention window of zero a settle could write the entry again that the pass
\* is about to drop (scheduler.rs, commit_settled; retention.rs, expire_run).
THEOREM SettledKeepsEntry ==
  ASSUME Retention # 0
  PROVE  Spec => []SettledHasEntry
<1>1. Init => EntryInv
  BY InitTypes DEF Init, NoRun, PassIdle, EntryInv, SettledHasEntry, DropsStale
<1>2. EntryInv /\ [Next]_vars => EntryInv'
  BY NextTypes, HasEntryNext, DropsNext DEF EntryInv
<1>3. EntryInv => SettledHasEntry
  BY DEF EntryInv
<1> QED
  BY <1>1, <1>2, <1>3, PTL DEF Spec

-----------------------------------------------------------------------------
(* The expiry entries of the request records.  They are those of the request *)
(* records, no more and no less, so the retention pass never drops one as    *)
(* stale: the request worker records an outcome only for a request without   *)
(* one.                                                                      *)

\* The entry of a request is dated as its record.
EntriesMatch ==
  \A e \in expiry : e.request # 0 =>
    /\ e.request \in DOMAIN answers
    /\ answers[e.request].outcome # "none"
    /\ answers[e.request].time = e.time

\* The request worker handles a request without a record, and has an outcome
\* when it is about to record one.
HandlesUnanswered ==
  proc[Requester].at \notin {"idle", "ack"} => answers[Job].outcome = "none"
HasOutcome ==
  proc[Requester].at \in {"answer", "roots"} => proc[Requester].outcome # "none"

\* The pass removes a request with its own entry, and drops an entry of the
\* run only.
PassMatches ==
  /\ pass.at \in {"drop", "removeRun"} => pass.entry.request = 0
  /\ pass.at = "removeRequest" =>
       pass.entry.request # 0 /\ pass.answer.time = pass.entry.time

AnswerInv ==
  /\ TypeInv
  /\ AnswerHasEntry
  /\ EntriesMatch
  /\ HandlesUnanswered
  /\ HasOutcome
  /\ PassMatches

-----------------------------------------------------------------------------
(* Who changes what *)

\* A step of another process leaves the request worker and the request records
\* alone, but for the sends and the retention pass.
LEMMA RequesterAlone ==
  ASSUME TypeInv, [Next]_vars
  PROVE  \/ RequesterStep
         \/ Send
         \/ RemoveRequest
         \/ UNCHANGED answers /\ proc'[Requester] = Idle
         \/ UNCHANGED <<answers, acked>> /\ proc'[Requester] = proc[Requester]
<1> DEFINE Alone == /\ UNCHANGED <<answers, acked>>
                    /\ proc'[Requester] = proc[Requester]
<1>1. \A p \in Procs : \A l : Step(p, l) /\ p # Requester
                            => proc'[Requester] = proc[Requester]
  BY ProcsFacts DEF Step, TypeInv, TypeOK
<1>2. CASE \E p \in Advancers : AdvancerStep(p)
  <2>1. PICK p \in Advancers : AdvancerStep(p)
    BY <1>2
  <2>2. p \in Procs /\ p # Requester
    BY ProcsFacts
  <2>3. CASE ReadRecord(p) \/ PlanAdvance(p) \/ SubmitReady(p) \/ CheckActive(p)
    BY <2>2, <2>3, <1>1 DEF ReadRecord, PlanAdvance, SubmitReady, CheckActive,
                            requestVars
  <2>4. CASE Settle(p) \/ PlanCancel(p) \/ CancelUnrecorded(p) \/ EndCancel(p)
    BY <2>2, <2>4, <1>1 DEF Settle, PlanCancel, CancelUnrecorded, EndCancel,
                            requestVars
  <2>5. CASE Ack(p)
    BY <2>2, <2>5, <1>1 DEF Ack
  <2> QED
    BY <2>1, <2>3, <2>4, <2>5 DEF AdvancerStep
<1>3. CASE (\E w \in EventWorkers : HandleEvent(w)) \/ Reconcile
  BY <1>3, <1>1, ProcsFacts DEF HandleEvent, Reconcile, requestVars
<1>4. CASE TriggerStep
  BY <1>4, <1>1, ProcsFacts DEF TriggerStep, HandleTrigger, StartRun,
                                SubmitRoot, Ack, requestVars
<1>5. CASE \E p \in Procs : Fail(p)
  <2>1. PICK p \in Procs : Fail(p)
    BY <1>5
  <2>2. CASE p = Requester
    BY <2>1, <2>2 DEF Fail, Step, TypeInv, TypeOK
  <2>3. CASE p # Requester
    BY <2>1, <2>3, <1>1 DEF Fail
  <2> QED
    BY <2>2, <2>3
<1>6. CASE PassStep \/ FailPass \/ Tick
  BY <1>6 DEF PassStep, ExpireRun, ExpireRequest, DropEntry, RemoveRun,
              FailPass, Tick, requestVars
<1>7. CASE Terminates \/ UNCHANGED vars
  BY <1>7 DEF Terminates, Terminate, requestVars, vars
<1> QED
  BY <1>2, <1>3, <1>4, <1>5, <1>6, <1>7 DEF Next

\* Every entry that a step adds is of the run, or of the request that the
\* request worker records.
LEMMA NewRequestEntries ==
  ASSUME TypeInv, [Next]_vars
  PROVE  \A e \in expiry' : \/ e \in expiry
                            \/ e.request = 0
                            \/ Resubmit \/ WriteAnswer
<1> SUFFICES ASSUME ~Resubmit, ~WriteAnswer
             PROVE  \A e \in expiry' : e \in expiry \/ e.request = 0
  OBVIOUS
<1>1. CASE UNCHANGED expiry
  BY <1>1
<1>2. CASE (\E p \in Procs : Settle(p)) \/ SettleCancelled
  <2>1. UNCHANGED expiry \/ expiry' = expiry \cup {RunEntry(now)}
    BY <1>2 DEF Settle, SettleCancelled, CommitSettled
  <2>2. RunEntry(now).request = 0
    BY DEF RunEntry
  <2> QED
    BY <2>1, <2>2
<1>3. CASE PassStep
  BY <1>3 DEF PassStep, ExpireRun, ExpireRequest, DropEntry, RemoveRun,
              RemoveRequest, storeVars
<1>4. CASE \E p \in Advancers : AdvancerStep(p)
  BY <1>4, <1>1, <1>2, AdvancerFrame, ProcsFacts
<1>5. CASE RequesterStep
  BY <1>5, <1>1, <1>2, RequesterFrame
<1>6. CASE UNCHANGED vars
  BY <1>6, <1>1 DEF vars, storeVars
<1> QED
  BY <1>1, <1>3, <1>4, <1>5, <1>6, OtherFrame DEF Next

-----------------------------------------------------------------------------
(* The steps of the request worker *)

\* What a step of the request worker leaves: it is done with its job, or goes
\* on with a request that has no record.
GoesOn(l) ==
  /\ l.at \notin {"idle", "ack"} =>
       answers[Job].outcome = "none" /\ UNCHANGED <<answers, acked>>
  /\ l.at \in {"answer", "roots"} => l.outcome # "none"

LEMMA Goes ==
  ASSUME TypeInv, NEW l, Step(Requester, l), GoesOn(l)
  PROVE  HandlesUnanswered' /\ HasOutcome'
<1>1. proc'[Requester] = l
  BY ProcsFacts DEF Step, TypeInv, TypeOK
<1> QED
  BY <1>1 DEF GoesOn, HandlesUnanswered, HasOutcome, Job

\* The request worker takes a job.
LEMMA TakesUnanswered ==
  ASSUME AnswerInv,
         SkipAnswered \/ HandleStart \/ HandleRerun \/ HandleCancel
  PROVE  HandlesUnanswered' /\ HasOutcome'
<1>1. TypeInv
  BY DEF AnswerInv
<1>2. CASE SkipAnswered
  <2>1. GoesOn([Idle EXCEPT !.at = "ack"])
    BY DEF GoesOn, Idle
  <2> QED
    BY <1>1, <1>2, <2>1, Goes DEF SkipAnswered
<1>3. CASE HandleStart
  <2>1. answers[Job].outcome = "none" /\ UNCHANGED <<answers, acked>>
    BY <1>3 DEF HandleStart, IsNext, requestVars
  <2>2. PICK l \in {[Idle EXCEPT !.at = "roots", !.todo = Roots(Graph),
                                 !.outcome = "started", !.time = now],
                    [Answering("unchanged") EXCEPT !.at = "answer"]} :
          Step(Requester, l)
    BY <1>3 DEF HandleStart, StartRun
  <2>3. GoesOn(l)
    BY <2>1 DEF GoesOn, Answering, Idle
  <2> QED
    BY <1>1, <2>2, <2>3, Goes
<1>4. CASE HandleRerun
  <2>1. answers[Job].outcome = "none" /\ UNCHANGED <<answers, acked>>
    BY <1>4 DEF HandleRerun, IsNext, requestVars
  <2>2. PICK l \in {Answering("refused"),
                    [Reading("rerun", {}, {requests[Job].node}) EXCEPT
                       !.time = now]} :
          Step(Requester, l)
    BY <1>4 DEF HandleRerun
  <2>3. GoesOn(l)
    BY <2>1 DEF GoesOn, Answering, Reading, Idle
  <2> QED
    BY <1>1, <2>2, <2>3, Goes
<1>5. CASE HandleCancel
  <2>1. answers[Job].outcome = "none" /\ UNCHANGED <<answers, acked>>
    BY <1>5 DEF HandleCancel, IsNext, requestVars
  <2>2. PICK l \in {Answering("refused"),
                    [Answering("none") EXCEPT !.at = "settleCancelled",
                                              !.run = run]} :
          Step(Requester, l)
    BY <1>5 DEF HandleCancel
  <2>3. GoesOn(l)
    BY <2>1 DEF GoesOn, Answering, Idle
  <2> QED
    BY <1>1, <2>2, <2>3, Goes
<1> QED
  BY <1>2, <1>3, <1>4, <1>5

\* The request worker goes on with its job.
LEMMA StaysUnanswered ==
  ASSUME AnswerInv,
         \/ SubmitRoot(Requester) \/ ReadRecord(Requester) \/ PlanRerun
         \/ SwapRun \/ SettleCancelled \/ PlanCancel(Requester)
         \/ CancelUnrecorded(Requester) \/ EndCancel(Requester)
  PROVE  HandlesUnanswered' /\ HasOutcome' /\ UNCHANGED answers
<1> DEFINE local == proc[Requester]
<1>1. TypeInv /\ local \in Local
  BY ProcsFacts DEF AnswerInv, TypeInv, TypeOK
<1>2. UNCHANGED <<answers, acked>>
  BY DEF SubmitRoot, ReadRecord, PlanRerun, SwapRun, SettleCancelled,
         PlanCancel, CancelUnrecorded, EndCancel, requestVars
<1>3. local.at \notin {"idle", "ack"}
  BY DEF SubmitRoot, ReadRecord, PlanRerun, HasRead, SwapRun, SettleCancelled,
         PlanCancel, CancelUnrecorded, EndCancel
<1>4. answers[Job].outcome = "none"
  BY <1>3 DEF AnswerInv, HandlesUnanswered
<1>5. local.at \in {"answer", "roots"} => local.outcome # "none"
  BY DEF AnswerInv, HasOutcome
<1>6. \A l : Step(Requester, l)
               /\ (l.at \in {"answer", "roots"} => l.outcome # "none")
             => HandlesUnanswered' /\ HasOutcome'
  BY <1>1, <1>2, <1>4, Goes DEF GoesOn
<1>7. CASE SubmitRoot(Requester)
  <2>1. PICK n : Step(Requester,
                  [local EXCEPT !.at = IF local.todo # {n} THEN "roots"
                                       ELSE IF Requester = Requester
                                       THEN "answer" ELSE "ack",
                                !.todo = @ \ {n}])
    BY <1>7 DEF SubmitRoot
  <2>2. local.at = "roots"
    BY <1>7 DEF SubmitRoot
  <2> QED
    BY <1>1, <1>2, <1>5, <1>6, <2>1, <2>2 DEF Local
<1>8. CASE ReadRecord(Requester)
  BY <1>1, <1>2, <1>6, <1>8 DEF ReadRecord, Local
<1>9. CASE PlanRerun
  <2>1. PICK at \in {"resubmit", "swap"} :
          \/ Step(Requester, [local EXCEPT !.at = "answer",
                                           !.outcome = "refused"])
          \/ Step(Requester, [local EXCEPT !.at = at])
    BY <1>9 DEF PlanRerun
  <2> QED
    BY <1>1, <1>2, <1>6, <2>1 DEF Local
<1>10. CASE SwapRun
  <2>1. \/ Step(Requester, [local EXCEPT !.at = "resubmit"])
        \/ Step(Requester, Idle)
    BY <1>10 DEF SwapRun
  <2> QED
    BY <1>1, <1>2, <1>6, <2>1 DEF Local, Idle
<1>11. CASE SettleCancelled
  <2>1. \/ Step(Requester, [local EXCEPT !.at = "records", !.then = "cancel",
                                         !.todo = Nodes])
        \/ Step(Requester, [local EXCEPT !.at = "answer",
                                         !.outcome = "refused"])
    BY <1>11 DEF SettleCancelled
  <2> QED
    BY <1>1, <1>2, <1>6, <2>1 DEF Local
<1>12. CASE PlanCancel(Requester)
  BY <1>1, <1>2, <1>6, <1>12 DEF PlanCancel, Local
<1>13. CASE CancelUnrecorded(Requester)
  BY <1>1, <1>2, <1>6, <1>13 DEF CancelUnrecorded, Local
<1>14. CASE EndCancel(Requester)
  BY <1>1, <1>2, <1>6, <1>14 DEF EndCancel, Local
<1> QED
  BY <1>2, <1>7, <1>8, <1>9, <1>10, <1>11, <1>12, <1>13, <1>14

\* The request worker records an outcome of the request, or that its rerun is
\* refused is left to a later step.
LEMMA RecordsOnce ==
  ASSUME AnswerInv, Resubmit \/ WriteAnswer
  PROVE  /\ HandlesUnanswered' /\ HasOutcome'
         /\ \/ UNCHANGED <<answers, expiry>>
            \/ /\ answers[Job].outcome = "none"
               /\ \E o, t : o # "none" /\ Record(Job, o, t)
<1> DEFINE local == proc[Requester]
<1>1. TypeInv /\ local \in Local
  BY ProcsFacts DEF AnswerInv, TypeInv, TypeOK
<1>2. answers[Job].outcome = "none"
  BY DEF AnswerInv, HandlesUnanswered, Resubmit, WriteAnswer
<1>3. CASE Resubmit
  <2>1. \/ /\ Record(Job, "rerun", local.time)
           /\ Step(Requester, [local EXCEPT !.at = "ack"])
        \/ /\ UNCHANGED <<answers, expiry>>
           /\ Step(Requester, [local EXCEPT !.at = "answer",
                                            !.outcome = "refused"])
    BY <1>3 DEF Resubmit
  <2>2. UNCHANGED acked
    BY <1>3 DEF Resubmit
  <2>3. CASE Step(Requester, [local EXCEPT !.at = "ack"])
    <3>1. GoesOn([local EXCEPT !.at = "ack"])
      BY <1>1 DEF GoesOn, Local
    <3> QED
      BY <1>1, <1>2, <2>1, <2>3, <3>1, Goes
  <2>4. CASE /\ UNCHANGED <<answers, expiry>>
             /\ Step(Requester, [local EXCEPT !.at = "answer",
                                              !.outcome = "refused"])
    <3>1. GoesOn([local EXCEPT !.at = "answer", !.outcome = "refused"])
      BY <1>1, <1>2, <2>2, <2>4 DEF GoesOn, Local
    <3> QED
      BY <1>1, <2>4, <3>1, Goes
  <2> QED
    BY <2>1, <2>3, <2>4
<1>4. CASE WriteAnswer
  <2>1. /\ local.outcome # "none" /\ Record(Job, local.outcome, local.time)
        /\ Step(Requester, [local EXCEPT !.at = "ack"])
    BY <1>4 DEF WriteAnswer, AnswerInv, HasOutcome
  <2>2. GoesOn([local EXCEPT !.at = "ack"])
    BY <1>1 DEF GoesOn, Local
  <2> QED
    BY <1>1, <1>2, <2>1, <2>2, Goes
<1> QED
  BY <1>3, <1>4

LEMMA AckDone ==
  ASSUME TypeInv, Ack(Requester)
  PROVE  HandlesUnanswered' /\ HasOutcome' /\ UNCHANGED answers
<1>1. proc'[Requester] = Idle
  BY ProcsFacts DEF Ack, Step, TypeInv, TypeOK
<1> QED
  BY <1>1 DEF Ack, Idle, HandlesUnanswered, HasOutcome

\* A step of the request worker leaves the records alone, or records an outcome.
LEMMA RequesterAnswers ==
  ASSUME AnswerInv, RequesterStep
  PROVE  /\ HandlesUnanswered' /\ HasOutcome'
         /\ UNCHANGED answers \/ Resubmit \/ WriteAnswer
<1>1. CASE SkipAnswered \/ HandleStart \/ HandleRerun \/ HandleCancel
  <2>1. UNCHANGED answers
    BY <1>1 DEF SkipAnswered, HandleStart, HandleRerun, HandleCancel, requestVars
  <2> QED
    BY <1>1, <2>1, TakesUnanswered
<1>2. CASE Resubmit \/ WriteAnswer
  BY <1>2, RecordsOnce
<1>3. CASE ~Resubmit /\ ~WriteAnswer
  <2>1. TypeInv
    BY DEF AnswerInv
  <2> QED
    BY <1>1, <1>3, <2>1, StaysUnanswered, AckDone DEF RequesterStep
<1> QED
  BY <1>2, <1>3
-----------------------------------------------------------------------------
(* The invariant *)

\* The request worker records an outcome of a request without one.
LEMMA RecordNext ==
  ASSUME AnswerInv, UNCHANGED <<requests, pass>>,
         answers[Job].outcome = "none", Job \in DOMAIN answers,
         NEW o, o # "none", NEW t, Record(Job, o, t)
  PROVE  AnswerHasEntry' /\ EntriesMatch'
<1>1. /\ answers' = [answers EXCEPT ![Job] = [outcome |-> o, time |-> t]]
      /\ expiry' = expiry \cup {RequestEntry(t, Job)}
  BY DEF Record
<1>2. AnswerHasEntry'
  <2> SUFFICES ASSUME NEW q \in DOMAIN answers, answers'[q].outcome # "none"
               PROVE  RequestEntry(answers'[q].time, q) \in expiry'
    BY <1>1 DEF AnswerHasEntry, RequestEntry
  <2>1. CASE q = Job
    BY <2>1, <1>1
  <2>2. CASE q # Job
    <3>1. answers'[q] = answers[q]
      BY <2>2, <1>1
    <3>2. RequestEntry(answers[q].time, q) \in expiry
      BY <3>1 DEF AnswerInv, AnswerHasEntry
    <3> QED
      BY <3>1, <3>2, <1>1
  <2> QED
    BY <2>1, <2>2
<1>3. EntriesMatch'
  <2> SUFFICES ASSUME NEW e \in expiry', e.request # 0
               PROVE  /\ e.request \in DOMAIN answers
                      /\ answers'[e.request].outcome # "none"
                      /\ answers'[e.request].time = e.time
    BY <1>1 DEF EntriesMatch
  <2>1. CASE e \in expiry
    <3>1. /\ e.request \in DOMAIN answers
          /\ answers[e.request].outcome # "none"
          /\ answers[e.request].time = e.time
      BY <2>1 DEF AnswerInv, EntriesMatch
    <3>2. e.request # Job
      BY <3>1
    <3> QED
      BY <3>1, <3>2, <1>1
  <2>2. CASE e = RequestEntry(t, Job)
    BY <2>2, <1>1 DEF RequestEntry
  <2> QED
    BY <2>1, <2>2, <1>1
<1> QED
  BY <1>2, <1>3

\* The records stay, and the entries of requests are the same.
LEMMA SameNext ==
  ASSUME AnswerInv, UNCHANGED answers,
         \A e \in expiry' : e \in expiry \/ e.request = 0,
         \A e \in expiry : e.request # 0 => e \in expiry'
  PROVE  AnswerHasEntry' /\ EntriesMatch'
<1>1. \A q \in DOMAIN answers : answers[q].outcome # "none" =>
        RequestEntry(answers[q].time, q) \in expiry
  BY DEF AnswerInv, AnswerHasEntry
<1>2. \A q \in DOMAIN answers : \A t : RequestEntry(t, q).request # 0
  BY DEF RequestEntry, AnswerInv, TypeInv, TypeOK
<1>3. AnswerHasEntry'
  BY <1>1, <1>2 DEF AnswerHasEntry, RequestEntry
<1>4. EntriesMatch'
  BY DEF AnswerInv, EntriesMatch
<1> QED
  BY <1>3, <1>4

LEMMA SendNext ==
  ASSUME AnswerInv, Send
  PROVE  AnswerHasEntry' /\ EntriesMatch' /\ HandlesUnanswered' /\ HasOutcome'
<1>1. /\ UNCHANGED <<expiry, proc, acked>>
      /\ answers' = [i \in 1..Len(requests) + 1 |->
                       IF i \in DOMAIN answers THEN answers[i] ELSE NoAnswer]
  BY DEF Send, storeVars
<1>2. /\ DOMAIN answers = 1..Len(requests) /\ Len(requests) \in Nat
      /\ proc[Requester].at # "idle" => Job \in DOMAIN answers
  BY JobFacts DEF AnswerInv, TypeInv, TypeOK
<1>3. /\ DOMAIN answers \subseteq DOMAIN answers'
      /\ \A q \in DOMAIN answers : answers'[q] = answers[q]
      /\ \A q \in DOMAIN answers' \ DOMAIN answers : answers'[q].outcome = "none"
  BY <1>1, <1>2 DEF NoAnswer
<1>4. AnswerHasEntry'
  <2> SUFFICES ASSUME NEW q \in DOMAIN answers', answers'[q].outcome # "none"
               PROVE  RequestEntry(answers'[q].time, q) \in expiry'
    BY DEF AnswerHasEntry, RequestEntry
  <2> QED
    BY <1>1, <1>3 DEF AnswerInv, AnswerHasEntry
<1>5. EntriesMatch'
  BY <1>1, <1>3 DEF AnswerInv, EntriesMatch
<1>6. HandlesUnanswered' /\ HasOutcome'
  BY <1>1, <1>2, <1>3 DEF AnswerInv, HandlesUnanswered, HasOutcome, Job
<1> QED
  BY <1>4, <1>5, <1>6

LEMMA RemoveRequestNext ==
  ASSUME AnswerInv, RemoveRequest
  PROVE  AnswerHasEntry' /\ EntriesMatch' /\ HandlesUnanswered' /\ HasOutcome'
<1> DEFINE r == pass.entry.request
<1>1. /\ UNCHANGED <<proc, acked>>
      /\ \/ UNCHANGED <<answers, expiry>>
         \/ /\ answers[r] = pass.answer
            /\ answers' = [answers EXCEPT ![r] = NoAnswer]
            /\ expiry' = expiry \ {pass.entry}
  BY DEF RemoveRequest
<1>2. r # 0 /\ pass.answer.time = pass.entry.time /\ pass.entry \in Entry
  BY DEF RemoveRequest, AnswerInv, PassMatches, TypeInv, TypeOK, Pass
<1>3. CASE UNCHANGED <<answers, expiry>>
  BY <1>1, <1>3, SameNext DEF AnswerInv, HandlesUnanswered, HasOutcome, Job
<1>4. CASE /\ answers[r] = pass.answer
           /\ answers' = [answers EXCEPT ![r] = NoAnswer]
           /\ expiry' = expiry \ {pass.entry}
  <2>1. \A q \in DOMAIN answers : answers'[q].outcome # "none"
           => q # r /\ answers'[q] = answers[q]
    BY <1>4 DEF NoAnswer
  <2>2. AnswerHasEntry'
    <3> SUFFICES ASSUME NEW q \in DOMAIN answers, answers'[q].outcome # "none"
                 PROVE  RequestEntry(answers'[q].time, q) \in expiry'
      BY <1>4 DEF AnswerHasEntry, RequestEntry
    <3>1. q # r /\ RequestEntry(answers'[q].time, q) \in expiry
      BY <2>1 DEF AnswerInv, AnswerHasEntry
    <3>2. RequestEntry(answers'[q].time, q).request = q
      BY DEF RequestEntry
    <3> QED
      BY <3>1, <3>2, <1>4
  <2>3. EntriesMatch'
    <3> SUFFICES ASSUME NEW e \in expiry, e # pass.entry, e.request # 0
                 PROVE  /\ e.request \in DOMAIN answers
                        /\ answers'[e.request].outcome # "none"
                        /\ answers'[e.request].time = e.time
      BY <1>4 DEF EntriesMatch
    <3>1. /\ e.request \in DOMAIN answers
          /\ answers[e.request].outcome # "none"
          /\ answers[e.request].time = e.time
      BY DEF AnswerInv, EntriesMatch
    <3>2. e \in Entry
      BY DEF AnswerInv, TypeInv, TypeOK
    <3>3. e.request # r
      BY <1>2, <1>4, <3>1, <3>2 DEF Entry
    <3> QED
      BY <3>1, <3>3, <1>4
  <2>4. HandlesUnanswered'
    <3>1. proc[Requester].at # "idle" => Job \in DOMAIN answers
      BY JobFacts DEF AnswerInv, TypeInv, TypeOK
    <3> QED
      BY <1>1, <1>4, <3>1 DEF AnswerInv, HandlesUnanswered, Job, NoAnswer
  <2>5. HasOutcome'
    BY <1>1 DEF AnswerInv, HasOutcome
  <2> QED
    BY <2>2, <2>3, <2>4, <2>5
<1> QED
  BY <1>1, <1>3, <1>4

LEMMA PassMatchesNext ==
  ASSUME AnswerInv, [Next]_vars
  PROVE  PassMatches'
<1>1. CASE UNCHANGED pass
  BY <1>1 DEF AnswerInv, PassMatches
<1>2. CASE pass' = PassIdle
  BY <1>2 DEF PassIdle, PassMatches
<1>3. CASE ExpireRun
  <2>1. PICK e \in expiry :
          /\ e.request = 0
          /\ \/ pass' = [PassIdle EXCEPT !.at = "removeRun", !.entry = e,
                                         !.run = run]
             \/ pass' = Stale(e)
    BY <1>3 DEF ExpireRun
  <2> QED
    BY <2>1 DEF PassMatches, Stale, PassIdle
<1>4. CASE ExpireRequest
  <2>1. PICK e \in expiry :
          /\ e.request \in DOMAIN answers
          /\ \/ /\ answers[e.request].time = e.time
                /\ pass' = [PassIdle EXCEPT !.at = "removeRequest", !.entry = e,
                                            !.answer = answers[e.request]]
             \/ /\ \/ answers[e.request].outcome = "none"
                   \/ answers[e.request].time # e.time
                /\ pass' = Stale(e)
    BY <1>4 DEF ExpireRequest
  <2>2. e.request # 0
    BY <2>1 DEF AnswerInv, TypeInv, TypeOK
  <2>3. pass' # Stale(e)
    BY <2>1, <2>2 DEF AnswerInv, EntriesMatch, Stale, PassIdle
  <2>4. /\ answers[e.request].time = e.time
        /\ pass' = [PassIdle EXCEPT !.at = "removeRequest", !.entry = e,
                                    !.answer = answers[e.request]]
    BY <2>1, <2>3
  <2> QED
    BY <2>2, <2>4 DEF PassMatches, PassIdle
<1> QED
  BY <1>1, <1>2, <1>3, <1>4, PassMoves

\* The pass never drops or removes the entry of a request record that stays.
LEMMA EntriesKept ==
  ASSUME AnswerInv, [Next]_vars, ~RemoveRequest
  PROVE  \A e \in expiry : e.request # 0 => e \in expiry'
<1>1. CASE DropEntry \/ RemoveRun
  BY <1>1 DEF DropEntry, RemoveRun, storeVars, AnswerInv, PassMatches
<1> QED
  BY <1>1, LostEntries

LEMMA NextAnswers ==
  ASSUME AnswerInv, [Next]_vars
  PROVE  AnswerInv'
<1>1. TypeInv /\ TypeInv' /\ PassMatches'
  BY NextTypes, PassMatchesNext DEF AnswerInv
<1>2. CASE RequesterStep
  <2>1. HandlesUnanswered' /\ HasOutcome'
    BY <1>2, RequesterAnswers
  <2>2. CASE UNCHANGED answers /\ ~Resubmit /\ ~WriteAnswer
    <3>1. ~RemoveRequest
      BY <1>2, RequesterFrame DEF RemoveRequest, PassIdle
    <3> QED
      BY <1>1, <2>1, <2>2, <3>1, NewRequestEntries, EntriesKept, SameNext
      DEF AnswerInv
  <2>3. CASE Resubmit \/ WriteAnswer
    <3>1. UNCHANGED <<requests, pass>> /\ Job \in DOMAIN answers
      BY <1>1, <2>3, JobFacts DEF Resubmit, WriteAnswer, TypeInv, TypeOK
    <3>2. CASE UNCHANGED <<answers, expiry>>
      BY <1>1, <2>1, <3>2, SameNext DEF AnswerInv
    <3>3. CASE /\ answers[Job].outcome = "none"
               /\ \E o, t : o # "none" /\ Record(Job, o, t)
      BY <1>1, <2>1, <3>1, <3>3, RecordNext DEF AnswerInv
    <3> QED
      BY <2>3, <3>2, <3>3, RecordsOnce
  <2> QED
    BY <1>2, <2>2, <2>3, RequesterAnswers
<1>3. CASE Send
  BY <1>1, <1>3, SendNext DEF AnswerInv
<1>4. CASE RemoveRequest
  BY <1>1, <1>4, RemoveRequestNext DEF AnswerInv
<1>5. CASE /\ ~RequesterStep /\ ~RemoveRequest
           /\ \/ UNCHANGED answers /\ proc'[Requester] = Idle
              \/ /\ UNCHANGED <<answers, acked>>
                 /\ proc'[Requester] = proc[Requester]
  <2>1. ~Resubmit /\ ~WriteAnswer
    BY <1>5 DEF RequesterStep
  <2>2. AnswerHasEntry' /\ EntriesMatch'
    BY <1>1, <1>5, <2>1, NewRequestEntries, EntriesKept, SameNext
  <2>3. HandlesUnanswered' /\ HasOutcome'
    BY <1>5 DEF AnswerInv, HandlesUnanswered, HasOutcome, Job, Idle
  <2> QED
    BY <1>1, <2>2, <2>3 DEF AnswerInv
<1> QED
  BY <1>1, <1>2, <1>3, <1>4, <1>5, RequesterAlone

LEMMA InitAnswers == Init => AnswerInv
<1> SUFFICES ASSUME Init PROVE AnswerInv
  OBVIOUS
<1>1. AnswerHasEntry /\ EntriesMatch
  BY DEF Init, AnswerHasEntry, EntriesMatch
<1>2. proc[Requester] = Idle /\ pass = PassIdle
  BY ProcsFacts DEF Init
<1>3. HandlesUnanswered /\ HasOutcome /\ PassMatches
  BY <1>2 DEF Idle, PassIdle, HandlesUnanswered, HasOutcome, PassMatches
<1> QED
  BY <1>1, <1>3, InitTypes DEF AnswerInv

\* A request record has its expiry entry, so the retention pass reaches it
\* whatever the request worker, a redelivery of the request job after a crash
\* and the pass do between their steps, and for a retention window of zero too
\* (request.rs, request_effects; retention.rs, expire_request).
THEOREM AnswersKeepEntry == Spec => []AnswerHasEntry
<1>1. Init => AnswerInv
  BY InitAnswers
<1>2. AnswerInv /\ [Next]_vars => AnswerInv'
  BY NextAnswers
<1>3. AnswerInv => AnswerHasEntry
  BY DEF AnswerInv
<1> QED
  BY <1>1, <1>2, <1>3, PTL DEF Spec

-----------------------------------------------------------------------------
(* A cancel decides by the stored state.  Its write is refused when the run  *)
(* record has changed since its read, and then the run has settled: only the *)
(* request worker, which is busy with the cancel, makes a run active again,  *)
(* unless the run is removed and started anew.                               *)

\* A step that does not remove the run.
RunStays == run.state # "absent" => run'.state # "absent"

Rerunning(l) ==
  l.at \in {"swap", "resubmit"} \/ (l.at = "records" /\ l.then = "rerun")

\* The request worker handles a rerun only when the request is one.
RerunsRequest ==
  Rerunning(proc[Requester]) => requests[Job].kind = "rerun"

\* The run that a cancel has read is the stored one, or the run has settled.
CancelsCurrent ==
  proc[Requester].at = "settleCancelled" =>
    run = proc[Requester].run \/ run.state \notin {"active", "absent"}

DecideInv == LifeInv /\ RerunsRequest /\ CancelsCurrent

\* What a step of the request worker does to its local variables.
LEMMA WorkerMoves ==
  ASSUME TypeInv, RequesterStep,
         NEW k, k = proc[Requester], NEW l, l = proc'[Requester]
  PROVE  \/ HandleRerun \/ HandleCancel \/ SettleCancelled
         \/ /\ l.at \notin {"records", "swap", "resubmit", "settleCancelled"}
            /\ l.outcome = k.outcome \/ l.outcome # "refused"
         \/ /\ k.at = "records" /\ l.at = "records"
            /\ l.then = k.then /\ l.outcome = k.outcome
            /\ UNCHANGED <<requests, acked>>
         \/ /\ Rerunning(k) /\ l.at # "settleCancelled"
            /\ UNCHANGED <<requests, acked>>
<1>1. k \in Local /\ \A x : Step(Requester, x) => l = x
  BY ProcsFacts DEF Step, TypeInv, TypeOK
<1> DEFINE Ends == /\ l.at \notin {"records", "swap", "resubmit", "settleCancelled"}
                   /\ l.outcome = k.outcome \/ l.outcome # "refused"
<1>2. CASE SkipAnswered \/ Ack(Requester)
  <2>1. l = [Idle EXCEPT !.at = "ack"] \/ l = Idle
    BY <1>1, <1>2 DEF SkipAnswered, Ack
  <2> QED
    BY <2>1 DEF Idle
<1>3. CASE HandleStart
  <2>1. \/ l = [Idle EXCEPT !.at = "roots", !.todo = Roots(Graph),
                            !.outcome = "started", !.time = now]
        \/ l = [Answering("unchanged") EXCEPT !.at = "answer"]
    BY <1>1, <1>3 DEF HandleStart, StartRun
  <2> QED
    BY <2>1 DEF Answering, Idle
<1>4. CASE \/ SubmitRoot(Requester) \/ PlanCancel(Requester)
           \/ CancelUnrecorded(Requester)
  <2>1. PICK at \in {"roots", "answer", "cancel"} : \E t :
          \/ l = [k EXCEPT !.at = at, !.todo = t]
          \/ k.at = "cancel" /\ l = [k EXCEPT !.todo = t]
    BY <1>1, <1>4 DEF SubmitRoot, PlanCancel, CancelUnrecorded
  <2> QED
    BY <1>1, <2>1 DEF Local
<1>5. CASE ReadRecord(Requester)
  <2>1. PICK n : l = [k EXCEPT !.recs[n] = recs[n], !.todo = @ \ {n}]
    BY <1>1, <1>5 DEF ReadRecord
  <2>2. k.at = "records" /\ UNCHANGED <<requests, acked>>
    BY <1>5 DEF ReadRecord, requestVars
  <2> QED
    BY <1>1, <2>1, <2>2 DEF Local
<1>6. CASE PlanRerun \/ SwapRun \/ Resubmit
  <2>1. Rerunning(k) /\ UNCHANGED <<requests, acked>>
    BY <1>6 DEF PlanRerun, HasRead, SwapRun, Resubmit, Rerunning, requestVars
  <2>2. PICK at \in {"answer", "resubmit", "swap", "ack"} : \E o :
          \/ l = [k EXCEPT !.at = at, !.outcome = o]
          \/ l = [k EXCEPT !.at = at]
          \/ l = Idle
    BY <1>1, <1>6 DEF PlanRerun, SwapRun, Resubmit
  <2>3. PICK o :
          \/ l = [k EXCEPT !.at = at, !.outcome = o]
          \/ l = [k EXCEPT !.at = at]
          \/ l = Idle
    BY <2>2
  <2>4. /\ [k EXCEPT !.at = at].at = at
        /\ [k EXCEPT !.at = at, !.outcome = o].at = at
        /\ at # "settleCancelled" /\ Idle.at # "settleCancelled"
    BY <1>1 DEF Local, Idle
  <2>5. l.at # "settleCancelled"
    BY <2>3, <2>4
  <2> QED
    BY <2>1, <2>5
<1>7. CASE EndCancel(Requester) \/ WriteAnswer
  <2>1. \/ l = [k EXCEPT !.at = "answer", !.outcome = "cancelled"]
        \/ l = [k EXCEPT !.at = "ack"]
    BY <1>1, <1>7 DEF EndCancel, WriteAnswer
  <2> QED
    BY <1>1, <2>1 DEF Local
<1> QED
  BY <1>2, <1>3, <1>4, <1>5, <1>6, <1>7 DEF RequesterStep

\* What a step of another process does to the request worker.
LEMMA WorkerAlone ==
  ASSUME TypeInv, [Next]_vars, ~RequesterStep
  PROVE  \/ proc'[Requester] = Idle
         \/ UNCHANGED acked /\ proc'[Requester] = proc[Requester]
<1>1. CASE Send \/ RemoveRequest
  BY <1>1 DEF Send, RemoveRequest
<1> QED
  BY <1>1, RequesterAlone

LEMMA RequestsMove ==
  ASSUME TypeInv, [Next]_vars
  PROVE  UNCHANGED requests \/ Send
<1>1. CASE UNCHANGED requests
  BY <1>1
<1>2. CASE Send
  BY <1>2
<1>3. CASE \E p \in Procs : AdvancerStep(p)
  BY <1>1, <1>3 DEF AdvancerStep, ReadRecord, PlanAdvance, SubmitReady,
     CheckActive, Settle, PlanCancel, CancelUnrecorded, EndCancel, Ack,
     requestVars
<1>4. CASE RequesterStep
  BY <1>1, <1>4 DEF RequesterStep, SkipAnswered, HandleStart, SubmitRoot,
     HandleRerun, ReadRecord, PlanRerun, SwapRun, Resubmit, HandleCancel,
     SettleCancelled, PlanCancel, CancelUnrecorded, EndCancel, WriteAnswer,
     Ack, requestVars
<1>5. CASE \/ TriggerStep \/ Terminates \/ Reconcile
           \/ \E w \in EventWorkers : HandleEvent(w)
  BY <1>1, <1>5 DEF TriggerStep, HandleTrigger, SubmitRoot, Ack, Terminates,
     Terminate, Reconcile, HandleEvent, requestVars
<1>6. CASE PassStep \/ FailPass \/ Tick \/ (\E p \in Procs : Fail(p))
  BY <1>1, <1>6 DEF PassStep, ExpireRun, ExpireRequest, DropEntry, RemoveRun,
     RemoveRequest, FailPass, Tick, Fail, requestVars
<1>7. CASE UNCHANGED vars
  BY <1>1, <1>7 DEF vars, requestVars
<1> QED
  BY <1>2, <1>3, <1>4, <1>5, <1>6, <1>7, ProcsFacts DEF Next

\* A request stays what it is.
LEMMA RequestsGrow ==
  ASSUME TypeInv, [Next]_vars
  PROVE  \A q \in 1..Len(requests) : requests'[q] = requests[q]
<1>1. CASE Send
  BY <1>1 DEF Send, TypeInv, TypeOK
<1> QED
  BY <1>1, RequestsMove

\* What a step of another process does to the run record.
LEMMA RunAlone ==
  ASSUME LifeInv, [Next]_vars, ~RequesterStep
  PROVE  \/ UNCHANGED run
         \/ run.state = "absent" /\ run'.state = "active"
         \/ run'.state \in {"complete", "failed"}
         \/ run.state # "absent" /\ run'.state = "absent"
<1>1. CASE \E p \in Advancers : AdvancerStep(p)
  <2>1. PICK p \in Advancers : AdvancerStep(p)
    BY <1>1
  <2>2. CASE Settle(p)
    <3> DEFINE state == SettledState(NodeStates(Graph, Current(proc[p])))
    <3>1. p \in Procs /\ proc[p].at = "check" /\ proc[p].run \in RunRecord
      BY <2>2, ProcsFacts, LocalRun DEF Settle, LifeInv
    <3>2. state \in {"complete", "failed"}
      <4>1. SettledState(NodeStates(Graph, Current(proc[p]))) # "none"
        BY <3>1 DEF LifeInv, TypeInv, SettlesSettled
      <4> QED
        BY <4>1, SettledStateValues
    <3>3. \/ UNCHANGED run
          \/ \E e : run' = [[proc[p].run EXCEPT !.state = state, !.expected = e]
                              EXCEPT !.settled = now]
      BY <2>2 DEF Settle, CommitSettled
    <3> HIDE DEF state
    <3> QED
      BY <3>1, <3>2, <3>3 DEF RunRecord
  <2> QED
    BY <2>1, <2>2, AdvancerFrame
<1>2. CASE TriggerStep
  BY <1>2, OtherFrame DEF HandleTrigger, StartRun, NewRun
<1>3. CASE PassStep
  <2>1. RemoveRun => \/ UNCHANGED run
                     \/ run = pass.run /\ run' = NoRun /\ pass.at = "removeRun"
    BY DEF RemoveRun, storeVars
  <2>2. run = pass.run /\ pass.at = "removeRun" => run.state # "absent"
    BY DEF LifeInv, KnowsExpired, OnlyFinalSettled
  <2> QED
    BY <1>3, <2>1, <2>2, OtherFrame DEF NoRun
<1>4. CASE UNCHANGED vars
  BY <1>4 DEF vars, storeVars
<1> QED
  BY <1>1, <1>2, <1>3, <1>4, OtherFrame DEF Next

LEMMA CancelNext ==
  ASSUME DecideInv, [Next]_vars, [RunStays]_vars
  PROVE  DecideInv'
<1> DEFINE k == proc[Requester]
           l == proc'[Requester]
<1>0. /\ LifeInv /\ LifeInv' /\ TypeInv
      /\ k \in Local /\ \A x : Step(Requester, x) => l = x
      /\ k.at # "idle" => Job \in 1..Len(requests)
  BY NextLife, JobFacts, ProcsFacts DEF DecideInv, LifeInv, Step, TypeInv, TypeOK
<1>1. Rerunning(k) => /\ requests[Job].kind = "rerun"
                      /\ requests'[Job].kind = "rerun"
  BY <1>0, RequestsGrow DEF DecideInv, RerunsRequest, Rerunning
<1>2. ~Rerunning(Idle) /\ Idle.at # "settleCancelled"
  BY DEF Rerunning, Idle
<1>3. CASE ~RequesterStep
  <2>0. run.state # "absent" /\ run'.state = "absent" => UNCHANGED run
    BY DEF RunStays, vars, storeVars
  <2>1. CASE l = Idle
    BY <1>0, <1>2, <2>1 DEF DecideInv, RerunsRequest, CancelsCurrent
  <2>2. CASE l = k /\ UNCHANGED acked
    <3>1. RerunsRequest'
      BY <1>1, <2>2 DEF RerunsRequest, Job
    <3>2. CancelsCurrent'
      BY <1>0, <1>3, <2>0, <2>2, RunAlone, ProcsFacts
      DEF DecideInv, CancelsCurrent, LifeInv, KnowsState
    <3> QED
      BY <1>0, <3>1, <3>2 DEF DecideInv
  <2> QED
    BY <1>0, <1>3, <2>1, <2>2, WorkerAlone
<1>4. CASE HandleRerun
  <2>1. \/ l = Answering("refused")
        \/ l = [Reading("rerun", {}, {requests[Job].node}) EXCEPT !.time = now]
    BY <1>0, <1>4 DEF HandleRerun
  <2>2. l.at # "settleCancelled"
    BY <2>1 DEF Answering, Reading, Idle
  <2>3. requests'[Job'].kind = "rerun"
    BY <1>4 DEF HandleRerun, IsNext, requestVars, Job
  <2> QED
    BY <1>0, <2>2, <2>3 DEF DecideInv, RerunsRequest, CancelsCurrent
<1>5. CASE HandleCancel
  <2>1. \/ l = Answering("refused")
        \/ l = [Answering("none") EXCEPT !.at = "settleCancelled", !.run = run]
    BY <1>0, <1>5 DEF HandleCancel
  <2>2. ~Rerunning(l) /\ (l.at = "settleCancelled" => l.run = run)
    BY <2>1 DEF Answering, Idle, Rerunning
  <2>3. UNCHANGED run
    BY <1>5 DEF HandleCancel, storeVars
  <2> QED
    BY <1>0, <2>2, <2>3 DEF DecideInv, RerunsRequest, CancelsCurrent
<1>6. CASE SettleCancelled
  <2>1. \/ l = [k EXCEPT !.at = "records", !.then = "cancel", !.todo = Nodes]
        \/ l = [k EXCEPT !.at = "answer", !.outcome = "refused"]
    BY <1>0, <1>6 DEF SettleCancelled
  <2>2. ~Rerunning(l) /\ l.at # "settleCancelled"
    BY <1>0, <2>1 DEF Local, Rerunning
  <2> QED
    BY <1>0, <2>2 DEF DecideInv, RerunsRequest, CancelsCurrent
<1>7. CASE l.at \notin {"records", "swap", "resubmit", "settleCancelled"}
  BY <1>0, <1>7 DEF DecideInv, RerunsRequest, CancelsCurrent, Rerunning
<1>8. CASE /\ k.at = "records" /\ l.at = "records" /\ l.then = k.then
           /\ UNCHANGED <<requests, acked>>
  BY <1>0, <1>1, <1>8 DEF DecideInv, RerunsRequest, CancelsCurrent, Rerunning, Job
<1>9. CASE /\ Rerunning(k) /\ l.at # "settleCancelled"
           /\ UNCHANGED <<requests, acked>>
  BY <1>0, <1>1, <1>9 DEF DecideInv, RerunsRequest, CancelsCurrent, Job
<1> QED
  BY <1>0, <1>3, <1>4, <1>5, <1>6, <1>7, <1>8, <1>9, WorkerMoves

\* The cancelled state is written over an active run.
LEMMA CancelsActive ==
  ASSUME LifeInv, [Next]_vars, run'.state = "cancelled", run' # run
  PROVE  run.state = "active"
<1>1. RequesterStep
  BY RunAlone
<1>2. CASE HandleStart
  BY <1>2 DEF HandleStart, StartRun, NewRun
<1>3. CASE SwapRun
  <2> DEFINE local == proc[Requester]
  <2>1. local.run \in RunRecord
    BY LocalRun, ProcsFacts DEF LifeInv
  <2>2. PICK n \in local.scope :
          \/ run' = Reactivated(Graph, local.run, local.recs, n)
          \/ UNCHANGED run
    BY <1>3 DEF SwapRun
  <2>3. run'.state = "active"
    BY <2>1, <2>2 DEF Reactivated, RunRecord
  <2> QED
    BY <2>3
<1>4. CASE SettleCancelled
  <2>1. proc[Requester].run.state = "active" /\ run = proc[Requester].run
    BY <1>4, ProcsFacts DEF SettleCancelled, CommitSettled, LifeInv, KnowsState
  <2> QED
    BY <2>1
<1> QED
  BY <1>1, <1>2, <1>3, <1>4, RequesterFrame

\* The rest of a step is that a cancel is refused for a run that is not active.
LEMMA RefusesInactive ==
  ASSUME DecideInv, [Next]_vars,
         requests[Job].kind = "cancel",
         proc'[Requester].outcome = "refused",
         proc[Requester].outcome # "refused"
  PROVE  run.state # "active"
<1> DEFINE k == proc[Requester]
           l == proc'[Requester]
<1>0. /\ LifeInv /\ TypeInv /\ k \in Local
      /\ ~Rerunning(k)
  BY ProcsFacts DEF DecideInv, LifeInv, TypeInv, TypeOK, RerunsRequest
<1>1. RequesterStep
  BY <1>0, WorkerAlone DEF Idle
<1>2. CASE HandleRerun
  BY <1>2 DEF HandleRerun, IsNext
<1>3. CASE HandleCancel
  <2>1. SUFFICES ASSUME run.state = "active" PROVE FALSE
    OBVIOUS
  <2>2. l = [Answering("none") EXCEPT !.at = "settleCancelled", !.run = run]
    BY <1>0, <1>3, <2>1, ProcsFacts DEF HandleCancel, Step, TypeInv, TypeOK
  <2> QED
    BY <2>2 DEF Answering, Idle
<1>4. CASE SettleCancelled
  <2>1. k.at = "settleCancelled" /\ k.run.state = "active"
    BY <1>0, <1>4, ProcsFacts DEF SettleCancelled, LifeInv, KnowsState
  <2>2. CASE run = k.run
    <3>1. l = [k EXCEPT !.at = "records", !.then = "cancel", !.todo = Nodes]
      BY <1>0, <1>4, <2>2, ProcsFacts DEF SettleCancelled, Step, TypeInv, TypeOK
    <3> QED
      BY <1>0, <3>1 DEF Local
  <2> QED
    BY <2>1, <2>2 DEF DecideInv, CancelsCurrent
<1> QED
  BY <1>0, <1>1, <1>2, <1>3, <1>4, WorkerMoves

\* While the run is not removed, a cancel request is refused only when the run
\* is not active at that moment, and cancels only an active run, whatever
\* settles, reruns and starts come between its read and its write
\* (scheduler.rs, cancel_run).
THEOREM CancelsDecide ==
  Spec /\ [][RunStays]_vars => CancelDecides
<1> DEFINE Decides ==
      (acked < Len(requests) /\ requests[Job].kind = "cancel") =>
         LET outcome == proc'[Requester].outcome
         IN /\ (outcome = "refused" /\ proc[Requester].outcome # "refused") =>
                 run.state # "active"
            /\ (run'.state = "cancelled" /\ run' # run) => run.state = "active"
<1>1. Init => DecideInv
  <2>1. Init => proc[Requester] = Idle
    BY ProcsFacts DEF Init
  <2> QED
    BY <2>1, InitLife DEF Idle, DecideInv, RerunsRequest, CancelsCurrent,
       Rerunning
<1>2. DecideInv /\ [Next]_vars /\ [RunStays]_vars => DecideInv'
  BY CancelNext
<1>3. DecideInv /\ [Next]_vars => [Decides]_vars
  BY CancelsActive, RefusesInactive DEF DecideInv
<1>4. CancelDecides <=> [][Decides]_vars
  BY PTL DEF CancelDecides
<1> QED
  BY <1>1, <1>2, <1>3, <1>4, PTL DEF Spec

-----------------------------------------------------------------------------
(* A command that waits sees its request through: a job that is done without *)
(* an error has left its record.                                             *)

\* A step that removes no request record.
AnswersStay ==
  \A q \in DOMAIN answers :
    answers[q].outcome # "none" => answers'[q].outcome # "none"

\* The request worker acknowledges a request with a record.
AcksAnswered ==
  proc[Requester].at = "ack" => answers[Job].outcome # "none"

WaiterType ==
  waiter \in [at : {"none", "record", "job", "again"}, request : Nat,
              dead : BOOLEAN]

\* A request whose job is done, and was not dead-lettered, has its record.
DoneHasRecord ==
  waiter.at # "none" =>
    /\ Asked \in DOMAIN answers
    /\ Asked <= acked /\ ~waiter.dead => IsApplied

DoneInv ==
  /\ AnswerInv /\ AcksAnswered
  /\ WaiterType /\ DoneHasRecord
  /\ waiter.at = "again" => IsApplied

LEMMA AcksMoves ==
  ASSUME [Next]_vars
  PROVE  UNCHANGED acked \/ Ack(Requester) \/ Fail(Requester)
<1>1. CASE Send \/ UNCHANGED vars
  BY <1>1 DEF Send, vars, requestVars
<1>2. CASE \E p \in Advancers : AdvancerStep(p)
  <2>1. PICK p \in Advancers : AdvancerStep(p)
    BY <1>2
  <2>2. p # Requester
    BY ProcsFacts
  <2> QED
    BY <2>1, <2>2 DEF AdvancerStep, ReadRecord, PlanAdvance, SubmitReady,
       CheckActive, Settle, PlanCancel, CancelUnrecorded, EndCancel, Ack,
       requestVars
<1>3. CASE RequesterStep
  BY <1>3 DEF RequesterStep, SkipAnswered, HandleStart, SubmitRoot,
     HandleRerun, ReadRecord, PlanRerun, SwapRun, Resubmit, HandleCancel,
     SettleCancelled, PlanCancel, CancelUnrecorded, EndCancel, WriteAnswer,
     requestVars
<1>4. CASE \/ TriggerStep \/ Terminates \/ Reconcile
           \/ \E w \in EventWorkers : HandleEvent(w)
  BY <1>4, ProcsFacts DEF TriggerStep, HandleTrigger, SubmitRoot, Ack,
     Terminates, Terminate, Reconcile, HandleEvent, requestVars
<1>5. CASE PassStep \/ FailPass \/ Tick
  BY <1>5 DEF PassStep, ExpireRun, ExpireRequest, DropEntry, RemoveRun,
     RemoveRequest, FailPass, Tick, requestVars
<1>6. CASE \E p \in Procs : Fail(p)
  BY <1>6 DEF Fail
<1> QED
  BY <1>1, <1>2, <1>3, <1>4, <1>5, <1>6 DEF Next

\* The request worker comes to its acknowledgement by a record.
LEMMA WorkerAcks ==
  ASSUME TypeInv, RequesterStep, proc'[Requester].at = "ack", HasOutcome
  PROVE  /\ UNCHANGED acked
         /\ \/ answers[Job].outcome # "none"
            \/ \E o, t : o # "none" /\ Record(Job, o, t)
<1> DEFINE k == proc[Requester]
           l == proc'[Requester]
<1>1. k \in Local /\ \A x : Step(Requester, x) => l = x
  BY ProcsFacts DEF Step, TypeInv, TypeOK
<1>2. CASE SkipAnswered
  BY <1>2 DEF SkipAnswered, requestVars, Job
<1>3. CASE HandleStart
  <2>1. \/ l = [Idle EXCEPT !.at = "roots", !.todo = Roots(Graph),
                            !.outcome = "started", !.time = now]
        \/ l = [Answering("unchanged") EXCEPT !.at = "answer"]
    BY <1>1, <1>3 DEF HandleStart, StartRun
  <2> QED
    BY <2>1 DEF Answering, Idle
<1>4. CASE SubmitRoot(Requester)
  <2>1. PICK n \in Nodes :
          l = [k EXCEPT !.at = IF k.todo # {n} THEN "roots"
                               ELSE IF Requester = Requester THEN "answer"
                               ELSE "ack",
                        !.todo = @ \ {n}]
    BY <1>1, <1>4 DEF SubmitRoot
  <2> QED
    BY <1>1, <2>1 DEF Local
<1>5. CASE HandleRerun \/ HandleCancel
  <2>1. \/ l = Answering("refused")
        \/ l = [Reading("rerun", {}, {requests[Job].node}) EXCEPT !.time = now]
        \/ l = [Answering("none") EXCEPT !.at = "settleCancelled", !.run = run]
    BY <1>1, <1>5 DEF HandleRerun, HandleCancel
  <2> QED
    BY <2>1 DEF Answering, Reading, Idle
<1>6. CASE ReadRecord(Requester) \/ PlanCancel(Requester) \/ EndCancel(Requester)
  <2>1. \/ \E n : l = [k EXCEPT !.recs[n] = recs[n], !.todo = @ \ {n}]
        \/ \E t : l = [k EXCEPT !.at = "cancel", !.todo = t]
        \/ \E o : l = [k EXCEPT !.at = "answer", !.outcome = o]
    BY <1>1, <1>6 DEF ReadRecord, PlanCancel, EndCancel
  <2>2. k.at \in {"records", "cancel"}
    BY <1>6 DEF ReadRecord, PlanCancel, HasRead, EndCancel
  <2> QED
    BY <1>1, <2>1, <2>2 DEF Local
<1>7. CASE CancelUnrecorded(Requester)
  <2>1. \E n : l = [k EXCEPT !.todo = @ \ {n}]
    BY <1>1, <1>7 DEF CancelUnrecorded
  <2>2. k.at = "cancel"
    BY <1>7 DEF CancelUnrecorded
  <2> QED
    BY <1>1, <2>1, <2>2 DEF Local
<1>8. CASE PlanRerun \/ SwapRun
  <2>1. PICK at \in {"answer", "resubmit", "swap"} :
          \/ l = [k EXCEPT !.at = at, !.outcome = "refused"]
          \/ l = [k EXCEPT !.at = at]
          \/ l = Idle
    BY <1>1, <1>8 DEF PlanRerun, SwapRun
  <2>2. /\ [k EXCEPT !.at = at, !.outcome = "refused"].at = at
        /\ [k EXCEPT !.at = at].at = at
        /\ at # "ack" /\ Idle.at # "ack"
    BY <1>1 DEF Local, Idle
  <2> QED
    BY <2>1, <2>2
<1>9. CASE SettleCancelled
  <2>1. \/ l = [k EXCEPT !.at = "records", !.then = "cancel", !.todo = Nodes]
        \/ l = [k EXCEPT !.at = "answer", !.outcome = "refused"]
    BY <1>1, <1>9 DEF SettleCancelled
  <2> QED
    BY <1>1, <2>1 DEF Local
<1>10. CASE Resubmit
  <2>1. \/ Record(Job, "rerun", k.time)
        \/ l = [k EXCEPT !.at = "answer", !.outcome = "refused"]
    BY <1>1, <1>10 DEF Resubmit
  <2>2. UNCHANGED acked
    BY <1>10 DEF Resubmit
  <2> QED
    BY <1>1, <2>1, <2>2 DEF Local
<1>11. CASE WriteAnswer
  BY <1>11 DEF WriteAnswer, HasOutcome
<1>12. CASE Ack(Requester)
  BY <1>1, <1>12 DEF Ack, Idle
<1> QED
  BY <1>2, <1>3, <1>4, <1>5, <1>6, <1>7, <1>8, <1>9, <1>10, <1>11, <1>12
  DEF RequesterStep

LEMMA AcksNext ==
  ASSUME AnswerInv, AcksAnswered, [Next]_vars, [AnswersStay]_vars
  PROVE  AcksAnswered'
<1> SUFFICES ASSUME proc'[Requester].at = "ack"
             PROVE  answers'[Job'].outcome # "none"
  BY DEF AcksAnswered
<1>0. /\ TypeInv /\ HasOutcome
      /\ answers' = answers \/ AnswersStay
      /\ proc[Requester].at # "idle" => Job \in DOMAIN answers
  BY JobFacts DEF AnswerInv, TypeInv, TypeOK, vars, requestVars
<1>1. CASE ~RequesterStep
  BY <1>0, <1>1, WorkerAlone DEF Idle, AcksAnswered, AnswersStay, Job
<1>2. CASE RequesterStep
  <2>1. /\ UNCHANGED acked
        /\ \/ answers[Job].outcome # "none"
           \/ \E o, t : o # "none" /\ Record(Job, o, t)
    BY <1>0, <1>2, WorkerAcks
  <2>2. Job \in DOMAIN answers
    <3>1. CASE proc[Requester].at # "idle"
      BY <1>0, <3>1
    <3>2. CASE SkipAnswered
      BY <1>0, <3>2 DEF SkipAnswered, TypeInv, TypeOK, Job
    <3>3. CASE HandleStart \/ HandleRerun \/ HandleCancel
      BY <1>0, <3>3 DEF HandleStart, HandleRerun, HandleCancel, IsNext,
                        TypeInv, TypeOK, Job
    <3> QED
      BY <1>2, <3>1, <3>2, <3>3 DEF RequesterStep, SubmitRoot, ReadRecord,
         PlanRerun, HasRead, SwapRun, Resubmit, SettleCancelled, PlanCancel,
         CancelUnrecorded, EndCancel, WriteAnswer, Ack
  <2>3. CASE answers[Job].outcome # "none"
    BY <1>0, <2>1, <2>2, <2>3 DEF AnswersStay, Job
  <2>4. ASSUME NEW o, NEW t, o # "none", Record(Job, o, t)
        PROVE  answers'[Job].outcome # "none"
    <3>1. answers'[Job] = [outcome |-> o, time |-> t]
      BY <2>2, <2>4 DEF Record
    <3> QED
      BY <2>4, <3>1
  <2> QED
    BY <2>1, <2>3, <2>4 DEF Job
<1> QED
  BY <1>1, <1>2

\* A step of the scheduler under a command that waits.
LEMMA DoneStep ==
  ASSUME DoneInv, SchedulerStep, [AnswersStay]_vars
  PROVE  DoneInv'
<1>0. /\ AnswerInv /\ AnswerInv' /\ TypeInv /\ TypeInv' /\ AcksAnswered'
      /\ [Next]_vars /\ WaiterType
      /\ \A q \in DOMAIN answers :
           q \in DOMAIN answers' /\
           (answers[q].outcome # "none" => answers'[q].outcome # "none")
  <2>1. AnswerInv' /\ AcksAnswered'
    BY NextAnswers, AcksNext DEF SchedulerStep, DoneInv
  <2>2. \A q \in DOMAIN answers : answers[q].outcome # "none" =>
                                    answers'[q].outcome # "none"
    BY DEF AnswersStay, vars, requestVars
  <2>3. DOMAIN answers \subseteq DOMAIN answers'
    <3>1. TypeInv /\ TypeInv' /\ [Next]_vars
      BY <2>1 DEF DoneInv, AnswerInv, SchedulerStep
    <3>2. Len(requests') >= Len(requests)
      BY <3>1, RequestsMove DEF Send, TypeInv, TypeOK
    <3> QED
      BY <3>1, <3>2 DEF TypeInv, TypeOK
  <2> QED
    BY <2>1, <2>2, <2>3 DEF DoneInv, AnswerInv, SchedulerStep
<1>1. CASE waiter.at # "none"
  <2>1. waiter' = [waiter EXCEPT !.dead = @ \/ DeadLetters]
    BY <1>1 DEF SchedulerStep
  <2>2. /\ waiter'.at = waiter.at /\ waiter'.request = waiter.request
        /\ waiter'.dead = (waiter.dead \/ DeadLetters)
        /\ WaiterType'
    BY <1>0, <2>1 DEF WaiterType
  <2>3. IsApplied => IsApplied'
    BY <1>0, <1>1, <2>2 DEF DoneInv, DoneHasRecord, IsApplied, Asked
  <2>4. ASSUME Asked <= acked', ~waiter'.dead PROVE IsApplied'
    <3>1. CASE Asked <= acked
      BY <1>1, <2>2, <2>3, <3>1, <2>4 DEF DoneInv, DoneHasRecord
    <3>2. CASE ~(Asked <= acked)
      <4>1. acked \in Nat /\ Asked \in Nat
        BY <1>0 DEF TypeInv, TypeOK, WaiterType, Asked
      <4>2. CASE Ack(Requester)
        <5>1. acked' = acked + 1 /\ proc[Requester].at = "ack"
          BY <4>2 DEF Ack
        <5>2. Asked = Job
          BY <3>2, <2>4, <4>1, <5>1 DEF Job
        <5>3. IsApplied
          BY <5>1, <5>2 DEF DoneInv, AcksAnswered, IsApplied
        <5> QED
          BY <2>3, <5>3
      <4>3. CASE Fail(Requester)
        <5>1. faults' = faults + 1 /\ (acked' = acked \/ acked' = acked + 1)
          BY <4>3 DEF Fail
        <5>2. acked # Asked /\ acked' = Asked /\ faults' # faults
          BY <1>0, <3>2, <2>4, <4>1, <5>1 DEF TypeInv, TypeOK
        <5> QED
          BY <2>2, <2>4, <5>2 DEF DeadLetters
      <4> QED
        BY <1>0, <3>2, <2>4, <4>2, <4>3, AcksMoves
    <3> QED
      BY <3>1, <3>2
  <2> QED
    BY <1>0, <1>1, <2>2, <2>3, <2>4 DEF DoneInv, DoneHasRecord, Asked
<1>2. CASE waiter.at = "none" /\ requests' = requests
  BY <1>0, <1>2 DEF SchedulerStep, DoneInv, DoneHasRecord, WaiterType
<1>3. CASE waiter.at = "none" /\ requests' # requests
  <2>1. /\ waiter' = [at |-> "record", request |-> Len(requests'), dead |-> FALSE]
    BY <1>3 DEF SchedulerStep
  <2>2. Send
    BY <1>0, <1>3, RequestsMove
  <2>3. /\ Len(requests') = Len(requests) + 1 /\ Len(requests) \in Nat
        /\ acked' = acked /\ acked \in Nat /\ acked <= Len(requests)
        /\ DOMAIN answers' = 1..Len(requests')
    BY <1>0, <2>2 DEF Send, TypeInv, TypeOK
  <2> QED
    BY <1>0, <2>1, <2>3 DEF DoneInv, DoneHasRecord, WaiterType, Asked
<1> QED
  BY <1>1, <1>2, <1>3

LEMMA WaiterNext ==
  ASSUME DoneInv, WaiterStep
  PROVE  DoneInv'
<1>0. /\ AnswerInv /\ AnswerInv' /\ AcksAnswered' /\ WaiterType
      /\ UNCHANGED <<answers, acked>>
  <2>1. UNCHANGED vars
    BY DEF WaiterStep, ReadRequestRecord, ReadJob, ReadRecordAgain, ReadNext
  <2>2. AnswerInv' /\ UNCHANGED <<answers, acked, proc>>
    BY <2>1, NextAnswers DEF DoneInv, vars, requestVars
  <2> QED
    BY <2>2 DEF DoneInv, AcksAnswered, Job
<1>1. PICK at \in {"none", "record", "job", "again"} :
        /\ waiter' = IF at = "none" THEN NotWaiting ELSE [waiter EXCEPT !.at = at]
        /\ at = "again" => IsApplied
        /\ waiter.at # "none"
  <2>1. acked \in Nat /\ Asked \in Nat
    BY <1>0 DEF AnswerInv, TypeInv, TypeOK, WaiterType, Asked
  <2>2. CASE ReadRequestRecord \/ ReadRecordAgain
    <3>1. PICK at \in {"none", "record", "job"} : ReadNext(at)
      BY <2>2 DEF ReadRequestRecord, ReadRecordAgain
    <3> QED
      BY <2>2, <3>1 DEF ReadRequestRecord, ReadRecordAgain, ReadNext
  <2>3. CASE ReadJob
    <3>1. PICK at \in {"none", "record", "again"} :
            ReadNext(at) /\ (at = "again" => ~(Asked > acked) /\ ~waiter.dead)
      BY <2>3 DEF ReadJob
    <3> QED
      BY <2>1, <2>3, <3>1 DEF ReadJob, ReadNext, DoneInv, DoneHasRecord
  <2> QED
    BY <2>2, <2>3 DEF WaiterStep
<1>2. CASE at = "none"
  BY <1>0, <1>1, <1>2 DEF NotWaiting, DoneInv, DoneHasRecord, WaiterType
<1>3. CASE at # "none"
  <2>1. /\ waiter'.at = at /\ waiter'.request = waiter.request
        /\ waiter'.dead = waiter.dead /\ WaiterType'
    BY <1>0, <1>1, <1>3 DEF WaiterType
  <2> QED
    BY <1>0, <1>1, <2>1 DEF DoneInv, DoneHasRecord, Asked, IsApplied
<1> QED
  BY <1>2, <1>3

\* While its record is not removed, a command that waits for a request never
\* finds its job done and its record missing: the worker records before it
\* acknowledges, and a job that ends without a record is dead-lettered
\* (status.rs, request; request.rs, request_effects).
THEOREM DoneRequestsAreShown ==
  WaitSpec /\ [][AnswersStay]_vars => DoneIsShown
<1>1. WaitInit => DoneInv
  <2> SUFFICES ASSUME WaitInit PROVE DoneInv
    OBVIOUS
  <2>1. proc[Requester] = Idle /\ AnswerInv
    BY ProcsFacts, InitAnswers DEF WaitInit, Init
  <2> QED
    BY <2>1 DEF WaitInit, NotWaiting, Idle, DoneInv, AcksAnswered, WaiterType,
                DoneHasRecord
<1>2. DoneInv /\ [WaitNext]_waitVars /\ [AnswersStay]_vars => DoneInv'
  <2>1. CASE UNCHANGED waitVars
    <3>1. UNCHANGED vars /\ UNCHANGED waiter
      BY <2>1 DEF waitVars
    <3>2. AnswerInv => AnswerInv'
      BY <3>1, NextAnswers
    <3>3. UNCHANGED <<answers, acked, proc>>
      BY <3>1 DEF vars, requestVars
    <3> QED
      BY <3>1, <3>2, <3>3 DEF DoneInv, AcksAnswered, WaiterType, DoneHasRecord,
                              Asked, IsApplied, Job
  <2> QED
    BY <2>1, DoneStep, WaiterNext DEF WaitNext
<1>3. DoneInv /\ [WaitNext]_waitVars
        => [waiter.at = "again" => waiter'.at \in {"again", "none"}]_waitVars
  <2> SUFFICES ASSUME DoneInv, WaitNext, waiter.at = "again"
               PROVE  waiter'.at \in {"again", "none"}
    OBVIOUS
  <2>1. CASE SchedulerStep
    BY <2>1 DEF SchedulerStep, DoneInv, WaiterType
  <2>2. CASE WaiterStep
    BY <2>2 DEF WaiterStep, ReadRequestRecord, ReadJob, ReadRecordAgain,
                ReadNext, NotWaiting, DoneInv
  <2> QED
    BY <2>1, <2>2 DEF WaitNext
<1> QED
  BY <1>1, <1>2, <1>3, PTL DEF WaitSpec, DoneIsShown
=============================================================================
