----------------------------- MODULE Scheduler -----------------------------
(***************************************************************************)
(* The scheduler: the event workers, the reconciler, the request worker,   *)
(* the triggers worker and the retention pass over one graph run, with     *)
(* every await of theirs a step of its own.                                *)
(***************************************************************************)
EXTENDS RetentionPass

Init ==
  /\ run = NoRun
  /\ recs = NoRecords
  /\ active = {}
  /\ terminated = {}
  /\ events = {}
  /\ expiry = {}
  /\ requests = <<>>
  /\ answers = <<>>
  /\ acked = 0
  /\ now = 1
  /\ proc = [p \in Procs |-> Idle]
  /\ pass = PassIdle
  /\ fired = 0
  /\ faults = 0

Advancers == EventWorkers \cup {Reconciler}

\* What an event worker or the reconciler does once it has read the run.
AdvancerStep(p) ==
  \/ ReadRecord(p)
  \/ PlanAdvance(p)
  \/ SubmitReady(p)
  \/ CheckActive(p)
  \/ Settle(p)
  \/ PlanCancel(p)
  \/ CancelUnrecorded(p)
  \/ EndCancel(p)
  \/ Ack(p)

RequesterStep ==
  \/ SkipAnswered
  \/ HandleStart
  \/ SubmitRoot(Requester)
  \/ HandleRerun
  \/ ReadRecord(Requester)
  \/ PlanRerun
  \/ SwapRun
  \/ Resubmit
  \/ HandleCancel
  \/ SettleCancelled
  \/ PlanCancel(Requester)
  \/ CancelUnrecorded(Requester)
  \/ EndCancel(Requester)
  \/ WriteAnswer
  \/ Ack(Requester)

TriggerStep == HandleTrigger \/ SubmitRoot(Trigger) \/ Ack(Trigger)

PassStep ==
  \/ ExpireRun
  \/ ExpireRequest
  \/ DropEntry
  \/ RemoveRun
  \/ RemoveRequest

Terminates == \E i \in active, status \in Terminal : Terminate(i, status)

Next ==
  \/ Send
  \/ Terminates
  \/ \E w \in EventWorkers : HandleEvent(w)
  \/ Reconcile
  \/ \E p \in Advancers : AdvancerStep(p)
  \/ RequesterStep
  \/ TriggerStep
  \/ PassStep
  \/ \E p \in Procs : Fail(p)
  \/ FailPass
  \/ Tick

Spec == Init /\ [][Next]_vars


\* What the daemon keeps doing, and that the pools end a cancelled task
\* instance.  tokio polls every future of run in turn, the reconciler has an
\* interval and the workers poll their queues.  A sender owes nothing, and a
\* process that keeps failing owes nothing either: the failures are bounded.
Fairness ==
  /\ \A w \in EventWorkers : WF_vars(HandleEvent(w) \/ AdvancerStep(w))
  /\ WF_vars(Reconcile \/ AdvancerStep(Reconciler))
  /\ WF_vars(RequesterStep)
  /\ WF_vars(SubmitRoot(Trigger) \/ Ack(Trigger))
  /\ WF_vars(PassStep)
  /\ WF_vars(\E i \in active : i.cancel /\ Terminate(i, "cancelled"))

FairSpec == Spec /\ Fairness

\* The operators end their task instances too.
TasksEndSpec == FairSpec /\ WF_vars(Terminates)

-----------------------------------------------------------------------------
(* Safety *)

\* A complete run has a current succeeded record of every node, as records.rs
\* says of GraphRunState::Complete: no settle on a stale snapshot writes the
\* complete state over a rerun (scheduler.rs, settle against rerun_with).
CompleteIsSound ==
  run.state = "complete" =>
    \A n \in Nodes : recs[n].status = "succeeded" /\ IsCurrent(run, n, recs[n])

\* No task instance of a complete run is active: none can change a record
\* after the settle looked for it (scheduler.rs, settle and run_is_active).
CompleteIsQuiet == run.state = "complete" => active = {}

\* No task instance of a failed run is active, as records.rs says of
\* GraphRunState::Failed (scheduler.rs, settle and run_is_active).
FailedIsQuiet == run.state = "failed" => active = {}

\* With reruns too, a failed run leaves no first task instance active: a node
\* that has become blocked may still run, and the settle looks that up
\* (scheduler.rs, the comment in settle).  This is so with the reconciler
\* alone; an event worker with older records may submit after the settle.
FailedLeavesNoFirst ==
  run.state = "failed" => \A i \in active : i.rerun > 0

\* An expected rerun count refers to a record and is the next count at most, so
\* the count that a submit uses reaches it and the run cannot wait for a count
\* that no task instance has (scheduler.rs, rerun_with and settle).
ExpectedIsReachable ==
  \A n \in Nodes : run.expected[n] > 0 =>
    recs[n].status # "absent" /\ run.expected[n] <= recs[n].rerun + 1

\* A node has one active task instance at most, and it is the one after the
\* node's record, so no record is overwritten by that of an older rerun
\* whatever stale records a submit was based on (scheduler.rs, advance and
\* rerun_with; hook.rs, stage_effects).
LatestInstanceOnly ==
  /\ \A i, j \in active : i.node = j.node => i = j
  /\ \A i \in active : i.rerun = NextRerun(recs, i.node)

\* In a complete run every node with the all-succeeded rule ran on the present
\* outputs of its upstreams (scheduler.rs, the comment of rerun).
OutputsAreFresh ==
  run.state = "complete" =>
    \A n \in Nodes : Graph.rule[n] = "all_succeeded" =>
                       recs[n].basis = BasisFrom(Graph, n, recs)

\* A settled run has its expiry entry, so the retention pass reaches every run
\* whatever was rerun, settled or dropped before (scheduler.rs, commit_settled;
\* retention.rs, expire_run).
SettledHasEntry == run.settled # 0 => RunEntry(run.settled) \in expiry

\* A request record has its expiry entry (request.rs, request_effects).
AnswerHasEntry ==
  \A q \in DOMAIN answers :
    answers[q].outcome # "none" => RequestEntry(answers[q].time, q) \in expiry

-----------------------------------------------------------------------------
(* Steps *)

\* A cancel request settles an active run and is refused only when the run is
\* not active at that moment, also when a settle or a rerun came between its
\* read and its write (scheduler.rs, cancel_run).
CancelDecides ==
  [][(acked < Len(requests) /\ requests[Job].kind = "cancel") =>
       LET outcome == proc'[Requester].outcome
       IN /\ (outcome = "refused" /\ proc[Requester].outcome # "refused") =>
               run.state # "active"
          /\ (run'.state = "cancelled" /\ run' # run) => run.state = "active"]_vars

-----------------------------------------------------------------------------
(* Refinement *)

Lifecycle == INSTANCE RunLifecycle WITH
  state <- run.state, requested <- run.requested, settled <- run.settled

\* The run record behaves as RunLifecycle says, whatever the processes read
\* before their writes (scheduler.rs, start_run, rerun_with, commit_settled;
\* retention.rs, expire_run).
ImplementsLifecycle == Lifecycle!Spec

\* A run that has not started reads as an active one without records.
Progress == INSTANCE GraphProgress WITH
  Graphs <- {Graph}, MaxReruns <- 0, graph <- Graph, reruns <- 0,
  run <- [state |-> IF run.state = "absent" THEN "active" ELSE run.state,
          settled |-> 0, expected |-> run.expected]

\* Without reruns and cancels, the concurrent processes and their failures
\* behave as the sequential readiness rule: a node runs once, when it is ready,
\* and the run settles as its records say (scheduler.rs, advance and settle).
ImplementsProgress == Progress!Spec

-----------------------------------------------------------------------------
(* Liveness *)

\* An active run settles once its task instances end, also after a lost event
\* and after a crash between the two writes of a rerun (scheduler.rs, module
\* comment).
ActiveSettles == run.state = "active" ~> run.state # "active"

\* The task instances of a cancelled run end, including one that a stale
\* snapshot submits after the cancel (scheduler.rs, reconcile).
CancelledGoesQuiet ==
  run.state = "cancelled" ~> active = {} \/ run.state # "cancelled"

\* A due expiry entry is removed, with its record or as stale (retention.rs).
DueEntriesGo ==
  \A t \in 1..MaxTime, q \in 0..MaxRequests :
    [time |-> t, request |-> q] \in expiry /\ IsDue([time |-> t, request |-> q])
      ~> [time |-> t, request |-> q] \notin expiry

-----------------------------------------------------------------------------
(* Claims of the comments that the code does not keep (README, Findings) *)

\* The rerun requests, so far, of a node whose rerun runs n again.
RerunRequests(n) ==
  {q \in DOMAIN requests : /\ requests[q].kind = "rerun"
                           /\ n \in RerunScope(Graph, requests[q].node)}

\* No task instance runs at a rerun count that no request asked for: a request
\* job that is delivered a second time after a crash does not submit a second
\* task instance (request.rs, module comment).
RerunsAreRequested ==
  \A i \in active : i.rerun <= Cardinality(RerunRequests(i.node))

\* The input of a task instance that has the record of an upstream has the
\* output that this upstream ran on too, when it is one of its own upstreams
\* (input.rs, TaskInput: the output of each upstream with a succeeded record).
InputsIncludeSucceeded ==
  \A i \in active : \A v \in Graph.up[i.node] :
    (i.basis[v] > 0 /\ Graph.rule[v] = "all_succeeded") =>
      \A u \in Graph.up[i.node] \cap Graph.up[v] : i.basis[u] > 0

\* No task instance is submitted for a cancelled run (records.rs,
\* GraphRunState::Cancelled).
CancelledSubmitsNothing ==
  [][run.state = "cancelled" => active' \subseteq
       active \cup {[i EXCEPT !.cancel = TRUE] : i \in active}]_vars
=============================================================================
