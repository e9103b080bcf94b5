# TLA+ model of the swale scheduler

swale runs graphs of tasks: a daemon starts a run of a graph for a partition, submits every node
when its upstreams satisfy its trigger rule, and settles the run when no node is left to run. All of
its state is in one key-value store with queues (taquba) and in the runtimes of taquba_workflow,
which are libraries outside the repository. Nothing in swale holds a lock across an `await`: every
handler reads records, computes, and writes later under a compare, or does not compare at all. The
model is about what those interleavings, and the crashes between the steps, can do to a run.

The paths below are under `src/swale/src/`.

## 1. Inventory

| Component | Source | State it keeps | Operations |
|---|---|---|---|
| Readiness rule | readiness.rs, task.rs | none | `is_ready`, `node_states`, `settled_state`, `rerun_scope`, `current_records`, `unrecorded_run_id` |
| Records | records.rs | graph record, run record, node record, request record, expiry entries | read, compare and write in transactions of the queue |
| Scheduler | scheduler.rs | none of its own; snapshots of the records across awaits | `start_run`, `handle_trigger`, `handle_event`, `reconcile` with `advance`, `settle`, `cancel_nodes`; `rerun_with`, `cancel_run` |
| Terminal hook | hook.rs | none | writes the node record and the event with the termination of a task instance |
| Request worker | request.rs | request records | applies one request job at a time, records its outcome |
| Retention pass | retention.rs | expiry index | removes due runs and requests, drops stale entries |
| Mapped nodes | dispatch.rs | run groups of the runtime | `run_mapped`: submit, poll, replace, reset and cancel of the group of members |
| Graph definition | graph.rs, definition.rs, template.rs, input.rs, partition.rs, duration.rs | none | parsing and validation, the input of a task instance, the rendering of its templates |
| Definition store, daemon | definition_store.rs, daemon.rs, store.rs | pointer objects, adopted graph records, cron schedules | publish, sync (adopt or refuse), replace schedules |
| Polling operators | operator/ | the poll state that a step hands to the next | poll, deadline, calls to programs, HTTP and object stores |
| Status | status.rs | none | derives node, instance and request states from several reads |
| Pools | pools.rs | one runtime per pool | submit, status, cancel |
| Command line | cli/ | none | sends requests and waits for them, prints status |

**How they interact.** A command puts a request in the inbox of the store, and a cron firing puts a job
in the triggers queue. Both start a run: the run record is written, then the root nodes are
submitted to the pools. A pool runs a task instance; its termination commits the node record and an
event in one transaction. An event worker reads the run and the node records and submits the ready
downstreams of the node, or settles the run when none is left. The reconciler does the same for all
nodes of every active run at an interval, and cancels the task instances of cancelled runs. A rerun
of a node writes into the run record the rerun counts it now expects, so older node records no
longer count (`current_records`), and submits the node at its next count. A settle and a cancel write
an expiry entry, by which the retention pass finds the run after the retention window.

**What is hard.** All of it is concurrency and failure: several processes with snapshots that are stale
when they are used; compare-and-swap on the bytes of the run record only; node records read one key
at a time; submits that compare nothing and lean on the deterministic run id; crashes between two
writes of one handler followed by a redelivery of the job and by a reconciler pass; clocks in the
expiry index; leases that end while their worker goes on; objects that anybody may write. `hazards` in
`PROJECT.json` lists 44 of these at their lines, with the properties that would notice, or why there is none.

**What makes each component correct.** *Readiness*: a run never gets stuck, a node is declared blocked
only for good, and a rerun makes everything downstream fresh. *Scheduler*: one task instance per node,
the one after its record; a settled run is what it says it is; an active run settles; a cancelled run
goes quiet. *Requests*: each is handled, once, and decides by the stored state. *Retention*:
nothing goes early, everything goes, and the groups of a run go with it. *Mapped nodes*: a node succeeds with
the outputs of all the present items in their order and with no member of an older item list, and no success is
run again; where a worker goes on without its lease, at least with all the outputs of one list. *Definition store and daemon*: two adopted graphs never materialise one asset, and an edit is adopted
or refused but not lost. *Polling*: a deadline is neither extended nor lost by a retry, a wait fails only when
nothing was there at its deadline, and a request, or a program that has read its stdin, is waited for no longer than its lease. *Status*: a reader never shows a request as
unknown while it moves from its job to its record, and a waiting command ends. *Graph definition*: what is built
is a graph, a reported cycle is one, and a checked template finds what it refers to.

## 2. Modules

| Module | What it models |
|---|---|
| `Readiness` | the pure functions of readiness.rs, `unrecorded_run_id`, and the run record of a rerun and of a settle, as operators on a graph `g`, a run record and a function of node records |
| `GraphProgress` | one run driven by those operators alone, each handler one step: the abstract specification of progress |
| `RunLifecycle` | the run record alone: absent, active, final and their times: the abstract specification of the record |
| `GraphRun` | the variables, the types, the runtimes (`SubmitNode`, `CancelInstance`, `Terminate`) and the transaction `CommitSettled` |
| `Advance` | the event workers and the reconciler, and what they share: reading, submitting, settling, cancelling, acknowledging, failing |
| `Requests` | sending and handling start, rerun and cancel requests, and the triggers worker |
| `RetentionPass` | the retention pass and the clock |
| `Scheduler` | the composition: `Init`, `Next`, fairness, every property, the two refinement mappings |
| `RequestStatus` | `Scheduler` with a command that sends a request and reads its state until it is decided (`--wait`) |
| `MapOutput` | what a mapped node promises: the abstract specification of `MappedNode` |
| `MappedNode` | the task instance of a mapped node and its group of members, call by call, with the cancel, the reconciler, the rerun, the retention pass and the calls of stalled workers between any two calls |
| `Adoption` | publishers, other tools, the sync pass of the daemon and its schedules over the objects of the store |
| `Polling` | the steps of an operator: leases, attempts, deadlines, timeouts, cancel, stalls and crashes |
| `Rendering` | templates and task inputs as operators |
| `Loading` | the loading of a definition: its checks, the search for a cycle node by node, the built graph, and then one node of that graph that renders its input |
| `SchedulerTypes_proofs` | the theorems on types, which the next two extend, one the other |
| `SchedulerLifecycle_proofs` | the refinement of `RunLifecycle`, the expiry entries of settled runs and of requests, the decision of a cancel, and the request that a command waits for |
| `SchedulerInstances_proofs` | the theorems on task instances and records: rerun counts, settled runs, and the refinement of `GraphProgress` |
| `GraphProgress_proofs` | the theorems on the readiness rule |
| `MappedNode_proofs` | the refinement of `MapOutput`, the successes that are kept, the removal of the group |
| `Adoption_proofs`, `Polling_proofs`, `Loading_proofs` | the theorems of those modules |
| `MCGraphProgress`, `MCScheduler`, `MCStatus`, `MCMappedNode`, `MCAdoption`, `MCPolling`, `MCLoading` | constants for TLC: all graphs of up to `MaxNodes` nodes; the graphs `Solo`, `Chain`, `Fallback` and the sets of requests; item lists, definitions, workers, files |

`GraphRun` EXTENDS `Readiness`, and `Advance`, `Requests`, `RetentionPass`, `Scheduler`, `RequestStatus` each EXTEND
the one before. `Scheduler` INSTANCEs `RunLifecycle` and `GraphProgress`, and `MappedNode` INSTANCEs `MapOutput`. `Rendering`
EXTENDS `Readiness`, for the readiness of the node that renders, and `Loading` EXTENDS `Rendering`. The modules meet in
`IsGraph` of `Readiness`: `Loading` builds such graphs, the others take one as given. Definitions marked `Mutant` stand before
the definition they are a wrong version of; nothing of the specification uses them.

### State and code: the scheduler

| Variable | In the code |
|---|---|
| `run` | the `GraphRunRecord` of one graph and partition. `expected` is `expected_reruns` with 0 for a node that is not listed; `settled` is the settle time, 0 for none |
| `recs` | the `NodeRecord` of every node. `basis` is not stored by the code: it is what the input of the task instance had of each upstream, kept for the properties |
| `active`, `terminated` | the task instances of the runtimes, by node and rerun count (the run id). A terminated id is known to the runtime for the memo retention |
| `events`, `requests`, `answers`, `acked`, `fired` | the jobs of the events, requests and triggers queues and the request records |
| `expiry`, `now` | the expiry index and the clock |
| `proc[p]` | the local variables of a handler between two awaits: where it is (`at`), its job, and the `run` and `recs` it has read |
| `pass` | the same for the retention pass |
| `faults` | counts failures, for their bound |

One step is what happens between two awaits. `HandleEvent` and `Reconcile` read the run; `ReadRecord`
reads one node record (`node_records` reads key by key); `PlanAdvance` is the pure part of `advance`;
`SubmitReady` is one submit of its loop; `CheckActive` is one lookup of `run_is_active`; `Settle` is the
transaction of `commit_settled`. `HandleRerun`, `PlanRerun`, `SwapRun`, `Resubmit` are the parts of
`rerun_with`, and `HandleCancel`, `SettleCancelled`, `PlanCancel`, `CancelUnrecorded`, `EndCancel` those of
`cancel_run`. `Ack` ends a job. `Fail(p)` ends a process at any point: an error of the store or
a runtime, or the death of the daemon as that process sees it. Its job stays (it is delivered again) or
goes (its last attempt failed); every process may fail on its own, which includes the failure of all. The
next pass or delivery starts from the stored records, as it does in the code.

Choices a reader should know:

- *One run.* Runs of other partitions share no record with this one, nor do those of other graphs, with one exception: the
  node record of an asset has no graph in its key (records.rs:66-68, 142-147), and `start_run` (scheduler.rs:262-302) does not
  clear it. A graph that takes over an asset of another one starts on the records that the other left, which is not
  modelled: `Init` has no records. A request for several partitions is applied to each in turn.
- *Two rules of the runtimes.* `taquba_workflow` refuses a submit under the id of an active task instance. The
  comment at scheduler.rs:7-8 relies on more, that a repeated submit never runs twice, which a runtime
  provides as long as it keeps the result of the terminated run (`memo_retention`, pools.rs:65-69).
  `RefuseTerminated` chooses between the two; the runs set it to TRUE. Removing a run's records clears
  `terminated`, since the records outlive the results. With FALSE a stale process submits
  a terminated task instance again, and `LatestInstanceOnly` and `CompleteIsSound` fail; `SettledHasEntry`,
  `AnswerHasEntry` and `ImplementsLifecycle` were checked with FALSE too and hold.
- *Events.* An event of a task instance that is still queued absorbs an equal one, as the dedup key of
  hook.rs does. A lost event is an event no worker takes: in the run `alone` there is no worker.
- *Order.* Node records are read, and nodes submitted, in definition order. The code takes the
  downstreams of an event in the order of their names; in the graphs of the runs the two orders are one.
- *Retention.* The command line accepts a retention of zero, so `Retention` may be any natural number.
- *A waiting command.* `RequestStatus` is the scheduler with one more reader. `waiter` is where the command is
  between the reads of one look at its request: the record, the job, the record again. `dead` says that the
  job was dead-lettered. The rejection of a request by the inbox comes before the job and is left out.

### State and code: mapped nodes

| Variable | In the code |
|---|---|
| `inst` | the latest task instance of the node: the step that is delivered (`phase`, the JSON state of the step), the call that the worker with the lease comes to (`at`), its attempts, whether it is cancelled (`token`), its rendered items and its output |
| `stray[w]` | a worker that has lost its lease and goes on: the call it comes to, the items of its step, whether its cancel token was set. The instance of its step may have ended |
| `late` | not in the code: the items of such workers since the present instance began |
| `group` | the run group of the runtime: the members in item order, each with its input, its state and whether its result is still kept |
| `run`, `cancel`, `pass` | the run record as far as the node sees it, the cancel of a run (`cancel_active_runs`), and the retention pass around `forget_groups` |
| `won` | not in the code: the positions that succeeded on the present items, which must not run again; none once a worker has gone on without its lease |

Every call of `run_mapped` to its run group is an action, so a crash, an error, the cancel and the pass come between any two:
`Submit`, `StatusOfReplaced`, `CancelReplaced`, `ForgetReplaced`, `Resubmit` are the submit step; `Submitted` and `Polled`
the look at the cancel token; `Poll` and `Results` the poll; `DiscardGroup`, `ForgetGroup` and `Succeed` the end. `StepFails` and
`CallRefused` end a step with an error or a crash: it is delivered again from its first call, until its
attempts are used up. `run_mapped` never extends its lease, so a worker may also stall before any call (`StepStalls`) and go on, at any time
later, beside the worker that the step is delivered to or beside a later instance: `StraySubmits`, `StrayReads`, `StrayCancels` and
`StrayForgets` are its calls, which act on the group as it is then, and `StrayEnds` drops its outcome. The run group is part of taquba_workflow; what the actions assume of it is in the head of the module.
The abstract specification `MapOutput` has no group: items, positions done, state, output.

### State and code: definitions, operators

- `Adoption`: `pointers` and `objects` are the objects of the definition store, where a definition stands for its hash;
  `records` the graph records; `registered` what the cron scheduler was last given. A publisher or the pass
  keeps in its local record which pointers it has still to read and what the others were; each read is a step, since
  nothing holds the store in between. `WritePointer` is any other tool. `Restart` picks another build of the
  daemon, one that loads or runs fewer definitions.
- `Polling`: `step` is the job of the present step with its attempts, its lease and its state (the deadline); `worker[w]` the
  local variables of a worker, with or without the lease. A program is `writing` from its spawn until its stdin is
  written, `running` inside the `select!` of `run_program`, and `reading` from its exit until its output has ended; only in the
  second of these the timeout, the extension of the lease and the cancel reach it. An answer of a program, a server or an object store is a choice. An outcome
  counts only while its worker has the lease. `Later` stops the clock at `MaxTime`, which stands for every later time.
- `Loading`: `marks`, `left` and `path` are the local variables of `find_cycle`; `problems` the errors that the loading
  collects. A text is the set of its references, a JSON value the set of its paths, a schedule the set of its firings: what
  parses a TOML file, a template or a cron expression is not modelled. `Submit` and `RunMember` then render one node of the built graph,
  on any records that make it ready.

## 3. Runs

| Run | Bounds | Properties | What it shows |
|---|---|---|---|
| `progress` | every graph of 1 to 3 nodes with every assignment of rules, up to 2 reruns | `NeverStuck`, `OutputsAreFresh`, `BlockedIsFinal`, `RerunBlocksNothing`, `EventuallySettles` | the readiness rule is right on its own. Three nodes hold every chain, fork and join of two upstreams, and two reruns hold a rerun that fails and is rerun (the case `expected_reruns` is retained for) |
| `plain` | `Fallback` (b after a, c when one of a and b fails), one event worker, a start request and a cron firing, one failure | `ImplementsProgress` | without reruns the concurrent processes implement `GraphProgress`: no node runs before it is ready, none twice, the run settles as its records say. In `Fallback` a snapshot can miss the success of a that b ran on (finding 3), which `GraphProgress` allows |
| `reruns` | `Chain`, one event worker, two requests among start and reruns of a or b at any time | `TypeOK`, `LatestInstanceOnly`, `ExpectedIsReachable` | stale snapshots of three processes never make two instances of a node, or one that is not the next |
| `alone` | `Chain`, no event worker, two requests, one failure, one command that waits | `CompleteIsSound`, `CompleteIsQuiet`, `FailedLeavesNoFirst`, `ActiveSettles`, `WaitEnds`, `DoneIsShown` | the reconciler alone brings a run to its end whatever events are lost and wherever a process fails, and settles none under a first task instance of a node that has become blocked; every request ends for the command that waits for it, which never sees it without a job and without a record |
| `cancel` | `Chain`, one event worker, a start and a cancel at any time, one failure | `FailedIsQuiet`, `CancelDecides`, `CancelledGoesQuiet` | a cancel wins or loses against a settle by the stored record, and what it missed is cancelled later |
| `retention` | `Solo`, reconciler, two requests, one failure, two ticks of the clock, retention 1 | `SettledHasEntry`, `ImplementsLifecycle`, `DueEntriesGo` | the pass and the settles, reruns and starts that come between its read and its write |
| `mapped` | item lists xy and none and a text that is no list, two attempts, one rerun, one failure, which may be a stall of a worker that then goes on, one result that the memo retention removes | `TypeOK`, `RemovedLeavesNoGroup`, `SuccessesAreKept`, `KeepsPromise`, `NodeEnds`, `CancelledNodeStops` | whatever group a rerun finds, whichever call fails, whenever the run is cancelled or expires: the node succeeds with the outputs of its own items, loses no success, ends, and stops when cancelled. Beside a worker that goes on without its lease it still succeeds with all outputs of one list, ends and stops (finding 15 is the rest) |
| `adoption` | an asset that two graphs can have, one publisher and other tools, three publishes, one failure or restart with fewer pools | `TypeOK`, `AdoptedShareNoAsset`, `SchedulesHaveRecords`, `PublishedIsAdopted` | no order of pointers, reads and failures adopts an asset twice or registers a schedule without a graph, and pointers that come to rest are adopted |
| `polling` | all five operators, two workers, two attempts, timeout 2, interval 1, lease 2, clock to 4, one stall or crash | `TypeOK`, `ExpiresJustly`, `DeadlineIsKept`, `InstanceEnds`, `CallsEnd` | a wait keeps its deadline through retries and stalled workers and expires only when nothing was there; every timed instance ends; a request, and a program between the end of its stdin and its exit, is waited for no longer than its lease and no further than its cancel. A program that does not read its stdin, or leaves its output open, is in the run and not bound by that (finding 13) |
| `loading` | every edge set of three tasks; every two sections with faults of names, assets, fields and parameters; the schedules of a calendar of three days of two hours of three minutes; every set of five texts and seven `each` on nodes with one or two upstreams | `BuiltIsSound`, `CyclesAreReal`, `OnlyPathsAreMissing`, `MembersRenderAlike` | what is built is a graph with the upstreams of its sections and without lost firings, a reported cycle is one, and the templates of a built graph miss only what no check can know |
| `stale_settle` | `Solo`, event worker and reconciler, a start and two reruns, each sent when the earlier is done | `CompleteIsSound`, violated | finding 1 |
| `stale_output` | `Chain`, a rerun at any time | `OutputsAreFresh`, violated | finding 2 |

Each property of a passing run has a mutant of the code (`mutants` in `PROJECT.json`) that the run detects.

**Bounds.** `MaxRequests`, `MaxFirings`, `MaxFaults`, `MaxTime` and `MaxReruns` bound what is unbounded in the
code, in the guards of `Send`, `HandleTrigger`, `Fail`, `FailPass`, `Tick` and `RerunNode`. `Patient` makes a sender wait for
the run to settle, which lets a run with more requests finish. Beyond the runs listed, `LatestInstanceOnly`
and `ExpectedIsReachable` were checked with a failure too (14.3 million states), and `CompleteIsSound`
without an event worker for three requests and one failure (1.2 million states). `CHECK_DEADLOCK` is
off where the system may stop: a scheduler without requests and with a settled run has nothing to do, nor has an ended
task instance.

The bounds of the other modules: the lists xy and none are replaced by each other and by themselves, so a rerun finds a
group to drop or to keep, with members that succeeded and others that did not; a second failure or rerun repeats what one does, since every
step starts again from the group alone, and a worker that has lost its lease is one more that acts on the group. Two
such workers and two failures were checked for safety with the lists x and y (3.6 million states). Two graphs and one asset are a conflict; three publishes move the asset from one
graph to the other and back. A deadline of 2 with an interval of 1 gives two polls before it, and the clock goes on to 4, so that a
stalled worker comes back after the deadline, the lease and the timeout. In `loading` three nodes hold
every cycle of length one to three and a node that is reached twice.

**Fairness of the scheduler.** Every process of the daemon has weak fairness on its own steps: tokio polls every future
that `Daemon::run` joins, the reconciler has an interval, the workers poll their queues. Failures are
bounded: a process that fails for ever owes nothing. Senders, triggers, ticks and, in `FairSpec`, task
instances have none, except that a cancelled task instance ends. `TasksEndSpec` adds that task instances end,
without which no run can settle; `ActiveSettles` and `EventuallySettles` use it. `WaitSpec` adds the polls of the waiting command.

**Fairness elsewhere.** `MappedNode`: the pools deliver and run steps, cancelled members stop, the cancel and the reconciler go
on, a run settles; that members end is a premise of `NodeEnds` alone. A worker without its lease need not go on. `Adoption`: the sync passes go on, and publishers and
other tools may stop anywhere. `Polling`: a free worker takes a queued step, a worker extends its lease and ends its call
when it has to, a stalled worker resumes, the lease of a lost worker ends, the clock goes on; no
program need ever read its stdin, exit or close its output, and no request answer, except the head request of `object_exists`, which has no timeout of its own.

## 4. Findings

1. *ABA in settle* (`stale_settle`). `commit_settled` compares the bytes of the run record with those its
   snapshot was read with. A settle drops the expected counts and a rerun of a failed node
   writes the active state again, which restores the same bytes. An event worker that read the records
   before both settles the run as complete over a failed record. It takes two processes that advance: the run `alone`, with the
   reconciler alone, does not find it.
2. *Rerun beside an active downstream* (`stale_output`). Only nodes with a record get an expected count. A
   downstream whose first instance is active when its upstream is rerun keeps its output of the old run, and the run completes.

Behaviours of the model that a comment or a document rules out or does not mention, without a run of their own. Where a definition is named,
TLC violates it on the instance given:

3. *Torn read of the node records*: `InputsIncludeSucceeded` (scheduler.rs:653 beside input.rs:27; `Fallback`, no rerun). A
   snapshot can have the failed record of b and miss the earlier succeeded record of a, so a one-failed node starts without the output of a.
4. *Redelivered rerun*: `RerunsAreRequested` (request.rs:12-13; `Chain`, one rerun, one failure). A crash after the run record is written
   and before the submit lets the reconciler and then the redelivered request run the node, once each.
5. *Submit after cancel*: `CancelledSubmitsNothing` (records.rs:221; `Chain`, one cancel). A process that read the run before the cancel
   submits afterwards. The reconciler cancels the instance later (`CancelledGoesQuiet`). Likewise a reconciler pass with
   the cancelled state in hand cancels an instance of the run that a rerun has reactivated (scheduler.rs:537).
6. *Rerun beside a settle*: `FailedIsQuiet` with reruns (records.rs:225). `rerun_with` of a failed node in a run that is still active finds the
   run record as it should be and writes nothing, so nothing is compared. A settle between its read and its
   submit leaves the run failed with an active task instance, and the event of that instance then finds a run
   that is not active. `FailedIsQuiet` therefore holds without reruns only (`cancel`). An event worker that read the records before a
   rerun failed may likewise submit a downstream after the settle, so `FailedLeavesNoFirst` holds with the reconciler alone (`alone`).
7. *Mapped node lost at its last call*: `RerunRunsTheRest` (README.md:121-123 says that a rerun runs only the members that did not
   succeed). The group is removed just before the success is recorded; when the worker is lost in between at the last attempt,
   the node fails, and its rerun runs every member again.
8. *Mapped node fails early*: `FailsOnceTerminated` (dispatch.rs:20-22). A status call that fails at the last attempt
   fails the node while members are active.
9. *A definition that stops loading* (daemon.rs:119; `Upgraded` in `MCAdoption`). A daemon whose build does not load an adopted
   definition fails every sync pass, so that no later publish of any graph is adopted. `PublishedIsAdopted` holds for daemons that load what
   they adopted.
10. *Assets that change places* (README.md:152-153; `TwoAssets`). Two graphs that exchange two assets are both refused for ever: each
    conflicts with the adopted definition of the other. `PublishedIsAdopted` holds with one asset.
11. *Racing publishes*: `PublishedShareNoAsset` (definition_store.rs:102-104; `TwoPublishers`). Two publishers check the assets of
    each other's old definitions. Adoption refuses one of the two (`AdoptedShareNoAsset`).
12. *Deadline of a first poll* (object_exists.rs:36, operator/mod.rs:243). A first poll that fails transiently has no state to leave, so the
    retry takes a new deadline. `DeadlineIsKept` is about the deadlines that a poll leaves.
13. *Outside the timeout*: `CallsEndWhole` (subprocess.rs:137, 162 beside the doc at 97-98: "The lease is extended while the program runs.
    `run_program` kills the program when the run is cancelled or when the run time of the program exceeds `timeout`"). A program that does not
    read its stdin holds its worker without a timeout, an extension of the lease or a cancel, and so does the open output of a
    program that has exited: the end of the output is awaited after the `select!`. The step is delivered to another worker
    when the lease ends, so `InstanceEnds` holds while the pool has more workers than the step has attempts, and `CallsEnd` is about the
    time in between alone. stdout is read to its end before stderr (subprocess.rs:129): a program that fills stderr first waits until its timeout.
14. *The waiting command* can report a failure of a request whose record was written just before its job was
    dead-lettered; and with a retention of zero a record may go between two of its reads, after which it waits on.
15. *A mapped node without its lease*: `SucceedsOnItems` (dispatch.rs:18-19, "Its output is the array of the member outputs in item order";
    the instance of `mapped` with the lists x and y). A worker that stalls before dispatch.rs:251 or 252 and loses its lease goes
    on when the step, or a later instance, has filled the group: it removes that group once its members have ended, and submits its own.
    The successes on the present items are lost, so `SuccessesAreKept` is said of instances without such a worker; and since
    the poll takes the results of the group as it finds it, a rerun can succeed with the outputs of the items of the earlier instance. They are
    never mixed (`KeepsPromise`). After the success of the node such a worker may also leave members that run on and that no cancel
    reaches, the exception in `CancelledNodeStops`; and after the retention window a group without a run, which `Patient` excludes.

## 5. Proofs

Every theorem holds for every value of the constants under the assumptions that the modules name: any graph, any
number of workers, publishers, items, attempts and failures, in any order. Each safety theorem rests on an inductive
invariant, with one lemma per action; an action that leaves the variables of a conjunct alone is covered by a frame lemma.

| Module | Theorem | Property | Conditions | Inductive invariant |
|---|---|---|---|---|
| `SchedulerTypes_proofs` | `TypesHold` | `TypeOK` | none | `TypeInv` |
| `SchedulerInstances_proofs` | `OneLatestInstance`, `ReachableCounts` | `LatestInstanceOnly`, `ExpectedIsReachable` | `RefuseTerminated`, `RecordsStay` | `InstancesInv` |
| | `SuccessesAreFinal` | `SuccessesStand` (not in a run) | the same two | `SuccessInv` |
| | `CompleteRunsAreSound`, `CompleteRunsAreQuiet` | `CompleteIsSound`, `CompleteIsQuiet` | the same two, `DropsAlone` | `CompleteInv` |
| | `FailedRunsAreQuiet`, `CompleteWithoutReruns` | `FailedIsQuiet`; `CompleteIsSound`, `CompleteIsQuiet` | the same two, `NoReruns`, `RootsReady` | `OnceInv` |
| | `FreshWithoutReruns` | `OutputsAreFresh` of the scheduler | the same two, `NoReruns`, `RootsReady` | `FreshOnceInv` |
| | `ProgressRefined` | `ImplementsProgress` | `RefuseTerminated`, `OnlyStarts`, `RootsReady`, `RunStays` | `PlainInv` |
| `SchedulerLifecycle_proofs` | `LifecycleRefined` | `ImplementsLifecycle` | none | `LifeInv` |
| | `SettledKeepsEntry` | `SettledHasEntry` | `Retention # 0` | `EntryInv` |
| | `AnswersKeepEntry` | `AnswerHasEntry` (not in a run) | none | `AnswerInv` |
| | `CancelsDecide` | `CancelDecides` | `RunStays` | `DecideInv` |
| | `DoneRequestsAreShown` | `DoneIsShown` | `AnswersStay` | `DoneInv` |
| `GraphProgress_proofs` | `RunIsNeverStuck`, `BlockedNodesStay`, `RerunNeverBlocks` | `NeverStuck`, `BlockedIsFinal`, `RerunBlocksNothing` | none | `ProgressInv` |
| | `CompleteRunIsFresh` | `OutputsAreFresh` | none | `FreshInv` |
| `MappedNode_proofs` | `MappedNodeKeepsPromise`, `MappedNodeTypes` | `KeepsPromise`, `TypeOK` | none | `NodeInv`, `StrayInv`, `RunTypes` |
| | `MappedNodeKeepsSuccesses` | `SuccessesAreKept` (which is said of instances without a late worker) | none | `NodeInv`, `KeepInv` |
| | `RemovalForgetsGroup` | `RemovedLeavesNoGroup` | `Patient` | `NodeInv`, `PassInv` |
| `Adoption_proofs` | `AdoptedNeverShare`, `SchedulesAreAdopted`, `AdoptionTypes` | `AdoptedShareNoAsset`, `SchedulesHaveRecords`, `TypeOK` | none | `AdoptionInv` |
| `Polling_proofs` | `NeverExpiresUnjustly`, `DeadlineStays`, `PollingTypes` | `ExpiresJustly`, `DeadlineIsKept`, `TypeOK` | none | `PollInv` |
| `Loading_proofs` | `ReportedCyclesAreReal` | `CyclesAreReal` | none | `LoadInv` |
| | `BuiltGraphIsSound` | `GraphIsSound` (in `BuiltIsSound`) | none | `LoadInv`, `ProblemsKept` |
| | `BuiltFiringsAreApart` | `BuiltIsSound` | `SchedulesRepeat` | `LoadInv` |
| | `TemplatesMissOnlyPaths`, `MembersAreRenderedAlike` | `OnlyPathsAreMissing`, `MembersRenderAlike` | none | `LoadInv`, `InputKept` |

- *Types.* `TypeOK` of the scheduler is not inductive: a settle writes the state it computes, which is a state of a run only because
  the process found the snapshot settled before (`SettlesSettled`), and the count of acknowledged requests stays
  within the requests only because the request worker is busy with one (`BusyWithRequest`).
- *Task instances.* `NextRerun` of a node, the count after its record, only grows. So no snapshot is ahead
  of the records (`SnapshotsOlder`): a stale one gives the next count or an earlier one, every earlier one has
  terminated (`EarlierTerminated`), and a runtime refuses the id of a terminated instance. What is left
  is the next one (`NextOnly`), and its id is refused while it is active (`OneEach`). The conditions are needed:
  without the first, or once the records of an expired run are gone, an old id is submitted again. `RecordsStay` is an
  assumption on the behaviours, stated as `[][RecordsStay]_vars`: it excludes a removal of node records, not the
  settle, the rerun or the other steps of the pass.
- *Complete runs.* What a process remembers of a succeeded record is the present record, or one that the run expects a successor of
  (`KeepsSuccess`): only a rerun replaces a success, and it writes the next count into the run record first. A settle whose compare passes
  therefore settles over present successes, unless the expected count was dropped in between. `DropsAlone` excludes just
  that, a settle that drops a count while another process is between its read of the run and its own settle. It is an assumption on the
  behaviours, like `RecordsStay`, and finding 1 is a behaviour without it. So finding 1 is not one of several ways to a false
  complete run but the only one, for any graph and any number of workers.
- *Runs without reruns.* `RunsOnce` says that every task instance is the first one of its node, so a record never changes and a
  snapshot is a part of the records. A node that is ready on a part stays ready (`ReadyGrows`), hence a node that a settle found
  blocked is not submitted by another process, and a failed run is quiet. `RootsReady` is needed because `start_run`
  submits the roots unseen: no node without upstreams has the one-failed rule.
- *The refinement of `GraphProgress`.* A termination is the step of `RunNode`, a settle that commits is `SettleRun`, and every other step
  is a stutter. What a task instance ran on is a snapshot, and a snapshot is not a past state of the
  records: the keys are read one by one, so it may have the record of b and miss the earlier one of a. `SawPart` says what is true of it: the
  instance was submitted on some part of the records on which its node is ready. `GraphProgress` says the same, in its `Seen`, and
  its theorems hold with it. A version in which a node runs on all records of the moment is refuted by TLC on `Fallback`.
  `FreshWithoutReruns` uses `SawPart` of the records too: a part on which an all-succeeded node is ready has all its upstreams.
- *Run record.* Every write of the run record compares it with the snapshot, so what a process knows of its snapshot
  (`KnowsState`: it is active before a settle, it exists before a rerun) holds of the record that it replaces. The
  removal is of a run whose settle time is that of a due entry (`KnowsExpired`).
- *Cancels and waiting commands.* Between the read and the write of a cancel only other processes write the run record, and those settle it:
  what makes a run active again is the request worker, which is busy (`CancelsCurrent`). A removal followed by a cron
  firing is the exception, which `RunStays` excludes. For `DoneIsShown`, the request worker comes to its acknowledgement only by a record
  (`AcksAnswered`), so a job that is done without one was dead-lettered. `AnswersStay`, that no request record is removed, is
  the condition of finding 14.
- *Expiry entries.* The pass drops an entry without a compare. `DropsStale` says why this is safe for runs: the entry is older
  than the clock, and a settle writes an entry at the clock, so no later settle can write the same one. With a retention
  window of zero an entry is due at the instant it is written; then a settle, a rerun and a second settle at
  one reading of the clock can lose the entry, and TLC finds that behaviour. The clock is taken not to go back. For requests
  the entries are exactly those of the records (`EntriesMatch`), so none is ever stale: the request worker handles only a request without
  a record (`HandlesUnanswered`), and the pass removes a record with the entry it has in hand (`PassMatches`).
- *The readiness rule.* `NodeStates` is recursive over the graph, and no induction over graphs is at hand. It is not needed: `IsGraph` says
  that no nonempty set of nodes lies wholly downstream of itself. Two assignments that satisfy the recursion agree, since a node of the
  set where they differ with no upstream in that set would satisfy it with two values; the union of the assignments on upstream-closed
  sets satisfies it everywhere (`StatesExist`, `StatesOfNodes`). The same shape of argument, on the set of the nodes
  that wait, gives `NeverStuck`, and on the set of the blocked nodes that a step would free, `BlockedIsFinal`. The scope of a rerun is
  the least closed set (`ScopeFacts`), so what a rerun expects is closed under the downstreams with the all-succeeded
  rule; `FreshInv` says that such a node is on the present outputs of its upstreams or is expected to run again.
- *Mapped nodes.* `NodeInv` says what the instance knows of its group at every call: after a submit the group has its inputs or
  is gone or was filled by a late worker, and a step that is about to record a success has a whole output of its own items or of a late
  worker's. `StrayInv` says that every stalled worker is counted as late, so that whatever it submits has items that `MapOutput` knows of.
  Every step is then a step of `MapOutput` or a stutter. `KeepInv` adds that while `won` is not empty the group has the items of the instance with every
  result kept, and that a call which removes the group has a reason; with a late worker nothing of this holds, and `won` is empty. For the removal with the run, `PassInv` follows the pass by the rerun count it has read: the
  compare fails when a rerun came in between. `Patient` is needed: an instance that outlives the retention window, or a stalled worker that does, submits a
  group after the pass. With it a removed run leaves neither behind (`Quiet`).
- *Adoption.* The pass compares a definition with what it has loaded and adopted itself, and that is what is adopted
  (`ComparesWithRecords`): only the pass writes graph records, a graph with a record keeps its pointer (`Pointed`), and the
  pass reads every pointer before it adopts (`ReadsAll`).
- *Polling.* What a worker with the lease has is the deadline of the step (`Working`), and an answer `waiting` was true at the
  start of its poll at least. `Passed` compares the start, so an expired wait found nothing at its deadline.
- *Loading.* `SearchInv` is the invariant of a depth-first search: the active nodes are those on the path, each an upstream of the
  one before it; an upstream that was looked at is done or next on the path; every nonempty set of done nodes has
  a member without an upstream in it. The last part, when all nodes are done, is the acyclicity of `IsGraph`, so `BuiltGraphIsSound`
  establishes what all theorems about graphs assume. That the upstreams of a node are all in the graph takes both of the checks
  on unknown names, of `after` and of `consumes` (`UpstreamsAreThere`).
- *Schedules.* `SchedulesRepeat` is the premise of the comment at graph.rs:605-607: the time fields of an expression apply on every day that it
  fires. In times: the firings of one hour, or day, are also those of every other one that has a firing (`Repeats`), and a schedule that
  fires at all fires after the epoch. Then two firings of one partition have their copies in the partition of the first firing after the epoch,
  and so has one of its two neighbours (`NeighboursDecide`). The schedules of the run `loading` satisfy it.

**Only model-checked.** Liveness under fairness, which is out of the prover's reach: `EventuallySettles`, `ActiveSettles`, `WaitEnds`,
`CancelledGoesQuiet`, `DueEntriesGo`, `NodeEnds`, `CancelledNodeStops`, `PublishedIsAdopted`, `InstanceEnds`, `CallsEnd`. And
`FailedLeavesNoFirst`, which is about the reconciler alone. Every other invariant and action property of the passing runs is a theorem. The conditions of the theorems are of two kinds. Those on
constants (`RefuseTerminated`, `NoReruns`, `OnlyStarts`, `RootsReady`, `Retention # 0`, `Patient`, `SchedulesRepeat`) describe the
deployments a claim is about; the configurations give their values. Those on behaviours (`RecordsStay`, `RunStays`, `AnswersStay`,
`DropsAlone`) leave out steps of the retention pass, or the step of finding 1. Of the scheduler's runs only `retention` has time enough for the retention
pass to remove a record: the theorems under such a condition say what their runs say, for all constants, and nothing of a run whose
records expire while it is worked on. Finding 1 shows what `DropsAlone` leaves out.

## 6. What is not modelled

- *The syntax of definitions, templates, cron expressions, durations, partition keys and record keys*, and the JSON and header forms:
  pure functions with unit tests. Templates, schedules and definitions start as what a parser gives.
- *What programs, servers and object stores do*: their answers are choices. A program that goes on after its daemon was killed is not modelled.
- *The views of status.rs* on graphs, runs and queues: reads for display that nothing decides by.
- *Building and sizing pools, argument parsing, printing*: configuration and I/O without state of their own.
- *Delays and jitter* between polls and retries: an action may be as late as it likes.
- *Several runs, graphs and partitions at once*: runs share no record, except that the records of an asset node are those of every graph
  that has produced the asset (*One run* above). A graph that takes over an asset starts on the records of another, and no model has
  that. `Adoption` is the place where graphs meet.
- *Pointers that another tool deletes*: nothing in the repository deletes one, and `Adoption` has none deleted. The pass reads
  the pointers that are present (daemon.rs:115), so it would take no account of what such a graph produces.
- *taquba and taquba_workflow*: outside the repository. What the models assume of them is in the heads of `GraphRun`, `MappedNode` and
  `Polling` and under "Choices" above.

What would come next: a mapped node inside the full scheduler, in place of the part of the run that `MappedNode` has; and a combined run with
start, cancel and rerun and the claims that then still hold.
