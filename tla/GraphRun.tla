------------------------------ MODULE GraphRun ------------------------------
(***************************************************************************)
(* What swale keeps of one graph run (one graph, one partition) and the    *)
(* atomic operations on it: the records in the KV store of the queue, the  *)
(* task instances in the runtimes of the pools, the jobs of the events and *)
(* requests queues and the expiry index.  The store, the queues and the    *)
(* runtimes are taquba and taquba_workflow, outside the repository; their  *)
(* operations here are the guarantees the scheduler relies on: a           *)
(* transaction commits as a whole, a compare fails when the bytes differ,  *)
(* a job stays in its queue until it is acknowledged.                      *)
(*                                                                         *)
(* Every process of the scheduler is an async function, so its local       *)
(* snapshot of the store grows stale at each await.  proc holds it.        *)
(***************************************************************************)
EXTENDS Readiness, Sequences

CONSTANTS
  Graph,            \* the graph of the run's definition
  EventWorkers,     \* the concurrent handlers of the events queue
  RefuseTerminated, \* whether a runtime also refuses the id of a terminated
                    \* task instance, and not of an active one alone
  Retention         \* the retention window of the records

Reconciler == "reconciler"
Requester == "requester"
Trigger == "trigger"
Procs == EventWorkers \cup {Reconciler, Requester, Trigger}

ASSUME EventWorkersAssumption ==
  EventWorkers \cap {Reconciler, Requester, Trigger} = {}
ASSUME GraphAssumption == IsGraph(Graph)
ASSUME RetentionAssumption == Retention \in Nat

VARIABLES
  run,        \* the graph run record
  recs,       \* the node record of every node
  active,     \* the task instances the pools have not terminated
  terminated, \* the ids of the task instances that the pools terminated
  events,     \* the jobs of the events queue
  expiry,     \* the entries of the expiry index
  requests,   \* the requests, in the order of the sends
  answers,    \* the request record of every request
  acked,      \* the count of acknowledged request jobs
  now,        \* the clock
  proc,       \* the local state of every process
  pass,       \* the local state of the retention pass
  fired,      \* the count of trigger jobs handed to the triggers worker
  faults      \* the count of failures so far

storeVars == <<run, recs, expiry>>
poolVars == <<active, terminated, events>>
requestVars == <<requests, answers, acked>>
countVars == <<fired, faults>>
vars == <<storeVars, poolVars, requestVars, now, proc, pass, countVars>>

-----------------------------------------------------------------------------
(* Types *)

Nodes == Graph.nodes

RunRecord == [state : RunStates \cup {"absent"}, requested : Nat,
              settled : Nat, expected : [Nodes -> Nat]]
NodeRecord == [status : Terminal \cup {"absent"}, rerun : Nat,
               basis : [Nodes -> Nat]]
Instance == [node : Nodes, rerun : Nat, basis : [Nodes -> Nat],
             cancel : BOOLEAN]
InstanceId == [node : Nodes, rerun : Nat]
Request == [kind : {"start", "rerun", "cancel"}, node : Nodes]
Outcomes == {"started", "unchanged", "rerun", "cancelled", "refused"}
Answer == [outcome : Outcomes \cup {"none"}, time : Nat]
Entry == [time : Nat, request : Nat]   \* request 0 is the graph run
Phases == {"idle", "records", "submit", "check", "cancel", "roots", "swap",
           "resubmit", "settleCancelled", "answer", "ack"}
Local == [at : Phases, then : {"advance", "rerun", "cancel"},
          job : SUBSET InstanceId, scope : SUBSET Nodes, run : RunRecord,
          recs : [Nodes -> NodeRecord], todo : SUBSET Nodes,
          outcome : Outcomes \cup {"none"}, time : Nat]
Pass == [at : {"idle", "drop", "removeRun", "removeRequest"},
         entry : Entry, run : RunRecord, answer : Answer]

NoRun == [state |-> "absent", requested |-> 0, settled |-> 0,
          expected |-> [n \in Nodes |-> 0]]
NoRecords == [n \in Nodes |-> NoRecord(Graph)]
NoAnswer == [outcome |-> "none", time |-> 0]
Idle == [at |-> "idle", then |-> "advance", job |-> {}, scope |-> {},
         run |-> NoRun, recs |-> NoRecords, todo |-> {},
         outcome |-> "none", time |-> 0]
PassIdle == [at |-> "idle", entry |-> [time |-> 0, request |-> 0],
             run |-> NoRun, answer |-> NoAnswer]

\* Every variable has its type.
TypeOK ==
  /\ run \in RunRecord
  /\ recs \in [Nodes -> NodeRecord]
  /\ active \in SUBSET Instance
  /\ terminated \in SUBSET InstanceId
  /\ events \in SUBSET InstanceId
  /\ expiry \in SUBSET Entry
  /\ requests \in Seq(Request)
  /\ answers \in [1..Len(requests) -> Answer]
  /\ acked \in 0..Len(requests)
  /\ now \in Nat \ {0}
  /\ proc \in [Procs -> Local]
  /\ pass \in Pass
  /\ fired \in Nat
  /\ faults \in Nat

-----------------------------------------------------------------------------
(* The runtimes of the pools *)

IsActive(n, r) == \E i \in active : i.node = n /\ i.rerun = r

\* Whether a submit under the id (n, r) is new.
IsNew(n, r) ==
  /\ ~IsActive(n, r)
  /\ RefuseTerminated => [node |-> n, rerun |-> r] \notin terminated

\* Submits the task instance (n, r) on the current records r of the snapshot.
SubmitNode(n, r, current) ==
  active' = IF IsNew(n, r)
            THEN active \cup {[node |-> n, rerun |-> r, cancel |-> FALSE,
                               basis |-> BasisFrom(Graph, n, current)]}
            ELSE active

\* Requests the cancellation of the active task instance (n, r), if any.
CancelInstance(n, r) ==
  active' = {IF i.node = n /\ i.rerun = r THEN [i EXCEPT !.cancel = TRUE]
             ELSE i : i \in active}

\* A task instance terminates.  Its node record and its event commit with the
\* termination, and an event of the same task instance that is not yet
\* acknowledged absorbs the new one.
Terminate(i, status) ==
  /\ i \in active
  /\ status = "cancelled" => i.cancel
  /\ active' = active \ {i}
  /\ recs' = [recs EXCEPT ![i.node] =
                [status |-> status, rerun |-> i.rerun, basis |-> i.basis]]
  /\ terminated' = terminated \cup {[node |-> i.node, rerun |-> i.rerun]}
  /\ events' = events \cup {[node |-> i.node, rerun |-> i.rerun]}
  /\ UNCHANGED <<run, expiry, requestVars, now, proc, pass, countVars>>

-----------------------------------------------------------------------------
(* Transactions on the run record *)

RunEntry(t) == [time |-> t, request |-> 0]
RequestEntry(t, q) == [time |-> t, request |-> q]

\* Mutant: the stored record is not compared with the snapshot.
CommitSettledUnchecked(old, settled) ==
  /\ run' = [settled EXCEPT !.settled = now]
  /\ expiry' = expiry \cup {RunEntry(now)}

\* Commits the final state of the run, with the clock's time as its settle time
\* and the expiry entry of the run, against the snapshot `old`.
CommitSettled(old, settled) ==
  IF run = old
  THEN /\ run' = [settled EXCEPT !.settled = now]
       /\ expiry' = expiry \cup {RunEntry(now)}
  ELSE UNCHANGED <<run, expiry>>
=============================================================================
