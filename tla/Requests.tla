------------------------------ MODULE Requests ------------------------------
(***************************************************************************)
(* The request worker of request.rs and the commands it applies to a graph *)
(* run (start_run, rerun_with and cancel_run of scheduler.rs), and the     *)
(* triggers worker, which starts a run.  The request worker handles one    *)
(* request at a time, in the order of the sends.                           *)
(***************************************************************************)
EXTENDS Advance

CONSTANTS
  Kinds,       \* the requests a sender may send
  Patient,     \* whether a sender waits for its earlier requests and for the
               \* run to settle before it sends the next one
  MaxRequests, \* the bound of the requests sent
  MaxFirings   \* the bound of the trigger jobs

ASSUME KindsAssumption == Kinds \subseteq Request
ASSUME BoundsAssumption == MaxRequests \in Nat /\ MaxFirings \in Nat

\* A command sends a request through the inbox, which becomes a request job.
Send ==
  /\ Len(requests) < MaxRequests
  /\ Patient => acked = Len(requests) /\ run.state # "active"
  /\ \E q \in Kinds : requests' = Append(requests, q)
  /\ answers' = [i \in 1..Len(requests) + 1 |->
                   IF i \in DOMAIN answers THEN answers[i] ELSE NoAnswer]
  /\ UNCHANGED <<storeVars, poolVars, acked, now, proc, pass, countVars>>

\* The request job to handle, and whether its request has no record yet.
Job == acked + 1
IsNext(kind) ==
  /\ proc[Requester].at = "idle"
  /\ acked < Len(requests)
  /\ answers[Job].outcome = "none"
  /\ requests[Job].kind = kind

\* A request that has its record, from before a crash, is not applied again.
SkipAnswered ==
  /\ proc[Requester].at = "idle"
  /\ acked < Len(requests)
  /\ answers[Job].outcome # "none"
  /\ Step(Requester, [Idle EXCEPT !.at = "ack"])
  /\ UNCHANGED <<storeVars, poolVars, requestVars, now, pass, countVars>>

\* The state of the request worker that goes on to record an outcome.
Answering(outcome) ==
  [Idle EXCEPT !.at = "answer", !.outcome = outcome, !.time = now]

-----------------------------------------------------------------------------
(* Start *)

NewRun == [state |-> "active", requested |-> now, settled |-> 0,
           expected |-> [n \in Nodes |-> 0]]

\* Writes the run record when it is absent, before the submit of the roots.
StartRun(p) ==
  IF run.state = "absent"
  THEN /\ run' = NewRun
       /\ Step(p, [Idle EXCEPT !.at = "roots", !.todo = Roots(Graph),
                               !.outcome = "started", !.time = now])
  ELSE /\ UNCHANGED run
       /\ Step(p, [Answering("unchanged") EXCEPT
                     !.at = IF p = Requester THEN "answer" ELSE "ack"])

HandleStart ==
  /\ IsNext("start")
  /\ StartRun(Requester)
  /\ UNCHANGED <<recs, expiry, poolVars, requestVars, now, pass, countVars>>

\* The triggers worker takes a cron firing of the partition.
HandleTrigger ==
  /\ proc[Trigger].at = "idle"
  /\ fired < MaxFirings
  /\ fired' = fired + 1
  /\ StartRun(Trigger)
  /\ UNCHANGED <<recs, expiry, poolVars, requestVars, now, pass, faults>>

SubmitRoot(p) ==
  /\ proc[p].at = "roots"
  /\ \E n \in Nodes :
       /\ IsFirst(Graph, n, proc[p].todo)
       /\ SubmitNode(n, 0, NoRecords)
       /\ Step(p, [proc[p] EXCEPT
                     !.at = IF proc[p].todo # {n} THEN "roots"
                            ELSE IF p = Requester THEN "answer" ELSE "ack",
                     !.todo = @ \ {n}])
  /\ UNCHANGED <<storeVars, terminated, events, requestVars, now, pass,
                 countVars>>

-----------------------------------------------------------------------------
(* Rerun *)

\* The run of the request is read.  Without one the request is refused.
HandleRerun ==
  /\ IsNext("rerun")
  /\ Step(Requester,
          IF run.state = "absent" THEN Answering("refused")
          ELSE [Reading("rerun", {}, {requests[Job].node}) EXCEPT
                  !.time = now])
  /\ UNCHANGED <<storeVars, poolVars, requestVars, now, pass, countVars>>

\* Mutant: a node without a record is rerun.
PlanRerunUnrecorded ==
  /\ HasRead(Requester, "rerun")
  /\ \E n \in proc[Requester].scope :
       LET local == proc[Requester]
           reactivated == Reactivated(Graph, local.run, local.recs, n)
           current == CurrentRecords(Graph, reactivated, local.recs)
       IN Step(Requester,
            IF ~IsReady(Graph, n, current)
            THEN [local EXCEPT !.at = "answer", !.outcome = "refused"]
            ELSE [local EXCEPT !.at = IF reactivated = local.run
                                      THEN "resubmit" ELSE "swap"])
  /\ UNCHANGED <<storeVars, poolVars, requestVars, now, pass, countVars>>

\* With the records read, the rerun is refused or goes on to the write of the
\* run record, which is left out when the record is active as it is.
PlanRerun ==
  /\ HasRead(Requester, "rerun")
  /\ \E n \in proc[Requester].scope :
       LET local == proc[Requester]
           reactivated == Reactivated(Graph, local.run, local.recs, n)
           current == CurrentRecords(Graph, reactivated, local.recs)
       IN Step(Requester,
            IF \/ local.recs[n].status = "absent"
               \/ ~IsReady(Graph, n, current)
            THEN [local EXCEPT !.at = "answer", !.outcome = "refused"]
            ELSE [local EXCEPT !.at = IF reactivated = local.run
                                      THEN "resubmit" ELSE "swap"])
  /\ UNCHANGED <<storeVars, poolVars, requestVars, now, pass, countVars>>

\* The write of the reactivated run record.  A changed record is a contention,
\* which the retry of the job applies to the new record.
SwapRun ==
  /\ proc[Requester].at = "swap"
  /\ \E n \in proc[Requester].scope :
       LET local == proc[Requester]
       IN IF run = local.run
          THEN /\ run' = Reactivated(Graph, local.run, local.recs, n)
               /\ Step(Requester, [local EXCEPT !.at = "resubmit"])
          ELSE /\ UNCHANGED run
               /\ Step(Requester, Idle)
  /\ UNCHANGED <<recs, expiry, poolVars, requestVars, now, pass, countVars>>

Record(q, outcome, time) ==
  /\ answers' = [answers EXCEPT ![q] = [outcome |-> outcome, time |-> time]]
  /\ expiry' = expiry \cup {RequestEntry(time, q)}

\* Mutant: the record of the request does not commit with the submit.
ResubmitUnrecorded ==
  /\ proc[Requester].at = "resubmit"
  /\ \E n \in proc[Requester].scope :
       LET local == proc[Requester]
           count == local.recs[n].rerun + 1
           reactivated == Reactivated(Graph, local.run, local.recs, n)
       IN /\ SubmitNode(n, count,
                        CurrentRecords(Graph, reactivated, local.recs))
          /\ IF IsNew(n, count)
             THEN /\ UNCHANGED <<answers, expiry>>
                  /\ Step(Requester, [local EXCEPT !.at = "ack"])
             ELSE /\ UNCHANGED <<answers, expiry>>
                  /\ Step(Requester, [local EXCEPT !.at = "answer",
                                                   !.outcome = "refused"])
  /\ UNCHANGED <<run, recs, terminated, events, requests, acked, now, pass,
                 countVars>>

\* The submit of the next rerun count.  The record of the request commits with
\* a new submit.
Resubmit ==
  /\ proc[Requester].at = "resubmit"
  /\ \E n \in proc[Requester].scope :
       LET local == proc[Requester]
           count == local.recs[n].rerun + 1
           reactivated == Reactivated(Graph, local.run, local.recs, n)
       IN /\ SubmitNode(n, count,
                        CurrentRecords(Graph, reactivated, local.recs))
          /\ IF IsNew(n, count)
             THEN /\ Record(Job, "rerun", local.time)
                  /\ Step(Requester, [local EXCEPT !.at = "ack"])
             ELSE /\ UNCHANGED <<answers, expiry>>
                  /\ Step(Requester, [local EXCEPT !.at = "answer",
                                                   !.outcome = "refused"])
  /\ UNCHANGED <<run, recs, terminated, events, requests, acked, now, pass,
                 countVars>>

-----------------------------------------------------------------------------
(* Cancel *)

\* Mutant: a settled run is cancelled.
HandleCancelSettled ==
  /\ IsNext("cancel")
  /\ Step(Requester,
          IF run.state = "absent" THEN Answering("refused")
          ELSE [Answering("none") EXCEPT !.at = "settleCancelled",
                                         !.run = run])
  /\ UNCHANGED <<storeVars, poolVars, requestVars, now, pass, countVars>>

HandleCancel ==
  /\ IsNext("cancel")
  /\ Step(Requester,
          IF run.state # "active" THEN Answering("refused")
          ELSE [Answering("none") EXCEPT !.at = "settleCancelled",
                                         !.run = run])
  /\ UNCHANGED <<storeVars, poolVars, requestVars, now, pass, countVars>>

\* The write of the cancelled state, which a change of the run record refuses.
\* The cancel of its task instances follows on the snapshot of the active run.
SettleCancelled ==
  /\ proc[Requester].at = "settleCancelled"
  /\ LET old == proc[Requester].run
     IN /\ CommitSettled(old, [old EXCEPT !.state = "cancelled"])
        /\ Step(Requester,
                IF run = old
                THEN [proc[Requester] EXCEPT !.at = "records",
                                             !.then = "cancel",
                                             !.todo = Nodes]
                ELSE [proc[Requester] EXCEPT !.at = "answer",
                                             !.outcome = "refused"])
  /\ UNCHANGED <<recs, poolVars, requestVars, now, pass, countVars>>

-----------------------------------------------------------------------------
\* The record of the request with its expiry entry, in one commit.
WriteAnswer ==
  /\ proc[Requester].at = "answer"
  /\ Record(Job, proc[Requester].outcome, proc[Requester].time)
  /\ Step(Requester, [proc[Requester] EXCEPT !.at = "ack"])
  /\ UNCHANGED <<run, recs, poolVars, requests, acked, now, pass, countVars>>
=============================================================================
