------------------------------ MODULE Advance ------------------------------
(***************************************************************************)
(* The event workers and the reconciler of scheduler.rs.  Both read the    *)
(* run record and then the node records, one key at a time, submit the     *)
(* ready nodes of the snapshot and settle the run against it.  The         *)
(* reconciler also cancels the task instances of a cancelled run.          *)
(***************************************************************************)
EXTENDS GraphRun

CONSTANT MaxFaults   \* the bound of the failures of the processes

ASSUME MaxFaultsAssumption == MaxFaults \in Nat

Step(p, local) == proc' = [proc EXCEPT ![p] = local]

\* The local state of a process that begins to read the node records of the
\* run it has just read.
Reading(then, job, scope) ==
  [Idle EXCEPT !.at = "records", !.then = then, !.job = job,
               !.scope = scope, !.run = run, !.todo = Nodes]

-----------------------------------------------------------------------------
(* Reading *)

\* An event worker takes a job and reads the run.  It advances an active run,
\* and the event of another run changes nothing.
HandleEvent(w) ==
  /\ proc[w].at = "idle"
  /\ \E e \in events :
       /\ \A x \in EventWorkers : e \notin proc[x].job
       /\ Step(w, IF run.state = "active"
                  THEN Reading("advance", {e}, Downstreams(Graph, e.node))
                  ELSE [Idle EXCEPT !.at = "ack", !.job = {e}])
  /\ UNCHANGED <<storeVars, poolVars, requestVars, now, pass, countVars>>

\* Mutant: the pass settles an active run and submits nothing.
ReconcileSettleOnly ==
  /\ proc[Reconciler].at = "idle"
  /\ \/ /\ run.state = "active"
        /\ Step(Reconciler, Reading("advance", {}, {}))
     \/ /\ run.state = "cancelled"
        /\ Step(Reconciler, Reading("cancel", {}, {}))
  /\ UNCHANGED <<storeVars, poolVars, requestVars, now, pass, countVars>>

\* Mutant: the pass leaves a cancelled run alone.
ReconcileActiveOnly ==
  /\ proc[Reconciler].at = "idle"
  /\ run.state = "active"
  /\ Step(Reconciler, Reading("advance", {}, Nodes))
  /\ UNCHANGED <<storeVars, poolVars, requestVars, now, pass, countVars>>

\* A reconciler pass reads the run, and advances an active run with every node
\* as a candidate or cancels the task instances of a cancelled one.
Reconcile ==
  /\ proc[Reconciler].at = "idle"
  /\ \/ /\ run.state = "active"
        /\ Step(Reconciler, Reading("advance", {}, Nodes))
     \/ /\ run.state = "cancelled"
        /\ Step(Reconciler, Reading("cancel", {}, {}))
  /\ UNCHANGED <<storeVars, poolVars, requestVars, now, pass, countVars>>

ReadRecord(p) ==
  /\ proc[p].at = "records"
  /\ \E n \in Nodes :
       /\ IsFirst(Graph, n, proc[p].todo)
       /\ Step(p, [proc[p] EXCEPT !.recs[n] = recs[n], !.todo = @ \ {n}])
  /\ UNCHANGED <<storeVars, poolVars, requestVars, now, pass, countVars>>

HasRead(p, then) ==
  proc[p].at = "records" /\ proc[p].todo = {} /\ proc[p].then = then

Current(local) == CurrentRecords(Graph, local.run, local.recs)

\* The nodes of the snapshot whose task instance is not recorded.
Unrecorded(local) ==
  {n \in Nodes : UnrecordedRun(local.run, n, local.recs[n]) # {}}

-----------------------------------------------------------------------------
(* Advancing and settling an active run *)

\* Mutant: a waiting candidate is submitted too.
PlanAdvanceOpen(p) ==
  /\ HasRead(p, "advance")
  /\ LET state == NodeStates(Graph, Current(proc[p]))
         open == {n \in proc[p].scope : IsOpen(state[n])}
     IN Step(p, IF open # {}
                THEN [proc[p] EXCEPT !.at = "submit", !.todo = open]
                ELSE IF SettledState(state) = "none"
                THEN [proc[p] EXCEPT !.at = "ack"]
                ELSE [proc[p] EXCEPT !.at = "check",
                                     !.todo = Unrecorded(proc[p])])
  /\ UNCHANGED <<storeVars, poolVars, requestVars, now, pass, countVars>>

\* Mutant: the settle goes on while a node is ready or waiting.
PlanAdvanceAlwaysSettle(p) ==
  /\ HasRead(p, "advance")
  /\ LET state == NodeStates(Graph, Current(proc[p]))
         ready == {n \in proc[p].scope : state[n] = "ready"}
     IN Step(p, IF ready # {}
                THEN [proc[p] EXCEPT !.at = "submit", !.todo = ready]
                ELSE [proc[p] EXCEPT !.at = "check",
                                     !.todo = Unrecorded(proc[p])])
  /\ UNCHANGED <<storeVars, poolVars, requestVars, now, pass, countVars>>

\* With the records read, the ready candidates are submitted.  Without one the
\* settle begins, and it ends at once while a node is ready or waiting.
PlanAdvance(p) ==
  /\ HasRead(p, "advance")
  /\ LET state == NodeStates(Graph, Current(proc[p]))
         ready == {n \in proc[p].scope : state[n] = "ready"}
     IN Step(p, IF ready # {}
                THEN [proc[p] EXCEPT !.at = "submit", !.todo = ready]
                ELSE IF SettledState(state) = "none"
                THEN [proc[p] EXCEPT !.at = "ack"]
                ELSE [proc[p] EXCEPT !.at = "check",
                                     !.todo = Unrecorded(proc[p])])
  /\ UNCHANGED <<storeVars, poolVars, requestVars, now, pass, countVars>>

\* Submits one ready node.  A submitted node is open in the snapshot, so the
\* settle that follows the last submit does nothing.
SubmitReady(p) ==
  /\ proc[p].at = "submit"
  /\ \E n \in Nodes :
       /\ IsFirst(Graph, n, proc[p].todo)
       /\ SubmitNode(n, NextRerun(proc[p].recs, n), Current(proc[p]))
       /\ Step(p, [proc[p] EXCEPT
                     !.at = IF proc[p].todo = {n} THEN "ack" ELSE "submit",
                     !.todo = @ \ {n}])
  /\ UNCHANGED <<storeVars, terminated, events, requestVars, now, pass,
                 countVars>>

\* Mutant: the settle takes a node without a record for one that never ran.
CheckActiveRecorded(p) ==
  /\ proc[p].at = "check"
  /\ \E n \in Nodes :
       /\ IsFirst(Graph, n, proc[p].todo)
       /\ LET busy == \E r \in UnrecordedRun(proc[p].run, n, proc[p].recs[n]) :
                        IsActive(n, r) /\ proc[p].recs[n].status # "absent"
          IN Step(p, [proc[p] EXCEPT
                        !.at = IF busy THEN "ack" ELSE "check",
                        !.todo = IF busy THEN {} ELSE @ \ {n}])
  /\ UNCHANGED <<storeVars, poolVars, requestVars, now, pass, countVars>>

\* The settle looks up the unrecorded task instance of one node, and leaves the
\* run active when it is active.
CheckActive(p) ==
  /\ proc[p].at = "check"
  /\ \E n \in Nodes :
       /\ IsFirst(Graph, n, proc[p].todo)
       /\ LET busy == \E r \in UnrecordedRun(proc[p].run, n, proc[p].recs[n]) :
                        IsActive(n, r)
          IN Step(p, [proc[p] EXCEPT
                        !.at = IF busy THEN "ack" ELSE "check",
                        !.todo = IF busy THEN {} ELSE @ \ {n}])
  /\ UNCHANGED <<storeVars, poolVars, requestVars, now, pass, countVars>>

\* The settle commits the final state of the snapshot.
Settle(p) ==
  /\ proc[p].at = "check"
  /\ proc[p].todo = {}
  /\ LET state == SettledState(NodeStates(Graph, Current(proc[p])))
     IN CommitSettled(proc[p].run,
          [proc[p].run EXCEPT !.state = state,
                              !.expected = RetainExpected(Graph, proc[p].run,
                                                         proc[p].recs)])
  /\ Step(p, [proc[p] EXCEPT !.at = "ack"])
  /\ UNCHANGED <<recs, poolVars, requestVars, now, pass, countVars>>

-----------------------------------------------------------------------------
(* Cancelling the task instances of a cancelled run *)

PlanCancel(p) ==
  /\ HasRead(p, "cancel")
  /\ Step(p, [proc[p] EXCEPT !.at = "cancel", !.todo = Unrecorded(proc[p])])
  /\ UNCHANGED <<storeVars, poolVars, requestVars, now, pass, countVars>>

CancelUnrecorded(p) ==
  /\ proc[p].at = "cancel"
  /\ \E n \in Nodes :
       /\ IsFirst(Graph, n, proc[p].todo)
       /\ \E r \in UnrecordedRun(proc[p].run, n, proc[p].recs[n]) :
            CancelInstance(n, r)
       /\ Step(p, [proc[p] EXCEPT !.todo = @ \ {n}])
  /\ UNCHANGED <<storeVars, terminated, events, requestVars, now, pass,
                 countVars>>

\* The reconciler's cancel ends; that of a request goes on to its record.
EndCancel(p) ==
  /\ proc[p].at = "cancel"
  /\ proc[p].todo = {}
  /\ Step(p, [proc[p] EXCEPT !.at = IF p = Requester THEN "answer" ELSE "ack",
                             !.outcome = IF p = Requester THEN "cancelled"
                                         ELSE @])
  /\ UNCHANGED <<storeVars, poolVars, requestVars, now, pass, countVars>>

-----------------------------------------------------------------------------
(* The end of a job *)

\* The worker acknowledges its job, and the reconciler ends its pass.
Ack(p) ==
  /\ proc[p].at = "ack"
  /\ Step(p, Idle)
  /\ events' = events \ proc[p].job
  /\ acked' = IF p = Requester THEN acked + 1 ELSE acked
  /\ UNCHANGED <<storeVars, active, terminated, requests, answers, now, pass,
                 countVars>>

\* A process ends early: a failure of the store or of a runtime, or a crash of
\* the daemon.  The job is delivered again, or dead-lettered after its last
\* attempt.
Fail(p) ==
  /\ faults < MaxFaults
  /\ faults' = faults + 1
  /\ proc[p].at # "idle"
  /\ Step(p, Idle)
  /\ \/ UNCHANGED <<events, acked>>
     \/ /\ events' = events \ proc[p].job
        /\ acked' = IF p = Requester THEN acked + 1 ELSE acked
  /\ UNCHANGED <<storeVars, active, terminated, requests, answers, now, pass,
                 fired>>
=============================================================================
