----------------------------- MODULE MappedNode -----------------------------
(***************************************************************************)
(* The task instance of a mapped node and the group of its members, for    *)
(* one node of one graph run (dispatch.rs, run_mapped).  A step of the     *)
(* instance is a sequence of calls of the runtime, one action per call; a  *)
(* crash or an error of a call delivers the step again from its first      *)
(* call, until the attempts of the step are used up.  The members, the     *)
(* cancel of the run, the reconciler and the retention pass go on between  *)
(* any two calls.  run_mapped does not extend its lease: a worker that     *)
(* stalls loses the step to another one, and when it goes on, it goes on   *)
(* with its calls, on the group that it then finds.                        *)
(*                                                                         *)
(* The group is a run group of taquba_workflow, outside the repository:    *)
(* a submit of the same members resumes those that have not succeeded, a   *)
(* submit of others is refused, a group with an active member is not       *)
(* removed and has no results, and the cancel or the removal of a group    *)
(* that does not exist does nothing.  The outcome of a worker without the  *)
(* lease is dropped, and a cancel reaches the worker with the lease alone. *)
(* Delays between the steps are left out.                                  *)
(***************************************************************************)
EXTENDS Naturals, Sequences

CONSTANTS
  Inputs,       \* the inputs of members: an item and the outputs referred to
  ItemLists,    \* the lists of them that the items can render to
  NotAnItem,    \* stands for a text that is not an array of items
  MaxAttempts,  \* the attempts of a step
  Patient,      \* the retention window outlasts a task instance and its workers
  Stalled,      \* places for workers that go on without their lease
  MaxReruns,    \* bound of the reruns
  MaxFaults,    \* bound of the crashes, stalls and errors
  MaxRemoved    \* bound of the results that the memo retention removes

ASSUME InputsAssumption == ItemLists \subseteq Seq(Inputs)
ASSUME NotAnItemAssumption == NotAnItem \notin Inputs
ASSUME AttemptsAssumption == MaxAttempts \in Nat \ {0}
ASSUME PatientAssumption == Patient \in BOOLEAN

VARIABLES
  run,      \* the state of the graph run
  inst,     \* the latest task instance of the node
  stray,    \* the workers that go on with a step without its lease
  late,     \* their items since the instance began
  group,    \* the group of the members
  cancel,   \* the cancel of the run, by a request or by the reconciler
  pass,     \* the retention pass
  won,      \* the positions that succeeded on the items and need not run again
  faults,   \* the failures so far
  removed   \* the results removed so far
vars == <<run, inst, stray, late, group, cancel, pass, won, faults, removed>>

-----------------------------------------------------------------------------
(* State *)

Ended == {"succeeded", "failed", "cancelled"}
Active == {"queued", "running"}
Calls == {"submit", "status", "cancel", "forget", "resubmit", "submitted",
          "polled", "poll", "results", "discard", "finish", "succeed"}
BadItems == <<NotAnItem>>
Instance == [state : Active \cup Ended, rerun : Nat,
             items : Seq(Inputs) \cup {BadItems},
             phase : {"submit", "poll", "finish"}, at : Calls \cup {"none"},
             attempts : 0..MaxAttempts, token : BOOLEAN, output : Seq(Inputs)]
Stray == [at : Calls \cup {"none"}, items : Seq(Inputs), token : BOOLEAN]
Member == [input : Inputs, kept : BOOLEAN,
           status : {"pending", "cancelling"} \cup Ended]
Group == [exists : BOOLEAN, members : Seq(Member)]

NewInstance(rerun, items) ==
  [state |-> "queued", rerun |-> rerun, items |-> items, phase |-> "submit",
   at |-> "submit", attempts |-> 0, token |-> FALSE, output |-> <<>>]

NoStray == [at |-> "none", items |-> <<>>, token |-> FALSE]
Strays == {w \in Stalled : stray[w].at # "none"}

NewMember(input) == [input |-> input, kept |-> FALSE, status |-> "pending"]

NoGroup == [exists |-> FALSE, members |-> <<>>]

GroupOf(items) ==
  [exists |-> TRUE,
   members |-> [p \in DOMAIN items |-> NewMember(items[p])]]

\* The inputs of the members of the group, in item order.
InputsOf(g) == [p \in DOMAIN g.members |-> g.members[p].input]
With(g, status) == {p \in DOMAIN g.members : g.members[p].status \in status}
Kept(g) == {p \in With(g, {"succeeded"}) : g.members[p].kept}
Pending(g) == With(g, {"pending", "cancelling"})

\* Mutant: every member runs again.
ResumedAll(g) == [g EXCEPT !.members =
  [p \in DOMAIN g.members |-> NewMember(g.members[p].input)]]

\* The members that did not succeed run again.
Resumed(g) ==
  [g EXCEPT !.members = [p \in DOMAIN g.members |->
     IF g.members[p].status \in {"failed", "cancelled"}
     THEN NewMember(g.members[p].input) ELSE g.members[p]]]

Cancelled(g) ==
  [g EXCEPT !.members = [p \in DOMAIN g.members |->
     IF g.members[p].status = "pending"
     THEN [g.members[p] EXCEPT !.status = "cancelling"] ELSE g.members[p]]]

NoPass == [at |-> "idle", run |-> "absent", rerun |-> 0]

Init ==
  /\ run = "active"
  /\ inst \in {NewInstance(0, items) : items \in ItemLists \cup {BadItems}}
  /\ stray = [w \in Stalled |-> NoStray]
  /\ late = {}
  /\ group = NoGroup
  /\ cancel = [at |-> "idle", rerun |-> 0]
  /\ pass = NoPass
  /\ won = {}
  /\ faults = 0
  /\ removed = 0

-----------------------------------------------------------------------------
(* The steps of the task instance *)

Ran(call) == inst.state = "running" /\ inst.at = call
GoTo(call) == inst' = [inst EXCEPT !.at = call]
End(state) == inst' = [inst EXCEPT !.state = state, !.at = "none",
                                   !.attempts = 0, !.token = FALSE]

\* A submit of members with these inputs is not refused, and what it makes of
\* the group.
Fits(items) == group.exists => InputsOf(group) = items
Filled(items) == IF group.exists THEN Resumed(group) ELSE GroupOf(items)

\* The first call of a step in a phase.
FirstCall(phase) ==
  CASE phase = "submit" -> "submit"
    [] phase = "poll" -> "polled"
    [] phase = "finish" -> "finish"

\* The outcome Continue: the next step, unless the instance is cancelled.
Continue(phase) ==
  IF inst.token THEN End("cancelled")
  ELSE inst' = [inst EXCEPT !.state = "queued", !.phase = phase,
                            !.at = FirstCall(phase), !.attempts = 0]

envVars == <<stray, late, run, cancel, pass, faults, removed>>

Deliver ==
  /\ inst.state = "queued"
  /\ inst' = [inst EXCEPT !.state = "running", !.attempts = @ + 1]
  /\ UNCHANGED <<group, won, envVars>>

RenderFails ==
  /\ Ran("submit") /\ inst.items = BadItems
  /\ End("failed")
  /\ UNCHANGED <<group, won, envVars>>

\* Mutant: the group is not compared with the members.
SubmitAny ==
  /\ Ran("submit") /\ inst.items # BadItems
  /\ group' = Filled(inst.items)
  /\ GoTo("submitted")
  /\ UNCHANGED <<won, envVars>>

Submit ==
  /\ Ran("submit") /\ inst.items # BadItems
  /\ IF Fits(inst.items)
     THEN group' = Filled(inst.items) /\ GoTo("submitted")
     ELSE GoTo("status") /\ UNCHANGED group
  /\ UNCHANGED <<won, envVars>>

\* The group has other members, of an earlier instance.  It is removed when none
\* of them is active.
StatusOfReplaced ==
  /\ Ran("status") /\ group.exists
  /\ GoTo(IF Pending(group) # {} THEN "cancel" ELSE "forget")
  /\ UNCHANGED <<group, won, envVars>>

CancelReplaced ==
  /\ Ran("cancel")
  /\ group' = Cancelled(group)
  /\ Continue("submit")
  /\ UNCHANGED <<won, envVars>>

ForgetReplaced ==
  /\ Ran("forget") /\ Pending(group) = {}
  /\ group' = NoGroup
  /\ GoTo("resubmit")
  /\ UNCHANGED <<won, envVars>>

Resubmit ==
  /\ Ran("resubmit") /\ Fits(inst.items)
  /\ group' = Filled(inst.items)
  /\ GoTo("submitted")
  /\ UNCHANGED <<won, envVars>>

\* The step of a cancelled instance cancels the members that it submitted.
Submitted ==
  /\ Ran("submitted")
  /\ group' = IF inst.token THEN Cancelled(group) ELSE group
  /\ Continue("poll")
  /\ UNCHANGED <<won, envVars>>

Polled ==
  /\ Ran("polled")
  /\ group' = IF inst.token THEN Cancelled(group) ELSE group
  /\ GoTo("poll")
  /\ UNCHANGED <<won, envVars>>

\* Mutant: a group that was removed is waited for.
PollAbsent ==
  /\ Ran("poll")
  /\ \/ (~group.exists \/ Pending(group) # {}) /\ Continue("poll")
     \/ group.exists /\ Pending(group) = {} /\ GoTo("results")
  /\ UNCHANGED <<group, won, envVars>>

Poll ==
  /\ Ran("poll")
  /\ \/ ~group.exists /\ Continue("submit")
     \/ group.exists /\ Pending(group) # {} /\ Continue("poll")
     \/ group.exists /\ Pending(group) = {} /\ GoTo("results")
  /\ UNCHANGED <<group, won, envVars>>

\* member_outputs of the results.
Results ==
  /\ Ran("results") /\ group.exists /\ Pending(group) = {}
  /\ \/ With(group, {"failed", "cancelled"}) # {} /\ End("failed")
     \/ /\ With(group, {"failed", "cancelled"}) = {}
        /\ IF \A p \in DOMAIN group.members : group.members[p].kept
           THEN IF inst.token THEN End("cancelled")
                ELSE inst' = [inst EXCEPT !.state = "queued",
                                !.phase = "finish", !.at = "finish",
                                !.attempts = 0, !.output = InputsOf(group)]
           ELSE GoTo("discard")
  /\ UNCHANGED <<group, won, envVars>>

\* A result was removed: every member runs again.
DiscardGroup ==
  /\ Ran("discard") /\ Pending(group) = {}
  /\ group' = NoGroup
  /\ Continue("submit")
  /\ UNCHANGED <<won, envVars>>

ForgetGroup ==
  /\ Ran("finish") /\ Pending(group) = {}
  /\ group' = NoGroup
  /\ GoTo("succeed")
  /\ UNCHANGED <<won, envVars>>

\* The outcome of the last step.
Succeed ==
  /\ Ran("succeed")
  /\ End("succeeded")
  /\ UNCHANGED <<group, won, envVars>>

-----------------------------------------------------------------------------
(* The failures *)

\* Mutant: one attempt too many.
RetryOnceMore == IF inst.attempts <= MaxAttempts
                 THEN inst' = [inst EXCEPT !.state = "queued",
                                           !.at = FirstCall(inst.phase)]
                 ELSE End("failed")

\* The step is delivered again, or its attempts are used up.
Retry == IF inst.attempts < MaxAttempts
         THEN inst' = [inst EXCEPT !.state = "queued",
                                   !.at = FirstCall(inst.phase)]
         ELSE End("failed")

failureVars == <<run, group, cancel, pass, removed>>
Fault == inst.state = "running" /\ faults < MaxFaults /\ faults' = faults + 1

\* A call fails, for good or not, or the worker crashes before it.
StepFails ==
  /\ Fault
  /\ \/ Retry
     \/ inst.at # "succeed" /\ End("failed")
  /\ UNCHANGED <<stray, late, won, failureVars>>

\* The worker stalls before a call until its lease has ended.
StepStalls(w) ==
  /\ Fault
  /\ inst.at # "succeed" /\ inst.items # BadItems
  /\ stray[w].at = "none"
  /\ stray' = [stray EXCEPT ![w] =
       [at |-> inst.at, items |-> inst.items, token |-> inst.token]]
  /\ late' = late \cup {inst.items}
  /\ won' = {}
  /\ Retry
  /\ UNCHANGED failureVars

\* A call that finds the group removed or filled by another worker, or one
\* that cannot be removed.
CallRefused ==
  /\ \/ inst.at \in {"status", "results"} /\ ~group.exists
     \/ inst.at \in {"results", "forget", "discard", "finish"} /\ Pending(group) # {}
     \/ inst.at = "resubmit" /\ ~Fits(inst.items)
  /\ inst.state = "running"
  /\ Retry \/ End("failed")
  /\ UNCHANGED <<group, won, envVars>>

-----------------------------------------------------------------------------
(* The calls of a worker without the lease.  They are those of the steps     *)
(* above; what it would leave as the next step or the outcome is dropped.    *)

StrayGoes(w, call) == stray' = [stray EXCEPT ![w].at = call]
StrayLeaves(w) == stray' = [stray EXCEPT ![w] = NoStray]

StraySubmits(w) ==
  \/ /\ stray[w].at = "submit" /\ ~Fits(stray[w].items)
     /\ StrayGoes(w, "status")
     /\ UNCHANGED group
  \/ /\ stray[w].at \in {"submit", "resubmit"} /\ Fits(stray[w].items)
     /\ group' = Filled(stray[w].items)
     /\ StrayGoes(w, "submitted")

StrayReads(w) ==
  /\ group.exists
  /\ \/ /\ stray[w].at = "status"
        /\ StrayGoes(w, IF Pending(group) # {} THEN "cancel" ELSE "forget")
     \/ /\ stray[w].at = "poll" /\ Pending(group) = {}
        /\ StrayGoes(w, "results")
     \/ /\ stray[w].at = "results" /\ Kept(group) # DOMAIN group.members
        /\ With(group, {"succeeded"}) = DOMAIN group.members
        /\ StrayGoes(w, "discard")
  /\ UNCHANGED group

StrayCancels(w) ==
  /\ stray[w].at \in {"cancel", "submitted", "polled"}
  /\ group' = IF stray[w].at = "cancel" \/ stray[w].token
              THEN Cancelled(group) ELSE group
  /\ IF stray[w].at = "polled" THEN StrayGoes(w, "poll") ELSE StrayLeaves(w)

StrayForgets(w) ==
  /\ stray[w].at \in {"forget", "discard", "finish"} /\ Pending(group) = {}
  /\ group' = NoGroup
  /\ IF stray[w].at = "forget" THEN StrayGoes(w, "resubmit") ELSE StrayLeaves(w)

\* It has no further call, a call is refused, or it crashes.
StrayEnds(w) == stray[w].at # "none" /\ StrayLeaves(w) /\ UNCHANGED group

StrayStep(w) ==
  /\ \/ StraySubmits(w) \/ StrayReads(w) \/ StrayCancels(w)
     \/ StrayForgets(w) \/ StrayEnds(w)
  /\ UNCHANGED <<run, inst, late, cancel, pass, won, faults, removed>>

-----------------------------------------------------------------------------
(* The members *)

MemberEnds(p) ==
  /\ p \in Pending(group)
  /\ \E status \in Ended :
       /\ status = "cancelled" => group.members[p].status = "cancelling"
       /\ group' = [group EXCEPT !.members[p] =
            [@ EXCEPT !.status = status, !.kept = status = "succeeded"]]
       /\ won' = IF /\ status = "succeeded" /\ late = {}
                    /\ InputsOf(group) = inst.items
                    /\ Kept(group) = With(group, {"succeeded"})
                 THEN won \cup {p} ELSE won
  /\ UNCHANGED <<inst, envVars>>

\* The memo retention of the pool removes a result; the member record stays.
RemoveResult(p) ==
  /\ p \in With(group, {"succeeded"}) /\ group.members[p].kept
  /\ removed < MaxRemoved
  /\ removed' = removed + 1
  /\ group' = [group EXCEPT !.members[p].kept = FALSE]
  /\ won' = {}
  /\ UNCHANGED <<run, inst, stray, late, cancel, pass, faults>>

-----------------------------------------------------------------------------
(* The graph run *)

runVars == <<stray, late, won, faults, removed>>

SettleRun ==
  /\ run = "active" /\ inst.state \in Ended
  /\ run' = "settled"
  /\ UNCHANGED <<inst, group, cancel, pass, runVars>>

RerunNode ==
  /\ run \in {"settled", "cancelled"} /\ inst.state \in Ended
  /\ inst.rerun < MaxReruns
  /\ run' = "active"
  /\ \E items \in ItemLists \cup {BadItems} :
       /\ inst' = NewInstance(inst.rerun + 1, items)
       /\ won' = IF items = inst.items /\ inst.state # "succeeded"
                 THEN won ELSE {}
  /\ late' = {stray[w].items : w \in Strays}
  /\ UNCHANGED <<stray, group, cancel, pass, faults, removed>>

CancelRun ==
  /\ run = "active" /\ cancel.at = "idle"
  /\ run' = "cancelled"
  /\ cancel' = [cancel EXCEPT !.at = "records"]
  /\ UNCHANGED <<inst, group, pass, runVars>>

\* A pass of the reconciler over a cancelled run.
Reconcile ==
  /\ run = "cancelled" /\ cancel.at = "idle"
  /\ cancel' = [cancel EXCEPT !.at = "records"]
  /\ UNCHANGED <<run, inst, group, pass, runVars>>

\* Mutant: a node with a record is passed over.
ReadUnrecorded ==
  /\ cancel.at = "records"
  /\ cancel' = IF inst.state \in Active
               THEN [at |-> "instance", rerun |-> inst.rerun]
               ELSE [cancel EXCEPT !.at = "idle"]
  /\ UNCHANGED <<run, inst, group, pass, runVars>>

\* cancel_active_runs: the id of the instance without a record.
ReadRecords ==
  /\ cancel.at = "records"
  /\ cancel' = CASE inst.state = "succeeded" -> [cancel EXCEPT !.at = "idle"]
                 [] inst.state \in Active ->
                      [at |-> "instance", rerun |-> inst.rerun]
                 [] OTHER -> [at |-> "instance", rerun |-> inst.rerun + 1]
  /\ UNCHANGED <<run, inst, group, pass, runVars>>

\* The cancel of an instance ends it at once while no worker runs it.
CancelInstance ==
  /\ cancel.at = "instance"
  /\ cancel' = [at |-> "group", rerun |-> 0]
  /\ IF inst.rerun # cancel.rerun \/ inst.state \in Ended THEN UNCHANGED inst
     ELSE IF inst.state = "queued" THEN End("cancelled")
     ELSE inst' = [inst EXCEPT !.token = TRUE]
  /\ UNCHANGED <<run, group, pass, runVars>>

CancelGroup ==
  /\ cancel.at = "group"
  /\ cancel' = [cancel EXCEPT !.at = "idle"]
  /\ group' = Cancelled(group)
  /\ UNCHANGED <<run, inst, pass, runVars>>

\* A step of a cancelled instance is delivered again, or the instance ends.
EndCancelled ==
  /\ inst.state = "queued" /\ inst.token
  /\ End("cancelled")
  /\ UNCHANGED <<group, won, envVars>>

-----------------------------------------------------------------------------
(* The retention pass *)

ExpireRun ==
  /\ pass.at = "idle"
  /\ run \in {"settled", "cancelled"}
  /\ Patient => inst.state \in Ended /\ Strays = {}
  /\ pass' = [at |-> "groups", run |-> run, rerun |-> inst.rerun]
  /\ UNCHANGED <<run, inst, group, cancel, runVars>>

\* Mutant: a group with an active member is passed over.
ForgetQuietGroups ==
  /\ pass.at = "groups"
  /\ IF Pending(group) # {} THEN UNCHANGED <<group, won>>
     ELSE group' = NoGroup /\ won' = {}
  /\ pass' = [pass EXCEPT !.at = "remove"]
  /\ UNCHANGED <<run, inst, stray, late, cancel, faults, removed>>

\* forget_groups, which fails while a member is active.
ForgetGroups ==
  /\ pass.at = "groups"
  /\ IF Pending(group) # {}
     THEN pass' = NoPass /\ UNCHANGED <<group, won>>
     ELSE /\ group' = NoGroup
          /\ won' = {}
          /\ pass' = [pass EXCEPT !.at = "remove"]
  /\ UNCHANGED <<run, inst, stray, late, cancel, faults, removed>>

\* The records are removed unless the run record has changed.
RemoveRun ==
  /\ pass.at = "remove"
  /\ run' = IF run = pass.run /\ inst.rerun = pass.rerun THEN "absent" ELSE run
  /\ pass' = NoPass
  /\ UNCHANGED <<inst, group, cancel, runVars>>

-----------------------------------------------------------------------------
Step ==
  \/ Deliver \/ RenderFails \/ Submit \/ StatusOfReplaced \/ CancelReplaced
  \/ ForgetReplaced \/ Resubmit \/ Submitted \/ Polled \/ Poll \/ Results
  \/ DiscardGroup \/ ForgetGroup \/ Succeed
StepsPastLease == \E w \in Stalled : StepStalls(w) \/ StrayStep(w)
EndMember == \E p \in DOMAIN group.members : MemberEnds(p)
EndCancelling == \E p \in With(group, {"cancelling"}) : MemberEnds(p)
Loss == \E p \in DOMAIN group.members : RemoveResult(p)
CancelSteps == Reconcile \/ ReadRecords \/ CancelInstance \/ CancelGroup
PassSteps == ExpireRun \/ ForgetGroups \/ RemoveRun

Next ==
  \/ Step \/ StepFails \/ CallRefused \/ EndCancelled \/ StepsPastLease
  \/ EndMember \/ Loss
  \/ SettleRun \/ RerunNode \/ CancelRun \/ CancelSteps \/ PassSteps

Spec == Init /\ [][Next]_vars

\* The pools run their steps and stop the cancelled members, and the scheduler
\* and its reconciler finish what they begin.  Nothing makes a member end
\* otherwise, no worker without its lease need go on, and no retention pass
\* need run.
FairSpec ==
  /\ Spec
  /\ WF_vars(Step \/ CallRefused)
  /\ WF_vars(EndCancelling)
  /\ WF_vars(CancelSteps)
  /\ WF_vars(SettleRun)

-----------------------------------------------------------------------------
(* Properties *)

TypeOK ==
  /\ run \in {"active", "settled", "cancelled", "absent"}
  /\ inst \in Instance
  /\ stray \in [Stalled -> Stray] /\ late \subseteq Seq(Inputs)
  /\ group \in Group
  /\ cancel \in [at : {"idle", "records", "instance", "group"}, rerun : Nat]
  /\ pass \in [at : {"idle", "groups", "remove"}, rerun : Nat,
               run : {"active", "settled", "cancelled", "absent"}]
  /\ won \subseteq Nat
  /\ faults \in Nat /\ removed \in Nat

\* What MapOutput says of an instance i and the group g: its items, the
\* positions done on them, its state and its output.
Finished(i) ==
  \/ i.state = "succeeded"
  \/ i.state \in Active /\ i.phase = "finish"
PromisedItems(i) == IF i.items = BadItems THEN <<>> ELSE i.items
Done(i, g) ==
  IF Finished(i) /\ i.output = i.items THEN DOMAIN i.items
  ELSE IF i.state # "succeeded" /\ InputsOf(g) = i.items THEN Kept(g) ELSE {}
PromisedState(i) == IF i.state \in Active THEN "active" ELSE i.state
PromisedOutput(i) == IF i.state = "succeeded" THEN i.output ELSE <<>>

Promise == INSTANCE MapOutput WITH
  ItemLists <- ItemLists \cup {<<>>}, items <- PromisedItems(inst),
  done <- Done(inst, group), state <- PromisedState(inst),
  output <- PromisedOutput(inst), late <- late

\* The node keeps the promise of MapOutput: it succeeds with the outputs of
\* all of its present items in their order, whatever group an earlier instance
\* left behind.  Only where a worker has gone on without its lease it may
\* succeed with those of the items of that worker, all and in order too: two
\* workers on one group never make a mixture or a part (run_mapped).
KeepsPromise == Promise!Spec

\* The successes on the items of the instance are kept for the next one: no
\* step of the instance, of the cancel or of a failure drops them, except the
\* step that removes the group for the success of the node (run_mapped: a
\* group is removed for other items, a removed result or a success alone).
\* This is said of an instance that no worker without its lease has disturbed:
\* such a worker removes a group that it saw before it was filled.
SuccessesAreKept ==
  [][late = {} /\ won \subseteq Kept(group) /\ inst.phase # "finish" =>
       won' \subseteq Kept(group')]_vars

\* A graph run is removed with the groups of its mapped nodes, also when a
\* step, the cancel or a rerun interferes with the pass (forget_groups).
RemovedLeavesNoGroup == run = "absent" => ~group.exists

\* When its members end, the task instance ends: it does not wait for ever for
\* a group that was replaced, cancelled or removed (run_mapped).
NodeEnds ==
  WF_vars(EndMember) => (inst.state \in Active ~> inst.state \in Ended)

\* While its graph run stays cancelled, a mapped node stops: its instance
\* ends, and so do the members, also those that a step submitted after the
\* cancel of the group (run_mapped, cancel_active_runs).  Only those that a
\* worker without its lease submits for a node that succeeds run on: a node
\* with an output is not cancelled.
CancelledNodeStops ==
  <>[](run = "cancelled") =>
    <>[](/\ inst.state \in Ended
         /\ ~(inst.state = "succeeded" /\ late # {}) => Pending(group) = {})

-----------------------------------------------------------------------------
(* Claims of the comments that the code does not keep (README, Findings) *)

\* The head of dispatch.rs, on a mapped node: "Its output is the array of the
\* member outputs in item order", of its items.
SucceedsOnItems == inst.state = "succeeded" => inst.output = inst.items

\* The README, on mapped nodes: "A rerun of the failed node runs only the
\* members that did not succeed."
RerunRunsTheRest == inst.state = "failed" => won \subseteq Kept(group)

\* The head of dispatch.rs: "When a member has failed or has been cancelled,
\* the task instance fails once every member is terminated".
FailsOnceTerminated ==
  [][/\ inst.state \in Active /\ inst'.state = "failed"
     /\ With(group, {"failed", "cancelled"}) # {}
     => Pending(group) = {}]_vars
=============================================================================
