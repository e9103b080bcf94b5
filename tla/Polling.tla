------------------------------ MODULE Polling ------------------------------
(***************************************************************************)
(* A task instance that runs an operator of operator/mod.rs, step by step. *)
(* object_exists and a polling http end a poll with Outcome::Continue: the *)
(* next step comes after the interval with the deadline as its state.  The *)
(* other operators end in one step; subprocess stands for shell too, which *)
(* has no stdin to write, and unbounded is either without a timeout.       *)
(*                                                                         *)
(* A worker runs a step under a lease, which the operators with a long     *)
(* call extend; a step whose lease ends is delivered to another worker,    *)
(* beside the first one when that one is only stalled.                     *)
(*                                                                         *)
(* Delivery, leases and attempts are those of taquba_workflow, outside the *)
(* repository: an outcome counts only while its worker has the lease.  The *)
(* clock advances by the interval of the lease extensions, up to a horizon *)
(* that stands for every later time.                                       *)
(***************************************************************************)
EXTENDS Naturals

CONSTANTS
  Operators,    \* the operators that the instance may have
  Workers,      \* the workers of the pool
  None,         \* no deadline, no time, no worker
  MaxAttempts,  \* the attempts of a step
  Timeout,      \* the parameter timeout of a poll
  Interval,     \* the parameter interval of a poll
  RunTime,      \* the timeout of a request or a program
  Extension,    \* the extension of a lease
  MaxTime,      \* the horizon of the clock
  MaxFaults     \* bound of the stalls and crashes

AllOperators == {"object_exists", "http_poll", "http", "subprocess", "unbounded"}
ASSUME OperatorsAssumption == Operators \subseteq AllOperators
ASSUME NoneAssumption == None \notin Nat \cup Workers
ASSUME TimesAssumption ==
  /\ MaxAttempts \in Nat \ {0} /\ Timeout \in Nat /\ Interval \in Nat
  /\ RunTime \in Nat /\ Extension \in Nat \ {0}
  /\ MaxTime \in Nat /\ MaxFaults \in Nat

VARIABLES
  operator, \* the operator of the node
  now,      \* the clock of the store
  world,    \* what a poll finds
  since,    \* the time at which a poll would first find it
  step,     \* the present step of the instance
  worker,   \* the workers
  token,    \* the instance is cancelled
  faults    \* the faults so far
vars == <<operator, now, world, since, step, worker, token, faults>>

-----------------------------------------------------------------------------
Polls == operator \in {"object_exists", "http_poll"}
Extends == operator # "object_exists"
TimesRun == operator \in {"http_poll", "http", "subprocess"}
IsProgram == operator \in {"subprocess", "unbounded"}

Ended == {"succeeded", "failed", "expired", "dead", "cancelled"}
Outcomes == {"succeeded", "failed", "waiting", "transient", "permanent"}
Step == [at : {"queued", "leased"} \cup Ended, ready : Nat,
         deadline : Nat \cup {None}, attempts : 0..MaxAttempts,
         holder : Workers \cup {None}, lease : 0..Extension]
Worker == [at : {"idle", "writing", "running", "reading", "answered"}, start : Nat, until : Nat,
           deadline : Nat \cup {None}, got : Outcomes, stalled : BOOLEAN]

Idle == [at |-> "idle", start |-> 0, until |-> 0, deadline |-> None,
         got |-> "waiting", stalled |-> FALSE]
FirstStep == [at |-> "queued", ready |-> 0, deadline |-> None, attempts |-> 0,
              holder |-> None, lease |-> 0]

Init ==
  /\ operator \in Operators
  /\ now = 0
  /\ world = "waiting"
  /\ since = None
  /\ step = FirstStep
  /\ worker = [w \in Workers |-> Idle]
  /\ token = FALSE
  /\ faults = 0

\* The time after d, or the horizon.
Later(d) == IF now + d < MaxTime THEN now + d ELSE MaxTime

Holds(w) == step.at = "leased" /\ step.holder = w
Works(w, at) == worker[w].at = at /\ ~worker[w].stalled
SetIdle(w) == worker' = [worker EXCEPT ![w] = Idle]
envVars == <<operator, now, world, since, faults>>

-----------------------------------------------------------------------------
(* The steps *)

\* Mutant: the deadline of every poll is its own.
DeadlineAnew == Later(Timeout)

\* Deadline::of: the deadline in the state, or that of a first poll.
Deadline == IF step.deadline # None THEN step.deadline ELSE Later(Timeout)

Deliver(w) ==
  /\ step.at = "queued" /\ step.ready <= now /\ ~token
  /\ worker[w].at = "idle"
  /\ step' = [step EXCEPT !.at = "leased", !.ready = 0, !.attempts = @ + 1,
                          !.holder = w, !.lease = Extension]
  /\ worker' = [worker EXCEPT ![w] =
       [Idle EXCEPT !.at = IF IsProgram THEN "writing" ELSE "running",
                    !.start = IF Polls THEN now ELSE 0,
                    !.deadline = IF Polls THEN Deadline ELSE None,
                    !.until = IF TimesRun THEN Later(RunTime) ELSE 0]]
  /\ UNCHANGED <<token, envVars>>

\* The stdin of a program is written first, which takes a program that reads
\* it: its timeout, the extension of the lease and the cancel begin afterwards.
WriteStdin(w) ==
  /\ Works(w, "writing")
  /\ worker' = [worker EXCEPT
       ![w].at = "running",
       ![w].until = IF TimesRun THEN Later(RunTime) ELSE 0]
  /\ UNCHANGED <<step, token, envVars>>

\* A program exits.  The ends of its stdout and stderr are awaited next, which
\* takes every process that holds them: without a timeout, an extension of the
\* lease or a cancel.
Exit(w) ==
  /\ IsProgram /\ Works(w, "running")
  /\ worker' = [worker EXCEPT ![w].at = "reading"]
  /\ UNCHANGED <<step, token, envVars>>

\* The call of the operator ends with an outcome or an error.
Answers ==
  CASE operator = "object_exists" ->
         {IF world = "succeeded" THEN "succeeded" ELSE "waiting", "transient"}
    [] operator = "http_poll" -> {world, "failed", "transient", "permanent"}
    [] OTHER -> {"succeeded", "transient", "permanent"}

Answer(w) ==
  /\ Works(w, IF IsProgram THEN "reading" ELSE "running")
  /\ \E got \in Answers :
       worker' = [worker EXCEPT ![w].at = "answered", ![w].got = got]
  /\ UNCHANGED <<step, token, envVars>>

\* Mutant: an instance that expires at the end of its poll.
PassedAtEnd(w) == now >= worker[w].deadline

\* Deadline::passed.
Passed(w) == worker[w].start >= worker[w].deadline

EndStep(at) == [step EXCEPT !.at = at, !.holder = None, !.lease = 0]

\* Mutant: the attempts of a step are not bounded.
RetryAlways == EndStep("queued")

\* The step is delivered again, or its attempts are used up.
Retry == EndStep(IF step.attempts < MaxAttempts THEN "queued" ELSE "dead")

\* The next step after the interval, with the deadline as its state.
PollAfter(w) ==
  IF token THEN EndStep("cancelled")
  ELSE [FirstStep EXCEPT !.ready = Later(Interval),
                         !.deadline = worker[w].deadline]

Commit(w) ==
  /\ Works(w, "answered") /\ Holds(w)
  /\ LET got == worker[w].got
     IN step' = CASE got = "transient" -> Retry
                  [] got = "permanent" -> EndStep("dead")
                  [] got = "waiting" /\ ~Passed(w) -> PollAfter(w)
                  [] got = "waiting" /\ Passed(w) ->
                       [EndStep("expired") EXCEPT !.deadline = worker[w].deadline]
                  [] OTHER -> EndStep(got)
  /\ SetIdle(w)
  /\ UNCHANGED <<token, envVars>>

\* The outcome of a worker without the lease is dropped.
Drop(w) ==
  /\ Works(w, "answered") /\ ~Holds(w)
  /\ SetIdle(w)
  /\ UNCHANGED <<step, token, envVars>>

\* Mutant: a program is timed while its lease is not extended.
TimesOutLate(w) ==
  /\ TimesRun /\ Works(w, "running")
  /\ now >= worker[w].until /\ step.lease = 0
  /\ step' = IF Holds(w) THEN Retry ELSE step
  /\ SetIdle(w)
  /\ UNCHANGED <<token, envVars>>

\* The request or the program takes too long: a transient error.
TimesOut(w) ==
  /\ TimesRun /\ Works(w, "running") /\ now >= worker[w].until
  /\ step' = IF Holds(w) THEN Retry ELSE step
  /\ SetIdle(w)
  /\ UNCHANGED <<token, envVars>>

\* keep_lease: the lease is extended, or the call ends and its program is killed.
Extend(w) ==
  /\ Extends /\ Works(w, "running") /\ Holds(w)
  /\ step.lease < Extension
  /\ step' = [step EXCEPT !.lease = Extension]
  /\ UNCHANGED <<worker, token, envVars>>

\* Mutant: the lost lease is not noticed when the step has ended.
LoseLeaseQueued(w) ==
  /\ Extends /\ Works(w, "running") /\ ~Holds(w) /\ step.at = "queued"
  /\ SetIdle(w)
  /\ UNCHANGED <<step, token, envVars>>

LoseLease(w) ==
  /\ Extends /\ Works(w, "running") /\ ~Holds(w)
  /\ SetIdle(w)
  /\ UNCHANGED <<step, token, envVars>>

\* The cancel of the run ends the call and kills the program.
StopCancelled(w) ==
  /\ Extends /\ Works(w, "running") /\ token /\ Holds(w)
  /\ step' = Retry
  /\ SetIdle(w)
  /\ UNCHANGED <<token, envVars>>

-----------------------------------------------------------------------------
(* The queue, the clock and the world *)

\* The lease ends before the outcome.
Expire ==
  /\ step.at = "leased" /\ step.lease = 0
  /\ step' = Retry
  /\ UNCHANGED <<worker, token, envVars>>

\* The instance is cancelled, at once while no worker runs it.
Cancel ==
  /\ step.at \notin Ended /\ ~token
  /\ token' = TRUE
  /\ UNCHANGED <<step, worker, envVars>>

EndCancelled ==
  /\ step.at = "queued" /\ token
  /\ step' = EndStep("cancelled")
  /\ UNCHANGED <<worker, token, envVars>>

\* A worker that is not stalled extends its lease before it ends.
Tick ==
  /\ \A w \in Workers :
       Extends /\ Works(w, "running") => Holds(w) /\ step.lease > 1
  /\ now' = Later(1)
  /\ step' = [step EXCEPT !.lease = IF @ = 0 THEN 0 ELSE @ - 1]
  /\ UNCHANGED <<operator, world, since, worker, token, faults>>

Happen ==
  /\ Polls /\ world = "waiting"
  /\ world' = "succeeded"
  /\ since' = now
  /\ UNCHANGED <<operator, now, step, worker, token, faults>>

Stall(w) ==
  /\ worker[w].at # "idle" /\ ~worker[w].stalled
  /\ faults < MaxFaults
  /\ faults' = faults + 1
  /\ worker' = [worker EXCEPT ![w].stalled = TRUE]
  /\ UNCHANGED <<operator, now, world, since, step, token>>

Resume(w) ==
  /\ worker[w].stalled
  /\ worker' = [worker EXCEPT ![w].stalled = FALSE]
  /\ UNCHANGED <<step, token, envVars>>

\* The process of the daemon ends.
Crash ==
  /\ faults < MaxFaults
  /\ faults' = faults + 1
  /\ worker' = [w \in Workers |-> Idle]
  /\ UNCHANGED <<operator, now, world, since, step, token>>

-----------------------------------------------------------------------------
Ends(w) == Commit(w) \/ Drop(w) \/ TimesOut(w) \/ LoseLease(w) \/ StopCancelled(w)

Next ==
  \/ \E w \in Workers :
       \/ Deliver(w) \/ WriteStdin(w) \/ Exit(w) \/ Answer(w) \/ Ends(w)
       \/ Extend(w) \/ Stall(w) \/ Resume(w)
  \/ Expire \/ Cancel \/ EndCancelled \/ Tick \/ Happen \/ Crash

Spec == Init /\ [][Next]_vars

\* The workers take steps, extend leases and end calls, a stalled worker
\* resumes, and the clock goes on.  Only the head of object_exists is known to
\* return; a request or a program may run for ever, and a program may leave its
\* stdin unread or its output open for ever.
FairSpec ==
  /\ Spec
  /\ WF_vars(\E w \in Workers : Deliver(w))
  /\ \A w \in Workers : WF_vars(Ends(w)) /\ WF_vars(Extend(w)) /\ WF_vars(Resume(w))
  /\ \A w \in Workers : WF_vars(operator = "object_exists" /\ Answer(w))
  /\ WF_vars(Expire) /\ WF_vars(EndCancelled) /\ WF_vars(Tick)

-----------------------------------------------------------------------------
(* Properties *)

TypeOK ==
  /\ operator \in Operators
  /\ now \in Nat
  /\ world \in {"waiting", "succeeded"}
  /\ since \in Nat \cup {None}
  /\ step \in Step
  /\ worker \in [Workers -> Worker]
  /\ token \in BOOLEAN
  /\ faults \in Nat

\* A wait never fails when what it waits for was there at the deadline, however
\* late, stalled or repeated its last poll is (Deadline::passed, which takes
\* the start of the step).
ExpiresJustly ==
  step.at = "expired" =>
    /\ now >= step.deadline
    /\ since = None \/ since >= step.deadline

\* The deadline that a poll leaves is that of every later poll: no retry, crash
\* or lost lease extends or forgets it (Deadline::of).
DeadlineIsKept ==
  [][step.deadline # None => step'.deadline = step.deadline]_vars

\* The instance ends: a wait by its deadline, a request or a program by its
\* timeout, whatever fails or stalls (Deadline, run_program).
InstanceEnds == operator # "unbounded" => <>(step.at \in Ended)

\* The wait for a request, or for the exit of a program whose stdin is written,
\* ends when the instance is cancelled or another worker has its lease
\* (keep_lease, the cancel token).  It says nothing of a program that is still
\* to read its stdin, or of one whose output is still open (CallsEndWhole).
CallsEnd ==
  \A w \in Workers :
    Extends /\ worker[w].at = "running" /\ (token \/ ~Holds(w))
      ~> worker[w].at # "running"

\* What the comment of run_program claims, and the runs do not check since TLC
\* refutes it: a program is killed whenever its instance is cancelled or its
\* lease lost.  Neither reaches a program that does not read its stdin, nor one
\* whose output stays open.
CallsEndWhole ==
  \A w \in Workers :
    Extends /\ worker[w].at \in {"writing", "running", "reading"}
            /\ (token \/ ~Holds(w))
      ~> worker[w].at \in {"idle", "answered"}
=============================================================================
