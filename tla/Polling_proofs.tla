--------------------------- MODULE Polling_proofs ---------------------------
(***************************************************************************)
(* The deadline of a polling operator, for any number of workers, stalls   *)
(* and crashes and for every timeout, interval and lease.  What a worker   *)
(* with the lease has is the deadline of the step, and what it answered    *)
(* was true at the start of its poll at least.                             *)
(***************************************************************************)
EXTENDS Polling, TLAPS

Clock == now <= MaxTime
Found == (world = "waiting" => since = None) /\ (since # None => since <= now)
AttemptLeft == step.at = "queued" => step.attempts < MaxAttempts

\* What a worker knows of its poll.
Working ==
  \A w \in Workers : worker[w].at # "idle" =>
    /\ worker[w].start <= now
    /\ Polls => worker[w].deadline # None
    /\ Polls /\ Holds(w) /\ step.deadline # None =>
         worker[w].deadline = step.deadline
    /\ worker[w].at = "answered" /\ worker[w].got = "waiting" =>
         Polls /\ (since = None \/ since >= worker[w].start)

ExpiredHasDeadline == step.at = "expired" => step.deadline # None

PollInv ==
  /\ TypeOK
  /\ Clock
  /\ Found
  /\ AttemptLeft
  /\ Working
  /\ ExpiredHasDeadline
  /\ ExpiresJustly

-----------------------------------------------------------------------------
(* The operators *)

LEMMA LaterType ==
  ASSUME now \in Nat, Clock, NEW d \in Nat
  PROVE  Later(d) \in Nat /\ now <= Later(d) /\ Later(d) <= MaxTime
BY TimesAssumption DEF Later, Clock

LEMMA ConstantTypes ==
  /\ Idle \in Worker
  /\ FirstStep \in Step
  /\ FirstStep.at = "queued" /\ FirstStep.attempts < MaxAttempts
  /\ FirstStep.deadline = None
BY TimesAssumption DEF Idle, Worker, Outcomes, FirstStep, Step

\* A worker that begins a poll.
Delivered(at, start, deadline, until) ==
  [Idle EXCEPT !.at = at, !.start = start, !.deadline = deadline,
               !.until = until]

LEMMA DeliveredType ==
  ASSUME NEW at \in {"writing", "running"}, NEW start \in Nat,
         NEW deadline \in Nat \cup {None}, NEW until \in Nat
  PROVE  LET l == Delivered(at, start, deadline, until)
         IN  /\ l \in Worker /\ l.at = at
             /\ l.start = start /\ l.deadline = deadline
BY ConstantTypes DEF Delivered, Worker

LEMMA EndStepType ==
  ASSUME TypeOK, NEW at \in {"queued"} \cup Ended
  PROVE  /\ EndStep(at) \in Step
         /\ EndStep(at).at = at
         /\ EndStep(at).attempts = step.attempts
         /\ EndStep(at).deadline = step.deadline
<1>1. /\ step \in Step /\ 0 \in 0..Extension
      /\ None \in Workers \cup {None}
      /\ at \in {"queued", "leased"} \cup Ended
  BY TimesAssumption DEF TypeOK
<1>2. EndStep(at) = [step EXCEPT !.at = at, !.holder = None, !.lease = 0]
  BY DEF EndStep
<1>3. EndStep(at) \in Step
  BY <1>1, <1>2 DEF Step
<1> QED
  BY <1>1, <1>2 DEF Step

LEMMA RetryType ==
  ASSUME TypeOK
  PROVE  /\ Retry \in Step
         /\ Retry.at \in {"queued", "dead"}
         /\ Retry.at = "queued" => Retry.attempts < MaxAttempts
         /\ Retry.deadline = step.deadline
BY EndStepType DEF Retry, Ended

-----------------------------------------------------------------------------
(* What the steps leave alone *)

\* A step that ends the present step of the instance, or leaves it as it is,
\* while the worker w, if any, gets idle.
LEMMA EndsInv ==
  ASSUME PollInv, UNCHANGED <<operator, now, world, since, faults>>,
         token' \in BOOLEAN, step' \in Step, AttemptLeft',
         NEW W \in SUBSET Workers,
         worker' = [w \in Workers |-> IF w \in W THEN Idle ELSE worker[w]],
         \/ step'.at # "leased"
         \/ step'.holder = step.holder /\ step'.deadline = step.deadline
            /\ step.at = "leased",
         step'.at = "expired" =>
           /\ step'.deadline # None /\ now >= step'.deadline
           /\ since = None \/ since >= step'.deadline
  PROVE  PollInv'
<1>1. worker' \in [Workers -> Worker]
  BY ConstantTypes DEF PollInv, TypeOK
<1>2. TypeOK'
  BY <1>1 DEF PollInv, TypeOK
<1>3. Clock' /\ Found' /\ ExpiredHasDeadline' /\ ExpiresJustly'
  BY DEF PollInv, Clock, Found, ExpiredHasDeadline, ExpiresJustly
<1>4. Working'
  <2> SUFFICES ASSUME NEW w \in Workers, worker'[w].at # "idle"
               PROVE  /\ worker'[w].start <= now
                      /\ Polls => worker'[w].deadline # None
                      /\ Polls /\ Holds(w)' /\ step'.deadline # None =>
                           worker'[w].deadline = step'.deadline
                      /\ worker'[w].at = "answered" /\ worker'[w].got = "waiting" =>
                           Polls /\ (since = None \/ since >= worker'[w].start)
    BY DEF Working, Polls
  <2>1. worker'[w] = worker[w]
    BY DEF Idle
  <2>2. Holds(w)' => Holds(w) /\ step'.deadline = step.deadline
    BY DEF Holds
  <2> QED
    BY <2>1, <2>2 DEF PollInv, Working
<1> QED
  BY <1>2, <1>3, <1>4 DEF PollInv

\* As EndsInv, for a step that leaves the workers alone.
LEMMA QueueInv ==
  ASSUME PollInv, UNCHANGED <<operator, now, world, since, faults, worker>>,
         token' \in BOOLEAN, step' \in Step, AttemptLeft',
         \/ step'.at # "leased"
         \/ step'.holder = step.holder /\ step'.deadline = step.deadline
            /\ step.at = "leased",
         step'.at = "expired" =>
           /\ step'.deadline # None /\ now >= step'.deadline
           /\ since = None \/ since >= step'.deadline
  PROVE  PollInv'
<1>1. worker' = [w \in Workers |-> IF w \in {} THEN Idle ELSE worker[w]]
  BY DEF PollInv, TypeOK
<1>2. {} \in SUBSET Workers
  OBVIOUS
<1> QED
  BY <1>1, <1>2, EndsInv

\* A step that changes the worker w to l and leaves the rest alone.
LEMMA WorkInv ==
  ASSUME PollInv, NEW w \in Workers, NEW l \in Worker,
         UNCHANGED <<operator, now, world, since, step, token>>,
         faults' \in Nat,
         worker' = [worker EXCEPT ![w] = l],
         worker[w].at # "idle",
         l.start = worker[w].start, l.deadline = worker[w].deadline,
         l.at = "answered" /\ l.got = "waiting" =>
           Polls /\ (since = None \/ since >= l.start)
  PROVE  PollInv'
<1>1. TypeOK'
  BY DEF PollInv, TypeOK
<1>2. Clock' /\ Found' /\ ExpiredHasDeadline' /\ ExpiresJustly' /\ AttemptLeft'
  BY DEF PollInv, Clock, Found, ExpiredHasDeadline, ExpiresJustly, AttemptLeft
<1>3. worker'[w] = l /\ \A x \in Workers : x # w => worker'[x] = worker[x]
  BY DEF PollInv, TypeOK
<1>4. \A x : (Holds(x)' <=> Holds(x)) /\ (Polls' <=> Polls)
  BY DEF Holds, Polls
<1>5. Working'
  <2> SUFFICES ASSUME NEW x \in Workers, worker'[x].at # "idle"
               PROVE  /\ worker'[x].start <= now
                      /\ Polls => worker'[x].deadline # None
                      /\ Polls /\ Holds(x) /\ step.deadline # None =>
                           worker'[x].deadline = step.deadline
                      /\ worker'[x].at = "answered" /\ worker'[x].got = "waiting" =>
                           Polls /\ (since = None \/ since >= worker'[x].start)
    BY <1>4 DEF Working
  <2> QED
    BY <1>3 DEF PollInv, Working
<1> QED
  BY <1>1, <1>2, <1>5 DEF PollInv

-----------------------------------------------------------------------------
(* The steps of a worker *)

LEMMA DeliverNext ==
  ASSUME PollInv, NEW w \in Workers, Deliver(w)
  PROVE  PollInv' /\ step'.deadline = step.deadline
<1> DEFINE l == [Idle EXCEPT !.at = IF IsProgram THEN "writing" ELSE "running",
                             !.start = IF Polls THEN now ELSE 0,
                             !.deadline = IF Polls THEN Deadline ELSE None,
                             !.until = IF TimesRun THEN Later(RunTime) ELSE 0]
<1>1. TypeOK /\ Clock /\ step.at = "queued" /\ step.attempts < MaxAttempts
  BY DEF Deliver, PollInv, AttemptLeft
<1>2. /\ UNCHANGED <<operator, now, world, since, token, faults>>
      /\ worker' = [worker EXCEPT ![w] = l]
      /\ step' = [step EXCEPT !.at = "leased", !.ready = 0, !.attempts = @ + 1,
                              !.holder = w, !.lease = Extension]
  BY DEF Deliver, envVars
<1>3. /\ step' \in Step /\ step'.at = "leased" /\ step'.holder = w
      /\ step'.deadline = step.deadline
  <2>1. step \in Step /\ step.attempts + 1 \in 0..MaxAttempts
        /\ Extension \in 0..Extension
    BY <1>1, TimesAssumption DEF TypeOK, Step
  <2>2. step' \in Step
    BY <1>2, <2>1 DEF Step
  <2> QED
    BY <1>2, <2>1, <2>2 DEF Step
<1>4. Deadline \in Nat /\ (step.deadline # None => Deadline = step.deadline)
  BY <1>1, LaterType, TimesAssumption DEF Deadline, TypeOK, Step
<1>5. Later(RunTime) \in Nat
  BY <1>1, LaterType, TimesAssumption DEF TypeOK
<1>6. /\ l \in Worker /\ l.at \in {"writing", "running"} /\ l.start <= now
      /\ Polls => l.deadline = Deadline
  <2> DEFINE at == IF IsProgram THEN "writing" ELSE "running"
             start == IF Polls THEN now ELSE 0
             deadline == IF Polls THEN Deadline ELSE None
             until == IF TimesRun THEN Later(RunTime) ELSE 0
  <2>1. /\ at \in {"writing", "running"} /\ start \in Nat /\ start <= now
        /\ deadline \in Nat \cup {None} /\ (Polls => deadline = Deadline)
        /\ until \in Nat
    BY <1>1, <1>4, <1>5 DEF TypeOK
  <2>2. l = Delivered(at, start, deadline, until)
    BY DEF Delivered
  <2> HIDE DEF l, at, start, deadline, until
  <2> QED
    BY <2>1, <2>2, DeliveredType
<1> HIDE DEF l
<1>7. worker'[w] = l /\ \A x \in Workers : x # w => worker'[x] = worker[x]
  BY <1>1, <1>2 DEF TypeOK
<1>8. TypeOK'
  BY <1>1, <1>2, <1>3, <1>6 DEF TypeOK
<1>9. Clock' /\ Found' /\ AttemptLeft' /\ ExpiredHasDeadline' /\ ExpiresJustly'
  BY <1>2, <1>3 DEF PollInv, Clock, Found, AttemptLeft, ExpiredHasDeadline,
                    ExpiresJustly
<1>10. Working'
  <2> SUFFICES ASSUME NEW x \in Workers, worker'[x].at # "idle"
               PROVE  /\ worker'[x].start <= now
                      /\ Polls => worker'[x].deadline # None
                      /\ Polls /\ x = w /\ step.deadline # None =>
                           worker'[x].deadline = step.deadline
                      /\ worker'[x].at = "answered" /\ worker'[x].got = "waiting" =>
                           Polls /\ (since = None \/ since >= worker'[x].start)
    BY <1>2, <1>3 DEF Working, Holds, Polls
  <2>1. CASE x = w
    BY <1>4, <1>6, <1>7, <2>1, NoneAssumption
  <2>2. CASE x # w
    BY <1>7, <2>2 DEF PollInv, Working
  <2> QED
    BY <2>1, <2>2
<1> QED
  BY <1>3, <1>8, <1>9, <1>10 DEF PollInv

LEMMA WorkNext ==
  ASSUME PollInv, NEW w \in Workers,
         WriteStdin(w) \/ Exit(w) \/ Answer(w) \/ Stall(w) \/ Resume(w)
  PROVE  PollInv' /\ step'.deadline = step.deadline
<1>1. TypeOK /\ Clock /\ worker[w] \in Worker
  BY DEF PollInv, TypeOK
<1>2. CASE WriteStdin(w)
  <2>1. PICK l : l = [worker[w] EXCEPT
                        !.at = "running",
                        !.until = IF TimesRun THEN Later(RunTime) ELSE 0]
    OBVIOUS
  <2>2. Later(RunTime) \in Nat
    BY <1>1, LaterType, TimesAssumption DEF TypeOK
  <2>3. /\ l \in Worker /\ l.at = "running" /\ l.start = worker[w].start
        /\ l.deadline = worker[w].deadline
    BY <1>1, <2>1, <2>2 DEF Worker
  <2>4. worker' = [worker EXCEPT ![w] = l] /\ worker[w].at = "writing"
    BY <1>2, <2>1, <1>1 DEF WriteStdin, Works, TypeOK
  <2>5. UNCHANGED <<operator, now, world, since, step, token, faults>>
    BY <1>2 DEF WriteStdin, envVars
  <2>6. faults' \in Nat
    BY <1>1, <2>5 DEF TypeOK
  <2> QED
    BY <2>3, <2>4, <2>5, <2>6, WorkInv
<1>3. CASE Answer(w)
  <2>1. PICK got \in Answers :
          worker' = [worker EXCEPT ![w].at = "answered", ![w].got = got]
    BY <1>3 DEF Answer
  <2>2. PICK l : l = [worker[w] EXCEPT !.at = "answered", !.got = got]
    OBVIOUS
  <2>3. got \in Outcomes /\ (got = "waiting" => Polls /\ world = "waiting")
    BY <1>1, <2>1 DEF Answers, Outcomes, Polls, TypeOK
  <2>4. /\ l \in Worker /\ l.got = got /\ l.start = worker[w].start
        /\ l.deadline = worker[w].deadline
    BY <1>1, <2>2, <2>3 DEF Worker
  <2>5. worker' = [worker EXCEPT ![w] = l] /\ worker[w].at # "idle"
    BY <1>1, <1>3, <2>1, <2>2 DEF Answer, Works, TypeOK
  <2>6. UNCHANGED <<operator, now, world, since, step, token, faults>>
    BY <1>3 DEF Answer, envVars
  <2>7. faults' \in Nat
    BY <1>1, <2>6 DEF TypeOK
  <2>8. got = "waiting" => since = None
    BY <2>3 DEF PollInv, Found
  <2> QED
    BY <2>3, <2>4, <2>5, <2>6, <2>7, <2>8, WorkInv
<1>4. CASE Stall(w) \/ Resume(w)
  <2>1. PICK b \in BOOLEAN : worker' = [worker EXCEPT ![w].stalled = b]
    BY <1>4 DEF Stall, Resume
  <2>2. PICK l : l = [worker[w] EXCEPT !.stalled = b]
    OBVIOUS
  <2>3. /\ l \in Worker /\ l.start = worker[w].start /\ l.got = worker[w].got
        /\ l.deadline = worker[w].deadline /\ l.at = worker[w].at
    BY <1>1, <2>2 DEF Worker
  <2>4. worker' = [worker EXCEPT ![w] = l]
    BY <1>1, <2>1, <2>2 DEF TypeOK
  <2>5. UNCHANGED <<operator, now, world, since, step, token>> /\ faults' \in Nat
    BY <1>1, <1>4 DEF Stall, Resume, envVars, TypeOK
  <2>6. CASE worker[w].at # "idle"
    BY <2>3, <2>4, <2>5, <2>6, WorkInv DEF PollInv, Working
  <2>7. CASE worker[w].at = "idle"
    <3>1. TypeOK'
      BY <1>1, <2>3, <2>4, <2>5 DEF TypeOK
    <3>2. Working'
      BY <1>1, <2>3, <2>4, <2>5, <2>7
      DEF PollInv, Working, TypeOK, Holds, Polls
    <3> QED
      BY <3>1, <3>2, <2>5 DEF PollInv, Clock, Found, ExpiredHasDeadline,
                              ExpiresJustly, AttemptLeft
  <2> QED
    BY <2>5, <2>6, <2>7
<1>5. CASE Exit(w)
  <2>1. PICK l : l = [worker[w] EXCEPT !.at = "reading"]
    OBVIOUS
  <2>2. /\ l \in Worker /\ l.at = "reading" /\ l.start = worker[w].start
        /\ l.deadline = worker[w].deadline
    BY <1>1, <2>1 DEF Worker
  <2>3. worker' = [worker EXCEPT ![w] = l] /\ worker[w].at = "running"
    BY <1>1, <1>5, <2>1 DEF Exit, Works, TypeOK
  <2>4. UNCHANGED <<operator, now, world, since, step, token, faults>>
    BY <1>5 DEF Exit, envVars
  <2>5. faults' \in Nat
    BY <1>1, <2>4 DEF TypeOK
  <2> QED
    BY <2>2, <2>3, <2>4, <2>5, WorkInv
<1> QED
  BY <1>2, <1>3, <1>4, <1>5

\* The worker w gets idle, and its step ends or stays.
LEMMA EndsNext ==
  ASSUME PollInv, NEW w \in Workers, Ends(w)
  PROVE  PollInv' /\ (step.deadline # None => step'.deadline = step.deadline)
<1>1. TypeOK /\ worker[w] \in Worker /\ step \in Step
  BY DEF PollInv, TypeOK
<1>2. /\ UNCHANGED <<operator, now, world, since, token, faults>>
      /\ worker' = [worker EXCEPT ![w] = Idle]
  BY DEF Ends, Commit, Drop, TimesOut, LoseLease, StopCancelled, SetIdle, envVars
<1>3. /\ token' \in BOOLEAN /\ {w} \in SUBSET Workers
      /\ worker' = [x \in Workers |-> IF x \in {w} THEN Idle ELSE worker[x]]
  BY <1>1, <1>2 DEF TypeOK
<1>4. CASE step' = Retry
  BY <1>1, <1>2, <1>3, <1>4, RetryType, EndsInv DEF AttemptLeft
<1>5. CASE step' = step /\ ~Holds(w)
  <2>1. CASE step.at = "leased"
    BY <1>1, <1>2, <1>3, <1>5, <2>1, EndsInv DEF PollInv, AttemptLeft
  <2>2. CASE step.at # "leased"
    <3>1. step.at = "expired" =>
            /\ step.deadline # None /\ now >= step.deadline
            /\ since = None \/ since >= step.deadline
      BY DEF PollInv, ExpiredHasDeadline, ExpiresJustly
    <3> QED
      BY <1>1, <1>2, <1>3, <1>5, <2>2, <3>1, EndsInv DEF PollInv, AttemptLeft
  <2> QED
    BY <2>1, <2>2
<1>6. CASE Commit(w)
  <2>1. /\ worker[w].at = "answered" /\ Holds(w)
        /\ step' = CASE worker[w].got = "transient" -> Retry
                     [] worker[w].got = "permanent" -> EndStep("dead")
                     [] worker[w].got = "waiting" /\ ~Passed(w) -> PollAfter(w)
                     [] worker[w].got = "waiting" /\ Passed(w) ->
                          [EndStep("expired") EXCEPT !.deadline = worker[w].deadline]
                     [] OTHER -> EndStep(worker[w].got)
    BY <1>6 DEF Commit, Works
  <2>2. CASE worker[w].got = "transient"
    BY <1>4, <2>1, <2>2
  <2>3. ASSUME NEW at \in {"succeeded", "failed", "dead", "cancelled"},
               step' = EndStep(at)
        PROVE  PollInv' /\ step'.deadline = step.deadline
    <3>1. /\ EndStep(at) \in Step /\ EndStep(at).at = at
          /\ EndStep(at).deadline = step.deadline
      BY <1>1, EndStepType DEF Ended
    <3> QED
      BY <1>1, <1>2, <1>3, <2>3, <3>1, EndsInv DEF AttemptLeft
  <2>4. CASE worker[w].got \in {"permanent", "succeeded", "failed"}
    BY <2>1, <2>3, <2>4
  <2>5. ASSUME worker[w].got = "waiting"
        PROVE  /\ Polls /\ worker[w].deadline \in Nat /\ worker[w].start <= now
               /\ worker[w].start \in Nat
               /\ since = None \/ since >= worker[w].start
               /\ step.deadline # None => worker[w].deadline = step.deadline
    BY <1>1, <2>1, <2>5 DEF PollInv, Working, Worker
  <2>6. CASE worker[w].got = "waiting" /\ Passed(w)
    <3>1. /\ step' = [EndStep("expired") EXCEPT !.deadline = worker[w].deadline]
          /\ worker[w].start >= worker[w].deadline
      BY <2>1, <2>6 DEF Passed
    <3>2. EndStep("expired") \in Step /\ EndStep("expired").at = "expired"
      BY <1>1, EndStepType DEF Ended
    <3>3. /\ step' \in Step /\ step'.at = "expired"
          /\ step'.deadline = worker[w].deadline
      BY <2>5, <2>6, <3>1, <3>2 DEF Step
    <3>4. now >= step'.deadline /\ (since = None \/ since >= step'.deadline)
      BY <1>1, <2>5, <2>6, <3>1, <3>3 DEF TypeOK
    <3>5. step'.deadline # None
      BY <2>5, <2>6, <3>3, NoneAssumption
    <3> QED
      BY <1>2, <1>3, <2>5, <2>6, <3>3, <3>4, <3>5, EndsInv DEF AttemptLeft
  <2>7. CASE worker[w].got = "waiting" /\ ~Passed(w)
    <3>1. step' = PollAfter(w)
      BY <2>1, <2>7
    <3>2. CASE token
      BY <2>3, <3>1, <3>2 DEF PollAfter
    <3>3. CASE ~token
      <4>1. step' = [FirstStep EXCEPT !.ready = Later(Interval),
                                      !.deadline = worker[w].deadline]
        BY <3>1, <3>3 DEF PollAfter
      <4>2. Later(Interval) \in Nat
        BY <1>1, LaterType, TimesAssumption DEF TypeOK, PollInv
      <4>3. /\ step' \in Step /\ step'.at = "queued"
            /\ step'.attempts = FirstStep.attempts
            /\ step'.deadline = worker[w].deadline
        BY <2>5, <2>7, <4>1, <4>2, ConstantTypes DEF Step
      <4> QED
        BY <1>2, <1>3, <2>5, <2>7, <4>3, ConstantTypes, EndsInv DEF AttemptLeft
    <3> QED
      BY <3>2, <3>3
  <2>8. worker[w].got \in Outcomes
    BY <1>1 DEF Worker
  <2> QED
    BY <2>2, <2>4, <2>6, <2>7, <2>8 DEF Outcomes
<1>7. CASE ~Commit(w)
  <2>1. step' = Retry \/ (step' = step /\ ~Holds(w))
    BY <1>7 DEF Ends, Drop, TimesOut, LoseLease, StopCancelled
  <2> QED
    BY <1>1, <1>4, <1>5, <2>1, RetryType
<1> QED
  BY <1>6, <1>7

-----------------------------------------------------------------------------
(* The queue, the clock and the world *)

LEMMA QueueNext ==
  ASSUME PollInv,
         (\E w \in Workers : Extend(w)) \/ Expire \/ Cancel \/ EndCancelled \/ Crash
  PROVE  PollInv' /\ step'.deadline = step.deadline
<1>1. TypeOK
  BY DEF PollInv
<1>2. step.at = "expired" =>
        /\ step.deadline # None /\ now >= step.deadline
        /\ since = None \/ since >= step.deadline
  BY DEF PollInv, ExpiredHasDeadline, ExpiresJustly
<1>3. CASE \E w \in Workers : Extend(w)
  <2>1. /\ step' = [step EXCEPT !.lease = Extension] /\ step.at = "leased"
        /\ UNCHANGED <<worker, token, operator, now, world, since, faults>>
    BY <1>3 DEF Extend, Holds, envVars
  <2>2. Extension \in 0..Extension
    BY TimesAssumption
  <2>3. /\ step' \in Step /\ step'.at = "leased" /\ step'.holder = step.holder
        /\ step'.deadline = step.deadline
    BY <1>1, <2>1, <2>2 DEF TypeOK, Step
  <2> QED
    BY <1>1, <2>1, <2>3, QueueInv DEF AttemptLeft, TypeOK
<1>4. CASE Expire
  <2>1. /\ step' = Retry
        /\ UNCHANGED <<worker, token, operator, now, world, since, faults>>
    BY <1>4 DEF Expire, envVars
  <2> QED
    BY <1>1, <2>1, RetryType, QueueInv DEF AttemptLeft, TypeOK
<1>5. CASE EndCancelled
  <2>1. /\ step' = EndStep("cancelled")
        /\ UNCHANGED <<worker, token, operator, now, world, since, faults>>
    BY <1>5 DEF EndCancelled, envVars
  <2>2. /\ EndStep("cancelled") \in Step /\ EndStep("cancelled").at = "cancelled"
        /\ EndStep("cancelled").deadline = step.deadline
    BY <1>1, EndStepType DEF Ended
  <2> QED
    BY <1>1, <2>1, <2>2, QueueInv DEF AttemptLeft, TypeOK
<1>6. CASE Cancel
  <2>1. /\ token' = TRUE
        /\ UNCHANGED <<step, worker, operator, now, world, since, faults>>
    BY <1>6 DEF Cancel, envVars
  <2>2. step.at = "leased" \/ step.at # "leased"
    OBVIOUS
  <2> QED
    BY <1>1, <1>2, <2>1, <2>2, QueueInv DEF PollInv, AttemptLeft, TypeOK
<1>7. CASE Crash
  <2>1. /\ faults' = faults + 1 /\ worker' = [w \in Workers |-> Idle]
        /\ UNCHANGED <<step, operator, now, world, since, token>>
    BY <1>7 DEF Crash
  <2>2. TypeOK'
    BY <1>1, <2>1, ConstantTypes DEF TypeOK
  <2>3. Working'
    BY <2>1 DEF Working, Idle
  <2> QED
    BY <2>1, <2>2, <2>3 DEF PollInv, Clock, Found, AttemptLeft,
                            ExpiredHasDeadline, ExpiresJustly
<1> QED
  BY <1>3, <1>4, <1>5, <1>6, <1>7

LEMMA TickNext ==
  ASSUME PollInv, Tick
  PROVE  PollInv' /\ step'.deadline = step.deadline
<1> DEFINE lease == IF step.lease = 0 THEN 0 ELSE step.lease - 1
<1>1. TypeOK /\ Clock /\ now \in Nat /\ step \in Step
  BY DEF PollInv, TypeOK
<1>2. /\ now' = Later(1) /\ step' = [step EXCEPT !.lease = lease]
      /\ UNCHANGED <<operator, world, since, worker, token, faults>>
  BY DEF Tick
<1>3. now' \in Nat /\ now <= now' /\ now' <= MaxTime
  BY <1>1, <1>2, LaterType
<1>4. lease \in 0..Extension
  BY <1>1, TimesAssumption DEF Step
<1>5. /\ step' \in Step /\ step'.at = step.at /\ step'.deadline = step.deadline
      /\ step'.holder = step.holder /\ step'.attempts = step.attempts
  <2> HIDE DEF lease
  <2> QED
    BY <1>1, <1>2, <1>4 DEF Step
<1>6. TypeOK'
  BY <1>1, <1>2, <1>3, <1>5 DEF TypeOK
<1>7. Clock' /\ Found' /\ AttemptLeft' /\ ExpiredHasDeadline'
  BY <1>1, <1>2, <1>3, <1>5
  DEF PollInv, TypeOK, Clock, Found, AttemptLeft, ExpiredHasDeadline
<1>8. ExpiresJustly'
  <2>1. step.at = "expired" => step.deadline \in Nat
    BY <1>1 DEF PollInv, ExpiredHasDeadline, Step
  <2> QED
    BY <1>1, <1>2, <1>3, <1>5, <2>1 DEF PollInv, ExpiresJustly
<1>9. Working'
  <2> SUFFICES ASSUME NEW w \in Workers, worker[w].at # "idle"
               PROVE  /\ worker[w].start <= now'
                      /\ Polls => worker[w].deadline # None
                      /\ Polls /\ Holds(w) /\ step.deadline # None =>
                           worker[w].deadline = step.deadline
                      /\ worker[w].at = "answered" /\ worker[w].got = "waiting" =>
                           Polls /\ (since = None \/ since >= worker[w].start)
    BY <1>2, <1>5 DEF Working, Polls, Holds
  <2>1. worker[w].start \in Nat
    BY <1>1 DEF TypeOK, Worker
  <2> QED
    BY <1>1, <1>3, <2>1 DEF PollInv, Working
<1> QED
  BY <1>5, <1>6, <1>7, <1>8, <1>9 DEF PollInv

LEMMA HappenNext ==
  ASSUME PollInv, Happen
  PROVE  PollInv' /\ step'.deadline = step.deadline
<1>1. /\ TypeOK /\ since = None /\ since' = now /\ world' = "succeeded"
      /\ UNCHANGED <<operator, now, step, worker, token, faults>>
  BY DEF Happen, PollInv, Found
<1>2. TypeOK' /\ Clock' /\ Found' /\ AttemptLeft' /\ ExpiredHasDeadline'
  BY <1>1 DEF PollInv, TypeOK, Clock, Found, AttemptLeft, ExpiredHasDeadline
<1>3. ExpiresJustly'
  BY <1>1 DEF PollInv, ExpiresJustly
<1>4. Working'
  <2> SUFFICES ASSUME NEW w \in Workers, worker[w].at # "idle"
               PROVE  /\ worker[w].start <= now
                      /\ Polls => worker[w].deadline # None
                      /\ Polls /\ Holds(w) /\ step.deadline # None =>
                           worker[w].deadline = step.deadline
                      /\ worker[w].at = "answered" /\ worker[w].got = "waiting" =>
                           Polls /\ (now = None \/ now >= worker[w].start)
    BY <1>1 DEF Working, Polls, Holds
  <2>1. worker[w].start \in Nat /\ now \in Nat
    BY <1>1 DEF TypeOK, Worker
  <2> QED
    BY <2>1 DEF PollInv, Working
<1> QED
  BY <1>1, <1>2, <1>3, <1>4 DEF PollInv

-----------------------------------------------------------------------------
(* The invariant *)

LEMMA InitPoll == Init => PollInv
<1> SUFFICES ASSUME Init PROVE PollInv
  OBVIOUS
<1>1. TypeOK
  BY ConstantTypes DEF Init, TypeOK
<1>2. Clock /\ Found /\ AttemptLeft /\ ExpiredHasDeadline /\ ExpiresJustly
  BY ConstantTypes, TimesAssumption
  DEF Init, Clock, Found, AttemptLeft, ExpiredHasDeadline, ExpiresJustly
<1>3. Working
  BY DEF Init, Working, Idle
<1> QED
  BY <1>1, <1>2, <1>3 DEF PollInv

LEMMA NextPoll ==
  ASSUME PollInv, [Next]_vars
  PROVE  PollInv' /\ (step.deadline # None => step'.deadline = step.deadline)
<1>1. CASE UNCHANGED vars
  BY <1>1 DEF vars, PollInv, TypeOK, Clock, Found, AttemptLeft, Working,
     ExpiredHasDeadline, ExpiresJustly, Holds, Polls
<1> QED
  BY <1>1, DeliverNext, WorkNext, EndsNext, QueueNext, TickNext, HappenNext
  DEF Next

LEMMA PollHolds == Spec => []PollInv
<1>1. PollInv /\ [Next]_vars => PollInv'
  BY NextPoll
<1> QED
  BY InitPoll, <1>1, PTL DEF Spec

\* Every variable keeps its type, for every operator and any number of workers:
\* the step with its poll state, the workers with their calls, the clock.
THEOREM PollingTypes == Spec => []TypeOK
<1>1. PollInv => TypeOK
  BY DEF PollInv
<1> QED
  BY PollHolds, <1>1, PTL

\* A wait never fails when what it waits for was there at its deadline, for any
\* number of workers that stall, lose their lease or crash, and any interval
\* (operator/mod.rs, Deadline::passed).
THEOREM NeverExpiresUnjustly == Spec => []ExpiresJustly
<1>1. PollInv => ExpiresJustly
  BY DEF PollInv
<1> QED
  BY PollHolds, <1>1, PTL

\* The deadline that a poll leaves stays that of the instance, whatever worker
\* commits a later poll (operator/mod.rs, Deadline::of).
THEOREM DeadlineStays == Spec => DeadlineIsKept
<1>1. PollInv /\ [Next]_vars =>
        [step.deadline # None => step'.deadline = step.deadline]_vars
  BY NextPoll
<1> QED
  BY PollHolds, <1>1, PTL DEF Spec, DeadlineIsKept
=============================================================================
