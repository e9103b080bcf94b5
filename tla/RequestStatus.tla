--------------------------- MODULE RequestStatus ---------------------------
(***************************************************************************)
(* The command that sends a request with --wait (cli/request.rs) beside    *)
(* the scheduler: it reads the state of the request (status.rs, request)   *)
(* every second until the request is applied or failed.  A read of the     *)
(* state is a read of the record, of the job and of the record again, with *)
(* the scheduler in between.  The inbox does not reject the request.       *)
(***************************************************************************)
EXTENDS Scheduler

VARIABLE waiter  \* the waiting command, its request and whether that failed
waitVars == <<vars, waiter>>

NotWaiting == [at |-> "none", request |-> 0, dead |-> FALSE]

WaitInit ==
  /\ Init
  /\ waiter = NotWaiting

Asked == waiter.request
IsApplied == answers[Asked].outcome # "none"

\* The command goes on to a read, or ends with the outcome or the error.
ReadNext(at) ==
  /\ waiter' = IF at = "none" THEN NotWaiting ELSE [waiter EXCEPT !.at = at]
  /\ UNCHANGED vars

ReadRequestRecord ==
  waiter.at = "record" /\ ReadNext(IF IsApplied THEN "none" ELSE "job")

\* Mutant: a dead-lettered job is waited for.
ReadJobDead ==
  /\ waiter.at = "job"
  /\ ReadNext(IF Asked > acked \/ waiter.dead THEN "record" ELSE "again")

\* A job that waits, is retried or runs is read again after a second.
ReadJob ==
  /\ waiter.at = "job"
  /\ ReadNext(IF Asked > acked THEN "record"
              ELSE IF waiter.dead THEN "none" ELSE "again")

ReadRecordAgain ==
  waiter.at = "again" /\ ReadNext(IF IsApplied THEN "none" ELSE "record")

WaiterStep == ReadRequestRecord \/ ReadJob \/ ReadRecordAgain

\* A failure that acknowledges the request job dead-letters it.
DeadLetters == faults' # faults /\ acked # Asked /\ acked' = Asked

\* One sender at a time waits for its request.
SchedulerStep ==
  /\ Next
  /\ waiter' = IF waiter.at # "none" THEN [waiter EXCEPT !.dead = @ \/ DeadLetters]
               ELSE IF requests' = requests THEN waiter
               ELSE [at |-> "record", request |-> Len(requests'), dead |-> FALSE]

WaitNext == SchedulerStep \/ WaiterStep

WaitSpec ==
  /\ WaitInit /\ [][WaitNext]_waitVars
  /\ Fairness /\ WF_vars(Terminates) /\ WF_waitVars(WaiterStep)

-----------------------------------------------------------------------------
(* Properties *)

\* The record of a request is there once its job is done, so that no request
\* reads as waiting when it is not (status.rs: "The record commits before the
\* job settles").
DoneIsShown ==
  [][waiter.at = "again" => waiter'.at \in {"again", "none"}]_waitVars

\* The command ends, whatever contention, failure or lost event the request
\* meets, and whatever comes between its reads (cli/request.rs, send_request).
WaitEnds == waiter.at # "none" ~> waiter.at = "none"
=============================================================================
