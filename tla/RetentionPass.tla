--------------------------- MODULE RetentionPass ---------------------------
(***************************************************************************)
(* The retention pass of retention.rs: for a due entry of the expiry index *)
(* it reads the record the entry refers to, and then removes the records   *)
(* under a compare, or the entry alone when the entry is stale.            *)
(***************************************************************************)
EXTENDS Requests

CONSTANT MaxTime   \* the bound of the clock

ASSUME MaxTimeAssumption == MaxTime \in Nat

IsDueAtOnce(e) == e.time <= now   \* mutant
IsDue(e) == e.time + Retention <= now

\* Removes the entry alone: the outcome of an entry whose record is absent or
\* dated at another time.
Stale(e) == [PassIdle EXCEPT !.at = "drop", !.entry = e]

\* Mutant: the entry of an earlier settle is kept.
ExpireRunKeepStale ==
  /\ pass.at = "idle"
  /\ \E e \in expiry :
       /\ IsDue(e)
       /\ e.request = 0
       /\ run.settled = e.time
       /\ pass' = [PassIdle EXCEPT !.at = "removeRun", !.entry = e, !.run = run]
  /\ UNCHANGED <<storeVars, poolVars, requestVars, now, proc, countVars>>

\* The pass takes a due entry of the run and reads the run record.
ExpireRun ==
  /\ pass.at = "idle"
  /\ \E e \in expiry :
       /\ IsDue(e)
       /\ e.request = 0
       /\ pass' = IF run.settled = e.time
                  THEN [PassIdle EXCEPT !.at = "removeRun", !.entry = e,
                                        !.run = run]
                  ELSE Stale(e)
  /\ UNCHANGED <<storeVars, poolVars, requestVars, now, proc, countVars>>

\* The pass takes a due entry of a request and reads the request record.
ExpireRequest ==
  /\ pass.at = "idle"
  /\ \E e \in expiry :
       /\ IsDue(e)
       /\ e.request \in DOMAIN answers
       /\ LET answer == answers[e.request]
          IN pass' = IF answer.outcome # "none" /\ answer.time = e.time
                     THEN [PassIdle EXCEPT !.at = "removeRequest", !.entry = e,
                                           !.answer = answer]
                     ELSE Stale(e)
  /\ UNCHANGED <<storeVars, poolVars, requestVars, now, proc, countVars>>

DropEntry ==
  /\ pass.at = "drop"
  /\ expiry' = expiry \ {pass.entry}
  /\ pass' = PassIdle
  /\ UNCHANGED <<run, recs, poolVars, requestVars, now, proc, countVars>>

\* Mutant: the run record is not compared with the one the pass read.
RemoveRunUnchecked ==
  /\ pass.at = "removeRun"
  /\ pass' = PassIdle
  /\ run' = NoRun
  /\ recs' = NoRecords
  /\ expiry' = expiry \ {pass.entry}
  /\ terminated' = {}
  /\ UNCHANGED <<active, events, requestVars, now, proc, countVars>>

\* Removes the node records, the run record and the entry, unless the run
\* record has changed since the pass read it.  The results of the task instances
\* are older than the retention of the runtimes by then, so the runtimes know
\* none of their ids.
RemoveRun ==
  /\ pass.at = "removeRun"
  /\ pass' = PassIdle
  /\ IF run = pass.run
     THEN /\ run' = NoRun
          /\ recs' = NoRecords
          /\ expiry' = expiry \ {pass.entry}
          /\ terminated' = {}
     ELSE UNCHANGED <<storeVars, terminated>>
  /\ UNCHANGED <<active, events, requestVars, now, proc, countVars>>

RemoveRequest ==
  /\ pass.at = "removeRequest"
  /\ pass' = PassIdle
  /\ IF answers[pass.entry.request] = pass.answer
     THEN /\ answers' = [answers EXCEPT ![pass.entry.request] = NoAnswer]
          /\ expiry' = expiry \ {pass.entry}
     ELSE UNCHANGED <<answers, expiry>>
  /\ UNCHANGED <<run, recs, poolVars, requests, acked, now, proc, countVars>>

\* The pass ends early, and the next pass reads its entries again.
FailPass ==
  /\ pass.at # "idle"
  /\ faults < MaxFaults
  /\ faults' = faults + 1
  /\ pass' = PassIdle
  /\ UNCHANGED <<storeVars, poolVars, requestVars, now, proc, fired>>

\* Time passes.
Tick ==
  /\ now < MaxTime
  /\ now' = now + 1
  /\ UNCHANGED <<storeVars, poolVars, requestVars, proc, pass, countVars>>
=============================================================================
