---------------------------- MODULE RunLifecycle ----------------------------
(***************************************************************************)
(* What swale promises of a graph run record, without processes, queues or *)
(* pools: a run is started once, settles from the active state at the time *)
(* that its record states, returns to the active state by a rerun and is   *)
(* removed only when it was settled a retention window ago.                *)
(***************************************************************************)
EXTENDS Naturals

CONSTANT Retention

VARIABLES
  state,      \* the state of the run, "absent" without a record
  requested,  \* the time of the start
  settled,    \* the time of the settle, 0 while the run is active
  now         \* the clock
vars == <<state, requested, settled, now>>

Final == {"complete", "failed", "cancelled"}

Init == state = "absent" /\ requested = 0 /\ settled = 0 /\ now = 1

Start ==
  /\ state = "absent"
  /\ state' = "active"
  /\ requested' = now
  /\ UNCHANGED <<settled, now>>

Settle ==
  /\ state = "active"
  /\ state' \in Final
  /\ settled' = now
  /\ UNCHANGED <<requested, now>>

Reactivate ==
  /\ state \in Final
  /\ state' = "active"
  /\ settled' = 0
  /\ UNCHANGED <<requested, now>>

Expire ==
  /\ state \in Final
  /\ settled + Retention <= now
  /\ state' = "absent"
  /\ requested' = 0
  /\ settled' = 0
  /\ UNCHANGED now

Tick ==
  /\ now' = now + 1
  /\ UNCHANGED <<state, requested, settled>>

Next == Start \/ Settle \/ Reactivate \/ Expire \/ Tick
Spec == Init /\ [][Next]_vars
=============================================================================
