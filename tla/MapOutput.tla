----------------------------- MODULE MapOutput -----------------------------
(***************************************************************************)
(* What a mapped node promises, without groups, steps or cancels: the      *)
(* members run on the items of the task instance, and the node succeeds    *)
(* with the outputs of all of them, in item order.  The output of a member *)
(* is written as its input.  A worker that goes on without its lease may   *)
(* put its own items in the place of the present ones.                     *)
(***************************************************************************)
EXTENDS Naturals, Sequences

CONSTANT ItemLists  \* the lists of items that an upstream can give

VARIABLES
  items,   \* the items of the latest task instance
  done,    \* the positions whose member has succeeded on the items
  state,   \* the state of the node
  output,  \* the output of the node while it is succeeded
  late     \* the items of the workers without their lease
vars == <<items, done, state, output, late>>

Init ==
  /\ items \in ItemLists
  /\ done = {}
  /\ state = "active"
  /\ output = <<>>
  /\ late = {}

\* A member succeeds.  It may belong to an instance that has ended.
Run(p) ==
  /\ p \in DOMAIN items \ done
  /\ done' = done \cup {p}
  /\ UNCHANGED <<items, state, output, late>>

\* The members are run again: the items of the instance are others, or a
\* result or the whole group is no longer kept.
Discard ==
  /\ state # "succeeded"
  /\ done' \in SUBSET done
  /\ UNCHANGED <<items, state, output, late>>

Succeed ==
  /\ state = "active"
  /\ state' = "succeeded"
  /\ \/ done = DOMAIN items /\ output' = items /\ UNCHANGED done
     \/ output' \in late \ {items} /\ done' = {}
  /\ UNCHANGED <<items, late>>

Stop ==
  /\ state = "active"
  /\ state' \in {"failed", "cancelled"}
  /\ done' \in SUBSET done
  /\ UNCHANGED <<items, output, late>>

\* A worker loses its lease.  The instance goes on with another, or fails.
Delay ==
  /\ state = "active"
  /\ state' \in {"active", "failed"}
  /\ done' \in SUBSET done
  /\ late' = late \cup {items}
  /\ UNCHANGED <<items, output>>

Rerun ==
  /\ state # "active"
  /\ state' = "active"
  /\ items' \in ItemLists
  /\ done' \in SUBSET DOMAIN items'
  /\ output' = <<>>
  /\ late' \in SUBSET late

Next ==
  \/ \E p \in DOMAIN items : Run(p)
  \/ Discard \/ Succeed \/ Stop \/ Delay \/ Rerun
Spec == Init /\ [][Next]_vars
=============================================================================
