------------------------- MODULE MappedNode_proofs -------------------------
(***************************************************************************)
(* The mapped node for any items, attempts, failures and reruns, and any   *)
(* number of workers that go on without their lease.  Nothing compares the *)
(* group with the items after the submit, so the argument is about the     *)
(* group between the calls: once a step has submitted it, nobody but a     *)
(* worker without its lease gives it other members, and what is left of    *)
(* it, or nothing, is what the next call finds.                            *)
(***************************************************************************)
EXTENDS MappedNode, SequenceTheorems, TLAPS

-----------------------------------------------------------------------------
(* Groups *)

LEMMA SeqFacts ==
  ASSUME NEW T, NEW s \in Seq(T)
  PROVE  /\ Len(s) \in Nat /\ DOMAIN s = 1..Len(s)
         /\ s = [p \in DOMAIN s |-> s[p]]
         /\ \A p \in DOMAIN s : p \in Nat /\ s[p] \in T
  BY LenProperties

LEMMA FunctionIsSeq ==
  ASSUME NEW S, NEW T, NEW s \in Seq(S), NEW f \in [DOMAIN s -> T]
  PROVE  f \in Seq(T)
<1>1. Len(s) \in Nat /\ DOMAIN s = 1..Len(s)
  BY SeqFacts
<1> QED
  BY <1>1, SeqDef

LEMMA BadItemsAreNoInputs == BadItems \notin Seq(Inputs)
<1> SUFFICES ASSUME BadItems \in Seq(Inputs) PROVE FALSE
  OBVIOUS
<1>1. DOMAIN BadItems = {1} /\ BadItems[1] = NotAnItem
  BY DEF BadItems
<1>2. BadItems[1] \in Inputs
  BY <1>1, SeqFacts
<1> QED
  BY <1>1, <1>2, NotAnItemAssumption

\* A result that is kept is that of a member that succeeded, and a group that
\* does not exist has no members.
GroupInv(g) ==
  /\ g \in Group
  /\ \A p \in DOMAIN g.members : g.members[p].kept => g.members[p].status = "succeeded"
  /\ ~g.exists => g.members = <<>>

\* g and h have the same members, with the same successes.
Alike(g, h) ==
  /\ h.exists = g.exists
  /\ InputsOf(h) = InputsOf(g)
  /\ Kept(h) = Kept(g)
  /\ With(h, {"succeeded"}) = With(g, {"succeeded"})

LEMMA GroupTypes ==
  ASSUME NEW g \in Group
  PROVE  /\ g = [exists |-> g.exists, members |-> g.members]
         /\ g.exists \in BOOLEAN /\ g.members \in Seq(Member)
         /\ g.members = [p \in DOMAIN g.members |-> g.members[p]]
         /\ \A p \in DOMAIN g.members : p \in Nat /\ g.members[p] \in Member
         /\ InputsOf(g) \in Seq(Inputs)
         /\ DOMAIN InputsOf(g) = DOMAIN g.members
         /\ Kept(g) = {p \in DOMAIN g.members : /\ g.members[p].status = "succeeded"
                                               /\ g.members[p].kept}
<1>1. g.members \in Seq(Member) /\ g.exists \in BOOLEAN
  BY DEF Group
<1>2. /\ g.members = [p \in DOMAIN g.members |-> g.members[p]]
      /\ \A p \in DOMAIN g.members : p \in Nat /\ g.members[p] \in Member
  BY <1>1, SeqFacts
<1>3. InputsOf(g) \in [DOMAIN g.members -> Inputs]
  BY <1>2 DEF InputsOf, Member
<1>4. InputsOf(g) \in Seq(Inputs)
  BY <1>1, <1>3, FunctionIsSeq
<1>5. g = [exists |-> g.exists, members |-> g.members]
  BY DEF Group
<1>6. Kept(g) = {p \in DOMAIN g.members : /\ g.members[p].status = "succeeded"
                                          /\ g.members[p].kept}
  BY DEF Kept, With
<1> QED
  BY <1>1, <1>2, <1>3, <1>4, <1>5, <1>6

\* A change of the members that keeps their inputs and their successes.
LEMMA ChangeAlike ==
  ASSUME NEW g, GroupInv(g), NEW m \in [DOMAIN g.members -> Member],
         \A p \in DOMAIN g.members :
           /\ m[p].input = g.members[p].input
           /\ m[p].status = "succeeded" <=> g.members[p].status = "succeeded"
           /\ m[p].kept <=> g.members[p].kept,
         NEW h, h = [g EXCEPT !.members = m]
  PROVE  GroupInv(h) /\ Alike(g, h)
<1>1. g \in Group
  BY DEF GroupInv
<1>2. h.members = m /\ h.exists = g.exists /\ h = [exists |-> g.exists, members |-> m]
  BY <1>1 DEF Group
<1>3. m \in Seq(Member)
  BY <1>1, GroupTypes, FunctionIsSeq
<1>4. DOMAIN m = DOMAIN g.members
  OBVIOUS
<1>5. h \in Group
  BY <1>1, <1>2, <1>3 DEF Group
<1>6. ~g.exists => m = <<>>
  <2>1. ~g.exists => DOMAIN m = {}
    BY DEF GroupInv
  <2>2. DOMAIN m = {} => m = <<>>
    BY <1>3, LenProperties
  <2> QED
    BY <2>1, <2>2
<1>7. GroupInv(h)
  BY <1>2, <1>4, <1>5, <1>6 DEF GroupInv
<1>8. InputsOf(h) = InputsOf(g)
  BY <1>2, <1>4 DEF InputsOf
<1>9. Kept(h) = Kept(g)
  <2>1. Kept(g) = {p \in DOMAIN g.members : /\ g.members[p].status = "succeeded"
                                           /\ g.members[p].kept}
    BY <1>1, GroupTypes
  <2>2. Kept(h) = {p \in DOMAIN g.members : /\ m[p].status = "succeeded"
                                           /\ m[p].kept}
    <3>1. Kept(h) = {p \in DOMAIN h.members : /\ h.members[p].status = "succeeded"
                                             /\ h.members[p].kept}
      BY <1>5, GroupTypes
    <3> QED
      BY <1>2, <1>4, <3>1, Zenon
  <2>3. \A p \in DOMAIN g.members :
          m[p].status = "succeeded" /\ m[p].kept
            <=> g.members[p].status = "succeeded" /\ g.members[p].kept
    OBVIOUS
  <2> QED
    BY <2>1, <2>2, <2>3, Zenon
<1>10. With(h, {"succeeded"}) = With(g, {"succeeded"})
  BY <1>2, <1>4 DEF With
<1> QED
  BY <1>2, <1>7, <1>8, <1>9, <1>10 DEF Alike

LEMMA CancelledAlike ==
  ASSUME NEW g, GroupInv(g)
  PROVE  GroupInv(Cancelled(g)) /\ Alike(g, Cancelled(g))
<1> DEFINE m == [p \in DOMAIN g.members |->
             IF g.members[p].status = "pending"
             THEN [g.members[p] EXCEPT !.status = "cancelling"] ELSE g.members[p]]
<1>1. \A p \in DOMAIN g.members : g.members[p] \in Member
  BY GroupTypes DEF GroupInv
<1>2. ASSUME NEW x \in Member
      PROVE  LET y == [x EXCEPT !.status = "cancelling"]
             IN /\ y \in Member /\ y.status = "cancelling"
                /\ y.input = x.input /\ y.kept = x.kept
  BY DEF Member
<1>3. /\ m \in [DOMAIN g.members -> Member]
      /\ \A p \in DOMAIN g.members :
           /\ m[p].input = g.members[p].input
           /\ m[p].status = "succeeded" <=> g.members[p].status = "succeeded"
           /\ m[p].kept <=> g.members[p].kept
  BY <1>1, <1>2
<1>4. Cancelled(g) = [g EXCEPT !.members = m]
  BY DEF Cancelled
<1> HIDE DEF m
<1> QED
  BY <1>3, <1>4, ChangeAlike

LEMMA CancelledPending ==
  ASSUME NEW g, GroupInv(g)
  PROVE  Pending(Cancelled(g)) \subseteq Pending(g)
<1>1. g \in Group
  BY DEF GroupInv
<1>2. \A p \in DOMAIN g.members : g.members[p].status = "pending"
                                    => p \in Pending(g)
  BY DEF Pending, With
<1>3. DOMAIN Cancelled(g).members = DOMAIN g.members
  BY <1>1 DEF Cancelled, Group
<1>4. \A p \in DOMAIN g.members :
        g.members[p].status # "pending" => Cancelled(g).members[p] = g.members[p]
  BY <1>1 DEF Cancelled, Group
<1> QED
  BY <1>2, <1>3, <1>4 DEF Pending, With

LEMMA ResumedAlike ==
  ASSUME NEW g, GroupInv(g)
  PROVE  GroupInv(Resumed(g)) /\ Alike(g, Resumed(g))
<1> DEFINE m == [p \in DOMAIN g.members |->
             IF g.members[p].status \in {"failed", "cancelled"}
             THEN NewMember(g.members[p].input) ELSE g.members[p]]
<1>1. \A p \in DOMAIN g.members : /\ g.members[p] \in Member
                                  /\ g.members[p].kept
                                       => g.members[p].status = "succeeded"
  BY GroupTypes DEF GroupInv
<1>2. ASSUME NEW i \in Inputs
      PROVE  /\ NewMember(i) \in Member /\ NewMember(i).status = "pending"
             /\ NewMember(i).input = i /\ ~NewMember(i).kept
  BY DEF Member, NewMember
<1>3. \A p \in DOMAIN g.members : g.members[p].input \in Inputs
  BY <1>1 DEF Member
<1>4. /\ m \in [DOMAIN g.members -> Member]
      /\ \A p \in DOMAIN g.members :
           /\ m[p].input = g.members[p].input
           /\ m[p].status = "succeeded" <=> g.members[p].status = "succeeded"
           /\ m[p].kept <=> g.members[p].kept
  BY <1>1, <1>2, <1>3
<1>5. Resumed(g) = [g EXCEPT !.members = m]
  BY DEF Resumed
<1> HIDE DEF m
<1> QED
  BY <1>4, <1>5, ChangeAlike

LEMMA NewGroupFacts ==
  ASSUME NEW items \in Seq(Inputs)
  PROVE  /\ GroupInv(GroupOf(items)) /\ GroupOf(items).exists
         /\ InputsOf(GroupOf(items)) = items
         /\ With(GroupOf(items), {"succeeded"}) = {}
         /\ Kept(GroupOf(items)) = {}
<1> DEFINE m == [p \in DOMAIN items |-> NewMember(items[p])]
<1>1. \A p \in DOMAIN items : /\ NewMember(items[p]) \in Member
                              /\ NewMember(items[p]).status = "pending"
                              /\ NewMember(items[p]).input = items[p]
                              /\ ~NewMember(items[p]).kept
  BY SeqFacts DEF NewMember, Member
<1>2. m \in [DOMAIN items -> Member]
  BY <1>1
<1>3. m \in Seq(Member)
  <2> HIDE DEF m
  <2> QED
    BY <1>2, FunctionIsSeq
<1>4. GroupOf(items) = [exists |-> TRUE, members |-> m]
  BY DEF GroupOf
<1>5. GroupOf(items) \in Group
  BY <1>3, <1>4 DEF Group
<1>6. /\ GroupOf(items).exists /\ GroupOf(items).members = m
      /\ DOMAIN m = DOMAIN items
      /\ \A p \in DOMAIN items : m[p] = NewMember(items[p])
  BY <1>4
<1>7. InputsOf(GroupOf(items)) = [p \in DOMAIN items |-> items[p]]
  BY <1>1, <1>6 DEF InputsOf
<1>8. With(GroupOf(items), {"succeeded"}) = {}
  BY <1>1, <1>6 DEF With
<1>9. GroupInv(GroupOf(items))
  BY <1>1, <1>5, <1>6 DEF GroupInv
<1> QED
  BY <1>6, <1>7, <1>8, <1>9, SeqFacts DEF Kept

LEMMA NoGroupFacts ==
  /\ GroupInv(NoGroup) /\ ~NoGroup.exists /\ NoGroup.members = <<>>
  /\ InputsOf(NoGroup) = <<>>
  /\ With(NoGroup, {"succeeded"}) = {} /\ Kept(NoGroup) = {}
<1>1. <<>> \in Seq(Member) /\ DOMAIN <<>> = {}
  BY EmptySeq
<1>2. NoGroup \in Group
  BY <1>1 DEF NoGroup, Group
<1>3. InputsOf(NoGroup) = <<>>
  <2>1. DOMAIN InputsOf(NoGroup) = {} /\ InputsOf(NoGroup) \in Seq(Inputs)
    BY <1>1, <1>2, GroupTypes DEF NoGroup
  <2> QED
    BY <2>1, LenProperties
<1> QED
  BY <1>1, <1>2, <1>3 DEF NoGroup, GroupInv, With, Kept

\* The end of a member, and the loss of a result.
Terminated(g, p, status) ==
  [g EXCEPT !.members[p] =
     [@ EXCEPT !.status = status, !.kept = status = "succeeded"]]

LEMMA MemberEndsFacts ==
  ASSUME NEW g, GroupInv(g), NEW p \in Pending(g), NEW status \in Ended,
         NEW h, h = Terminated(g, p, status)
  PROVE  /\ GroupInv(h) /\ h.exists = g.exists /\ InputsOf(h) = InputsOf(g)
         /\ p \in DOMAIN g.members /\ p \notin Kept(g)
         /\ p \notin With(g, {"succeeded"})
         /\ status = "succeeded" => p \in Kept(h)
         /\ Pending(h) \subseteq Pending(g)
         /\ \/ /\ Kept(h) = Kept(g) \cup {p}
               /\ With(h, {"succeeded"}) = With(g, {"succeeded"}) \cup {p}
            \/ /\ Kept(h) = Kept(g)
               /\ With(h, {"succeeded"}) = With(g, {"succeeded"})
<1> DEFINE x == [g.members[p] EXCEPT !.status = status, !.kept = status = "succeeded"]
           m == [g.members EXCEPT ![p] = x]
<1>1. p \in DOMAIN g.members /\ g.members[p].status \in {"pending", "cancelling"}
  BY DEF Pending, With
<1>2. /\ g \in Group /\ g.members \in Seq(Member) /\ g.exists \in BOOLEAN
      /\ g.members = [q \in DOMAIN g.members |-> g.members[q]]
      /\ \A q \in DOMAIN g.members : g.members[q] \in Member
  BY GroupTypes DEF GroupInv
<1> SUFFICES ASSUME h = [exists |-> g.exists, members |-> m]
             PROVE  /\ GroupInv(h) /\ h.exists = g.exists /\ InputsOf(h) = InputsOf(g)
                    /\ p \in DOMAIN g.members /\ p \notin Kept(g)
                    /\ p \notin With(g, {"succeeded"})
                    /\ status = "succeeded" => p \in Kept(h)
                    /\ Pending(h) \subseteq Pending(g)
                    /\ \/ /\ Kept(h) = Kept(g) \cup {p}
                          /\ With(h, {"succeeded"}) = With(g, {"succeeded"}) \cup {p}
                       \/ /\ Kept(h) = Kept(g)
                          /\ With(h, {"succeeded"}) = With(g, {"succeeded"})
  BY <1>1, <1>2 DEF Group, Terminated
<1>3. /\ x \in Member /\ x.status = status /\ x.input = g.members[p].input
      /\ x.kept <=> status = "succeeded"
  BY <1>1, <1>2 DEF Member, Ended
<1>4. h = [exists |-> g.exists, members |-> m]
  OBVIOUS
<1> HIDE DEF x
<1>5. /\ m \in [DOMAIN g.members -> Member] /\ m[p] = x
      /\ \A q \in DOMAIN g.members \ {p} : m[q] = g.members[q]
  BY <1>1, <1>2, <1>3
<1> HIDE DEF m
<1>6. m \in Seq(Member)
  BY <1>2, <1>5, FunctionIsSeq
<1>7. /\ h \in Group /\ h.exists = g.exists /\ h.members = m
      /\ DOMAIN m = DOMAIN g.members
  <2>1. h.exists = g.exists /\ h.members = m
    BY <1>4
  <2>2. h \in Group
    BY <1>2, <1>4, <1>6 DEF Group
  <2> QED
    BY <1>5, <2>1, <2>2
<1>8. g.exists
  BY <1>1, <1>2, EmptySeq DEF GroupInv
<1>9. GroupInv(h)
  <2>1. \A q \in DOMAIN g.members : g.members[q].kept
                                      => g.members[q].status = "succeeded"
    BY DEF GroupInv
  <2>2. \A q \in DOMAIN g.members : m[q].kept => m[q].status = "succeeded"
    BY <1>3, <1>5, <2>1
  <2> QED
    BY <1>7, <1>8, <2>2 DEF GroupInv
<1>10. InputsOf(h) = InputsOf(g)
  BY <1>3, <1>5, <1>7 DEF InputsOf
<1>11. Kept(g) = {q \in DOMAIN g.members : /\ g.members[q].status = "succeeded"
                                           /\ g.members[q].kept}
  BY <1>2, GroupTypes
<1>12. Kept(h) = {q \in DOMAIN g.members : m[q].status = "succeeded" /\ m[q].kept}
  BY <1>7, GroupTypes
<1>13. Kept(h) = IF status = "succeeded" THEN Kept(g) \cup {p} ELSE Kept(g)
  <2>1. \A q \in DOMAIN g.members \ {p} :
          m[q].status = "succeeded" /\ m[q].kept
            <=> g.members[q].status = "succeeded" /\ g.members[q].kept
    BY <1>5
  <2>2. m[p].status = "succeeded" /\ m[p].kept <=> status = "succeeded"
    BY <1>3, <1>5
  <2>3. g.members[p].status # "succeeded"
    BY <1>1
  <2> HIDE DEF x, m
  <2> QED
    BY <1>1, <1>11, <1>12, <2>1, <2>2, <2>3, Zenon
<1>14. With(h, {"succeeded"}) = IF status = "succeeded"
                                THEN With(g, {"succeeded"}) \cup {p}
                                ELSE With(g, {"succeeded"})
  BY <1>1, <1>3, <1>5, <1>7 DEF With
<1>15. p \notin Kept(g) /\ p \notin With(g, {"succeeded"})
  BY <1>1, <1>11 DEF With
<1>16. Pending(h) \subseteq Pending(g)
  BY <1>3, <1>5, <1>7 DEF Pending, With, Ended
<1> QED
  BY <1>1, <1>7, <1>9, <1>10, <1>13, <1>14, <1>15, <1>16

LEMMA RemoveResultFacts ==
  ASSUME NEW g, GroupInv(g), NEW p \in With(g, {"succeeded"}), g.members[p].kept,
         NEW h
  PROVE  h = [g EXCEPT !.members[p].kept = FALSE] =>
         /\ GroupInv(h) /\ h.exists = g.exists /\ InputsOf(h) = InputsOf(g)
         /\ Kept(h) = Kept(g) \ {p}
         /\ With(h, {"succeeded"}) = With(g, {"succeeded"})
         /\ Pending(h) \subseteq Pending(g)
<1> DEFINE x == [g.members[p] EXCEPT !.kept = FALSE]
           m == [g.members EXCEPT ![p] = x]
<1>1. p \in DOMAIN g.members /\ g.members[p].status = "succeeded"
  BY DEF With
<1>2. /\ g \in Group /\ g.members \in Seq(Member) /\ g.exists \in BOOLEAN
      /\ g.members = [q \in DOMAIN g.members |-> g.members[q]]
      /\ \A q \in DOMAIN g.members : g.members[q] \in Member
  BY GroupTypes DEF GroupInv
<1> SUFFICES ASSUME h = [exists |-> g.exists, members |-> m]
             PROVE  /\ GroupInv(h) /\ h.exists = g.exists /\ InputsOf(h) = InputsOf(g)
                    /\ Kept(h) = Kept(g) \ {p}
                    /\ With(h, {"succeeded"}) = With(g, {"succeeded"})
                    /\ Pending(h) \subseteq Pending(g)
  BY <1>1, <1>2 DEF Group, Member
<1>3. /\ x \in Member /\ x.status = "succeeded" /\ x.input = g.members[p].input
      /\ ~x.kept
  BY <1>1, <1>2 DEF Member
<1>4. h = [exists |-> g.exists, members |-> m]
  OBVIOUS
<1> HIDE DEF x
<1>5. /\ m \in [DOMAIN g.members -> Member] /\ m[p] = x
      /\ \A q \in DOMAIN g.members \ {p} : m[q] = g.members[q]
  BY <1>1, <1>2, <1>3
<1> HIDE DEF m
<1>6. m \in Seq(Member)
  BY <1>2, <1>5, FunctionIsSeq
<1>7. /\ h \in Group /\ h.exists = g.exists /\ h.members = m
      /\ DOMAIN m = DOMAIN g.members
  <2>1. h.exists = g.exists /\ h.members = m
    BY <1>4
  <2>2. h \in Group
    BY <1>2, <1>4, <1>6 DEF Group
  <2> QED
    BY <1>5, <2>1, <2>2
<1>8. g.exists
  BY <1>1, <1>2, EmptySeq DEF GroupInv
<1>9. GroupInv(h)
  <2>1. \A q \in DOMAIN g.members : g.members[q].kept
                                      => g.members[q].status = "succeeded"
    BY DEF GroupInv
  <2>2. \A q \in DOMAIN g.members : m[q].kept => m[q].status = "succeeded"
    BY <1>3, <1>5, <2>1
  <2> QED
    BY <1>7, <1>8, <2>2 DEF GroupInv
<1>10. InputsOf(h) = InputsOf(g)
  BY <1>3, <1>5, <1>7 DEF InputsOf
<1>11. Kept(g) = {q \in DOMAIN g.members : /\ g.members[q].status = "succeeded"
                                           /\ g.members[q].kept}
  BY <1>2, GroupTypes
<1>12. Kept(h) = {q \in DOMAIN g.members : m[q].status = "succeeded" /\ m[q].kept}
  BY <1>7, GroupTypes
<1>13. Kept(h) = Kept(g) \ {p}
  BY <1>1, <1>3, <1>5, <1>11, <1>12
<1>14. With(h, {"succeeded"}) = With(g, {"succeeded"})
  BY <1>1, <1>3, <1>5, <1>7 DEF With
<1>15. Pending(h) \subseteq Pending(g)
  BY <1>1, <1>3, <1>5, <1>7 DEF Pending, With
<1> QED
  BY <1>7, <1>9, <1>10, <1>13, <1>14, <1>15

-----------------------------------------------------------------------------
(* The instance and the group between two calls *)

CallsIn(phase) ==
  CASE phase = "submit" -> {"submit", "status", "cancel", "forget", "resubmit",
                            "submitted"}
    [] phase = "poll" -> {"polled", "poll", "results", "discard"}
    [] phase = "finish" -> {"finish", "succeed"}

\* The items of the instance, and of the workers l past their lease.
Ours(i, l) == {i.items} \cup l

\* Once the members are submitted the group has the items of the instance, or
\* it was removed; and the output of the node is that of its items.  Where a
\* worker has gone on without its lease they may be those of that worker.
NodeInv(i, g, l) ==
  /\ i \in Instance /\ GroupInv(g) /\ l \subseteq Seq(Inputs)
  /\ i.state \in Active => i.at \in CallsIn(i.phase)
  /\ i.state = "queued" => i.at = FirstCall(i.phase) /\ i.attempts < MaxAttempts
  /\ i.state = "succeeded" => i.phase = "finish"
  /\ i.state \in Active /\ i.at # "submit" => i.items \in Seq(Inputs)
  /\ i.state \in Active /\ (i.phase = "poll" \/ i.at = "submitted") /\ g.exists
       => InputsOf(g) \in Ours(i, l)
  /\ Finished(i) => i.output \in Ours(i, l)

\* A step of the instance that may end it, but not with a success.
Moved(i, j, g) ==
  /\ NodeInv(j, g, late) /\ j.items = i.items
  /\ i.state \in Active /\ j.state \in Active \cup {"failed", "cancelled"}
  /\ Done(j, g) \subseteq Done(i, g)

LEMMA InstanceTypes ==
  ASSUME NEW i \in Instance
  PROVE  /\ i.state \in Active \cup Ended /\ i.rerun \in Nat
         /\ i.items \in Seq(Inputs) \cup {BadItems}
         /\ i.phase \in {"submit", "poll", "finish"}
         /\ i.at \in Calls \cup {"none"}
         /\ i.attempts \in 0..MaxAttempts /\ i.token \in BOOLEAN
         /\ i.output \in Seq(Inputs)
  BY DEF Instance

LEMMA KeptInDomain ==
  ASSUME NEW g, GroupInv(g), NEW items, InputsOf(g) = items
  PROVE  Kept(g) \subseteq DOMAIN items /\ items \in Seq(Inputs)
  BY GroupTypes DEF GroupInv

LEMMA EndMoves ==
  ASSUME NEW i, NEW g, NodeInv(i, g, late), i.state \in Active,
         NEW state \in {"failed", "cancelled"},
         NEW j, j = [i EXCEPT !.state = state, !.at = "none", !.attempts = 0,
                              !.token = FALSE]
  PROVE  Moved(i, j, g)
<1>1. i \in Instance /\ 0 \in 0..MaxAttempts
  BY AttemptsAssumption DEF NodeInv
<1>2. j \in Instance /\ j.state = state /\ j.items = i.items
  BY <1>1 DEF Instance, Ended
<1>3. ~Finished(j)
  BY <1>2 DEF Finished, Active
<1>4. NodeInv(j, g, late)
  BY <1>2, <1>3 DEF NodeInv, Active
<1>5. Done(j, g) \subseteq Done(i, g)
  BY <1>2, <1>3, KeptInDomain DEF Done, NodeInv, Active
<1> QED
  BY <1>2, <1>4, <1>5 DEF Moved

LEMMA GoMoves ==
  ASSUME NEW i, NEW g, NodeInv(i, g, late), i.state = "running",
         NEW call \in Calls, call \in CallsIn(i.phase),
         call # "submit" => i.items \in Seq(Inputs),
         call = "submitted" /\ g.exists => InputsOf(g) \in Ours(i, late),
         NEW j, j = [i EXCEPT !.at = call]
  PROVE  Moved(i, j, g)
<1>1. i \in Instance
  BY DEF NodeInv
<1>2. /\ j \in Instance /\ j.state = i.state /\ j.items = i.items
      /\ j.phase = i.phase /\ j.at = call /\ j.output = i.output
  BY <1>1 DEF Instance
<1>3. Finished(j) <=> Finished(i)
  BY <1>2 DEF Finished
<1>4. NodeInv(j, g, late)
  BY <1>2, <1>3 DEF NodeInv, Ours, Active
<1> QED
  BY <1>2, <1>3, <1>4 DEF Moved, Done, Active

\* The step goes to a phase, or is delivered again in its own.
LEMMA QueueMoves ==
  ASSUME NEW i, NEW g, NodeInv(i, g, late), i.state = "running",
         NEW phase \in {"submit", "poll", "finish"},
         NEW attempts \in 0..MaxAttempts - 1,
         phase # "submit" => i.items \in Seq(Inputs),
         phase = "poll" /\ g.exists => InputsOf(g) \in Ours(i, late),
         phase = "finish" <=> i.phase = "finish",
         NEW j, j = [i EXCEPT !.state = "queued", !.phase = phase,
                              !.at = FirstCall(phase), !.attempts = attempts]
  PROVE  Moved(i, j, g)
<1>1. i \in Instance /\ MaxAttempts \in Nat
  BY AttemptsAssumption DEF NodeInv
<1>2. FirstCall(phase) \in Calls /\ FirstCall(phase) \in CallsIn(phase)
  BY DEF FirstCall, Calls, CallsIn
<1>3. /\ j \in Instance /\ j.state = "queued" /\ j.items = i.items
      /\ j.phase = phase /\ j.at = FirstCall(phase) /\ j.output = i.output
      /\ j.attempts = attempts
  <2>1. attempts \in 0..MaxAttempts /\ "queued" \in Active \cup Ended
    BY <1>1 DEF Active
  <2>2. /\ j.state = "queued" /\ j.items = i.items
        /\ j.phase = phase /\ j.at = FirstCall(phase) /\ j.output = i.output
        /\ j.attempts = attempts /\ j.rerun = i.rerun /\ j.token = i.token
    BY <1>1 DEF Instance
  <2>3. j \in Instance
    BY <1>1, <1>2, <2>1 DEF Instance
  <2> QED
    BY <2>2, <2>3
<1>4. Finished(j) <=> Finished(i)
  BY <1>3 DEF Finished, Active
<1>5. FirstCall(phase) # "submitted" /\ (FirstCall(phase) # "submit" => phase # "submit")
  BY DEF FirstCall
<1>6. attempts < MaxAttempts
  BY <1>1
<1>7. NodeInv(j, g, late)
  BY <1>2, <1>3, <1>4, <1>5, <1>6 DEF NodeInv, Ours, Active
<1> QED
  BY <1>3, <1>4, <1>7 DEF Moved, Done, Active

\* A change of the group that keeps the done positions or loses some.
LEMMA AlikeKeeps ==
  ASSUME NEW i, NEW g, NodeInv(i, g, late), NEW h, GroupInv(h),
         h.exists = g.exists, InputsOf(h) = InputsOf(g), Kept(h) \subseteq Kept(g)
  PROVE  NodeInv(i, h, late) /\ Done(i, h) \subseteq Done(i, g)
  BY DEF NodeInv, Done

LEMMA NoGroupKeeps ==
  ASSUME NEW i, NEW g, NodeInv(i, g, late)
  PROVE  NodeInv(i, NoGroup, late) /\ Done(i, NoGroup) \subseteq Done(i, g)
  BY NoGroupFacts DEF NodeInv, Done

LEMMA NewGroupKeeps ==
  ASSUME NEW i, NEW g, NodeInv(i, g, late), NEW items \in Ours(i, late),
         items \in Seq(Inputs)
  PROVE  /\ NodeInv(i, GroupOf(items), late)
         /\ Done(i, GroupOf(items)) \subseteq Done(i, g)
  BY NewGroupFacts DEF NodeInv, Done

\* A submit that is not refused.
LEMMA FilledKeeps ==
  ASSUME NEW i, NodeInv(i, group, late), NEW items \in Ours(i, late),
         items \in Seq(Inputs), Fits(items)
  PROVE  /\ NodeInv(i, Filled(items), late)
         /\ Done(i, Filled(items)) \subseteq Done(i, group)
         /\ InputsOf(Filled(items)) = items
<1>1. CASE group.exists
  <2>1. /\ GroupInv(Resumed(group)) /\ Alike(group, Resumed(group))
        /\ InputsOf(group) = items
    BY <1>1, ResumedAlike DEF Fits, NodeInv
  <2> QED
    BY <1>1, <2>1, AlikeKeeps DEF Alike, Filled
<1>2. CASE ~group.exists
  BY <1>2, NewGroupKeeps, NewGroupFacts DEF Filled
<1> QED
  BY <1>1, <1>2

-----------------------------------------------------------------------------
(* The mapping to the promise *)

\* A step that keeps the items and at most loses positions that were done.
Shrinks(i, g, j, h) ==
  /\ NodeInv(j, h, late) /\ j.items = i.items /\ Done(j, h) \subseteq Done(i, g)
  /\ \/ i.state \in Active /\ j.state \in Active \cup {"failed", "cancelled"}
     \/ j = i

LEMMA PromiseVars ==
  /\ Promise!vars = <<PromisedItems(inst), Done(inst, group),
                      PromisedState(inst), PromisedOutput(inst), late>>
  /\ (Promise!vars)' = <<PromisedItems(inst'), Done(inst', group'),
                         PromisedState(inst'), PromisedOutput(inst'), late'>>
  BY DEF Promise!vars

\* The actions of the promise in those terms.
LEMMA PromiseStop ==
  ASSUME PromisedState(inst) = "active",
         PromisedState(inst') \in {"failed", "cancelled"},
         PromisedItems(inst') = PromisedItems(inst),
         PromisedOutput(inst') = PromisedOutput(inst),
         Done(inst', group') \subseteq Done(inst, group), late' = late
  PROVE  Promise!Stop
  BY DEF Promise!Stop

LEMMA PromiseDiscard ==
  ASSUME PromisedState(inst) # "succeeded",
         PromisedState(inst') = PromisedState(inst),
         PromisedItems(inst') = PromisedItems(inst),
         PromisedOutput(inst') = PromisedOutput(inst),
         Done(inst', group') \subseteq Done(inst, group), late' = late
  PROVE  Promise!Discard
  BY DEF Promise!Discard

LEMMA PromiseSucceed ==
  ASSUME PromisedState(inst) = "active",
         PromisedState(inst') = "succeeded",
         PromisedItems(inst') = PromisedItems(inst), late' = late,
         \/ /\ PromisedOutput(inst') = PromisedItems(inst)
            /\ Done(inst, group) = DOMAIN PromisedItems(inst)
            /\ Done(inst', group') = Done(inst, group)
         \/ /\ PromisedOutput(inst') \in late \ {PromisedItems(inst)}
            /\ Done(inst', group') = {}
  PROVE  Promise!Succeed
  BY DEF Promise!Succeed

LEMMA PromiseDelay ==
  ASSUME PromisedState(inst) = "active",
         PromisedState(inst') \in {"active", "failed"},
         PromisedItems(inst') = PromisedItems(inst),
         PromisedOutput(inst') = PromisedOutput(inst),
         Done(inst', group') \subseteq Done(inst, group),
         late' = late \cup {PromisedItems(inst)}
  PROVE  Promise!Delay
  BY DEF Promise!Delay

LEMMA PromiseRun ==
  ASSUME NEW p, p \in DOMAIN PromisedItems(inst) \ Done(inst, group),
         inst' = inst, Done(inst', group') = Done(inst, group) \cup {p},
         late' = late
  PROVE  \E q \in DOMAIN PromisedItems(inst) : Promise!Run(q)
  BY DEF Promise!Run

LEMMA PromiseRerun ==
  ASSUME PromisedState(inst) # "active", PromisedState(inst') = "active",
         PromisedItems(inst') \in ItemLists \cup {<<>>},
         PromisedOutput(inst') = <<>>,
         Done(inst', group') \subseteq DOMAIN PromisedItems(inst'),
         late' \subseteq late
  PROVE  Promise!Rerun
  BY DEF Promise!Rerun

LEMMA ShrinksKeepsPromise ==
  ASSUME NodeInv(inst, group, late), Shrinks(inst, group, inst', group'),
         late' = late
  PROVE  [Promise!Next]_(Promise!vars)
<1>1. PromisedItems(inst') = PromisedItems(inst)
  BY DEF Shrinks, PromisedItems
<1>2. Done(inst', group') \subseteq Done(inst, group)
  BY DEF Shrinks
<1>3. CASE inst.state \in Active /\ inst'.state \in {"failed", "cancelled"}
  <2>1. /\ PromisedState(inst) = "active"
        /\ PromisedState(inst') \in {"failed", "cancelled"}
        /\ PromisedOutput(inst') = PromisedOutput(inst)
    BY <1>3 DEF PromisedState, PromisedOutput, Active
  <2> QED
    BY <1>1, <1>2, <2>1, PromiseStop DEF Promise!Next
<1>4. CASE inst.state \in Active /\ inst'.state \in Active
  <2>1. /\ PromisedState(inst) = "active" /\ PromisedState(inst') = "active"
        /\ PromisedOutput(inst') = PromisedOutput(inst)
    BY <1>4 DEF PromisedState, PromisedOutput, Active
  <2> QED
    BY <1>1, <1>2, <2>1, PromiseDiscard DEF Promise!Next
<1>5. CASE inst' = inst /\ inst.state # "succeeded"
  <2>1. /\ PromisedState(inst) # "succeeded"
        /\ PromisedState(inst') = PromisedState(inst)
        /\ PromisedOutput(inst') = PromisedOutput(inst)
    BY <1>5 DEF PromisedState
  <2> QED
    BY <1>1, <1>2, <2>1, PromiseDiscard DEF Promise!Next
<1>6. CASE inst' = inst /\ inst.state = "succeeded"
  <2>1. Finished(inst) /\ Finished(inst') /\ inst'.items = inst.items
    BY <1>6 DEF Finished
  <2>2. Done(inst', group') = Done(inst, group)
    BY <1>6, <2>1 DEF Done
  <2> QED
    BY <1>6, <2>2, PromiseVars
<1> QED
  BY <1>3, <1>4, <1>5, <1>6 DEF Shrinks

-----------------------------------------------------------------------------
(* The steps *)

LEMMA MovedShrinks ==
  ASSUME NEW i, NEW g, NEW j, NEW h, Moved(i, j, g),
         NodeInv(j, h, late) /\ Done(j, h) \subseteq Done(j, g)
  PROVE  Shrinks(i, g, j, h)
  BY DEF Moved, Shrinks

LEMMA MovedAlone ==
  ASSUME NEW i, NEW g, NEW j, Moved(i, j, g)
  PROVE  Shrinks(i, g, j, g)
  BY DEF Moved, Shrinks

LEMMA GroupShrinks ==
  ASSUME NEW i, NEW g, NEW h, NodeInv(i, h, late) /\ Done(i, h) \subseteq Done(i, g)
  PROVE  Shrinks(i, g, i, h)
  BY DEF Shrinks

LEMMA ContinueMoves ==
  ASSUME NodeInv(inst, group, late), inst.state = "running", inst.phase # "finish",
         NEW phase \in {"submit", "poll"},
         phase = "poll" => inst.items \in Seq(Inputs),
         phase = "poll" /\ group.exists => InputsOf(group) \in Ours(inst, late),
         Continue(phase)
  PROVE  Moved(inst, inst', group)
<1>1. CASE inst.token
  BY <1>1, EndMoves DEF Continue, End, Active
<1>2. CASE ~inst.token
  <2>1. 0 \in 0..MaxAttempts - 1
    BY AttemptsAssumption
  <2>2. inst' = [inst EXCEPT !.state = "queued", !.phase = phase,
                             !.at = FirstCall(phase), !.attempts = 0]
    BY <1>2 DEF Continue
  <2> QED
    BY <2>1, <2>2, QueueMoves
<1> QED
  BY <1>1, <1>2

LEMMA RetryMoves ==
  ASSUME NodeInv(inst, group, late), inst.state = "running", Retry
  PROVE  Moved(inst, inst', group)
<1>1. CASE inst.attempts < MaxAttempts
  <2>1. inst \in Instance
    BY DEF NodeInv
  <2>2. /\ inst.phase \in {"submit", "poll", "finish"}
        /\ inst.attempts \in 0..MaxAttempts - 1
    BY <1>1, <2>1, InstanceTypes, AttemptsAssumption
  <2>3. inst.phase # "submit" => inst.at # "submit"
    BY <2>2 DEF NodeInv, CallsIn, Active
  <2>4. /\ inst.phase # "submit" => inst.items \in Seq(Inputs)
        /\ inst.phase = "poll" /\ group.exists => InputsOf(group) \in Ours(inst, late)
    BY <2>3 DEF NodeInv, Active
  <2>5. inst' = [inst EXCEPT !.state = "queued", !.phase = inst.phase,
                   !.at = FirstCall(inst.phase), !.attempts = inst.attempts]
    BY <1>1, <2>1 DEF Retry, Instance
  <2> QED
    BY <2>2, <2>4, <2>5, QueueMoves
<1>2. CASE ~(inst.attempts < MaxAttempts)
  BY <1>2, EndMoves DEF Retry, End, Active
<1> QED
  BY <1>1, <1>2

LEMMA GoToMoves ==
  ASSUME NodeInv(inst, group, late), inst.state = "running",
         NEW call \in Calls, call \in CallsIn(inst.phase), call # "submit",
         inst.items \in Seq(Inputs),
         call = "submitted" /\ group.exists => InputsOf(group) \in Ours(inst, late),
         GoTo(call)
  PROVE  Moved(inst, inst', group)
  BY GoMoves DEF GoTo

\* The phase of a call.
LEMMA PhaseOfCall ==
  ASSUME NodeInv(inst, group, late), inst.state \in Active
  PROVE  /\ inst.at \in {"submit", "status", "cancel", "forget", "resubmit",
                         "submitted"} => inst.phase = "submit"
         /\ inst.at \in {"polled", "poll", "results", "discard"} => inst.phase = "poll"
         /\ inst.at \in {"finish", "succeed"} => inst.phase = "finish"
         /\ inst.at # "submit" => inst.items \in Seq(Inputs)
         /\ inst.at = "submit" /\ inst.items # BadItems => inst.items \in Seq(Inputs)
<1>1. inst.phase \in {"submit", "poll", "finish"}
  BY InstanceTypes DEF NodeInv
<1>2. inst.items \in Seq(Inputs) \cup {BadItems}
  BY InstanceTypes DEF NodeInv
<1> QED
  BY <1>1, <1>2 DEF NodeInv, CallsIn

LEMMA DeliverStep ==
  ASSUME NodeInv(inst, group, late), Deliver
  PROVE  Shrinks(inst, group, inst', group')
<1>1. inst \in Instance /\ inst.state = "queued" /\ group' = group
  BY DEF NodeInv, Deliver
<1>2. inst.attempts \in 0..MaxAttempts /\ inst.attempts + 1 \in 0..MaxAttempts
  BY <1>1, InstanceTypes, AttemptsAssumption DEF NodeInv
<1>3. inst' = [inst EXCEPT !.state = "running", !.attempts = inst.attempts + 1]
  BY <1>1 DEF Deliver, Instance
<1>4. /\ inst'.state = "running" /\ inst'.items = inst.items
      /\ inst'.phase = inst.phase /\ inst'.at = inst.at
      /\ inst'.output = inst.output
  BY <1>1, <1>3 DEF Instance
<1>5. inst' \in Instance
  BY <1>1, <1>2, <1>3 DEF Instance, Active
<1>6. Finished(inst') <=> Finished(inst)
  BY <1>1, <1>4 DEF Finished, Active
<1>7. NodeInv(inst', group, late)
  BY <1>1, <1>4, <1>5, <1>6 DEF NodeInv, Ours, Active
<1>8. Done(inst', group) = Done(inst, group)
  BY <1>1, <1>4, <1>6 DEF Done
<1> QED
  BY <1>1, <1>4, <1>7, <1>8 DEF Shrinks, Active

\* The group that the instance finds, before the call, may be another.
LEMMA SubmittedStep ==
  ASSUME NodeInv(inst, group, late), inst.state = "running",
         inst.phase = "submit", inst.items \in Seq(Inputs),
         Fits(inst.items), group' = Filled(inst.items), GoTo("submitted")
  PROVE  Shrinks(inst, group, inst', group')
<1>1. "submitted" \in CallsIn(inst.phase) /\ "submitted" \in Calls
  BY DEF CallsIn, Calls
<1>2. inst.items \in Ours(inst, late)
  BY DEF Ours
<1>3. /\ NodeInv(inst, group', late) /\ Done(inst, group') \subseteq Done(inst, group)
      /\ InputsOf(group') = inst.items
  BY <1>2, FilledKeeps
<1>4. Moved(inst, inst', group')
  BY <1>1, <1>2, <1>3, GoMoves DEF GoTo
<1> QED
  BY <1>3, <1>4 DEF Moved, Shrinks

LEMMA SubmitSteps ==
  ASSUME NodeInv(inst, group, late),
         RenderFails \/ Submit \/ StatusOfReplaced \/ CancelReplaced
         \/ ForgetReplaced \/ Resubmit \/ Submitted
  PROVE  Shrinks(inst, group, inst', group')
<1>1. CASE RenderFails
  <2>1. Moved(inst, inst', group) /\ group' = group
    BY <1>1, EndMoves DEF RenderFails, End, Ran, Active
  <2> QED
    BY <2>1, MovedAlone
<1>2. CASE Submit
  <2>1. inst.phase = "submit" /\ inst.items \in Seq(Inputs)
    BY <1>2, PhaseOfCall DEF Submit, Ran, Active
  <2>2. \A call \in {"status", "submitted"} : call \in CallsIn(inst.phase) /\ call \in Calls
    BY <2>1 DEF CallsIn, Calls
  <2>3. CASE ~Fits(inst.items)
    <3>1. group' = group /\ GoTo("status")
      BY <1>2, <2>3 DEF Submit
    <3>2. Moved(inst, inst', group)
      BY <1>2, <2>1, <2>2, <3>1, GoToMoves DEF Submit, Ran
    <3> QED
      BY <3>1, <3>2, MovedAlone
  <2>4. CASE Fits(inst.items)
    BY <1>2, <2>1, <2>4, SubmittedStep DEF Submit, Ran
  <2> QED
    BY <2>3, <2>4
<1>3. CASE StatusOfReplaced
  <2>1. inst.phase = "submit" /\ inst.items \in Seq(Inputs)
    BY <1>3, PhaseOfCall DEF StatusOfReplaced, Ran, Active
  <2>2. PICK call \in {"cancel", "forget"} : GoTo(call)
    BY <1>3 DEF StatusOfReplaced
  <2>3. call \in CallsIn(inst.phase) /\ call \in Calls
    BY <2>1 DEF CallsIn, Calls
  <2>4. Moved(inst, inst', group) /\ group' = group
    BY <1>3, <2>1, <2>2, <2>3, GoToMoves DEF StatusOfReplaced, Ran
  <2> QED
    BY <2>4, MovedAlone
<1>4. CASE CancelReplaced
  <2>1. Moved(inst, inst', group)
    BY <1>4, PhaseOfCall, ContinueMoves DEF CancelReplaced, Ran, Active
  <2>2. GroupInv(group') /\ Alike(group, group')
    BY <1>4, CancelledAlike DEF CancelReplaced, NodeInv
  <2>3. NodeInv(inst', group', late) /\ Done(inst', group') \subseteq Done(inst', group)
    BY <2>1, <2>2, AlikeKeeps DEF Moved, Alike
  <2> QED
    BY <2>1, <2>3, MovedShrinks
<1>5. CASE ForgetReplaced
  <2>1. inst.phase = "submit" /\ inst.items \in Seq(Inputs)
    BY <1>5, PhaseOfCall DEF ForgetReplaced, Ran, Active
  <2>2. "resubmit" \in CallsIn(inst.phase) /\ "resubmit" \in Calls
    BY <2>1 DEF CallsIn, Calls
  <2>3. Moved(inst, inst', group) /\ group' = NoGroup
    BY <1>5, <2>1, <2>2, GoToMoves DEF ForgetReplaced, Ran
  <2>4. NodeInv(inst', group', late) /\ Done(inst', group') \subseteq Done(inst', group)
    BY <2>3, NoGroupKeeps DEF Moved
  <2> QED
    BY <2>3, <2>4, MovedShrinks
<1>6. CASE Resubmit
  <2>1. inst.phase = "submit" /\ inst.items \in Seq(Inputs)
    BY <1>6, PhaseOfCall DEF Resubmit, Ran, Active
  <2> QED
    BY <1>6, <2>1, SubmittedStep DEF Resubmit, Ran
<1>7. CASE Submitted
  <2>1. inst.items \in Seq(Inputs) /\ inst.phase = "submit"
    BY <1>7, PhaseOfCall DEF Submitted, Ran, Active
  <2>2. group.exists => InputsOf(group) \in Ours(inst, late)
    BY <1>7 DEF Submitted, Ran, NodeInv, Active
  <2>3. Moved(inst, inst', group)
    BY <1>7, <2>1, <2>2, ContinueMoves DEF Submitted, Ran
  <2>4. CASE inst.token
    <3>1. GroupInv(group') /\ Alike(group, group')
      BY <1>7, <2>4, CancelledAlike DEF Submitted, NodeInv
    <3>2. NodeInv(inst', group', late) /\ Done(inst', group') \subseteq Done(inst', group)
      BY <2>3, <3>1, AlikeKeeps DEF Moved, Alike
    <3> QED
      BY <2>3, <3>2, MovedShrinks
  <2>5. CASE ~inst.token
    BY <1>7, <2>3, <2>5, MovedAlone DEF Submitted
  <2> QED
    BY <2>4, <2>5
<1> QED
  BY <1>1, <1>2, <1>3, <1>4, <1>5, <1>6, <1>7

\* A group whose members have all succeeded, with their results kept.
LEMMA AllKept ==
  ASSUME NEW g, GroupInv(g), \A p \in DOMAIN g.members : g.members[p].kept
  PROVE  Kept(g) = DOMAIN InputsOf(g)
<1>1. /\ Kept(g) = {p \in DOMAIN g.members : /\ g.members[p].status = "succeeded"
                                             /\ g.members[p].kept}
      /\ DOMAIN InputsOf(g) = DOMAIN g.members
  BY GroupTypes DEF GroupInv
<1>2. \A p \in DOMAIN g.members : g.members[p].status = "succeeded"
  BY DEF GroupInv
<1> QED
  BY <1>1, <1>2

LEMMA FinishStep ==
  ASSUME NodeInv(inst, group, late), Ran("results"), group.exists, group' = group,
         \A p \in DOMAIN group.members : group.members[p].kept,
         inst' = [inst EXCEPT !.state = "queued", !.phase = "finish",
                    !.at = "finish", !.attempts = 0, !.output = InputsOf(group)]
  PROVE  Shrinks(inst, group, inst', group')
<1>1. /\ inst \in Instance /\ GroupInv(group)
      /\ inst.state = "running" /\ inst.phase = "poll"
      /\ inst.items \in Seq(Inputs)
  BY PhaseOfCall DEF Ran, Active, NodeInv
<1>2. InputsOf(group) \in Ours(inst, late) /\ InputsOf(group) \in Seq(Inputs)
  BY <1>1, GroupTypes DEF NodeInv, GroupInv, Active
<1>3. MaxAttempts \in Nat /\ 0 < MaxAttempts
  BY AttemptsAssumption
<1>4. /\ inst'.state = "queued" /\ inst'.phase = "finish" /\ inst'.at = "finish"
      /\ inst'.attempts = 0 /\ inst'.output = InputsOf(group)
      /\ inst'.items = inst.items
  BY <1>1 DEF Instance
<1>5. inst' \in Instance
  <2>1. /\ "queued" \in Active \cup Ended /\ "finish" \in Calls
        /\ 0 \in 0..MaxAttempts
    BY <1>3 DEF Active, Calls
  <2> QED
    BY <1>1, <1>2, <2>1 DEF Instance
<1>6. NodeInv(inst', group, late)
  BY <1>1, <1>2, <1>3, <1>4, <1>5 DEF NodeInv, CallsIn, FirstCall, Ours
<1>7. Finished(inst') /\ ~Finished(inst)
  BY <1>1, <1>4 DEF Finished, Active
<1>8. Done(inst', group) \subseteq Done(inst, group)
  <2>1. CASE InputsOf(group) = inst.items
    <3>1. Done(inst', group) = DOMAIN inst.items /\ Done(inst, group) = Kept(group)
      BY <1>1, <1>4, <1>7, <2>1 DEF Done
    <3>2. Kept(group) = DOMAIN inst.items
      BY <1>1, <2>1, AllKept
    <3> QED
      BY <3>1, <3>2
  <2>2. CASE InputsOf(group) # inst.items
    BY <1>4, <2>2 DEF Done
  <2> QED
    BY <2>1, <2>2
<1> QED
  BY <1>1, <1>4, <1>6, <1>8 DEF Shrinks, Active

LEMMA PollSteps ==
  ASSUME NodeInv(inst, group, late),
         Polled \/ Poll \/ Results \/ DiscardGroup
  PROVE  Shrinks(inst, group, inst', group')
<1>1. /\ inst.state = "running" /\ inst.phase = "poll"
      /\ inst.items \in Seq(Inputs)
  BY PhaseOfCall DEF Polled, Poll, Results, DiscardGroup, Ran, Active
<1>2. group.exists => InputsOf(group) \in Ours(inst, late)
  BY <1>1 DEF NodeInv, Active
<1>3. \A call \in {"poll", "results", "discard"} :
        call \in CallsIn(inst.phase) /\ call \in Calls
  BY <1>1 DEF CallsIn, Calls
<1>4. CASE Polled
  <2>1. Moved(inst, inst', group)
    BY <1>1, <1>3, <1>4, GoToMoves DEF Polled
  <2>2. CASE inst.token
    <3>1. GroupInv(group') /\ Alike(group, group')
      BY <1>4, <2>2, CancelledAlike DEF Polled, NodeInv
    <3>2. NodeInv(inst', group', late) /\ Done(inst', group') \subseteq Done(inst', group)
      BY <2>1, <3>1, AlikeKeeps DEF Moved, Alike
    <3> QED
      BY <2>1, <3>2, MovedShrinks
  <2>3. CASE ~inst.token
    BY <1>4, <2>1, <2>3, MovedAlone DEF Polled
  <2> QED
    BY <2>2, <2>3
<1>5. CASE Poll
  <2>1. group' = group
    BY <1>5 DEF Poll
  <2>2. Continue("submit") => Moved(inst, inst', group)
    BY <1>1, ContinueMoves
  <2>3. Continue("poll") => Moved(inst, inst', group)
    BY <1>1, <1>2, ContinueMoves
  <2>4. GoTo("results") => Moved(inst, inst', group)
    BY <1>1, <1>3, GoToMoves
  <2>5. Moved(inst, inst', group)
    BY <1>5, <2>2, <2>3, <2>4 DEF Poll
  <2> QED
    BY <2>1, <2>5, MovedAlone
<1>6. CASE Results
  <2>1. group' = group /\ group.exists /\ Ran("results")
    BY <1>6 DEF Results
  <2>2. End("failed") \/ End("cancelled") => Moved(inst, inst', group)
    BY <1>1, EndMoves DEF End, Active
  <2>3. GoTo("discard") => Moved(inst, inst', group)
    BY <1>1, <1>3, GoToMoves
  <2>4. CASE \/ End("failed") \/ End("cancelled") \/ GoTo("discard")
    BY <2>1, <2>2, <2>3, <2>4, MovedAlone
  <2>5. CASE /\ \A p \in DOMAIN group.members : group.members[p].kept
             /\ inst' = [inst EXCEPT !.state = "queued", !.phase = "finish",
                           !.at = "finish", !.attempts = 0,
                           !.output = InputsOf(group)]
    BY <2>1, <2>5, FinishStep
  <2> QED
    BY <1>6, <2>4, <2>5 DEF Results
<1>7. CASE DiscardGroup
  <2>1. Moved(inst, inst', group) /\ group' = NoGroup
    BY <1>1, <1>7, ContinueMoves DEF DiscardGroup
  <2>2. NodeInv(inst', group', late) /\ Done(inst', group') \subseteq Done(inst', group)
    BY <2>1, NoGroupKeeps DEF Moved
  <2> QED
    BY <2>1, <2>2, MovedShrinks
<1> QED
  BY <1>4, <1>5, <1>6, <1>7

LEMMA RemovalStep ==
  ASSUME NodeInv(inst, group, late), group' = NoGroup, inst' = inst
  PROVE  Shrinks(inst, group, inst', group')
  BY NoGroupKeeps, GroupShrinks

LEMMA ForgetGroupStep ==
  ASSUME NodeInv(inst, group, late), ForgetGroup
  PROVE  Shrinks(inst, group, inst', group')
<1>1. inst.phase = "finish" /\ inst.items \in Seq(Inputs)
  BY PhaseOfCall DEF ForgetGroup, Ran, Active
<1>2. "succeed" \in CallsIn(inst.phase) /\ "succeed" \in Calls
  BY <1>1 DEF CallsIn, Calls
<1>3. Moved(inst, inst', group) /\ group' = NoGroup
  BY <1>1, <1>2, GoToMoves DEF ForgetGroup, Ran
<1>4. NodeInv(inst', group', late) /\ Done(inst', group') \subseteq Done(inst', group)
  BY <1>3, NoGroupKeeps DEF Moved
<1> QED
  BY <1>3, <1>4, MovedShrinks

LEMMA FailureSteps ==
  ASSUME NodeInv(inst, group, late), StepFails \/ CallRefused \/ EndCancelled
  PROVE  Shrinks(inst, group, inst', group')
<1>1. group' = group /\ inst.state \in Active
  BY DEF StepFails, Fault, failureVars, CallRefused, EndCancelled, Active
<1>2. \A state \in {"failed", "cancelled"} : End(state) => Moved(inst, inst', group)
  BY <1>1, EndMoves DEF End
<1>3. CASE StepFails \/ CallRefused
  <2>1. inst.state = "running" /\ (Retry \/ End("failed"))
    BY <1>3 DEF StepFails, Fault, CallRefused
  <2> QED
    BY <1>1, <1>2, <2>1, RetryMoves, MovedAlone
<1>4. CASE EndCancelled
  BY <1>1, <1>2, <1>4, MovedAlone DEF EndCancelled
<1> QED
  BY <1>3, <1>4

LEMMA EnvironmentSteps ==
  ASSUME NodeInv(inst, group, late),
         \/ Loss \/ SettleRun \/ CancelRun \/ CancelSteps \/ PassSteps
         \/ UNCHANGED vars
  PROVE  Shrinks(inst, group, inst', group')
<1>1. inst \in Instance /\ GroupInv(group)
  BY DEF NodeInv
<1>2. Shrinks(inst, group, inst, group)
  BY DEF Shrinks
<1>3. CASE Loss
  <2>1. PICK p \in DOMAIN group.members : RemoveResult(p)
    BY <1>3 DEF Loss
  <2>2. /\ GroupInv(group') /\ group'.exists = group.exists
        /\ InputsOf(group') = InputsOf(group) /\ Kept(group') \subseteq Kept(group)
    BY <1>1, <2>1, RemoveResultFacts DEF RemoveResult
  <2>3. inst' = inst
    BY <2>1 DEF RemoveResult
  <2> QED
    BY <2>2, <2>3, AlikeKeeps, GroupShrinks
<1>4. CASE SettleRun \/ CancelRun \/ Reconcile \/ ReadRecords \/ ExpireRun
           \/ RemoveRun \/ UNCHANGED vars
  BY <1>2, <1>4 DEF SettleRun, CancelRun, Reconcile, ReadRecords, ExpireRun,
                    RemoveRun, vars
<1>5. CASE CancelInstance
  <2>1. group' = group
    BY <1>5 DEF CancelInstance
  <2>2. CASE inst.rerun # cancel.rerun \/ inst.state \in Ended
    BY <1>2, <1>5, <2>1, <2>2 DEF CancelInstance
  <2>3. CASE inst.state = "queued" /\ End("cancelled")
    BY <2>1, <2>3, EndMoves, MovedAlone DEF End, Active
  <2>4. CASE /\ inst.rerun = cancel.rerun /\ inst.state = "running"
             /\ inst' = [inst EXCEPT !.token = TRUE]
    <3>1. /\ inst' \in Instance /\ inst'.state = inst.state
          /\ inst'.items = inst.items /\ inst'.phase = inst.phase
          /\ inst'.at = inst.at /\ inst'.output = inst.output
          /\ inst'.attempts = inst.attempts
      BY <1>1, <2>4 DEF Instance
    <3>2. Finished(inst') <=> Finished(inst)
      BY <3>1 DEF Finished
    <3>3. NodeInv(inst', group, late) /\ Done(inst', group) = Done(inst, group)
      BY <3>1, <3>2 DEF NodeInv, Ours, Done
    <3> QED
      BY <2>1, <2>4, <3>1, <3>3 DEF Shrinks, Active
  <2>5. inst.state \in Active \cup Ended
    BY <1>1, InstanceTypes
  <2> QED
    BY <1>5, <2>2, <2>3, <2>4, <2>5 DEF CancelInstance, Active
<1>6. CASE CancelGroup
  <2>1. /\ GroupInv(group') /\ Alike(group, group') /\ inst' = inst
    BY <1>1, <1>6, CancelledAlike DEF CancelGroup
  <2> QED
    BY <2>1, AlikeKeeps, GroupShrinks DEF Alike
<1>7. CASE ForgetGroups
  <2>1. inst' = inst /\ (group' = group \/ group' = NoGroup)
    BY <1>7 DEF ForgetGroups
  <2> QED
    BY <1>2, <2>1, RemovalStep
<1> QED
  BY <1>3, <1>4, <1>5, <1>6, <1>7 DEF CancelSteps, PassSteps

LEMMA SucceedStep ==
  ASSUME NodeInv(inst, group, late), Succeed
  PROVE  NodeInv(inst', group', late) /\ Promise!Succeed
<1>1. /\ inst \in Instance /\ inst.state = "running" /\ inst.phase = "finish"
      /\ inst.items \in Seq(Inputs) /\ group' = group /\ late' = late
      /\ 0 \in 0..MaxAttempts
  BY PhaseOfCall, AttemptsAssumption DEF Succeed, Ran, NodeInv, Active, envVars
<1>2. inst' = [inst EXCEPT !.state = "succeeded", !.at = "none", !.attempts = 0,
                           !.token = FALSE]
  BY DEF Succeed, End
<1>3. /\ inst' \in Instance /\ inst'.state = "succeeded"
      /\ inst'.items = inst.items /\ inst'.phase = "finish"
      /\ inst'.output = inst.output
  BY <1>1, <1>2 DEF Instance, Ended
<1>4. Finished(inst) /\ Finished(inst')
  BY <1>1, <1>3 DEF Finished, Active
<1>5. inst.output \in Ours(inst, late)
  BY <1>4 DEF NodeInv
<1>6. NodeInv(inst', group, late)
  BY <1>1, <1>3, <1>5 DEF NodeInv, Active, Ours
<1>7. inst.items # BadItems
  BY <1>1, BadItemsAreNoInputs
<1>8. /\ PromisedState(inst) = "active" /\ PromisedState(inst') = "succeeded"
      /\ PromisedItems(inst) = inst.items /\ PromisedItems(inst') = inst.items
      /\ PromisedOutput(inst') = inst.output
  BY <1>1, <1>3, <1>7 DEF PromisedState, PromisedItems, PromisedOutput, Active
<1>9. CASE inst.output = inst.items
  <2>1. Done(inst, group) = DOMAIN inst.items /\ Done(inst', group') = DOMAIN inst.items
    BY <1>3, <1>4, <1>9 DEF Done
  <2> QED
    BY <1>1, <1>6, <1>8, <1>9, <2>1, PromiseSucceed
<1>10. CASE inst.output \in late /\ inst.output # inst.items
  <2>1. Done(inst', group') = {}
    BY <1>3, <1>10 DEF Done
  <2> QED
    BY <1>1, <1>6, <1>8, <1>10, <2>1, PromiseSucceed
<1> QED
  BY <1>5, <1>9, <1>10 DEF Ours

LEMMA PromiseStutters ==
  ASSUME inst' = inst, Done(inst', group') = Done(inst, group), late' = late
  PROVE  UNCHANGED Promise!vars
  BY PromiseVars

LEMMA MemberEndsGroup ==
  ASSUME GroupInv(group), NEW p \in DOMAIN group.members, MemberEnds(p)
  PROVE  /\ GroupInv(group') /\ group'.exists = group.exists
         /\ InputsOf(group') = InputsOf(group)
         /\ p \notin Kept(group) /\ p \notin With(group, {"succeeded"})
         /\ \/ /\ Kept(group') = Kept(group) \cup {p}
               /\ With(group', {"succeeded"}) = With(group, {"succeeded"}) \cup {p}
            \/ /\ Kept(group') = Kept(group)
               /\ With(group', {"succeeded"}) = With(group, {"succeeded"})
         /\ Pending(group') \subseteq Pending(group)
         /\ \/ won' = won
            \/ /\ won' = won \cup {p} /\ p \in Kept(group') /\ late = {}
               /\ InputsOf(group) = inst.items
               /\ Kept(group) = With(group, {"succeeded"})
<1>1. p \in Pending(group)
  BY DEF MemberEnds
<1>2. PICK status \in Ended :
        /\ group' = Terminated(group, p, status)
        /\ won' = IF /\ status = "succeeded" /\ late = {}
                     /\ InputsOf(group) = inst.items
                     /\ Kept(group) = With(group, {"succeeded"})
                  THEN won \cup {p} ELSE won
  BY DEF MemberEnds, Terminated
<1>3. \/ won' = won
      \/ /\ won' = won \cup {p} /\ status = "succeeded" /\ late = {}
         /\ InputsOf(group) = inst.items
         /\ Kept(group) = With(group, {"succeeded"})
  BY <1>2
<1>4. status = "succeeded" => p \in Kept(group')
  BY <1>1, <1>2, MemberEndsFacts
<1>5. /\ GroupInv(group') /\ group'.exists = group.exists
      /\ InputsOf(group') = InputsOf(group)
      /\ p \notin Kept(group) /\ p \notin With(group, {"succeeded"})
      /\ \/ /\ Kept(group') = Kept(group) \cup {p}
            /\ With(group', {"succeeded"}) = With(group, {"succeeded"}) \cup {p}
         \/ /\ Kept(group') = Kept(group)
            /\ With(group', {"succeeded"}) = With(group, {"succeeded"})
      /\ Pending(group') \subseteq Pending(group)
  BY <1>1, <1>2, MemberEndsFacts
<1> QED
  BY <1>3, <1>4, <1>5

LEMMA MemberStep ==
  ASSUME NodeInv(inst, group, late), EndMember
  PROVE  NodeInv(inst', group', late) /\ [Promise!Next]_(Promise!vars)
<1>1. GroupInv(group)
  BY DEF NodeInv
<1>2. PICK p \in DOMAIN group.members : MemberEnds(p)
  BY DEF EndMember
<1>3. inst' = inst /\ late' = late
  BY <1>2 DEF MemberEnds, envVars
<1>4. /\ GroupInv(group') /\ group'.exists = group.exists
      /\ InputsOf(group') = InputsOf(group)
      /\ p \notin Kept(group)
      /\ Kept(group') \in {Kept(group), Kept(group) \cup {p}}
  BY <1>1, <1>2, MemberEndsGroup
<1>5. NodeInv(inst', group', late)
  BY <1>3, <1>4 DEF NodeInv
<1>6. CASE Done(inst', group') = Done(inst, group)
  BY <1>3, <1>5, <1>6, PromiseStutters
<1>7. CASE Done(inst', group') # Done(inst, group)
  <2>1. /\ Done(inst, group) = Kept(group) /\ Done(inst', group') = Kept(group')
        /\ InputsOf(group) = inst.items /\ Kept(group') = Kept(group) \cup {p}
    BY <1>3, <1>4, <1>7 DEF Done
  <2>2. inst.items \in Seq(Inputs) /\ DOMAIN inst.items = DOMAIN group.members
    BY <1>1, <2>1, GroupTypes DEF GroupInv
  <2>3. PromisedItems(inst) = inst.items
    BY <2>2, BadItemsAreNoInputs DEF PromisedItems
  <2>4. /\ p \in DOMAIN PromisedItems(inst) \ Done(inst, group)
        /\ Done(inst', group') = Done(inst, group) \cup {p}
    BY <1>4, <2>1, <2>2, <2>3
  <2>5. \E q \in DOMAIN PromisedItems(inst) : Promise!Run(q)
    BY <1>3, <2>4, PromiseRun
  <2> QED
    BY <1>5, <2>5 DEF Promise!Next
<1> QED
  BY <1>6, <1>7

LEMMA NewInstanceFacts ==
  ASSUME NEW rerun \in Nat, NEW items \in ItemLists \cup {BadItems},
         NEW g, GroupInv(g), NEW i, i = NewInstance(rerun, items),
         NEW l, l \subseteq Seq(Inputs)
  PROVE  /\ NodeInv(i, g, l) /\ i.rerun = rerun
         /\ PromisedState(i) = "active" /\ PromisedOutput(i) = <<>>
         /\ PromisedItems(i) \in ItemLists \cup {<<>>}
         /\ Done(i, g) \subseteq DOMAIN PromisedItems(i)
         /\ Done(i, g) \subseteq Kept(g)
<1>1. /\ MaxAttempts \in Nat /\ 0 < MaxAttempts /\ 0 \in 0..MaxAttempts
      /\ items \in Seq(Inputs) \cup {BadItems} /\ <<>> \in Seq(Inputs)
  BY AttemptsAssumption, InputsAssumption, EmptySeq
<1>2. /\ i.state = "queued" /\ i.rerun = rerun /\ i.items = items
      /\ i.phase = "submit" /\ i.at = "submit" /\ i.attempts = 0
      /\ i.token = FALSE /\ i.output = <<>>
  BY DEF NewInstance
<1>3. i \in Instance
  BY <1>1 DEF NewInstance, Instance, Active, Calls
<1>4. ~Finished(i)
  BY <1>2 DEF Finished
<1>5. NodeInv(i, g, l)
  BY <1>1, <1>2, <1>3, <1>4 DEF NodeInv, CallsIn, FirstCall
<1>6. Done(i, g) \subseteq Kept(g) /\ Done(i, g) \subseteq DOMAIN PromisedItems(i)
  <2>1. CASE InputsOf(g) = items
    <3>1. Kept(g) \subseteq DOMAIN items /\ items \in Seq(Inputs)
      BY <2>1, KeptInDomain
    <3>2. PromisedItems(i) = items /\ Done(i, g) = Kept(g)
      BY <1>2, <1>4, <2>1, <3>1, BadItemsAreNoInputs DEF PromisedItems, Done
    <3> QED
      BY <3>1, <3>2
  <2>2. CASE InputsOf(g) # items
    <3>1. Done(i, g) = {}
      BY <1>2, <1>4, <2>2 DEF Done
    <3> QED
      BY <3>1
  <2> QED
    BY <2>1, <2>2
<1>7. PromisedItems(i) \in ItemLists \cup {<<>>}
  BY <1>2 DEF PromisedItems
<1>8. PromisedState(i) = "active" /\ PromisedOutput(i) = <<>>
  BY <1>2 DEF PromisedState, PromisedOutput, Active
<1> QED
  BY <1>2, <1>5, <1>6, <1>7, <1>8

-----------------------------------------------------------------------------
(* The workers without the lease *)

\* Their items are among those that the output may be of.
StrayInv(s, l) ==
  /\ s \in [Stalled -> Stray]
  /\ \A w \in Stalled : s[w].at # "none" => s[w].items \in l

Inv == NodeInv(inst, group, late) /\ StrayInv(stray, late)

\* What a call of such a worker does.
LEMMA StrayCalls ==
  ASSUME NEW w, StrayStep(w)
  PROVE  /\ stray[w].at # "none"
         /\ StrayLeaves(w) \/ \E call \in Calls : StrayGoes(w, call)
         /\ \/ group' \in {group, Cancelled(group), NoGroup}
            \/ Fits(stray[w].items) /\ group' = Filled(stray[w].items)
         /\ UNCHANGED <<run, inst, late, cancel, pass, won, faults, removed>>
<1>1. UNCHANGED <<run, inst, late, cancel, pass, won, faults, removed>>
  BY DEF StrayStep
<1>2. {"status", "submitted", "cancel", "forget", "results", "discard", "poll",
       "resubmit"} \subseteq Calls
  BY DEF Calls
<1>3. CASE StraySubmits(w)
  BY <1>1, <1>2, <1>3 DEF StraySubmits
<1>4. CASE StrayReads(w)
  BY <1>1, <1>2, <1>4 DEF StrayReads
<1>5. CASE StrayCancels(w)
  BY <1>1, <1>2, <1>5 DEF StrayCancels
<1>6. CASE StrayForgets(w)
  BY <1>1, <1>2, <1>6 DEF StrayForgets
<1>7. CASE StrayEnds(w)
  BY <1>1, <1>7 DEF StrayEnds
<1> QED
  BY <1>3, <1>4, <1>5, <1>6, <1>7 DEF StrayStep

LEMMA StrayMoves ==
  ASSUME Inv, NEW w \in Stalled, StrayStep(w)
  PROVE  StrayInv(stray', late) /\ Shrinks(inst, group, inst', group')
<1>1. /\ NodeInv(inst, group, late) /\ GroupInv(group)
      /\ stray \in [Stalled -> Stray] /\ stray[w] \in Stray
      /\ late \subseteq Seq(Inputs)
  BY DEF Inv, NodeInv, StrayInv
<1>2. /\ stray[w].at # "none" /\ inst' = inst
      /\ StrayLeaves(w) \/ \E call \in Calls : StrayGoes(w, call)
      /\ \/ group' \in {group, Cancelled(group), NoGroup}
         \/ Fits(stray[w].items) /\ group' = Filled(stray[w].items)
  BY StrayCalls
<1>3. stray[w].items \in late
  BY <1>2 DEF Inv, StrayInv
<1>4. StrayInv(stray', late)
  <2>1. CASE StrayLeaves(w)
    <3>1. NoStray \in Stray /\ NoStray.at = "none"
      BY EmptySeq DEF NoStray, Stray
    <3> QED
      BY <1>1, <2>1, <3>1 DEF StrayLeaves, StrayInv, Inv
  <2>2. ASSUME NEW call \in Calls, StrayGoes(w, call) PROVE StrayInv(stray', late)
    <3>1. stray' = [stray EXCEPT ![w] = [stray[w] EXCEPT !.at = call]]
      BY <1>1, <2>2 DEF StrayGoes
    <3>2. /\ [stray[w] EXCEPT !.at = call] \in Stray
          /\ [stray[w] EXCEPT !.at = call].items = stray[w].items
      BY <1>1 DEF Stray
    <3> QED
      BY <1>1, <1>3, <3>1, <3>2 DEF StrayInv, Inv
  <2> QED
    BY <1>2, <2>1, <2>2
<1>5. CASE group' = group
  BY <1>1, <1>2, <1>4, <1>5 DEF Shrinks
<1>6. CASE group' = Cancelled(group)
  BY <1>1, <1>2, <1>4, <1>6, CancelledAlike, AlikeKeeps, GroupShrinks DEF Alike
<1>7. CASE group' = NoGroup
  BY <1>1, <1>2, <1>4, <1>7, RemovalStep
<1>8. CASE Fits(stray[w].items) /\ group' = Filled(stray[w].items)
  <2>1. stray[w].items \in Ours(inst, late) /\ stray[w].items \in Seq(Inputs)
    BY <1>1, <1>3 DEF Ours
  <2> QED
    BY <1>1, <1>2, <1>4, <1>8, <2>1, FilledKeeps, GroupShrinks
<1> QED
  BY <1>2, <1>4, <1>5, <1>6, <1>7, <1>8

\* The items of a worker that stalls are still those of the instance.
LEMMA StallStep ==
  ASSUME Inv, NEW w \in Stalled, StepStalls(w)
  PROVE  Inv' /\ Promise!Delay
<1>1. /\ NodeInv(inst, group, late) /\ stray \in [Stalled -> Stray]
      /\ late \subseteq Seq(Inputs) /\ inst \in Instance
      /\ inst.state = "running" /\ Retry /\ group' = group
      /\ late' = late \cup {inst.items} /\ inst.items # BadItems
  BY DEF Inv, NodeInv, StrayInv, StepStalls, Fault, failureVars
<1>2. inst.items \in Seq(Inputs) /\ inst.at \in Calls \cup {"none"} /\ inst.token \in BOOLEAN
  BY <1>1, InstanceTypes
<1>3. Moved(inst, inst', group)
  BY <1>1, RetryMoves
<1>4. inst'.state \in {"queued", "failed"}
  BY <1>1 DEF Retry, End, Instance
<1>5. NodeInv(inst', group', late')
  <2>1. /\ NodeInv(inst', group, late) /\ late' \subseteq Seq(Inputs)
        /\ Ours(inst', late) \subseteq Ours(inst', late')
    BY <1>1, <1>2, <1>3 DEF Moved, Ours
  <2> QED
    BY <1>1, <2>1 DEF NodeInv
<1>6. StrayInv(stray', late')
  <2> DEFINE s == [at |-> inst.at, items |-> inst.items, token |-> inst.token]
  <2>1. s \in Stray /\ s.items = inst.items
    BY <1>2 DEF Stray
  <2>2. stray' = [stray EXCEPT ![w] = s]
    BY DEF StepStalls
  <2> HIDE DEF s
  <2> QED
    BY <1>1, <2>1, <2>2 DEF StrayInv, Inv
<1>7. /\ PromisedState(inst) = "active" /\ PromisedState(inst') \in {"active", "failed"}
      /\ PromisedOutput(inst) = <<>> /\ PromisedOutput(inst') = <<>>
  BY <1>1, <1>4 DEF PromisedState, PromisedOutput, Active
<1>8. PromisedItems(inst) = inst.items /\ PromisedItems(inst') = inst.items
  BY <1>1, <1>3 DEF PromisedItems, Moved
<1>9. Done(inst', group') \subseteq Done(inst, group)
  BY <1>1, <1>3 DEF Moved
<1> QED
  BY <1>1, <1>5, <1>6, <1>7, <1>8, <1>9, PromiseDelay DEF Inv

\* The other actions.
Leased ==
  \/ Step \/ StepFails \/ CallRefused \/ EndCancelled \/ EndMember \/ Loss
  \/ SettleRun \/ CancelRun \/ CancelSteps \/ PassSteps \/ UNCHANGED vars

LEMMA LeasedSteps == Leased => UNCHANGED <<stray, late>>
<1>1. Step => UNCHANGED <<stray, late>>
  BY DEF Step, Deliver, RenderFails, Submit, StatusOfReplaced, CancelReplaced,
         ForgetReplaced, Resubmit, Submitted, Polled, Poll, Results,
         DiscardGroup, ForgetGroup, Succeed, envVars
<1>2. StepFails \/ CallRefused \/ EndCancelled \/ EndMember \/ Loss
        => UNCHANGED <<stray, late>>
  BY DEF StepFails, CallRefused, EndCancelled, EndMember, MemberEnds, Loss,
         RemoveResult, envVars
<1>3. SettleRun \/ CancelRun \/ CancelSteps => UNCHANGED <<stray, late>>
  BY DEF SettleRun, CancelRun, CancelSteps, Reconcile, ReadRecords,
         CancelInstance, CancelGroup, runVars
<1>4. PassSteps \/ UNCHANGED vars => UNCHANGED <<stray, late>>
  BY DEF PassSteps, ExpireRun, ForgetGroups, RemoveRun, runVars, vars
<1> QED
  BY <1>1, <1>2, <1>3, <1>4 DEF Leased

LEMMA NextCases ==
  ASSUME [Next]_vars
  PROVE  \/ Leased \/ RerunNode
         \/ \E w \in Stalled : StepStalls(w) \/ StrayStep(w)
  BY DEF Next, StepsPastLease, Leased

LEMMA RerunStep ==
  ASSUME Inv, RerunNode
  PROVE  Inv' /\ Promise!Rerun
<1>1. PICK items \in ItemLists \cup {BadItems} : inst' = NewInstance(inst.rerun + 1, items)
  BY DEF RerunNode
<1>2. /\ inst \in Instance /\ group' = group /\ GroupInv(group')
      /\ stray' = stray /\ late \subseteq Seq(Inputs)
  BY DEF RerunNode, Inv, NodeInv
<1>3. inst.rerun + 1 \in Nat
  BY <1>2, InstanceTypes
<1>4. inst.state \in Ended /\ late' = {stray[w].items : w \in Strays}
  BY DEF RerunNode
<1>5. PromisedState(inst) # "active"
  BY <1>4 DEF PromisedState, Ended, Active
<1>6. late' \subseteq late /\ late' \subseteq Seq(Inputs) /\ StrayInv(stray', late')
  BY <1>2, <1>4 DEF Inv, StrayInv, Strays
<1> QED
  BY <1>1, <1>2, <1>3, <1>5, <1>6, NewInstanceFacts, PromiseRerun DEF Inv

LEMMA LeasedStep ==
  ASSUME NodeInv(inst, group, late), Leased, late' = late
  PROVE  NodeInv(inst', group', late) /\ [Promise!Next]_(Promise!vars)
<1>1. Shrinks(inst, group, inst', group') =>
        NodeInv(inst', group', late) /\ [Promise!Next]_(Promise!vars)
  BY ShrinksKeepsPromise DEF Shrinks
<1>2. CASE Step
  <2>1. CASE Deliver
    BY <1>1, <2>1, DeliverStep
  <2>2. CASE RenderFails \/ Submit \/ StatusOfReplaced \/ CancelReplaced
             \/ ForgetReplaced \/ Resubmit \/ Submitted
    BY <1>1, <2>2, SubmitSteps
  <2>3. CASE Polled \/ Poll \/ Results \/ DiscardGroup
    BY <1>1, <2>3, PollSteps
  <2>4. CASE ForgetGroup
    BY <1>1, <2>4, ForgetGroupStep
  <2>5. CASE Succeed
    BY <2>5, SucceedStep DEF Promise!Next
  <2> QED
    BY <1>2, <2>1, <2>2, <2>3, <2>4, <2>5 DEF Step
<1>3. CASE StepFails \/ CallRefused \/ EndCancelled
  BY <1>1, <1>3, FailureSteps
<1>4. CASE EndMember
  BY <1>4, MemberStep
<1>5. CASE \/ Loss \/ SettleRun \/ CancelRun \/ CancelSteps \/ PassSteps
           \/ UNCHANGED vars
  BY <1>1, <1>5, EnvironmentSteps
<1> QED
  BY <1>2, <1>3, <1>4, <1>5 DEF Leased

LEMMA NextStep ==
  ASSUME Inv, [Next]_vars
  PROVE  Inv' /\ [Promise!Next]_(Promise!vars)
<1>1. CASE Leased
  <2>1. stray' = stray /\ late' = late
    BY <1>1, LeasedSteps
  <2> QED
    BY <1>1, <2>1, LeasedStep DEF Inv
<1>2. CASE RerunNode
  BY <1>2, RerunStep DEF Promise!Next
<1>3. ASSUME NEW w \in Stalled, StepStalls(w)
      PROVE  Inv' /\ [Promise!Next]_(Promise!vars)
  BY <1>3, StallStep DEF Promise!Next
<1>4. ASSUME NEW w \in Stalled, StrayStep(w)
      PROVE  Inv' /\ [Promise!Next]_(Promise!vars)
  <2>1. StrayInv(stray', late) /\ Shrinks(inst, group, inst', group') /\ late' = late
    BY <1>4, StrayMoves, StrayCalls
  <2> QED
    BY <2>1, ShrinksKeepsPromise DEF Inv, Shrinks
<1> QED
  BY <1>1, <1>2, <1>3, <1>4, NextCases

LEMMA InitStep == Init => Inv /\ Promise!Init
<1> SUFFICES ASSUME Init PROVE Inv /\ Promise!Init
  OBVIOUS
<1>1. PICK items \in ItemLists \cup {BadItems} : inst = NewInstance(0, items)
  BY DEF Init
<1>2. group = NoGroup /\ late = {} /\ stray = [w \in Stalled |-> NoStray]
  BY DEF Init
<1>3. /\ NodeInv(inst, group, late)
      /\ PromisedState(inst) = "active" /\ PromisedOutput(inst) = <<>>
      /\ PromisedItems(inst) \in ItemLists \cup {<<>>}
      /\ Done(inst, group) = {}
  BY <1>1, <1>2, NoGroupFacts, NewInstanceFacts
<1>4. NoStray \in Stray /\ NoStray.at = "none"
  BY EmptySeq DEF NoStray, Stray
<1>5. StrayInv(stray, late)
  BY <1>2, <1>4 DEF StrayInv
<1> QED
  BY <1>2, <1>3, <1>5 DEF Inv, Promise!Init

LEMMA InvHolds == Spec => []Inv
<1>1. Init => Inv
  BY InitStep
<1>2. Inv /\ [Next]_vars => Inv'
  BY NextStep
<1> QED
  BY <1>1, <1>2, PTL DEF Spec

\* For any items, attempts, failures, reruns and losses, and any number of
\* workers that go on without their lease, a mapped node keeps its promise: it
\* succeeds with the outputs of its present items, or of those of such a worker,
\* whatever group an earlier instance, the cancel or the retention pass leaves
\* it (run_mapped).
THEOREM MappedNodeKeepsPromise == Spec => KeepsPromise
<1>1. Init => Promise!Init
  BY InitStep
<1>2. Inv /\ [Next]_vars => [Promise!Next]_(Promise!vars)
  BY NextStep
<1> QED
  BY <1>1, <1>2, InvHolds, PTL DEF Spec, KeepsPromise, Promise!Spec

-----------------------------------------------------------------------------
(* The successes that are kept, and the groups of a removed run *)

\* The successes on the items of the instance are those of the group, and no
\* result of the group is gone.
Matching(i, g, w) ==
  w # {} /\ g.exists =>
    InputsOf(g) = i.items /\ Kept(g) = With(g, {"succeeded"})

\* What the running step knows of the group where it may remove it.
Guarded(i, g) ==
  i.state = "running" /\ g.exists =>
    /\ i.at \in {"status", "cancel", "forget"} => InputsOf(g) # i.items
    /\ i.at \in {"results", "discard"} => Pending(g) = {}
    /\ i.at = "discard" => Kept(g) # With(g, {"succeeded"})
    /\ i.at # "resubmit"

\* A worker without its lease makes that knowledge void.
KeepInv(i, g, w, l) ==
  /\ Matching(i, g, w)
  /\ l = {} => Guarded(i, g)
  /\ l # {} => w = {}

\* What is to be shown of a step.
Keeps ==
  /\ Matching(inst', group', won') /\ Guarded(inst', group')
  /\ won \subseteq Kept(group) /\ inst.phase # "finish" => won' \subseteq Kept(group')

LEMMA StepFields ==
  ASSUME inst \in Instance
  PROVE  /\ \A state : End(state) => /\ inst'.state = state
                                     /\ inst'.items = inst.items
                                     /\ inst'.rerun = inst.rerun
         /\ \A call : GoTo(call) => /\ inst'.at = call
                                    /\ inst'.state = inst.state
                                    /\ inst'.items = inst.items
                                    /\ inst'.rerun = inst.rerun
         /\ \A phase : Continue(phase) => /\ inst'.state \in {"queued", "cancelled"}
                                          /\ inst'.items = inst.items
                                          /\ inst'.rerun = inst.rerun
         /\ Retry => /\ inst'.state \in {"queued", "failed"}
                     /\ inst'.items = inst.items
                     /\ inst'.rerun = inst.rerun
<1>1. \A state : End(state) => /\ inst'.state = state
                               /\ inst'.items = inst.items
                               /\ inst'.rerun = inst.rerun
  BY DEF End, Instance
<1>2. \A call : GoTo(call) => /\ inst'.at = call
                              /\ inst'.state = inst.state
                              /\ inst'.items = inst.items
                              /\ inst'.rerun = inst.rerun
  BY DEF GoTo, Instance
<1>3. \A phase : Continue(phase) => /\ inst'.state \in {"queued", "cancelled"}
                                    /\ inst'.items = inst.items
                                    /\ inst'.rerun = inst.rerun
  BY <1>1 DEF Continue, Instance
<1>4. Retry => /\ inst'.state \in {"queued", "failed"}
               /\ inst'.items = inst.items
               /\ inst'.rerun = inst.rerun
  BY <1>1 DEF Retry, Instance
<1> QED
  BY <1>1, <1>2, <1>3, <1>4

LEMMA FreeCalls ==
  ASSUME NEW i, NEW g,
         \/ i.state # "running"
         \/ i.at \in {"submit", "submitted", "polled", "poll", "finish",
                     "succeed"}
  PROVE  Guarded(i, g)
  BY DEF Guarded

LEMMA AlikeRefl == \A g : Alike(g, g)
  BY DEF Alike

LEMMA AlikeMatches ==
  ASSUME KeepInv(inst, group, won, late), Alike(group, group'), won' = won,
         inst'.items = inst.items, Guarded(inst', group')
  PROVE  Keeps
  BY DEF KeepInv, Matching, Alike, Keeps

LEMMA AlikeGuarded ==
  ASSUME NEW i, NEW g, Guarded(i, g), NEW h, Alike(g, h),
         Pending(h) \subseteq Pending(g)
  PROVE  Guarded(i, h)
  BY DEF Guarded, Alike

LEMMA NothingKept ==
  ASSUME NEW g, GroupInv(g), ~g.exists
  PROVE  Kept(g) = {}
<1>1. DOMAIN g.members = {}
  BY EmptySeq DEF GroupInv
<1> QED
  BY <1>1, GroupTypes DEF GroupInv

\* A group that is removed held nothing, or nothing that counts.
LEMMA RemovalKeeps ==
  ASSUME KeepInv(inst, group, won, late), late = {}, NodeInv(inst, group, late), group' = NoGroup,
         \/ won' = {}
         \/ won' = won /\ (won = {} \/ ~group.exists \/ inst.phase = "finish")
  PROVE  Keeps
<1>1. ~group'.exists /\ Kept(group') = {}
  BY NoGroupFacts
<1>2. Matching(inst', group', won') /\ Guarded(inst', group')
  BY <1>1 DEF Matching, Guarded
<1>3. ~group.exists => Kept(group) = {}
  BY NothingKept DEF NodeInv
<1> QED
  BY <1>1, <1>2, <1>3 DEF Keeps

\* Members are submitted where there was no group.
LEMMA CreationKeeps ==
  ASSUME KeepInv(inst, group, won, late), late = {}, NodeInv(inst, group, late), ~group.exists,
         inst.items \in Seq(Inputs), group' = GroupOf(inst.items), won' = won,
         inst'.items = inst.items, inst'.at = "submitted"
  PROVE  Keeps
<1>1. /\ InputsOf(group') = inst'.items /\ Kept(group') = {}
      /\ With(group', {"succeeded"}) = {}
  BY NewGroupFacts
<1>2. Matching(inst', group', won') /\ Guarded(inst', group')
  BY <1>1, FreeCalls DEF KeepInv, Matching
<1>3. Kept(group) = {}
  BY NothingKept DEF NodeInv
<1> QED
  BY <1>1, <1>2, <1>3 DEF Keeps

LEMMA SubmitKeeps ==
  ASSUME KeepInv(inst, group, won, late), late = {}, NodeInv(inst, group, late),
         RenderFails \/ Submit \/ StatusOfReplaced \/ CancelReplaced
         \/ ForgetReplaced \/ Resubmit \/ Submitted
  PROVE  Keeps
<1>1. inst \in Instance /\ GroupInv(group)
  BY DEF NodeInv
<1>2. inst.state = "running" /\ won' = won
  BY DEF RenderFails, Submit, StatusOfReplaced, CancelReplaced,
         ForgetReplaced, Resubmit, Submitted, Ran
<1>3. Guarded(inst, group)
  BY DEF KeepInv
<1>4. CASE RenderFails
  <2>1. inst'.state = "failed" /\ inst'.items = inst.items /\ group' = group
    BY <1>1, <1>4, StepFields DEF RenderFails
  <2>2. Guarded(inst', group')
    BY <2>1, FreeCalls
  <2> QED
    BY <1>2, <2>1, <2>2, AlikeRefl, AlikeMatches
<1>5. CASE Submit
  <2>1. CASE ~Fits(inst.items)
    <3>1. GoTo("status") /\ group' = group
      BY <1>5, <2>1 DEF Submit
    <3>2. inst'.at = "status" /\ inst'.items = inst.items
      BY <1>1, <3>1, StepFields
    <3>3. Guarded(inst', group')
      BY <2>1, <3>1, <3>2 DEF Guarded, Fits
    <3> QED
      BY <1>2, <3>1, <3>2, <3>3, AlikeRefl, AlikeMatches
  <2>2. CASE Fits(inst.items)
    <3>1. /\ GoTo("submitted")
          /\ group' = IF group.exists THEN Resumed(group) ELSE GroupOf(inst.items)
      BY <1>5, <2>2 DEF Submit, Filled
    <3>2. inst'.at = "submitted" /\ inst'.items = inst.items
      BY <1>1, <3>1, StepFields
    <3>3. CASE group.exists
      <4>1. Alike(group, group')
        BY <1>1, <3>1, <3>3, ResumedAlike
      <4> QED
        BY <1>2, <3>2, <4>1, FreeCalls, AlikeMatches
    <3>4. CASE ~group.exists
      <4>1. inst.items \in Seq(Inputs)
        BY <1>5, PhaseOfCall DEF Submit, Ran, Active
      <4> QED
        BY <1>2, <3>1, <3>2, <3>4, <4>1, CreationKeeps
    <3> QED
      BY <3>3, <3>4
  <2> QED
    BY <2>1, <2>2
<1>6. CASE StatusOfReplaced
  <2>1. PICK call \in {"cancel", "forget"} : GoTo(call)
    BY <1>6 DEF StatusOfReplaced
  <2>2. inst'.at = call /\ inst'.items = inst.items /\ group' = group
    BY <1>1, <1>6, <2>1, StepFields DEF StatusOfReplaced
  <2>3. group.exists /\ InputsOf(group) # inst.items
    BY <1>2, <1>3, <1>6 DEF StatusOfReplaced, Ran, Guarded
  <2>4. Guarded(inst', group')
    BY <2>1, <2>2, <2>3 DEF Guarded
  <2> QED
    BY <1>2, <2>2, <2>4, AlikeRefl, AlikeMatches
<1>7. CASE CancelReplaced
  <2>1. inst'.state \in {"queued", "cancelled"} /\ inst'.items = inst.items
    BY <1>1, <1>7, StepFields DEF CancelReplaced
  <2>2. Alike(group, group')
    BY <1>1, <1>7, CancelledAlike DEF CancelReplaced
  <2> QED
    BY <1>2, <2>1, <2>2, FreeCalls, AlikeMatches
<1>8. CASE ForgetReplaced
  <2>1. group.exists => InputsOf(group) # inst.items
    BY <1>2, <1>3, <1>8 DEF ForgetReplaced, Ran, Guarded
  <2>2. group.exists => won = {}
    BY <2>1 DEF KeepInv, Matching
  <2> QED
    BY <1>2, <1>8, <2>2, RemovalKeeps DEF ForgetReplaced
<1>9. CASE Resubmit
  <2>1. ~group.exists /\ inst.items \in Seq(Inputs)
    BY <1>2, <1>3, <1>9, PhaseOfCall DEF Resubmit, Ran, Active, Guarded
  <2>2. inst'.at = "submitted" /\ inst'.items = inst.items
    BY <1>1, <1>9, StepFields DEF Resubmit
  <2> QED
    BY <1>2, <1>9, <2>1, <2>2, CreationKeeps DEF Resubmit, Filled
<1>10. CASE Submitted
  <2>1. inst'.state \in {"queued", "cancelled"} /\ inst'.items = inst.items
    BY <1>1, <1>10, StepFields DEF Submitted
  <2>2. Alike(group, group')
    BY <1>1, <1>10, CancelledAlike, AlikeRefl DEF Submitted
  <2> QED
    BY <1>2, <2>1, <2>2, FreeCalls, AlikeMatches
<1> QED
  BY <1>4, <1>5, <1>6, <1>7, <1>8, <1>9, <1>10

\* A member that is neither active, failed nor cancelled has succeeded.
LEMMA ResultIsMissing ==
  ASSUME NEW g, GroupInv(g), Pending(g) = {},
         With(g, {"failed", "cancelled"}) = {},
         ~ \A p \in DOMAIN g.members : g.members[p].kept
  PROVE  Kept(g) # With(g, {"succeeded"})
<1>1. PICK p \in DOMAIN g.members : ~g.members[p].kept
  OBVIOUS
<1>2. g.members[p].status \in {"pending", "cancelling"} \cup Ended
  BY GroupTypes DEF GroupInv, Member
<1>3. p \in With(g, {"succeeded"})
  BY <1>2 DEF With, Pending, Ended
<1>4. p \notin Kept(g)
  BY <1>1 DEF Kept
<1> QED
  BY <1>3, <1>4

LEMMA PollKeeps ==
  ASSUME KeepInv(inst, group, won, late), late = {}, NodeInv(inst, group, late),
         Deliver \/ Polled \/ Poll \/ Results \/ DiscardGroup \/ ForgetGroup
         \/ Succeed
  PROVE  Keeps
<1>1. inst \in Instance /\ GroupInv(group)
  BY DEF NodeInv
<1>2. won' = won
  BY DEF Deliver, Polled, Poll, Results, DiscardGroup, ForgetGroup, Succeed
<1>3. Guarded(inst, group)
  BY DEF KeepInv
<1>4. CASE Deliver
  <2>1. inst.phase \in {"submit", "poll", "finish"} /\ inst.at = FirstCall(inst.phase)
    BY <1>1, <1>4, InstanceTypes DEF NodeInv, Deliver
  <2>2. inst'.at = inst.at /\ inst'.items = inst.items /\ group' = group
    BY <1>1, <1>4 DEF Deliver, Instance
  <2>3. inst'.at \in {"submit", "polled", "finish"}
    BY <2>1, <2>2 DEF FirstCall
  <2> QED
    BY <1>2, <2>2, <2>3, FreeCalls, AlikeRefl, AlikeMatches
<1>5. CASE Polled
  <2>1. inst'.at = "poll" /\ inst'.items = inst.items
    BY <1>1, <1>5, StepFields DEF Polled
  <2>2. Alike(group, group')
    BY <1>1, <1>5, CancelledAlike, AlikeRefl DEF Polled
  <2> QED
    BY <1>2, <2>1, <2>2, FreeCalls, AlikeMatches
<1>6. CASE Poll
  <2>1. /\ group' = group
        /\ \/ \E phase : Continue(phase)
           \/ group.exists /\ Pending(group) = {} /\ GoTo("results")
    BY <1>6 DEF Poll
  <2>2. CASE \E phase : Continue(phase)
    <3>1. inst'.state # "running" /\ inst'.items = inst.items
      BY <1>1, <2>2, StepFields
    <3> QED
      BY <1>2, <2>1, <3>1, FreeCalls, AlikeRefl, AlikeMatches
  <2>3. CASE group.exists /\ Pending(group) = {} /\ GoTo("results")
    <3>1. inst'.at = "results" /\ inst'.items = inst.items
      BY <1>1, <2>3, StepFields
    <3>2. Guarded(inst', group')
      BY <2>1, <2>3, <3>1 DEF Guarded
    <3> QED
      BY <1>2, <2>1, <3>1, <3>2, AlikeRefl, AlikeMatches
  <2> QED
    BY <2>1, <2>2, <2>3
<1>7. CASE Results
  <2>1. group' = group /\ group.exists /\ inst.state = "running" /\ inst.at = "results"
    BY <1>7 DEF Results, Ran
  <2>2. \/ \E state : End(state) /\ state # "running"
        \/ inst' = [inst EXCEPT !.state = "queued", !.phase = "finish",
                      !.at = "finish", !.attempts = 0, !.output = InputsOf(group)]
        \/ /\ With(group, {"failed", "cancelled"}) = {}
           /\ ~ \A p \in DOMAIN group.members : group.members[p].kept
           /\ GoTo("discard")
    BY <1>7 DEF Results
  <2>3. CASE \E state : End(state) /\ state # "running"
    <3>1. inst'.state # "running" /\ inst'.items = inst.items
      BY <1>1, <2>3, StepFields
    <3> QED
      BY <1>2, <2>1, <3>1, FreeCalls, AlikeRefl, AlikeMatches
  <2>4. CASE inst' = [inst EXCEPT !.state = "queued", !.phase = "finish",
                        !.at = "finish", !.attempts = 0, !.output = InputsOf(group)]
    <3>1. inst'.state # "running" /\ inst'.items = inst.items
      BY <1>1, <2>4 DEF Instance
    <3> QED
      BY <1>2, <2>1, <3>1, FreeCalls, AlikeRefl, AlikeMatches
  <2>5. CASE /\ With(group, {"failed", "cancelled"}) = {}
             /\ ~ \A p \in DOMAIN group.members : group.members[p].kept
             /\ GoTo("discard")
    <3>1. inst'.at = "discard" /\ inst'.items = inst.items
      BY <1>1, <2>5, StepFields
    <3>2. Pending(group) = {}
      BY <1>3, <2>1 DEF Guarded
    <3>3. Kept(group) # With(group, {"succeeded"})
      BY <1>1, <2>5, <3>2, ResultIsMissing
    <3>4. Guarded(inst', group')
      BY <2>1, <3>1, <3>2, <3>3 DEF Guarded
    <3> QED
      BY <1>2, <2>1, <3>1, <3>4, AlikeRefl, AlikeMatches
  <2> QED
    BY <2>2, <2>3, <2>4, <2>5
<1>8. CASE DiscardGroup
  <2>1. group.exists => Kept(group) # With(group, {"succeeded"})
    BY <1>3, <1>8 DEF DiscardGroup, Ran, Guarded
  <2>2. group.exists => won = {}
    BY <2>1 DEF KeepInv, Matching
  <2> QED
    BY <1>2, <1>8, <2>2, RemovalKeeps DEF DiscardGroup
<1>9. CASE ForgetGroup
  <2>1. inst.phase = "finish"
    BY <1>9, PhaseOfCall DEF ForgetGroup, Ran, Active
  <2> QED
    BY <1>2, <1>9, <2>1, RemovalKeeps DEF ForgetGroup
<1>10. CASE Succeed
  <2>1. inst'.state = "succeeded" /\ inst'.items = inst.items /\ group' = group
    BY <1>1, <1>10, StepFields DEF Succeed
  <2> QED
    BY <1>2, <2>1, FreeCalls, AlikeRefl, AlikeMatches
<1> QED
  BY <1>4, <1>5, <1>6, <1>7, <1>8, <1>9, <1>10
LEMMA FailureKeeps ==
  ASSUME KeepInv(inst, group, won, late), late = {}, NodeInv(inst, group, late),
         StepFails \/ CallRefused \/ EndCancelled
  PROVE  Keeps
<1>1. inst \in Instance
  BY DEF NodeInv
<1>2. group' = group /\ won' = won
  BY DEF StepFails, failureVars, CallRefused, EndCancelled
<1>3. Retry \/ \E state : End(state) /\ state # "running"
  BY DEF StepFails, CallRefused, EndCancelled
<1>4. inst'.state # "running" /\ inst'.items = inst.items
  BY <1>1, <1>3, StepFields
<1> QED
  BY <1>2, <1>4, FreeCalls, AlikeRefl, AlikeMatches

LEMMA MemberKeeps ==
  ASSUME KeepInv(inst, group, won, late), late = {}, NodeInv(inst, group, late), EndMember
  PROVE  Keeps
<1>1. GroupInv(group) /\ Guarded(inst, group) /\ Matching(inst, group, won)
  BY DEF NodeInv, KeepInv
<1>2. PICK p \in DOMAIN group.members : MemberEnds(p)
  BY DEF EndMember
<1>3. inst' = inst /\ Pending(group) # {}
  BY <1>2 DEF MemberEnds
<1>4. /\ group'.exists = group.exists /\ InputsOf(group') = InputsOf(group)
      /\ \/ /\ Kept(group') = Kept(group) \cup {p}
            /\ With(group', {"succeeded"}) = With(group, {"succeeded"}) \cup {p}
         \/ /\ Kept(group') = Kept(group)
            /\ With(group', {"succeeded"}) = With(group, {"succeeded"})
      /\ Pending(group') \subseteq Pending(group)
      /\ \/ won' = won
         \/ /\ won' = won \cup {p} /\ p \in Kept(group')
            /\ InputsOf(group) = inst.items
            /\ Kept(group) = With(group, {"succeeded"})
      /\ p \notin Kept(group) /\ p \notin With(group, {"succeeded"})
  BY <1>1, <1>2, MemberEndsGroup
<1>5. Kept(group) = With(group, {"succeeded"})
        => Kept(group') = With(group', {"succeeded"})
  BY <1>4
<1>6. Matching(inst', group', won')
  BY <1>1, <1>3, <1>4, <1>5 DEF Matching
<1>7. Kept(group) # With(group, {"succeeded"})
        => Kept(group') # With(group', {"succeeded"})
  BY <1>4
<1>8. Guarded(inst', group')
  BY <1>1, <1>3, <1>4, <1>7 DEF Guarded
<1>9. won \subseteq Kept(group) => won' \subseteq Kept(group')
  BY <1>4
<1> QED
  BY <1>6, <1>8, <1>9 DEF Keeps

LEMMA EnvironmentKeeps ==
  ASSUME KeepInv(inst, group, won, late), late = {}, NodeInv(inst, group, late),
         \/ Loss \/ SettleRun \/ CancelRun \/ CancelSteps \/ PassSteps
         \/ RerunNode \/ UNCHANGED vars
  PROVE  Keeps
<1>1. inst \in Instance /\ GroupInv(group) /\ Guarded(inst, group)
  BY DEF NodeInv, KeepInv
<1>2. CASE Loss
  <2>1. PICK p \in DOMAIN group.members : RemoveResult(p)
    BY <1>2 DEF Loss
  <2>2. /\ group'.exists = group.exists /\ InputsOf(group') = InputsOf(group)
        /\ Kept(group') = Kept(group) \ {p}
        /\ With(group', {"succeeded"}) = With(group, {"succeeded"})
        /\ Pending(group') \subseteq Pending(group)
    BY <1>1, <2>1, RemoveResultFacts DEF RemoveResult
  <2>3. inst' = inst /\ won' = {}
    BY <2>1 DEF RemoveResult
  <2>4. p \in Kept(group)
    BY <2>1 DEF RemoveResult, Kept
  <2>5. Kept(group) \subseteq With(group, {"succeeded"})
    BY DEF Kept
  <2>6. Kept(group') # With(group', {"succeeded"})
    BY <2>2, <2>4, <2>5
  <2>7. Guarded(inst', group')
    BY <1>1, <2>2, <2>3, <2>6 DEF Guarded
  <2> QED
    BY <2>3, <2>7 DEF Keeps, KeepInv, Matching
<1>3. CASE SettleRun \/ CancelRun \/ Reconcile \/ ReadRecords \/ ExpireRun
           \/ RemoveRun \/ UNCHANGED vars
  <2>1. inst' = inst /\ group' = group /\ won' = won
    BY <1>3 DEF SettleRun, CancelRun, Reconcile, ReadRecords, ExpireRun,
                RemoveRun, runVars, vars
  <2> QED
    BY <1>1, <2>1, AlikeRefl, AlikeMatches
<1>4. CASE CancelInstance
  <2>1. group' = group /\ won' = won
    BY <1>4 DEF CancelInstance, runVars
  <2>2. \/ inst' = inst
        \/ End("cancelled")
        \/ inst' = [inst EXCEPT !.token = TRUE]
    BY <1>4 DEF CancelInstance
  <2>3. CASE End("cancelled")
    <3>1. inst'.state = "cancelled" /\ inst'.items = inst.items
      BY <1>1, <2>3, StepFields
    <3> QED
      BY <2>1, <3>1, FreeCalls, AlikeRefl, AlikeMatches
  <2>4. CASE inst' = inst \/ inst' = [inst EXCEPT !.token = TRUE]
    <3>1. /\ inst'.state = inst.state /\ inst'.items = inst.items
          /\ inst'.at = inst.at
      BY <1>1, <2>4 DEF Instance
    <3>2. Guarded(inst', group')
      BY <1>1, <2>1, <3>1 DEF Guarded
    <3> QED
      BY <2>1, <3>1, <3>2, AlikeRefl, AlikeMatches
  <2> QED
    BY <2>2, <2>3, <2>4
<1>5. CASE CancelGroup
  <2>1. inst' = inst /\ won' = won /\ group' = Cancelled(group)
    BY <1>5 DEF CancelGroup, runVars
  <2>2. Alike(group, group') /\ Pending(group') \subseteq Pending(group)
    BY <1>1, <2>1, CancelledAlike, CancelledPending
  <2>3. Guarded(inst', group')
    BY <1>1, <2>1, <2>2, AlikeGuarded
  <2> QED
    BY <2>1, <2>2, <2>3, AlikeMatches
<1>6. CASE ForgetGroups
  <2>1. /\ inst' = inst
        /\ \/ group' = group /\ won' = won
           \/ group' = NoGroup /\ won' = {}
    BY <1>6 DEF ForgetGroups
  <2> QED
    BY <1>1, <2>1, AlikeRefl, AlikeMatches, RemovalKeeps
<1>7. CASE RerunNode
  <2>1. PICK items \in ItemLists \cup {BadItems} :
          /\ inst' = NewInstance(inst.rerun + 1, items)
          /\ won' = IF items = inst.items /\ inst.state # "succeeded"
                    THEN won ELSE {}
    BY <1>7 DEF RerunNode
  <2>2. inst'.state = "queued" /\ inst'.items = items /\ group' = group
    BY <1>7, <2>1 DEF RerunNode, NewInstance
  <2>3. won' = {} \/ (won' = won /\ inst'.items = inst.items)
    BY <2>1, <2>2
  <2>4. Guarded(inst', group')
    BY <2>2, FreeCalls
  <2>5. Matching(inst', group', won')
    BY <2>2, <2>3 DEF KeepInv, Matching
  <2> QED
    BY <2>2, <2>3, <2>4, <2>5 DEF Keeps, KeepInv
<1> QED
  BY <1>2, <1>3, <1>4, <1>5, <1>6, <1>7 DEF CancelSteps, PassSteps

LEMMA LeasedKeeps ==
  ASSUME KeepInv(inst, group, won, late), late = {}, NodeInv(inst, group, late),
         Leased \/ RerunNode
  PROVE  Keeps
<1>1. CASE Step
  BY <1>1, SubmitKeeps, PollKeeps DEF Step
<1>2. CASE StepFails \/ CallRefused \/ EndCancelled
  BY <1>2, FailureKeeps
<1>3. CASE EndMember
  BY <1>3, MemberKeeps
<1>4. CASE \/ Loss \/ SettleRun \/ CancelRun \/ CancelSteps \/ PassSteps
           \/ RerunNode \/ UNCHANGED vars
  BY <1>4, EnvironmentKeeps
<1> QED
  BY <1>1, <1>2, <1>3, <1>4 DEF Leased

\* Once a worker has gone on without its lease, no success is counted until the
\* next instance.
LEMMA UncountedStep ==
  ASSUME Inv, won = {}, late # {}, [Next]_vars
  PROVE  won' = {} /\ (late' # {} \/ RerunNode)
<1>1. GroupInv(group)
  BY DEF Inv, NodeInv
<1>2. CASE EndMember
  <2>1. PICK p \in DOMAIN group.members : MemberEnds(p)
    BY <1>2 DEF EndMember
  <2>2. won' = won /\ late' = late
    BY <1>1, <2>1, MemberEndsGroup DEF MemberEnds, envVars
  <2> QED
    BY <2>2
<1>3. CASE Step
  BY <1>3 DEF Step, Deliver, RenderFails, Submit, StatusOfReplaced,
              CancelReplaced, ForgetReplaced, Resubmit, Submitted, Polled, Poll,
              Results, DiscardGroup, ForgetGroup, Succeed, envVars
<1>4. CASE StepFails \/ CallRefused \/ EndCancelled \/ Loss
  BY <1>4 DEF StepFails, CallRefused, EndCancelled, Loss, RemoveResult, envVars
<1>5. CASE SettleRun \/ CancelRun \/ CancelSteps \/ PassSteps \/ UNCHANGED vars
  BY <1>5 DEF SettleRun, CancelRun, CancelSteps, Reconcile, ReadRecords,
              CancelInstance, CancelGroup, PassSteps, ExpireRun, ForgetGroups,
              RemoveRun, runVars, vars
<1>6. CASE RerunNode
  BY <1>6 DEF RerunNode
<1>7. ASSUME NEW w, StepStalls(w) \/ StrayStep(w) PROVE won' = {} /\ late' # {}
  BY <1>7, StrayCalls DEF StepStalls
<1> QED
  BY <1>2, <1>3, <1>4, <1>5, <1>6, <1>7, NextCases DEF Leased

LEMMA NextKeeps ==
  ASSUME KeepInv(inst, group, won, late), Inv, [Next]_vars
  PROVE  /\ KeepInv(inst', group', won', late')
         /\ late = {} /\ won \subseteq Kept(group) /\ inst.phase # "finish"
              => won' \subseteq Kept(group')
<1>1. NodeInv(inst, group, late)
  BY DEF Inv
<1>2. CASE late = {} /\ (Leased \/ RerunNode)
  <2>1. Keeps
    BY <1>1, <1>2, LeasedKeeps
  <2>2. late' = {}
    <3>1. RerunNode => late' = {}
      BY <1>2 DEF RerunNode, Strays, Inv, StrayInv
    <3> QED
      BY <1>2, <3>1, LeasedSteps
  <2> QED
    BY <2>1, <2>2 DEF Keeps, KeepInv
<1>3. CASE late = {} /\ \E w \in Stalled : StepStalls(w)
  <2>1. won' = {} /\ late' # {}
    BY <1>3 DEF StepStalls
  <2> QED
    BY <2>1 DEF KeepInv, Matching
<1>4. CASE late = {} /\ \E w \in Stalled : StrayStep(w)
  BY <1>4, StrayCalls DEF Inv, StrayInv
<1>5. CASE late # {}
  <2>1. won' = {} /\ (late' # {} \/ RerunNode)
    BY <1>5, UncountedStep DEF KeepInv
  <2>2. RerunNode => Guarded(inst', group')
    BY FreeCalls DEF RerunNode, NewInstance
  <2> QED
    BY <1>5, <2>1, <2>2 DEF KeepInv, Matching
<1> QED
  BY <1>2, <1>3, <1>4, <1>5, NextCases

\* For any items, attempts, failures, reruns and losses, no step but that of
\* the success of the node drops a success on its present items, as long as no
\* worker has gone on without its lease since the instance began: a group is
\* removed for other items or for a result that is gone (run_mapped).
THEOREM MappedNodeKeepsSuccesses == Spec => SuccessesAreKept
<1>1. Init => KeepInv(inst, group, won, late)
  BY NoGroupFacts DEF Init, KeepInv, Matching, Guarded
<1>2. KeepInv(inst, group, won, late) /\ Inv /\ [Next]_vars
        => KeepInv(inst, group, won, late)'
  BY NextKeeps
<1>3. KeepInv(inst, group, won, late) /\ Inv /\ [Next]_vars
        => [late = {} /\ won \subseteq Kept(group) /\ inst.phase # "finish" =>
              won' \subseteq Kept(group')]_vars
  BY NextKeeps
<1> QED
  BY <1>1, <1>2, <1>3, InvHolds, PTL DEF Spec, SuccessesAreKept

-----------------------------------------------------------------------------
(* The types, and the retention pass *)

\* What no step of the instance changes.
Rests == UNCHANGED <<run, cancel, pass, removed>>

LEMMA InstanceStep ==
  ASSUME NodeInv(inst, group, late), Step \/ StepFails \/ CallRefused \/ EndCancelled
  PROVE  /\ Rests /\ inst.state \in Active /\ inst'.rerun = inst.rerun
         /\ won' = won /\ faults' \in {faults, faults + 1}
<1>1. inst \in Instance
  BY DEF NodeInv
<1>2. CASE RenderFails \/ Succeed \/ EndCancelled
  <2>1. \E state : End(state)
    BY <1>2 DEF RenderFails, Succeed, EndCancelled
  <2>2. inst'.rerun = inst.rerun
    BY <1>1, <2>1, StepFields
  <2> QED
    BY <1>2, <2>2 DEF RenderFails, Succeed, EndCancelled, Ran, Rests, envVars,
                      Active
<1>3. CASE Submit \/ StatusOfReplaced \/ ForgetReplaced \/ Resubmit \/ Polled
           \/ ForgetGroup
  <2>1. \E call : GoTo(call)
    BY <1>3 DEF Submit, StatusOfReplaced, ForgetReplaced, Resubmit, Polled,
                ForgetGroup
  <2>2. inst'.rerun = inst.rerun
    BY <1>1, <2>1, StepFields
  <2> QED
    BY <1>3, <2>2 DEF Submit, StatusOfReplaced, ForgetReplaced, Resubmit, Polled,
                      ForgetGroup, Ran, Rests, envVars, Active
<1>4. CASE CancelReplaced \/ Submitted \/ DiscardGroup
  <2>1. \E phase : Continue(phase)
    BY <1>4 DEF CancelReplaced, Submitted, DiscardGroup
  <2>2. inst'.rerun = inst.rerun
    BY <1>1, <2>1, StepFields
  <2> QED
    BY <1>4, <2>2 DEF CancelReplaced, Submitted, DiscardGroup, Ran, Rests,
                      envVars, Active
<1>5. CASE Poll
  <2>1. (\E phase : Continue(phase)) \/ GoTo("results")
    BY <1>5 DEF Poll
  <2>2. inst'.rerun = inst.rerun
    BY <1>1, <2>1, StepFields
  <2> QED
    BY <1>5, <2>2 DEF Poll, Ran, Rests, envVars, Active
<1>6. CASE Results
  <2>1. \/ (\E state : End(state)) \/ GoTo("discard")
        \/ inst' = [inst EXCEPT !.state = "queued", !.phase = "finish",
                      !.at = "finish", !.attempts = 0, !.output = InputsOf(group)]
    BY <1>6 DEF Results
  <2>2. inst'.rerun = inst.rerun
    BY <1>1, <2>1, StepFields DEF Instance
  <2> QED
    BY <1>6, <2>2 DEF Results, Ran, Rests, envVars, Active
<1>7. CASE Deliver
  BY <1>1, <1>7 DEF Deliver, Ran, Rests, envVars, Active, Instance
<1>8. CASE StepFails \/ CallRefused
  <2>1. Retry \/ End("failed")
    BY <1>8 DEF StepFails, CallRefused
  <2>2. inst'.rerun = inst.rerun
    BY <1>1, <2>1, StepFields
  <2> QED
    BY <1>8, <2>2 DEF StepFails, Fault, failureVars, CallRefused, Rests, envVars,
                      Active
<1> QED
  BY <1>2, <1>3, <1>4, <1>5, <1>6, <1>7, <1>8 DEF Step

RunTypes ==
  /\ run \in {"active", "settled", "cancelled", "absent"}
  /\ cancel \in [at : {"idle", "records", "instance", "group"}, rerun : Nat]
  /\ pass \in [at : {"idle", "groups", "remove"}, rerun : Nat,
               run : {"active", "settled", "cancelled", "absent"}]
  /\ won \subseteq Nat
  /\ faults \in Nat /\ removed \in Nat

LEMMA NextTypes ==
  ASSUME RunTypes, Inv, [Next]_vars
  PROVE  RunTypes'
<1>1. /\ NodeInv(inst, group, late) /\ inst \in Instance /\ GroupInv(group)
      /\ inst.rerun \in Nat /\ inst.rerun + 1 \in Nat
  BY InstanceTypes DEF Inv, NodeInv
<1>2. CASE Step \/ StepFails \/ CallRefused \/ EndCancelled
  <2>1. Rests /\ won' = won /\ faults' \in {faults, faults + 1}
    BY <1>1, <1>2, InstanceStep
  <2> QED
    BY <2>1 DEF Rests, RunTypes
<1>3. CASE EndMember
  <2>1. PICK p \in DOMAIN group.members : MemberEnds(p)
    BY <1>3 DEF EndMember
  <2>2. p \in Nat
    BY <1>1, GroupTypes DEF GroupInv
  <2>3. won' \in {won, won \cup {p}}
    BY <1>1, <2>1, MemberEndsGroup
  <2> QED
    BY <2>1, <2>2, <2>3 DEF MemberEnds, envVars, RunTypes
<1>4. CASE Loss
  BY <1>4 DEF Loss, RemoveResult, RunTypes
<1>5. CASE SettleRun \/ CancelRun \/ Reconcile \/ CancelGroup \/ UNCHANGED vars
  BY <1>5 DEF SettleRun, CancelRun, Reconcile, CancelGroup, runVars, vars, RunTypes
<1>6. CASE ReadRecords
  <2>1. \/ cancel' = [cancel EXCEPT !.at = "idle"]
        \/ cancel' = [at |-> "instance", rerun |-> inst.rerun]
        \/ cancel' = [at |-> "instance", rerun |-> inst.rerun + 1]
    BY <1>6 DEF ReadRecords
  <2> QED
    BY <1>1, <1>6, <2>1 DEF ReadRecords, runVars, RunTypes
<1>7. CASE CancelInstance
  BY <1>7 DEF CancelInstance, runVars, RunTypes
<1>8. CASE ExpireRun \/ ForgetGroups \/ RemoveRun
  BY <1>1, <1>8 DEF ExpireRun, ForgetGroups, RemoveRun, NoPass, runVars, RunTypes
<1>9. CASE RerunNode
  <2>1. won' \in {won, {}}
    BY <1>9 DEF RerunNode
  <2> QED
    BY <1>9, <2>1 DEF RerunNode, RunTypes
<1>10. ASSUME NEW w, StepStalls(w) PROVE RunTypes'
  <2>1. /\ UNCHANGED <<run, cancel, pass, removed>>
        /\ won' = {} /\ faults' = faults + 1
    BY <1>10 DEF StepStalls, Fault, failureVars
  <2> QED
    BY <2>1 DEF RunTypes
<1>11. ASSUME NEW w, StrayStep(w) PROVE RunTypes'
  <2>1. UNCHANGED <<run, cancel, pass, won, faults, removed>>
    BY <1>11, StrayCalls
  <2> QED
    BY <2>1 DEF RunTypes
<1> QED
  BY <1>2, <1>3, <1>4, <1>5, <1>6, <1>7, <1>8, <1>9, <1>10, <1>11
  DEF Next, CancelSteps, PassSteps, StepsPastLease

\* The types of the mapped node.
THEOREM MappedNodeTypes == Spec => []TypeOK
<1>1. Init => RunTypes
  BY DEF Init, NoPass, RunTypes
<1>2. RunTypes /\ Inv /\ [Next]_vars => RunTypes'
  BY NextTypes
<1>3. RunTypes /\ Inv => TypeOK
  BY DEF RunTypes, Inv, NodeInv, StrayInv, GroupInv, TypeOK
<1> QED
  BY <1>1, <1>2, <1>3, InvHolds, PTL DEF Spec

\* The instance and its workers have ended.
Quiet == inst.state \in Ended /\ \A w \in Stalled : stray[w].at = "none"

\* The pass knows of the instance whose rerun it has read that it has ended,
\* and that its group is gone; only a rerun changes that.
PassInv ==
  /\ pass.at # "idle" => pass.rerun <= inst.rerun
  /\ pass.at # "idle" /\ pass.rerun = inst.rerun => Quiet
  /\ pass.at = "remove" /\ pass.rerun = inst.rerun => ~group.exists
  /\ run = "absent" => Quiet /\ ~group.exists

\* An instance that has ended is left alone, and so is the lack of a group.
LEMMA GroupOnlyGoes ==
  ASSUME NodeInv(inst, group, late),
         \/ EndMember \/ Loss \/ CancelGroup \/ CancelInstance \/ ReadRecords
  PROVE  ~group.exists => ~group'.exists
<1>1. GroupInv(group)
  BY DEF NodeInv
<1>2. CASE EndMember
  <2>1. PICK p \in DOMAIN group.members : MemberEnds(p)
    BY <1>2 DEF EndMember
  <2> QED
    BY <1>1, <2>1, MemberEndsGroup
<1>3. CASE Loss
  <2>1. PICK p \in DOMAIN group.members : RemoveResult(p)
    BY <1>3 DEF Loss
  <2> QED
    BY <1>1, <2>1, RemoveResultFacts DEF RemoveResult
<1>4. CASE CancelGroup
  BY <1>1, <1>4, CancelledAlike DEF CancelGroup, Alike
<1>5. CASE CancelInstance \/ ReadRecords
  BY <1>5 DEF CancelInstance, ReadRecords
<1> QED
  BY <1>2, <1>3, <1>4, <1>5

LEMMA NextPass ==
  ASSUME Patient, PassInv, RunTypes, Inv, [Next]_vars
  PROVE  PassInv'
<1>1. /\ NodeInv(inst, group, late) /\ inst \in Instance /\ inst.rerun \in Nat /\ pass.rerun \in Nat
      /\ pass.at \in {"idle", "groups", "remove"}
  BY InstanceTypes DEF Inv, NodeInv, RunTypes
<1>2. Active \cap Ended = {}
  BY DEF Active, Ended
<1>3. CASE Step \/ StepFails \/ CallRefused \/ EndCancelled
  <2>1. /\ inst.state \in Active /\ inst'.rerun = inst.rerun
        /\ run' = run /\ pass' = pass
    BY <1>1, <1>3, InstanceStep DEF Rests
  <2>2. ~Quiet
    BY <1>2, <2>1 DEF Quiet
  <2> QED
    BY <2>1, <2>2 DEF PassInv
<1>4. CASE EndMember \/ Loss \/ CancelGroup \/ ReadRecords
  <2>1. inst' = inst /\ run' = run /\ pass' = pass /\ stray' = stray
    BY <1>4 DEF EndMember, MemberEnds, Loss, RemoveResult, CancelGroup,
                ReadRecords, envVars, runVars
  <2>2. ~group.exists => ~group'.exists
    BY <1>1, <1>4, GroupOnlyGoes
  <2> QED
    BY <2>1, <2>2 DEF PassInv, Quiet
<1>5. CASE SettleRun \/ CancelRun \/ Reconcile \/ UNCHANGED vars
  <2>1. /\ inst' = inst /\ group' = group /\ pass' = pass /\ stray' = stray
        /\ run' = "absent" => run = "absent"
    BY <1>5 DEF SettleRun, CancelRun, Reconcile, runVars, vars
  <2> QED
    BY <2>1 DEF PassInv, Quiet
<1>6. CASE CancelInstance
  <2>1. run' = run /\ pass' = pass /\ group' = group /\ stray' = stray
    BY <1>6 DEF CancelInstance, runVars
  <2>2. inst.state \in Ended => inst' = inst
    BY <1>6 DEF CancelInstance
  <2>3. inst'.rerun = inst.rerun
    BY <1>1, <1>6 DEF CancelInstance, End, Instance
  <2> QED
    BY <2>1, <2>2, <2>3 DEF PassInv, Quiet
<1>7. CASE ExpireRun
  <2>1. /\ inst' = inst /\ group' = group /\ run' = run /\ run # "absent"
        /\ stray' = stray /\ Quiet
        /\ pass'.at = "groups" /\ pass'.rerun = inst.rerun
    BY <1>7 DEF ExpireRun, Strays, Quiet, runVars
  <2> QED
    BY <1>1, <2>1 DEF PassInv, Quiet
<1>8. CASE ForgetGroups
  <2>1. /\ inst' = inst /\ run' = run /\ pass.at = "groups"
        /\ stray' = stray
        /\ \/ group' = group /\ pass'.at = "idle"
           \/ ~group'.exists /\ pass'.rerun = pass.rerun
    BY <1>8, NoGroupFacts DEF ForgetGroups, NoPass, RunTypes
  <2> QED
    BY <2>1 DEF PassInv, Quiet
<1>9. CASE RemoveRun
  <2>1. /\ inst' = inst /\ group' = group /\ pass.at = "remove"
        /\ pass'.at = "idle" /\ stray' = stray
        /\ run' = run \/ inst.rerun = pass.rerun
    BY <1>9 DEF RemoveRun, NoPass, runVars
  <2> QED
    BY <2>1 DEF PassInv, Quiet
<1>10. CASE RerunNode
  <2>1. /\ run' = "active" /\ pass' = pass /\ inst'.rerun = inst.rerun + 1
    BY <1>10 DEF RerunNode, NewInstance
  <2> QED
    BY <1>1, <2>1 DEF PassInv
<1>11. ASSUME NEW w \in Stalled, StepStalls(w) PROVE PassInv'
  <2>1. /\ inst.state = "running" /\ run' = run /\ pass' = pass
        /\ inst'.rerun = inst.rerun
    BY <1>1, <1>11, StepFields DEF StepStalls, Fault, failureVars
  <2>2. ~Quiet
    BY <2>1 DEF Quiet, Ended
  <2> QED
    BY <2>1, <2>2 DEF PassInv
<1>12. ASSUME NEW w \in Stalled, StrayStep(w) PROVE PassInv'
  <2>1. /\ ~Quiet /\ inst' = inst /\ run' = run /\ pass' = pass
    BY <1>12, StrayCalls DEF Quiet
  <2> QED
    BY <2>1 DEF PassInv
<1> QED
  BY <1>3, <1>4, <1>5, <1>6, <1>7, <1>8, <1>9, <1>10, <1>11, <1>12
  DEF Next, CancelSteps, PassSteps, StepsPastLease

\* With a retention window that outlasts the task instance and its workers, a
\* graph run is removed with the group of its mapped node, whatever a rerun or a cancel does
\* between the removal of the group and that of the run (forget_groups).
THEOREM RemovalForgetsGroup ==
  ASSUME Patient
  PROVE  Spec => []RemovedLeavesNoGroup
<1>1. Init => PassInv /\ RunTypes
  BY DEF Init, NoPass, PassInv, RunTypes
<1>2. PassInv /\ RunTypes /\ Inv /\ [Next]_vars
        => PassInv' /\ RunTypes'
  BY NextPass, NextTypes
<1>3. PassInv => RemovedLeavesNoGroup
  BY DEF PassInv, RemovedLeavesNoGroup
<1> QED
  BY <1>1, <1>2, <1>3, InvHolds, PTL DEF Spec
=============================================================================
