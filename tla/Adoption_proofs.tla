-------------------------- MODULE Adoption_proofs --------------------------
(***************************************************************************)
(* The adopted definitions share no asset and the registered schedules are *)
(* those of adopted graphs, for every set of definitions, any number of    *)
(* publishers and other tools and any daemons.  The reason is that a pass  *)
(* compares with exactly the graph records: no record is removed, every    *)
(* graph with a record has a pointer, and a pass adds what it adopts to    *)
(* what it compares with.                                                  *)
(***************************************************************************)
EXTENDS Adoption, WellFoundedInduction, TLAPS

\* A publisher at work has a definition.
Publishing == \A p \in Publishers : pubs[p].at # "idle" => pubs[p].def # None

\* The graphs with a record keep their pointer, and the pass has read it or
\* will.
Pointed == Named(records) \subseteq Named(pointers)
ReadsAll ==
  /\ Named(pass.current) \subseteq Named(pointers)
  /\ pass.at = "read" => /\ pass.todo \subseteq Named(pointers)
                         /\ Named(records) \subseteq
                              pass.todo \cup Named(pass.current)
  /\ pass.at = "adopt" => pass.todo \subseteq Named(pass.current)

\* The pass compares with the graph records.
ComparesWithRecords == pass.at = "adopt" => pass.graphs = records

AdoptionInv ==
  /\ TypeOK
  /\ records \in [Graphs -> Maybe]
  /\ Publishing
  /\ Pointed
  /\ ReadsAll
  /\ ComparesWithRecords
  /\ AdoptedShareNoAsset
  /\ SchedulesHaveRecords

-----------------------------------------------------------------------------
(* The operators *)

LEMMA FirstIn ==
  ASSUME NEW names \in SUBSET Graphs, names # {}
  PROVE  First(names) \in names
<1>1. names \subseteq Nat
  BY GraphsAssumption
<1>2. PICK g \in names : \A h \in names : ~(<<h, g>> \in OpToRel(<, Nat))
  BY <1>1, NatLessThanWellFounded, WFMin
<1>3. \A h \in names : g <= h
  <2> SUFFICES ASSUME NEW h \in names, h < g PROVE FALSE
    BY <1>1
  <2>1. <<h, g>> \in OpToRel(<, Nat)
    BY <1>1 DEF OpToRel
  <2> QED
    BY <1>2, <2>1
<1> QED
  BY <1>3 DEF First

LEMMA ConstantTypes ==
  /\ Nothing \in [Graphs -> Maybe]
  /\ Idle \in Local
  /\ Named(Nothing) = {}
BY DEF Nothing, Idle, Local, Maybe, Named

LEMMA ReadingType ==
  ASSUME TypeOK, NEW at \in {"read", "object"}
  PROVE  Reading(at) \in Local
BY ConstantTypes DEF Reading, Local, Named, Maybe, TypeOK

LEMMA ReadNextType ==
  ASSUME TypeOK, NEW r \in Local, r.todo # {}
  PROVE  /\ ReadNext(r) \in Local
         /\ First(r.todo) \in r.todo
         /\ ReadNext(r).at = r.at /\ ReadNext(r).def = r.def
         /\ ReadNext(r).todo = r.todo \ {First(r.todo)}
         /\ ReadNext(r).current =
              [r.current EXCEPT ![First(r.todo)] = pointers[First(r.todo)]]
         /\ ReadNext(r).graphs = r.graphs
<1>1. First(r.todo) \in r.todo
  BY FirstIn DEF Local
<1>2. pointers[First(r.todo)] \in Maybe
  BY <1>1 DEF TypeOK, Local
<1> QED
  BY <1>1, <1>2 DEF ReadNext, Local

LEMMA SchedulesType ==
  ASSUME NEW m \in [Graphs -> Maybe]
  PROVE  Schedules(m) \in [Graphs -> Maybe] /\ Named(Schedules(m)) \subseteq Named(m)
BY DEF Schedules, Maybe, Named

-----------------------------------------------------------------------------
(* The steps of the publishers *)

\* A step of p to l that leaves the store alone.
LEMMA PublisherStep ==
  ASSUME AdoptionInv, NEW p \in Publishers, NEW l \in Local,
         l.at # "idle" => l.def # None,
         pubs' = [pubs EXCEPT ![p] = l]
  PROVE  pubs' \in [Publishers -> Local] /\ Publishing'
BY DEF AdoptionInv, TypeOK, Publishing

LEMMA StoreGrows ==
  ASSUME AdoptionInv, UNCHANGED <<records, registered, build, pass>>,
         objects \subseteq objects', objects' \subseteq Definitions,
         pointers' \in [Graphs -> Maybe], Named(pointers) \subseteq Named(pointers'),
         pubs' \in [Publishers -> Local], Publishing',
         published' \in Nat, faults' \in Nat
  PROVE  AdoptionInv'
<1>1. TypeOK' /\ records' \in [Graphs -> Maybe]
  BY DEF AdoptionInv, TypeOK
<1>2. Pointed' /\ ReadsAll'
  BY DEF AdoptionInv, Pointed, ReadsAll
<1>3. ComparesWithRecords' /\ AdoptedShareNoAsset' /\ SchedulesHaveRecords'
  BY DEF AdoptionInv, ComparesWithRecords, AdoptedShareNoAsset,
         SchedulesHaveRecords
<1> QED
  BY <1>1, <1>2, <1>3 DEF AdoptionInv

LEMMA BeginPublishNext ==
  ASSUME AdoptionInv, NEW p \in Publishers, NEW d \in Definitions,
         BeginPublish(p, d)
  PROVE  AdoptionInv'
<1> DEFINE l == [Reading("read") EXCEPT !.def = d]
<1>1. l \in Local /\ l.def # None
  BY ReadingType, NoneAssumption DEF AdoptionInv, Local, Maybe
<1>2. pubs' \in [Publishers -> Local] /\ Publishing'
  <2>1. pubs' = [pubs EXCEPT ![p] = l]
    BY DEF BeginPublish
  <2> HIDE DEF l
  <2> QED
    BY <1>1, <2>1, PublisherStep
<1>3. published' \in Nat /\ faults' \in Nat
  BY DEF BeginPublish, daemonVars, AdoptionInv, TypeOK
<1> QED
  BY <1>2, <1>3, StoreGrows DEF BeginPublish, daemonVars, AdoptionInv, TypeOK

LEMMA PublishNext ==
  ASSUME AdoptionInv, NEW p \in Publishers, Publish(p)
  PROVE  AdoptionInv'
<1> DEFINE l == pubs[p]
<1>1. TypeOK /\ l \in Local /\ (l.at # "idle" => l.def \in Definitions)
  BY DEF AdoptionInv, TypeOK, Publishing, Local, Maybe
<1>2. UNCHANGED <<published, records, registered, build, pass, faults>>
  BY DEF Publish, ReadPointer, CheckAssets, PutDefinition, PutPointer, daemonVars
<1>3. published' \in Nat /\ faults' \in Nat
  BY <1>1, <1>2 DEF TypeOK
<1>4. Idle \in Local /\ Idle.at = "idle"
  BY ConstantTypes DEF Idle
<1>5. CASE ReadPointer(p)
  <2>1. /\ l.at = "read" /\ l.todo # {} /\ UNCHANGED <<objects, pointers>>
        /\ pubs' = [pubs EXCEPT ![p] = ReadNext(l)]
    BY <1>5 DEF ReadPointer
  <2>2. ReadNext(l) \in Local /\ ReadNext(l).def # None
    BY <1>1, <2>1, ReadNextType, NoneAssumption
  <2>3. pubs' \in [Publishers -> Local] /\ Publishing'
    BY <2>1, <2>2, PublisherStep
  <2> QED
    BY <1>1, <1>2, <1>3, <2>1, <2>3, StoreGrows DEF TypeOK
<1>6. CASE CheckAssets(p)
  <2>1. PICK x \in {Idle, [l EXCEPT !.at = "object"]} :
          pubs' = [pubs EXCEPT ![p] = x]
    BY <1>6 DEF CheckAssets
  <2>2. l.at = "read" /\ UNCHANGED <<objects, pointers>>
    BY <1>6 DEF CheckAssets
  <2>3. x \in Local /\ (x.at # "idle" => x.def # None)
    BY <1>1, <1>4, <2>2, NoneAssumption DEF Local
  <2>4. pubs' \in [Publishers -> Local] /\ Publishing'
    BY <2>1, <2>3, PublisherStep
  <2> QED
    BY <1>1, <1>2, <1>3, <2>2, <2>4, StoreGrows DEF TypeOK
<1>7. CASE PutDefinition(p)
  <2>1. PICK x \in {Idle, [l EXCEPT !.at = "pointer"]} :
          pubs' = [pubs EXCEPT ![p] = x]
    BY <1>7 DEF PutDefinition
  <2>2. l.at = "object" /\ UNCHANGED pointers /\ objects' = objects \cup {l.def}
    BY <1>7 DEF PutDefinition
  <2>3. x \in Local /\ (x.at # "idle" => x.def # None)
    BY <1>1, <1>4, <2>2, NoneAssumption DEF Local
  <2>4. pubs' \in [Publishers -> Local] /\ Publishing'
    BY <2>1, <2>3, PublisherStep
  <2> QED
    BY <1>1, <1>2, <1>3, <2>2, <2>4, StoreGrows DEF TypeOK
<1>8. CASE PutPointer(p)
  <2>1. /\ l.at = "pointer" /\ UNCHANGED objects
        /\ pubs' = [pubs EXCEPT ![p] = Idle]
        /\ pointers' = [pointers EXCEPT ![l.def.graph] = l.def]
    BY <1>8 DEF PutPointer
  <2>2. /\ pointers' \in [Graphs -> Maybe]
        /\ Named(pointers) \subseteq Named(pointers')
    BY <1>1, <2>1, NoneAssumption DEF TypeOK, Maybe, Named
  <2>3. pubs' \in [Publishers -> Local] /\ Publishing'
    BY <1>4, <2>1, PublisherStep
  <2> QED
    BY <1>1, <1>2, <1>3, <2>1, <2>2, <2>3, StoreGrows DEF TypeOK
<1> QED
  BY <1>5, <1>6, <1>7, <1>8 DEF Publish

LEMMA AbandonNext ==
  ASSUME AdoptionInv, NEW p \in Publishers, AbandonPublish(p)
  PROVE  AdoptionInv'
<1>1. Idle \in Local /\ Idle.at = "idle"
  BY ConstantTypes DEF Idle
<1>2. pubs' \in [Publishers -> Local] /\ Publishing'
  BY <1>1, PublisherStep DEF AbandonPublish
<1>3. published' \in Nat /\ faults' \in Nat
  BY DEF AbandonPublish, AdoptionInv, TypeOK
<1> QED
  BY <1>2, <1>3, StoreGrows DEF AbandonPublish, AdoptionInv, TypeOK

LEMMA WritePointerNext ==
  ASSUME AdoptionInv, NEW g \in Graphs, NEW d \in Definitions, WritePointer(g, d)
  PROVE  AdoptionInv'
<1>1. pointers' = [pointers EXCEPT ![g] = d] /\ objects' \in {objects, objects \cup {d}}
  BY DEF WritePointer
<1>2. pointers' \in [Graphs -> Maybe] /\ Named(pointers) \subseteq Named(pointers')
  BY <1>1, NoneAssumption DEF AdoptionInv, TypeOK, Maybe, Named
<1>3. objects \subseteq objects' /\ objects' \subseteq Definitions
  BY <1>1 DEF AdoptionInv, TypeOK
<1>4. pubs' \in [Publishers -> Local] /\ Publishing'
  BY DEF WritePointer, AdoptionInv, TypeOK, Publishing
<1>5. published' \in Nat /\ faults' \in Nat
  BY DEF WritePointer, daemonVars, AdoptionInv, TypeOK
<1> QED
  BY <1>2, <1>3, <1>4, <1>5, StoreGrows DEF WritePointer, daemonVars

-----------------------------------------------------------------------------
(* The steps of the sync pass *)

\* A step of the pass to l that leaves the graph records alone.
LEMMA PassStep ==
  ASSUME AdoptionInv, UNCHANGED <<objects, pointers, records, pubs, published>>,
         pass' \in Local, ReadsAll', ComparesWithRecords',
         registered' \in [Graphs -> Maybe], Named(registered') \subseteq Named(records),
         build' \in Builds, faults' \in Nat
  PROVE  AdoptionInv'
<1>1. TypeOK' /\ records' \in [Graphs -> Maybe]
  BY DEF AdoptionInv, TypeOK
<1>2. Publishing' /\ Pointed'
  BY DEF AdoptionInv, Publishing, Pointed
<1>3. AdoptedShareNoAsset' /\ SchedulesHaveRecords'
  BY DEF AdoptionInv, AdoptedShareNoAsset, SchedulesHaveRecords
<1> QED
  BY <1>1, <1>2, <1>3 DEF AdoptionInv

LEMMA IdleReads ==
  ASSUME pass' = Idle
  PROVE  pass' \in Local /\ ReadsAll' /\ ComparesWithRecords'
BY ConstantTypes DEF Idle, ReadsAll, ComparesWithRecords

LEMMA BeginSyncNext ==
  ASSUME AdoptionInv, BeginSync
  PROVE  AdoptionInv'
<1>1. pass' = Reading("read") /\ UNCHANGED <<storeVars, records, registered, build, faults>>
  BY DEF BeginSync
<1>2. pass' \in Local
  BY <1>1, ReadingType DEF AdoptionInv
<1>3. /\ pass'.at = "read" /\ pass'.todo = Named(pointers)
      /\ Named(pass'.current) = {}
  BY <1>1, ConstantTypes DEF Reading
<1>4. ReadsAll' /\ ComparesWithRecords'
  BY <1>1, <1>3 DEF ReadsAll, ComparesWithRecords, AdoptionInv, Pointed,
                    storeVars
<1> QED
  BY <1>1, <1>2, <1>4, PassStep
  DEF storeVars, AdoptionInv, TypeOK, SchedulesHaveRecords

LEMMA ReadCurrentNext ==
  ASSUME AdoptionInv, ReadCurrent
  PROVE  AdoptionInv'
<1> DEFINE g == First(pass.todo)
<1>1. /\ pass.at = "read" /\ pass.todo # {} /\ pass' = ReadNext(pass)
      /\ UNCHANGED <<storeVars, records, registered, build, faults>>
  BY DEF ReadCurrent
<1>2. TypeOK /\ pass \in Local
  BY DEF AdoptionInv, TypeOK
<1>3. /\ pass' \in Local /\ g \in pass.todo /\ pass'.at = "read"
      /\ pass'.todo = pass.todo \ {g}
      /\ pass'.current = [pass.current EXCEPT ![g] = pointers[g]]
  BY <1>1, <1>2, ReadNextType
<1>4. pointers[g] # None
  BY <1>1, <1>3 DEF AdoptionInv, ReadsAll, Named
<1>5. Named(pass'.current) = Named(pass.current) \cup {g}
  BY <1>2, <1>3, <1>4 DEF Named, Local
<1>6. ReadsAll' /\ ComparesWithRecords'
  BY <1>1, <1>3, <1>5 DEF ReadsAll, ComparesWithRecords, AdoptionInv, storeVars
<1> QED
  BY <1>1, <1>3, <1>6, PassStep
  DEF storeVars, AdoptionInv, TypeOK, SchedulesHaveRecords

LEMMA LoadAdoptedNext ==
  ASSUME AdoptionInv, LoadAdopted
  PROVE  AdoptionInv'
<1> DEFINE adopted == Named(records) \cap Named(pass.current)
           present == {g \in adopted : records[g] \in objects}
           graphs == [g \in Graphs |-> IF g \in present THEN records[g] ELSE None]
<1>1. /\ pass.at = "read" /\ pass.todo = {}
      /\ pass' = Idle \/ pass' = [pass EXCEPT !.at = "adopt",
                                              !.todo = Pending(pass.current),
                                              !.graphs = graphs]
      /\ UNCHANGED <<storeVars, records, registered, build, faults>>
  BY DEF LoadAdopted
<1>2. TypeOK /\ pass \in Local /\ records \in [Graphs -> Maybe]
  BY DEF AdoptionInv, TypeOK
<1>3. present = Named(records)
  BY <1>1 DEF AdoptionInv, TypeOK, ReadsAll, Named
<1>4. graphs = records
  BY <1>2, <1>3 DEF Named
<1>5. Pending(pass.current) \subseteq Named(pass.current)
  BY DEF Pending
<1>6. ASSUME pass' = [pass EXCEPT !.at = "adopt", !.todo = Pending(pass.current),
                                  !.graphs = graphs]
      PROVE  pass' \in Local /\ ReadsAll' /\ ComparesWithRecords'
  <2>1. /\ pass'.at = "adopt" /\ pass'.todo = Pending(pass.current)
        /\ pass'.current = pass.current /\ pass'.graphs = records
    BY <1>2, <1>4, <1>6 DEF Local
  <2>2. pass' \in Local
    BY <1>2, <1>4, <1>5, <1>6 DEF Local, Named
  <2>3. ReadsAll' /\ ComparesWithRecords'
    BY <1>1, <1>5, <2>1 DEF ReadsAll, ComparesWithRecords, AdoptionInv, storeVars
  <2> QED
    BY <2>2, <2>3
<1> QED
  BY <1>1, <1>6, IdleReads, PassStep
  DEF storeVars, AdoptionInv, TypeOK, SchedulesHaveRecords

\* The adopted definition conflicts with no graph record.
LEMMA AdoptedApart ==
  ASSUME AdoptionInv, NEW g \in Graphs, NEW d \in Definitions,
         pass.at = "adopt", ~Refused(g, d),
         records' = [records EXCEPT ![g] = d]
  PROVE  AdoptedShareNoAsset'
<1>1. \A h \in Named(records) \ {g} : ~Conflict(d, records[h])
  BY DEF Refused, ConflictsIn, AdoptionInv, ComparesWithRecords
<1>2. records'[g] = d /\ \A h \in Graphs \ {g} : records'[h] = records[h]
  BY DEF AdoptionInv
<1>3. \A x, y : Conflict(x, y) <=> Conflict(y, x)
  BY DEF Conflict
<1> SUFFICES ASSUME NEW x \in Named(records'), NEW y \in Named(records'), x # y
             PROVE  ~Conflict(records'[x], records'[y])
  BY DEF AdoptedShareNoAsset, Apart
<1>4. /\ x \in Graphs /\ y \in Graphs
      /\ x # g => x \in Named(records)
      /\ y # g => y \in Named(records)
  BY <1>2 DEF Named
<1>5. CASE x # g /\ y # g
  BY <1>2, <1>4, <1>5 DEF AdoptionInv, AdoptedShareNoAsset, Apart
<1>6. CASE x = g \/ y = g
  BY <1>1, <1>2, <1>3, <1>4, <1>6
<1> QED
  BY <1>5, <1>6

LEMMA AdoptNextNext ==
  ASSUME AdoptionInv, AdoptNext
  PROVE  AdoptionInv'
<1> DEFINE g == First(pass.todo)
           d == pass.current[g]
<1>1. /\ pass.at = "adopt" /\ pass.todo # {}
      /\ UNCHANGED <<storeVars, registered, build, faults>>
      /\ \/ pass' = [pass EXCEPT !.todo = @ \ {g}] /\ UNCHANGED records
         \/ /\ ~Refused(g, d)
            /\ records' = [records EXCEPT ![g] = d]
            /\ pass' = [pass EXCEPT !.todo = @ \ {g}, !.graphs[g] = d]
  BY DEF AdoptNext
<1>2. TypeOK /\ pass \in Local /\ records \in [Graphs -> Maybe]
      /\ ReadsAll /\ ComparesWithRecords
  BY DEF AdoptionInv, TypeOK
<1>3. g \in pass.todo /\ g \in Graphs
  BY <1>1, <1>2, FirstIn DEF Local
<1>4. d \in Definitions /\ pointers[g] # None
  BY <1>1, <1>2, <1>3 DEF ReadsAll, Local, Maybe, Named
<1>5. CASE pass' = [pass EXCEPT !.todo = @ \ {g}] /\ UNCHANGED records
  <2>1. pass' \in Local
    BY <1>2, <1>5 DEF Local
  <2>2. ReadsAll' /\ ComparesWithRecords'
    BY <1>1, <1>2, <1>5 DEF ReadsAll, ComparesWithRecords, storeVars, Local
  <2> QED
    BY <1>1, <1>5, <2>1, <2>2, PassStep
    DEF storeVars, AdoptionInv, TypeOK, SchedulesHaveRecords
<1>6. CASE /\ ~Refused(g, d)
           /\ records' = [records EXCEPT ![g] = d]
           /\ pass' = [pass EXCEPT !.todo = @ \ {g}, !.graphs[g] = d]
  <2> HIDE DEF g, d
  <2>1. pass' = [pass EXCEPT !.todo = @ \ {g}, !.graphs = [@ EXCEPT ![g] = d]]
    BY <1>6
  <2>2. /\ pass'.at = "adopt" /\ pass'.todo = pass.todo \ {g}
        /\ pass'.current = pass.current
        /\ pass'.graphs = [pass.graphs EXCEPT ![g] = d]
    BY <1>1, <1>2, <2>1 DEF Local
  <2>3. pass' \in Local
    BY <1>2, <1>4, <2>1 DEF Local, Maybe
  <2>4. records' \in [Graphs -> Maybe] /\ ComparesWithRecords'
    BY <1>1, <1>2, <1>3, <1>4, <1>6, <2>2 DEF ComparesWithRecords, Maybe
  <2>5. d \in objects /\ d.graph = g
    BY <1>6 DEF Refused
  <2>6. Named(records') = Named(records) \cup {g}
    BY <1>2, <1>3, <1>4, <1>6, NoneAssumption DEF Named
  <2>7. \A h \in Graphs :
          records'[h] \in {x \in objects : x.graph = h} \cup {None}
    BY <1>2, <1>3, <1>6, <2>5 DEF TypeOK
  <2>8. TypeOK'
    BY <1>1, <1>2, <2>3, <2>7 DEF TypeOK, storeVars
  <2>9. Publishing' /\ Pointed' /\ ReadsAll' /\ SchedulesHaveRecords'
    <3>1. Publishing'
      BY <1>1 DEF AdoptionInv, Publishing, storeVars
    <3>2. Pointed'
      BY <1>1, <1>3, <1>4, <2>6 DEF AdoptionInv, Pointed, storeVars, Named
    <3>3. ReadsAll'
      BY <1>1, <1>2, <2>2 DEF ReadsAll, storeVars
    <3>4. SchedulesHaveRecords'
      BY <1>1, <2>6 DEF AdoptionInv, SchedulesHaveRecords
    <3> QED
      BY <3>1, <3>2, <3>3, <3>4
  <2>10. AdoptedShareNoAsset'
    BY <1>1, <1>3, <1>4, <1>6, AdoptedApart
  <2> QED
    BY <2>4, <2>8, <2>9, <2>10 DEF AdoptionInv
<1> QED
  BY <1>1, <1>5, <1>6

\* The pass ends, at its end or at a failure, or the daemon is started again.
LEMMA EndSyncNext ==
  ASSUME AdoptionInv, Register \/ Restart \/ (FailSync /\ pass' = Idle)
  PROVE  AdoptionInv'
<1>1. pass' = Idle /\ UNCHANGED <<storeVars, records>> /\ build' \in Builds
      /\ faults' \in Nat
  BY DEF Register, Restart, FailSync, AdoptionInv, TypeOK
<1>2. CASE Register
  <2>1. registered' = Schedules(records) /\ records \in [Graphs -> Maybe]
    BY <1>2 DEF Register, AdoptionInv, ComparesWithRecords
  <2>2. registered' \in [Graphs -> Maybe] /\ Named(registered') \subseteq Named(records)
    BY <2>1, SchedulesType
  <2> QED
    BY <1>1, <2>2, IdleReads, PassStep DEF storeVars
<1>3. CASE Restart
  <2>1. registered' \in [Graphs -> Maybe] /\ Named(registered') \subseteq Named(records)
    BY <1>3, ConstantTypes DEF Restart
  <2> QED
    BY <1>1, <2>1, IdleReads, PassStep DEF storeVars
<1>4. CASE FailSync
  <2>1. registered' \in [Graphs -> Maybe] /\ Named(registered') \subseteq Named(records)
    BY <1>4 DEF FailSync, AdoptionInv, TypeOK, SchedulesHaveRecords
  <2> QED
    BY <1>1, <2>1, IdleReads, PassStep DEF storeVars
<1> QED
  BY <1>2, <1>3, <1>4

LEMMA FailSyncNext ==
  ASSUME AdoptionInv, FailSync
  PROVE  AdoptionInv'
<1>1. CASE pass' = Idle
  BY <1>1, EndSyncNext
<1>2. CASE /\ pass.at = "adopt"
           /\ pass' = [pass EXCEPT !.todo = @ \ {First(pass.todo)}]
  <2>1. pass \in Local /\ ReadsAll /\ ComparesWithRecords
        /\ UNCHANGED <<storeVars, records, registered, build>> /\ faults' \in Nat
    BY DEF FailSync, AdoptionInv, TypeOK
  <2>2. pass' \in Local /\ ReadsAll' /\ ComparesWithRecords'
    BY <1>2, <2>1 DEF ReadsAll, ComparesWithRecords, storeVars, Local
  <2> QED
    BY <2>1, <2>2, PassStep
    DEF storeVars, AdoptionInv, TypeOK, SchedulesHaveRecords
<1> QED
  BY <1>1, <1>2 DEF FailSync

-----------------------------------------------------------------------------
(* The invariant *)

LEMMA InitAdoption == Init => AdoptionInv
<1> SUFFICES ASSUME Init PROVE AdoptionInv
  OBVIOUS
<1>1. TypeOK /\ records \in [Graphs -> Maybe]
  BY ConstantTypes DEF Init, TypeOK, Nothing
<1>2. Named(records) = {} /\ Named(registered) = {} /\ Named(pointers) = {}
  BY ConstantTypes DEF Init
<1>3. Publishing /\ Pointed /\ ComparesWithRecords
  BY <1>2 DEF Init, Idle, Publishing, Pointed, ComparesWithRecords
<1>4. ReadsAll
  BY <1>2, ConstantTypes DEF Init, Idle, ReadsAll
<1>5. AdoptedShareNoAsset /\ SchedulesHaveRecords
  BY <1>2 DEF AdoptedShareNoAsset, Apart, SchedulesHaveRecords
<1> QED
  BY <1>1, <1>3, <1>4, <1>5 DEF AdoptionInv

LEMMA NextAdoption ==
  ASSUME AdoptionInv, [Next]_vars
  PROVE  AdoptionInv'
<1>1. CASE \E p \in Publishers :
             \/ \E d \in Definitions : BeginPublish(p, d)
             \/ Publish(p)
             \/ AbandonPublish(p)
  BY <1>1, BeginPublishNext, PublishNext, AbandonNext
<1>2. CASE \E g \in Graphs, d \in Definitions : WritePointer(g, d)
  BY <1>2, WritePointerNext
<1>3. CASE Sync \/ FailSync \/ Restart
  BY <1>3, BeginSyncNext, ReadCurrentNext, LoadAdoptedNext, AdoptNextNext,
     EndSyncNext, FailSyncNext DEF Sync
<1>4. CASE UNCHANGED vars
  BY <1>4 DEF vars, AdoptionInv, TypeOK, Publishing, Pointed, ReadsAll,
     ComparesWithRecords, AdoptedShareNoAsset, SchedulesHaveRecords
<1> QED
  BY <1>1, <1>2, <1>3, <1>4 DEF Next

LEMMA AdoptionHolds == Spec => []AdoptionInv
<1>1. AdoptionInv /\ [Next]_vars => AdoptionInv'
  BY NextAdoption
<1> QED
  BY InitAdoption, <1>1, PTL DEF Spec

\* Two adopted graphs never produce the same asset, for any definitions, any
\* number of racing publishers and any order of adoption: the check of the
\* daemon does not rest on that of the publishers (daemon.rs, check).
THEOREM AdoptedNeverShare == Spec => []AdoptedShareNoAsset
<1>1. AdoptionInv => AdoptedShareNoAsset
  BY DEF AdoptionInv
<1> QED
  BY AdoptionHolds, <1>1, PTL

\* A schedule that the cron scheduler has is that of a graph with a graph
\* record, also after a failed pass and a restart, so a firing finds a
\* definition to start (daemon.rs, sync; scheduler.rs, handle_trigger).
THEOREM SchedulesAreAdopted == Spec => []SchedulesHaveRecords
<1>1. AdoptionInv => SchedulesHaveRecords
  BY DEF AdoptionInv
<1> QED
  BY AdoptionHolds, <1>1, PTL

\* An adopted definition is one of its graph, with its object in the store.
THEOREM AdoptionTypes == Spec => []TypeOK
<1>1. AdoptionInv => TypeOK
  BY DEF AdoptionInv
<1> QED
  BY AdoptionHolds, <1>1, PTL
=============================================================================
