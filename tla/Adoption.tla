------------------------------ MODULE Adoption ------------------------------
(***************************************************************************)
(* The definitions of a store and their adoption.  A publisher             *)
(* (definition_store.rs, publish) reads the pointers of the graphs one by  *)
(* one, checks the assets of its definition against them and writes the    *)
(* definition object and its pointer, with no compare.  The daemon         *)
(* (daemon.rs, sync) reads the pointers in passes and writes the graph     *)
(* record of every graph whose pointer names another definition, when the  *)
(* definition loads, its pools run and its assets are no other graph's.    *)
(* Each pass gives the schedules of the adopted graphs to the cron         *)
(* scheduler.                                                              *)
(*                                                                         *)
(* A definition stands for its hash.  Graphs are numbered in name order.   *)
(* No pointer is deleted.  Nothing in swale does that, and the pass reads  *)
(* the graphs that have one: it would not compare with the record of a     *)
(* graph whose pointer another tool has deleted.                           *)
(***************************************************************************)
EXTENDS Naturals, FiniteSets

CONSTANTS
  Graphs,       \* the graph names, in name order
  Definitions,  \* the definitions: their graph, assets and schedule
  None,         \* no definition
  Publishers,   \* the processes that publish
  Builds,       \* the daemons: the definitions that load and whose pools run
  OtherTools,   \* whether other tools write pointers without a check
  MaxPublishes, \* bound of the publishes and of the writes of other tools
  MaxFaults     \* bound of the failed calls and the restarts

ASSUME GraphsAssumption == Graphs \subseteq Nat
ASSUME DefinitionsAssumption ==
  \A d \in Definitions : d.graph \in Graphs /\ IsFiniteSet(d.assets)
ASSUME NoneAssumption == None \notin Definitions
ASSUME BuildsAssumption ==
  \A b \in Builds : b.loads \subseteq Definitions /\ b.runs \subseteq Definitions
ASSUME OtherToolsAssumption == OtherTools \in BOOLEAN

VARIABLES
  objects,     \* the definition objects
  pointers,    \* the pointer object of every graph
  records,     \* the graph record of every graph: the adopted definition
  registered,  \* the definition whose schedule the cron scheduler has
  build,       \* the daemon that runs
  pass,        \* the sync pass
  pubs,        \* the publishers
  published,   \* the count of publishes so far
  faults       \* the count of faults so far
vars == <<objects, pointers, records, registered, build, pass, pubs,
          published, faults>>

-----------------------------------------------------------------------------
(* Definitions *)

Maybe == Definitions \cup {None}
Nothing == [g \in Graphs |-> None]
Named(m) == {g \in Graphs : m[g] # None}
First(names) == CHOOSE g \in names : \A h \in names : g <= h

Conflict(d, e) == d.assets \cap e.assets # {}

\* The definition conflicts with one that m has for another graph than `own`.
ConflictsIn(d, own, m) ==
  \E g \in Named(m) \ {own} : Conflict(d, m[g])

\* A reader that lists the pointers and reads them one at a time.
Reading(at) == [at |-> at, def |-> None, todo |-> Named(pointers),
                current |-> Nothing, graphs |-> Nothing]
Idle == [at |-> "idle", def |-> None, todo |-> {},
         current |-> Nothing, graphs |-> Nothing]
ReadNext(r) ==
  LET g == First(r.todo)
  IN [r EXCEPT !.todo = @ \ {g}, !.current[g] = pointers[g]]

Init ==
  /\ objects = {}
  /\ pointers = Nothing
  /\ records = Nothing
  /\ registered = Nothing
  /\ build \in Builds
  /\ pass = Idle
  /\ pubs = [p \in Publishers |-> Idle]
  /\ published = 0
  /\ faults = 0

-----------------------------------------------------------------------------
(* Publishing *)

daemonVars == <<records, registered, build, pass, faults>>

BeginPublish(p, d) ==
  /\ pubs[p].at = "idle"
  /\ published < MaxPublishes
  /\ published' = published + 1
  /\ pubs' = [pubs EXCEPT ![p] = [Reading("read") EXCEPT !.def = d]]
  /\ UNCHANGED <<objects, pointers, daemonVars>>

ReadPointer(p) ==
  /\ pubs[p].at = "read" /\ pubs[p].todo # {}
  /\ pubs' = [pubs EXCEPT ![p] = ReadNext(@)]
  /\ UNCHANGED <<objects, pointers, published, daemonVars>>

\* The definitions that the publisher has read, of the graphs with an object.
Others(p) == [g \in Graphs |->
  IF pubs[p].current[g] \in objects THEN pubs[p].current[g] ELSE None]

CheckAssets(p) ==
  /\ pubs[p].at = "read" /\ pubs[p].todo = {}
  /\ pubs' = [pubs EXCEPT ![p] =
       IF ConflictsIn(@.def, @.def.graph, Others(p)) THEN Idle
       ELSE [@ EXCEPT !.at = "object"]]
  /\ UNCHANGED <<objects, pointers, published, daemonVars>>

\* The pointer is written when it was another one at its read.
PutDefinition(p) ==
  /\ pubs[p].at = "object"
  /\ objects' = objects \cup {pubs[p].def}
  /\ pubs' = [pubs EXCEPT ![p] =
       IF @.current[@.def.graph] = @.def THEN Idle
       ELSE [@ EXCEPT !.at = "pointer"]]
  /\ UNCHANGED <<pointers, published, daemonVars>>

PutPointer(p) ==
  /\ pubs[p].at = "pointer"
  /\ pointers' = [pointers EXCEPT ![pubs[p].def.graph] = pubs[p].def]
  /\ pubs' = [pubs EXCEPT ![p] = Idle]
  /\ UNCHANGED <<objects, published, daemonVars>>

\* A call of the object store fails, or the process ends.
AbandonPublish(p) ==
  /\ pubs[p].at # "idle"
  /\ faults < MaxFaults
  /\ faults' = faults + 1
  /\ pubs' = [pubs EXCEPT ![p] = Idle]
  /\ UNCHANGED <<objects, pointers, records, registered, build, pass, published>>

\* Another tool writes a pointer, with or without the definition's object.
WritePointer(g, d) ==
  /\ OtherTools
  /\ published < MaxPublishes
  /\ published' = published + 1
  /\ pointers' = [pointers EXCEPT ![g] = d]
  /\ objects' \in {objects, objects \cup {d}}
  /\ UNCHANGED <<pubs, daemonVars>>

-----------------------------------------------------------------------------
(* The sync pass *)

storeVars == <<objects, pointers, pubs, published>>

BeginSync ==
  /\ pass.at = "idle"
  /\ pass' = Reading("read")
  /\ UNCHANGED <<storeVars, records, registered, build, faults>>

ReadCurrent ==
  /\ pass.at = "read" /\ pass.todo # {}
  /\ pass' = ReadNext(pass)
  /\ UNCHANGED <<storeVars, records, registered, build, faults>>

\* Mutant: only the graphs that are new are pending.
PendingNew(current) == {g \in Named(current) : records[g] = None}

Pending(current) == {g \in Named(current) : records[g] # current[g]}

\* The adopted graphs are loaded.  The pass fails when one does not load.
LoadAdopted ==
  /\ pass.at = "read" /\ pass.todo = {}
  /\ LET adopted == Named(records) \cap Named(pass.current)
         present == {g \in adopted : records[g] \in objects}
     IN pass' =
          IF \E g \in present : records[g] \notin build.loads THEN Idle
          ELSE [pass EXCEPT
                  !.at = "adopt",
                  !.todo = Pending(pass.current),
                  !.graphs = [g \in Graphs |->
                                IF g \in present THEN records[g] ELSE None]]
  /\ UNCHANGED <<storeVars, records, registered, build, faults>>

\* Mutant: the pointer may name a definition of another graph.
RefusedElse(g, d) ==
  d \notin objects \cap build.loads \cap build.runs \/ ConflictsIn(d, g, pass.graphs)

\* The reasons to refuse the definition d of the pointer of g.
Refused(g, d) ==
  \/ d \notin objects \cap build.loads
  \/ d.graph # g
  \/ d \notin build.runs
  \/ ConflictsIn(d, g, pass.graphs)

\* Mutant: an adopted definition is not compared with those adopted after it.
AdoptNextAlone ==
  /\ pass.at = "adopt" /\ pass.todo # {}
  /\ LET g == First(pass.todo)
     IN /\ records' = IF Refused(g, pass.current[g]) THEN records
                      ELSE [records EXCEPT ![g] = pass.current[g]]
        /\ pass' = [pass EXCEPT !.todo = @ \ {g}]
  /\ UNCHANGED <<storeVars, registered, build, faults>>

\* The next pending definition is refused, or its graph record is written.
AdoptNext ==
  /\ pass.at = "adopt" /\ pass.todo # {}
  /\ LET g == First(pass.todo)
         d == pass.current[g]
     IN IF Refused(g, d)
        THEN pass' = [pass EXCEPT !.todo = @ \ {g}] /\ UNCHANGED records
        ELSE /\ records' = [records EXCEPT ![g] = d]
             /\ pass' = [pass EXCEPT !.todo = @ \ {g}, !.graphs[g] = d]
  /\ UNCHANGED <<storeVars, registered, build, faults>>

\* The cron scheduler takes the schedules of m as a whole, and not one with an
\* unbounded catch-up window, which is left out.
Schedules(m) == [g \in Graphs |->
  IF g \in Named(m) /\ m[g].schedule = "bounded" THEN m[g] ELSE None]

\* Mutant: the published definitions are scheduled.
RegisterCurrent ==
  /\ pass.at = "adopt" /\ pass.todo = {}
  /\ registered' = Schedules(pass.current)
  /\ pass' = Idle
  /\ UNCHANGED <<storeVars, records, build, faults>>

\* The pass ends with the schedules of the adopted graphs.
Register ==
  /\ pass.at = "adopt" /\ pass.todo = {}
  /\ registered' = Schedules(pass.graphs)
  /\ pass' = Idle
  /\ UNCHANGED <<storeVars, records, build, faults>>

\* A call of the pass fails: the next pass starts from the pointers.  A pending
\* definition whose read fails is refused, and the pass goes on.
FailSync ==
  /\ pass.at # "idle"
  /\ faults < MaxFaults
  /\ faults' = faults + 1
  /\ \/ pass' = Idle
     \/ /\ pass.at = "adopt" /\ pass.todo # {}
        /\ pass' = [pass EXCEPT !.todo = @ \ {First(pass.todo)}]
  /\ UNCHANGED <<storeVars, records, registered, build>>

\* The daemon is started again, with other operators or pools.
Restart ==
  /\ faults < MaxFaults
  /\ faults' = faults + 1
  /\ build' \in Builds
  /\ pass' = Idle
  /\ registered' = Nothing
  /\ UNCHANGED <<storeVars, records>>

-----------------------------------------------------------------------------
Publish(p) == ReadPointer(p) \/ CheckAssets(p) \/ PutDefinition(p) \/ PutPointer(p)
Sync == BeginSync \/ ReadCurrent \/ LoadAdopted \/ AdoptNext \/ Register

Next ==
  \/ \E p \in Publishers :
       \/ \E d \in Definitions : BeginPublish(p, d)
       \/ Publish(p)
       \/ AbandonPublish(p)
  \/ \E g \in Graphs, d \in Definitions : WritePointer(g, d)
  \/ Sync
  \/ FailSync
  \/ Restart

Spec == Init /\ [][Next]_vars

\* The sync passes go on for ever; a publisher may stop at any time.
FairSpec == Spec /\ WF_vars(Sync)

-----------------------------------------------------------------------------
(* Properties *)

Local == [at : {"idle", "read", "object", "pointer", "adopt"},
          def : Maybe, todo : SUBSET Graphs, current : [Graphs -> Maybe],
          graphs : [Graphs -> Maybe]]
TypeOK ==
  /\ objects \subseteq Definitions
  /\ pointers \in [Graphs -> Maybe]
  /\ \A g \in Graphs : records[g] \in {d \in objects : d.graph = g} \cup {None}
  /\ registered \in [Graphs -> Maybe]
  /\ build \in Builds
  /\ pass \in Local
  /\ pubs \in [Publishers -> Local]
  /\ published \in Nat /\ faults \in Nat

\* No two definitions in m are of one asset.
Apart(m) ==
  \A g, h \in Named(m) : g # h => ~Conflict(m[g], m[h])

\* Two adopted graphs never produce the same asset, whatever the publishers
\* and other tools write during a pass (daemon.rs, check).
AdoptedShareNoAsset == Apart(records)

\* A schedule is that of a graph with a graph record, so that its firings find
\* a definition to start (daemon.rs, sync; scheduler.rs, handle_trigger).
SchedulesHaveRecords == Named(registered) \subseteq Named(records)

\* The current definition of every graph runs on every daemon and conflicts
\* with no other.
Sound ==
  /\ Apart(pointers)
  /\ \A g \in Named(pointers) :
       /\ pointers[g].graph = g
       /\ pointers[g] \in objects
       /\ \A b \in Builds : pointers[g] \in b.loads \cap b.runs

\* The published definitions are adopted, with their schedules, in the order
\* that the assets of the adopted ones allow (daemon.rs, sync).
PublishedIsAdopted ==
  <>[]Sound => <>[](records = pointers /\ registered = Schedules(pointers))

-----------------------------------------------------------------------------
(* A claim of the comments that the code does not keep (README, Findings) *)

\* DefinitionStore::publish "checks that the current definition of another
\* graph does not produce one of its assets".
PublishedShareNoAsset == Apart(pointers)
=============================================================================
