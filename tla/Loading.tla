------------------------------ MODULE Loading ------------------------------
(***************************************************************************)
(* The loading of a definition (definition.rs, load_str; graph.rs,         *)
(* Graph::build): the conversion of its sections, the checks, the search   *)
(* for a cycle step by step, and the graph, which the other modules take   *)
(* as given.  A node of the built graph then runs on some records of its   *)
(* upstreams, to see what its templates find.                              *)
(*                                                                         *)
(* Names of nodes and assets are numbers in lexical order, and BadName one *)
(* that is_name refuses or that is too long.  A section is [name,          *)
(* produces, consumes, after, rule, checked, params, each], where checked  *)
(* says that the operator accepts the parameters.  A schedule is the set   *)
(* of its firings.                                                         *)
(***************************************************************************)
EXTENDS Rendering

CONSTANTS
  Files,      \* the definitions to load
  BadName,    \* a name that is not [a-z0-9_]+
  NoAsset, NoRule, NoSchedule,
  BadSchedule,  \* a schedule that does not parse
  Epoch, MinutesPerHour, HoursPerDay, \* the times of a short calendar
  Values      \* the outputs and items that a node can have, given its name

ASSUME FilesAssumption ==
  \A f \in Files :
    /\ Len(f.nodes) \in Nat /\ DOMAIN f.nodes = 1..Len(f.nodes)
    /\ \A i \in DOMAIN f.nodes : f.nodes[i].rule \in Rules \cup {NoRule}
ASSUME ItemsAssumption == \A v \in Values : [v EXCEPT !.from = "item"] # NoItem

VARIABLES
  file,     \* the definition
  at,       \* the stage of the loading
  problems, \* the faults found
  marks,    \* the marks of the search, by position
  left,     \* the upstreams that the search has not looked at, by position
  path,     \* the path of the search
  graph,    \* the built graph
  task      \* the node that runs, with its input
vars == <<file, at, problems, marks, left, path, graph, task>>

Problem(kind, node) == <<kind, node>>
Nodes == DOMAIN file.nodes
Section(n) == file.nodes[CHOOSE i \in Nodes : file.nodes[i].name = n]

-----------------------------------------------------------------------------
(* The conversion of the sections *)

IsAsset(s) == s.produces # NoAsset

SectionProblems(s) ==
  {Problem(kind, s.name) : kind \in
     {k \in {"AssetNodeAfter", "AssetNodeTriggerRule", "TaskNodeConsumes"} :
        \/ k = "AssetNodeAfter" /\ IsAsset(s) /\ s.after # {}
        \/ k = "AssetNodeTriggerRule" /\ IsAsset(s) /\ s.rule # NoRule
        \/ k = "TaskNodeConsumes" /\ ~IsAsset(s) /\ s.consumes # {}}}

RuleOf(s) == IF IsAsset(s) \/ s.rule = NoRule THEN "all_succeeded" ELSE s.rule

-----------------------------------------------------------------------------
(* The schedule *)

\* Partition::of_time.
PartitionOf(t) ==
  CASE file.partition = "hourly" -> t \div MinutesPerHour
    [] file.partition = "daily" -> t \div (MinutesPerHour * HoursPerDay)
    [] OTHER -> 0

\* Mutant: only the next occurrence is compared.
FiresTwiceAfter(firings) ==
  /\ file.partition # "none"
  /\ \E first \in firings :
       /\ first > Epoch /\ \A t \in firings : t > Epoch => first <= t
       /\ \E t \in firings :
            /\ t > first /\ \A u \in firings : u > first => t <= u
            /\ PartitionOf(t) = PartitionOf(first)

\* The neighbours of the first occurrence after the epoch are compared with it.
FiresTwice(firings) ==
  /\ file.partition # "none"
  /\ \E first \in firings :
       /\ first > Epoch /\ \A t \in firings : t > Epoch => first <= t
       /\ \E t \in firings :
            /\ \/ t < first /\ \A u \in firings : u < first => u <= t
               \/ t > first /\ \A u \in firings : u > first => t <= u
            /\ PartitionOf(t) = PartitionOf(first)

ScheduleProblems ==
  {Problem(kind, BadName) : kind \in
     {k \in {"InvalidSchedule", "ScheduleWithinPartition", "ScheduleWithoutPartition"} :
        /\ file.schedule # NoSchedule
        /\ \/ k = "InvalidSchedule" /\ file.schedule = BadSchedule
           \/ k = "ScheduleWithinPartition" /\ file.schedule # BadSchedule
                /\ FiresTwice(file.schedule)
           \/ k = "ScheduleWithoutPartition" /\ file.partition = "none"}}

-----------------------------------------------------------------------------
(* The checks of the nodes *)

Producers(asset) ==
  {file.nodes[i].name : i \in {j \in Nodes : file.nodes[j].produces = asset}}
Assets == {file.nodes[i].produces : i \in Nodes} \ {NoAsset}
NodeNames == {file.nodes[i].name : i \in Nodes}

\* The upstreams of a section: the producers of the assets it consumes, or the
\* nodes it is after.
Upstreams(s) ==
  IF IsAsset(s) THEN UNION {Producers(asset) : asset \in s.consumes}
  ELSE s.after \cap NodeNames

NameProblems ==
  {Problem("InvalidNodeName", BadName) : i \in
     {j \in Nodes : file.nodes[j].name = BadName}} \cup
  {Problem("DuplicateNode", file.nodes[i].name) : i \in
     {j \in Nodes : \E k \in Nodes : k < j /\ file.nodes[k].name = file.nodes[j].name}}

AssetProblems ==
  {Problem("DuplicateAsset", asset) : asset \in
     {a \in Assets : \E i, j \in Nodes :
        i # j /\ file.nodes[i].produces = a /\ file.nodes[j].produces = a}} \cup
  {Problem("InvalidAssetName", file.nodes[i].name) : i \in
     {j \in Nodes : IsAsset(file.nodes[j]) /\
        BadName \in file.nodes[j].consumes \cup {file.nodes[j].produces}}}

UpstreamProblems(s) ==
  IF IsAsset(s)
  THEN {Problem("UnknownAsset", s.name) : a \in {b \in s.consumes : Producers(b) = {}}}
  ELSE {Problem("UnknownNode", s.name) : n \in s.after \ NodeNames}

\* Mutant: an item in a node without items is let through.
TextProblemsButItem(s, text) ==
  IF ~text.parses THEN {Problem("InvalidTemplate", s.name)}
  ELSE {Problem("UnknownTemplateUpstream", s.name) :
          u \in UpstreamNodes(text) \ Upstreams(s)}

\* check_templates, of one text of the parameters.
TextProblems(s, text) ==
  IF ~text.parses THEN {Problem("InvalidTemplate", s.name)}
  ELSE {Problem("UnknownTemplateUpstream", s.name) :
          u \in UpstreamNodes(text) \ Upstreams(s)} \cup
       {Problem("ItemWithoutEach", s.name) :
          r \in {t \in {text} : s.each = NoText /\ RefersToItem(t)}}

\* check_each.
EachProblems(s) ==
  IF s.each = NoText THEN {}
  ELSE IF ~s.each.parses THEN {Problem("InvalidEach", s.name)}
  ELSE {Problem("EachRefersToItem", s.name) : t \in {u \in {s.each} : RefersToItem(u)}}
       \cup {Problem("UnknownEachUpstream", s.name) :
               u \in UpstreamNodes(s.each) \ Upstreams(s)}

NodeProblems(s) ==
  UpstreamProblems(s) \cup EachProblems(s)
  \cup {Problem("InvalidParams", s.name) : c \in {s.checked} \ {TRUE}}
  \cup UNION {TextProblems(s, text) : text \in s.params}

\* The faults that load_str finds itself, which do not end the loading.
FileProblems ==
  {Problem("InvalidCatchup", BadName) : c \in {file.catchup} \ {TRUE}}
  \cup UNION {SectionProblems(file.nodes[i]) : i \in Nodes}

\* The faults that Graph::build finds before it looks for a cycle.
BuildProblems ==
  {Problem("InvalidGraphName", n) : n \in {file.name} \cap {BadName}}
  \cup ScheduleProblems \cup NameProblems \cup AssetProblems
  \cup {Problem("NoNodes", BadName) : n \in {1} \ Nodes}
  \cup UNION {NodeProblems(file.nodes[i]) : i \in Nodes}

-----------------------------------------------------------------------------
(* The loading *)

Init ==
  /\ file \in Files
  /\ at = "check"
  /\ problems = {}
  /\ marks = [i \in Nodes |-> "unvisited"]
  /\ left = [i \in Nodes |-> {}]
  /\ path = <<>>
  /\ graph = [nodes |-> {}, up |-> <<>>, rule |-> <<>>, pos |-> <<>>]
  /\ task = [node |-> BadName, input |-> <<>>]

Check ==
  /\ at = "check"
  /\ problems' = FileProblems \cup BuildProblems
  /\ at' = IF BuildProblems = {} THEN "search" ELSE "refused"
  /\ left' = [i \in Nodes |-> Upstreams(file.nodes[i])]
  /\ UNCHANGED <<file, marks, path, graph, task>>

Top == path[Len(path)]
PositionOf(n) == CHOOSE i \in Nodes : file.nodes[i].name = n
IsLeast(n, names) == n \in names /\ \A m \in names : n <= m

VisitRoot(i) ==
  /\ at = "search" /\ path = <<>>
  /\ IsLeast(i, {j \in Nodes : marks[j] = "unvisited"})
  /\ marks' = [marks EXCEPT ![i] = "active"]
  /\ path' = <<i>>
  /\ UNCHANGED <<file, at, problems, left, graph, task>>

\* Mutant: an upstream that is done is on the path still.
LookDone(n) ==
  /\ at = "search" /\ path # <<>> /\ IsLeast(n, left[Top])
  /\ left' = [left EXCEPT ![Top] = @ \ {n}]
  /\ LET j == PositionOf(n)
     IN IF marks[j] = "unvisited"
        THEN /\ marks' = [marks EXCEPT ![j] = "active"]
             /\ path' = Append(path, j)
             /\ UNCHANGED at
        ELSE /\ path' = Append(path, j)
             /\ at' = "refused"
             /\ UNCHANGED marks
  /\ UNCHANGED <<file, problems, graph, task>>

\* The search looks at the next upstream of the last node on the path.
Look(n) ==
  /\ at = "search" /\ path # <<>> /\ IsLeast(n, left[Top])
  /\ left' = [left EXCEPT ![Top] = @ \ {n}]
  /\ LET j == PositionOf(n)
     IN CASE marks[j] = "done" -> UNCHANGED <<at, marks, path>>
          [] marks[j] = "unvisited" ->
               /\ marks' = [marks EXCEPT ![j] = "active"]
               /\ path' = Append(path, j)
               /\ UNCHANGED at
          [] marks[j] = "active" ->
               /\ path' = Append(path, j)
               /\ at' = "refused"
               /\ UNCHANGED marks
  /\ UNCHANGED <<file, problems, graph, task>>

Leave ==
  /\ at = "search" /\ path # <<>> /\ left[Top] = {}
  /\ marks' = [marks EXCEPT ![Top] = "done"]
  /\ path' = SubSeq(path, 1, Len(path) - 1)
  /\ UNCHANGED <<file, at, problems, left, graph, task>>

Built ==
  [nodes |-> NodeNames,
   up |-> [n \in NodeNames |-> Upstreams(Section(n))],
   rule |-> [n \in NodeNames |-> RuleOf(Section(n))],
   pos |-> [n \in NodeNames |-> PositionOf(n)]]

Build ==
  /\ at = "search" /\ \A i \in Nodes : marks[i] = "done"
  /\ path = <<>>
  /\ IF problems = {} THEN at' = "built" /\ graph' = Built
     ELSE at' = "refused" /\ UNCHANGED graph
  /\ UNCHANGED <<file, problems, marks, left, path, task>>

-----------------------------------------------------------------------------
(* A task instance *)

\* A node is submitted on records of its upstreams that make it ready.
Submit(n) ==
  /\ at = "built"
  /\ \E status \in [graph.up[n] -> Terminal \cup {"absent"}],
        output \in [graph.up[n] -> Values] :
       LET recs == [m \in graph.nodes |->
                      [NoRecord(graph) EXCEPT !.status =
                         IF m \in graph.up[n] THEN status[m] ELSE "absent"]]
           outputs == [m \in graph.up[n] |-> [output[m] EXCEPT !.from = m]]
       IN /\ IsReady(graph, n, recs)
          /\ task' = [node |-> n,
                      input |-> TaskInput(graph, n, Section(n).params,
                                          Section(n).each, recs, outputs)]
  /\ at' = "task"
  /\ UNCHANGED <<file, problems, marks, left, path, graph>>

\* A mapped node submits a member for an item.
RunMember ==
  /\ at = "task" /\ HasItems(task.input)
  /\ \E item \in Values :
       task' = [task EXCEPT !.input = Member(@, [item EXCEPT !.from = "item"])]
  /\ at' = "member"
  /\ UNCHANGED <<file, problems, marks, left, path, graph>>

Next ==
  \/ Check
  \/ \E i \in Nodes : VisitRoot(i)
  \/ path # <<>> /\ \E n \in left[Top] : Look(n)
  \/ Leave
  \/ Build
  \/ \E n \in graph.nodes : Submit(n)
  \/ RunMember

Spec == Init /\ [][Next]_vars

-----------------------------------------------------------------------------
(* Properties *)

\* No two firings of the schedule are of one partition.
FiringsApart ==
  file.schedule # NoSchedule =>
    \A t, u \in file.schedule : PartitionOf(t) = PartitionOf(u) => t = u

\* The stages of a definition that is a graph.
Loaded == {"built", "task", "member"}

\* A built graph has unique names and no cycle, for every node the upstreams that
\* its section asks for and no others, each of them there, and one producer of
\* an asset.
GraphIsSound ==
  at \in Loaded =>
    /\ IsGraph(graph)
    /\ Cardinality(graph.nodes) = Len(file.nodes)
    /\ \A j \in Nodes :
         LET s == file.nodes[j]
         IN /\ \A asset \in s.consumes : Producers(asset) # {}
            /\ graph.up[s.name] =
                 s.after \cup UNION {Producers(asset) : asset \in s.consumes}
    /\ \A i, j \in Nodes :
         IsAsset(file.nodes[i]) /\ i # j =>
           file.nodes[i].produces # file.nodes[j].produces

\* What the scheduler takes for granted of a graph: it is sound, and every
\* firing has a partition of its own, or else it is lost in the run of an
\* earlier one (Graph::build, Scheduler::handle_trigger).
BuiltIsSound == GraphIsSound /\ (at \in Loaded => FiringsApart)

\* The active nodes of a search are those on its path, and a search that ends
\* early has found a real cycle: each node on it is an upstream of the one
\* before it, and the last one closes it (find_cycle).
CyclesAreReal ==
  /\ at = "search" => \A i \in Nodes :
       (marks[i] = "active") <=> \E k \in DOMAIN path : path[k] = i
  /\ at = "refused" /\ path # <<>> =>
       \E first \in 1..Len(path) - 1 :
         /\ path[first] = Top
         /\ \A k \in first..Len(path) - 1 :
              file.nodes[path[k + 1]].name \in Upstreams(file.nodes[path[k]])

\* What a checked template can miss at run time: a path, a variable and, under
\* a rule that does not ask for every success, an output.  An output of an
\* all-succeeded node and the item of a member are always there, and `each`
\* never needs an item (check_templates, check_each, TaskInput).
Missable == {"MissingPath", "MissingItemPath", "MissingEnv"}
OnlyPathsAreMissing ==
  at \in {"task", "member"} =>
    (IF at = "task" /\ task.input.each # NoText
     THEN Errors(task.input.each, task.input) ELSE ParamErrors(task.input))
      \subseteq Missable \cup
        (IF graph.rule[task.node] = "all_succeeded" THEN {} ELSE {"MissingUpstream"})

\* A member, which has only the outputs that its parameters refer to, renders
\* them as it would with every output of the node (TaskInput::member).
MembersRenderAlike ==
  [][at = "task" /\ at' = "member" =>
       LET whole == [task.input EXCEPT !.item = task'.input.item]
       IN /\ ParamErrors(task'.input) = ParamErrors(whole)
          /\ ParamErrors(whole) = {} =>
               RenderedParams(task'.input) = RenderedParams(whole)]_vars
=============================================================================
