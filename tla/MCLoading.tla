----------------------------- MODULE MCLoading -----------------------------
(***************************************************************************)
(* The definitions and the values of the model-checking run.               *)
(***************************************************************************)
EXTENDS Loading

Asset(name, produces, consumes) ==
  [name |-> name, produces |-> produces, consumes |-> consumes, after |-> {},
   rule |-> NoRule, checked |-> TRUE, params |-> {}, each |-> NoText]

Task(name, after) == [Asset(name, NoAsset, {}) EXCEPT !.after = after]

File(nodes) ==
  [name |-> 1, nodes |-> nodes, catchup |-> TRUE,
   schedule |-> NoSchedule, partition |-> "none"]

\* Every set of edges between three nodes, which are not in lexical order.
Edges ==
  {File(<<Task(2, a), Task(1, b), Task(3, c)>>) :
     a \in SUBSET (1..3), b \in SUBSET (1..3), c \in SUBSET (1..3)}

\* Two nodes with the faults of names, assets, fields and parameters.
Faults ==
  LET First == {Asset(1, 1, {}), Task(1, {2}), Task(BadName, {})}
      Second == [name : {1, 2}, produces : {NoAsset, BadName, 1, 2},
                 consumes : {{}, {1}, {2}, {3}}, after : {{}, {1}, {3}},
                 rule : {NoRule, "one_failed"}, checked : BOOLEAN,
                 params : {{}}, each : {NoText}]
  IN {[File(<<a, b>>) EXCEPT !.catchup = ok] :
        a \in First, b \in Second, ok \in BOOLEAN}
       \cup {File(<<>>), [File(<<Task(1, {})>>) EXCEPT !.name = BadName]}

\* Cron expressions: hours and minutes on some days, the last one among them,
\* with the epoch at the start of the second day.
Schedules ==
  LET Days == {D \in SUBSET (0..2) : 2 \in D}
      Firings(D, H, M) ==
        {(d * HoursPerDay + h) * MinutesPerHour + m : d \in D, h \in H, m \in M}
  IN {BadSchedule} \cup
     {Firings(D, H, M) : D \in Days, H \in SUBSET (0..HoursPerDay - 1) \ {{}},
                         M \in SUBSET (0..MinutesPerHour - 1) \ {{}}}

Scheduled ==
  {[File(<<Task(1, {})>>) EXCEPT !.schedule = s, !.partition = p] :
     s \in Schedules, p \in {"none", "hourly", "daily"}}

\* A node after one or both of two nodes, with templates.
Unparsed == [parses |-> FALSE, refs |-> {}, around |-> "text"]
Whole1 == Ref("upstream", 1, Whole)
Key2 == Ref("upstream", 2, "key")
Item == Ref("item", BadName, "key")
Texts ==
  {Unparsed, Text({Whole1}, "nothing"), Text({Key2}, "text"), Text({Whole1, Item}, "text"),
   Text({Key2, Item, Ref("env", BadName, "HOME")}, "text")}
Eaches ==
  {NoText, Unparsed, Text({Whole1}, "nothing"), Text({Key2}, "nothing"),
   Text({Key2}, "array"), Text({Whole1, Key2}, "nothing"), Text({Item}, "array")}

Templates ==
  {File(<<Task(1, {}), Task(2, {}),
          [Task(3, after) EXCEPT !.rule = rule, !.params = params, !.each = each]>>) :
     after \in {{1}, {1, 2}}, rule \in Rules \cup {NoRule},
     params \in SUBSET Texts, each \in Eaches}

AllFiles == Edges \cup Faults \cup Scheduled \cup Templates

\* Outputs and items with and without a key, and with and without an array.
SomeValues ==
  {[from |-> BadName, paths |-> {}, arrays |-> {Whole}],
   [from |-> BadName, paths |-> {"key"}, arrays |-> {}],
   [from |-> BadName, paths |-> {"key"}, arrays |-> {"key"}]}
=============================================================================
