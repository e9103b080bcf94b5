----------------------------- MODULE MCAdoption -----------------------------
(***************************************************************************)
(* The values of the constants for the model-checking runs.                *)
(***************************************************************************)
EXTENDS Adoption

Def(g, assets, schedule) ==
  [graph |-> g, assets |-> assets, schedule |-> schedule]

TwoGraphs == {1, 2}

\* The asset x moves between the graphs.
OneAsset == {Def(1, {"x"}, "bounded"), Def(1, {}, "none"),
             Def(2, {"x"}, "unbounded"), Def(2, {}, "bounded")}

\* The graphs exchange the assets x and y.
TwoAssets == {Def(1, {"x"}, "bounded"), Def(1, {"y"}, "bounded"), Def(1, {}, "bounded"),
              Def(2, {"x"}, "bounded"), Def(2, {"y"}, "bounded")}

OnePublisher == {"p"}
TwoPublishers == {"p", "q"}

RunsAll == {[loads |-> Definitions, runs |-> Definitions]}

\* Another daemon does not have the pool of some definitions.
Smaller == RunsAll \cup
  {[loads |-> Definitions, runs |-> {d \in Definitions : d.assets # {}}]}

\* A later daemon does not load a definition that an earlier one adopted.
Upgraded == RunsAll \cup
  {[loads |-> {d \in Definitions : d.schedule = "bounded"}, runs |-> Definitions]}
=============================================================================
