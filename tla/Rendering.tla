----------------------------- MODULE Rendering -----------------------------
(***************************************************************************)
(* The templates of a definition (template.rs) and the input of a task     *)
(* instance in which they are rendered (input.rs).                         *)
(*                                                                         *)
(* A text is [parses, refs, around]: whether it is a template, its         *)
(* references, and whether the text around them is empty, a JSON array or  *)
(* another text.  A reference is [of, node, path]; the path Whole is the   *)
(* value itself.  A JSON value is [from, paths, arrays]: the node whose    *)
(* output it is, its paths, and those at which it renders to an array.     *)
(* A rendered text is the function of its references to their values.      *)
(***************************************************************************)
EXTENDS Readiness, Sequences

CONSTANTS
  Whole,          \* the empty path
  NoItem, NoText, \* an input without an item, a node without `each`
  EnvNames        \* the environment variables of the daemon

Ref(of, node, path) == [of |-> of, node |-> node, path |-> path]
Text(refs, around) == [parses |-> TRUE, refs |-> refs, around |-> around]

\* Template::upstream_nodes and Template::refers_to_item.
UpstreamNodes(text) == {ref.node : ref \in {r \in text.refs : r.of = "upstream"}}
RefersToItem(text) == \E ref \in text.refs : ref.of = "item"

\* lookup.
Has(value, path) == path = Whole \/ path \in value.paths
At(value, path) == <<value.from, path>>

\* The error of a reference in a context of the outputs and the item, or "none".
ErrorOf(ref, ctx) ==
  CASE ref.of = "upstream" ->
         IF ref.node \notin DOMAIN ctx.inputs THEN "MissingUpstream"
         ELSE IF Has(ctx.inputs[ref.node], ref.path) THEN "none"
         ELSE "MissingPath"
    [] ref.of = "item" ->
         IF ctx.item = NoItem THEN "MissingItem"
         ELSE IF Has(ctx.item, ref.path) THEN "none" ELSE "MissingItemPath"
    [] ref.of = "env" -> IF ref.path \in EnvNames THEN "none" ELSE "MissingEnv"
    [] OTHER -> "none"

\* A text that is not a template is copied; rendering ends at an error.
Errors(text, ctx) ==
  IF text.parses THEN {ErrorOf(ref, ctx) : ref \in text.refs} \ {"none"} ELSE {}

Rendered(text, ctx) ==
  [ref \in IF text.parses THEN text.refs ELSE {} |->
     CASE ref.of = "upstream" -> At(ctx.inputs[ref.node], ref.path)
       [] ref.of = "item" -> At(ctx.item, ref.path)
       [] OTHER -> <<ref.of, ref.path>>]

-----------------------------------------------------------------------------
(* The input of a task instance *)

\* TaskInput::new of a node with params and each, on its upstreams' records.
TaskInput(g, n, params, each, recs, outputs) ==
  [params |-> params, each |-> each, item |-> NoItem,
   inputs |-> [u \in {v \in g.up[n] : recs[v].status = "succeeded"} |-> outputs[u]],
   upstreams |-> [u \in {v \in g.up[n] : recs[v].status # "absent"} |->
                    recs[u].status]]

\* rendered_params: the errors of the parameters, and their rendered texts.
ParamErrors(input) == UNION {Errors(text, input) : text \in input.params}
RenderedParams(input) == [text \in input.params |-> Rendered(text, input)]

\* Mutant: the references of a text that has an item too are left out.
ReferredUpstreamsAlone(params) ==
  UNION {UpstreamNodes(text) :
           text \in {t \in params : t.parses /\ ~RefersToItem(t)}}

ReferredUpstreams(params) ==
  UNION {UpstreamNodes(text) : text \in {t \in params : t.parses}}

\* TaskInput::member: of the outputs, those that the parameters refer to.
Member(input, item) ==
  [input EXCEPT
     !.each = NoText,
     !.item = item,
     !.inputs = [u \in DOMAIN input.inputs \cap ReferredUpstreams(input.params) |->
                   input.inputs[u]]]

\* rendered_items: whether `each` may render to a JSON array.  One reference with
\* nothing around it renders to its value; of every other text, one with several
\* references or an environment variable too, the result may be an array.
HasItems(input) ==
  /\ input.each # NoText
  /\ Errors(input.each, input) = {}
  /\ \A ref \in input.each.refs :
       ref.of = "upstream" /\ input.each = Text({ref}, "nothing") =>
         ref.path \in input.inputs[ref.node].arrays
=============================================================================
